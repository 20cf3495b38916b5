------------------------------- MODULE MCRetry -------------------------------
(* Retry with retries that go back directly, after a delay, or nowhere, and *)
(* a negative, a zero and two positive limits; the last one has a delay     *)
(* that no timer can hold.                                                  *)
EXTENDS Retry

Opt(max, initial, factor, exchange, key) ==
  [maxRetries |-> max, initialDelayMs |-> initial, backoffFactor |-> factor,
   retryExchange |-> exchange, retryRoutingKey |-> key]

\* The options left out, a delaying exchange, one without bindings, and a key without one.
Ways ==
  { << None, None >>, << "delayed_exchange", None >>, << "unbound", None >>,
    << "delayed_exchange", "other.key" >> }

AllOptions ==
  { Opt(max, 1, 2, w[1], w[2]) : max \in {-1, 0, 1}, w \in Ways }
    \cup { Opt(4, 1, 2, None, None) }

Origin == << "user_events", "user.created" >>

Back == { << x, "user.created" >> : x \in {"user_events", "delayed_exchange"} }
=============================================================================
