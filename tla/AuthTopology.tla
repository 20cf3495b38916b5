---------------------------- MODULE AuthTopology ----------------------------
(***************************************************************************)
(* The RabbitMQ topology auth-service declares at start-up: its exchanges, *)
(* its queues and their bindings.  The names are the strings of            *)
(* RABBITMQ.EXCHANGES, QUEUES and ROUTING_KEYS in libs/shared/src/constants.*)
(***************************************************************************)

\* Exchange name -> exchange type, as setupTopology asserts them.
ExchangeType == [ user_events      |-> "topic",
                  delayed_exchange |-> "x-delayed-message",
                  retry_exchange   |-> "topic" ]

Queues == { "user_created_queue", "user_updated_queue", "background_jobs_queue",
            "scheduled_tasks_queue", "user_retry_queue" }

\* <<exchange, routing key, queue>>.  No binding has a wildcard, so a topic
\* exchange routes by equality of the keys.
Bindings ==
  { << "user_events",    "user.created",   "user_created_queue"    >>,
    << "user_events",    "user.updated",   "user_updated_queue"    >>,
    << "user_events",    "job.background", "background_jobs_queue" >>,
    << "user_events",    "job.scheduled",  "scheduled_tasks_queue" >>,
    << "retry_exchange", "retry.user",     "user_retry_queue"      >> }

\* The queues an exchange routes a key to.  A message that is routed to no queue
\* is dropped by the broker: nothing in the code sets the `mandatory' flag.
RoutedTo(exchange, key) ==
  { q \in Queues : << exchange, key, q >> \in Bindings }
=============================================================================
