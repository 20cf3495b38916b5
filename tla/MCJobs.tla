------------------------------- MODULE MCJobs -------------------------------
(* Jobs over the topology of auth-service, and over that topology with the *)
(* bindings that the delayed exchange and a delayed retry exchange need to *)
(* lead back to the job queue.                                             *)
EXTENDS Jobs, TLC

Auth == INSTANCE AuthTopology

AuthExchangeType == Auth!ExchangeType
AuthQueues == Auth!Queues
AuthBindings == Auth!Bindings

WiredExchangeType == [Auth!ExchangeType EXCEPT !["retry_exchange"] = "x-delayed-message"]
WiredBindings ==
  Auth!Bindings \cup
    { << "delayed_exchange", "job.background", "background_jobs_queue" >>,
      << "retry_exchange",   "job.background", "background_jobs_queue" >> }

\* The keys of RABBITMQ.ROUTING_KEYS that the calls here use.
AuthKeys == {"job.background", "job.scheduled", "user.created"}

\* What callers pass: one key that leads to the job queue, one that leads nowhere
\* and that publish does not know.
CallerKeys == {"job.background", "job.unknown"}
CallerTargets == {"background_jobs_queue", "user_created_queue"}
CallerTypes == {"user_cleanup", "user.cleanup"}
CallerUserTypes == {"user.cleanup"}

\* What AuthModule provides; it lists neither UserCleanupWorker nor UserCleanupCron.
Provided == {"userJobs"}
All == DOMAIN ConsumerSpec

Symmetry == Permutations(JobIds)
=============================================================================
