-------------------------------- MODULE Jobs --------------------------------
(***************************************************************************)
(* Publishing and dispatch: the calls of BaseProducer and RabbitMQService  *)
(* that publish jobs, tasks and delayed events, the two ways these take to *)
(* the broker (the Nest client and the direct channel), and the consumers  *)
(* that compete for what arrives: the callbacks of UserConsumer, of        *)
(* UserCleanupWorker and of the subclass of BaseConsumer an application    *)
(* may add.  The process starts, crashes and loses its channel around      *)
(* them.  Delivery has the details of one callback; here a retry and the   *)
(* acknowledgement that follows it are one step.                           *)
(***************************************************************************)
EXTENDS Naturals

CONSTANTS
  JobIds,       \* the messages that callers publish
  Consumers,    \* the consumers of ConsumerSpec that the application provides
  KindOf,       \* exchange name -> exchange type, as declared
  QueueNames,   \* the declared queues, bound or not
  Bound,        \* the declared << exchange, routing key, queue >>
  StandardKeys, \* the routing keys of RABBITMQ.ROUTING_KEYS
  Keys,         \* the routing keys callers pass
  Targets,      \* the queues that callers of sendToQueue name
  Types,        \* the job types callers pass
  UserTypes,    \* those of them that begin with "user."
  NoType,       \* a body without a field `type'
  NoCall, NoOne,
  MaxCrashes,   \* bound on the crashes the environment causes
  MaxCloses     \* bound on the connections the broker closes

\* What a consumer is registered on and does: the queue, the job types it acts on (it
\* resolves at once on any other), whether its work can succeed, and whether it keeps
\* its errors to itself.
UserJobs ==
  [ queue |-> "background_jobs_queue", takes |-> UserTypes,
    succeeds |-> TRUE, swallows |-> TRUE ]

\* Its DELETE compares last_login_at and status, which the entity User, and so the table
\* that TypeORM keeps synchronized with it, does not have.
UserCleanupWorker ==
  [ queue |-> "background_jobs_queue", takes |-> {"user_cleanup"},
    succeeds |-> FALSE, swallows |-> FALSE ]

\* It acts on every message of its queue.
BaseConsumer ==
  [ queue |-> "background_jobs_queue", takes |-> Types \cup {NoType},
    succeeds |-> TRUE, swallows |-> FALSE ]

ConsumerSpec ==
  [ userJobs |-> UserJobs, cleanupWorker |-> UserCleanupWorker, subclass |-> BaseConsumer ]

Exchanges == DOMAIN KindOf

\* The default exchange, which exists without being declared.
Default == ""

\* The queues an exchange routes a key to.
Routed(x, k) ==
  IF x = Default THEN QueueNames \cap {k}
  ELSE { b[3] : b \in { d \in Bound : d[1] = x /\ d[2] = k } }

ASSUME JobsAssumption ==
  /\ Consumers \subseteq DOMAIN ConsumerSpec
  /\ {"user_events", "delayed_exchange", "retry_exchange"} \subseteq Exchanges
  /\ {"job.background", "job.scheduled"} \subseteq StandardKeys
  /\ Default \notin Exchanges
  /\ \A b \in Bound : b[1] \in Exchanges /\ b[3] \in QueueNames
  /\ "user_cleanup" \in Types \ UserTypes /\ UserTypes \subseteq Types \* the cron job passes it
  /\ NoType \notin Types /\ Targets \subseteq QueueNames
  /\ MaxCrashes \in Nat /\ MaxCloses \in Nat

\* The declared topology never routes a message to two queues.
ASSUME SingleRoute ==
  \A b, c \in Bound : b[1] = c[1] /\ b[2] = c[2] => b[3] = c[3]

VARIABLES
  call,       \* call[j]: how j was published
  at,         \* at[j]: where j is
  frame,      \* frame[j]: where the callback that runs for j has got to
  by,         \* by[j]: the consumer that callback belongs to
  up,         \* the process runs
  channel,    \* this.channel; the service is initialized unless it is absent
  registered, \* the consumers this process has registered so far
  done,       \* history: jobs whose work was completed
  failed,     \* history: jobs whose work failed
  ignored,    \* history: jobs a consumer returned from without acting on them
  expired,    \* the delayed jobs whose delay has passed
  crashes,    \* history: crashes so far, saturating above MaxCrashes
  closes      \* history: connections the broker closed so far

vars == << call, at, frame, by, up, channel, registered, done, failed,
           ignored, expired, crashes, closes >>

open == channel = "open"

service == << up, channel, registered, crashes, closes >>
history == << done, failed, ignored, expired >>

PublishCall ==
  [path : {"client", "direct"}, exchange : Exchanges \cup {Default},
   key : Keys \cup StandardKeys \cup QueueNames, type : Types \cup {NoType}, delayed : BOOLEAN]

ASSUME NoCallAssumption == NoCall \notin PublishCall

\* "outbox" is in the Nest client's memory and "parked" in the queue of that client,
\* which nothing consumes; "held" is inside the delayed exchange; "refused": the call
\* threw; "lost": the client never sent it; "gone": the broker is done with it.
Place == {"unsent", "outbox", "parked", "lost", "refused", "held", "ready", "unacked", "gone"}

\* "worked": the handler has settled without an error, the ack is next.
FrameState == {"idle", "running", "worked"}

TypeOK ==
  /\ call \in [JobIds -> PublishCall \cup {NoCall}]
  /\ at \in [JobIds -> Place]
  /\ frame \in [JobIds -> FrameState]
  /\ by \in [JobIds -> Consumers \cup {NoOne}]
  /\ up \in BOOLEAN /\ channel \in {"absent", "open", "closed"}
  /\ registered \in SUBSET Consumers
  /\ done \in SUBSET JobIds /\ failed \in SUBSET JobIds /\ ignored \in SUBSET JobIds /\ expired \in SUBSET JobIds
  /\ crashes \in 0..(MaxCrashes + 1)
  /\ closes \in 0..MaxCloses

Init ==
  /\ call = [j \in JobIds |-> NoCall]
  /\ at = [j \in JobIds |-> "unsent"]
  /\ frame = [j \in JobIds |-> "idle"]
  /\ by = [j \in JobIds |-> NoOne]
  /\ up = TRUE /\ channel = "absent"
  /\ registered = {}
  /\ done = {} /\ failed = {} /\ ignored = {} /\ expired = {}
  /\ crashes = 0 /\ closes = 0

-----------------------------------------------------------------------------
(* The calls: what each of them asks RabbitMQService to publish, and how.  *)

PublishWithDelay(x, k, type) ==
  [path |-> "direct", exchange |-> x, key |-> k, type |-> type, delayed |-> TRUE]

\* (mutant) the arguments are swapped
PublishSwapped(x, k, type, options) ==
  [path |-> IF ~options /\ k \in StandardKeys THEN "client" ELSE "direct",
   exchange |-> k, key |-> x, type |-> type, delayed |-> FALSE]

\* Without publish options a standard key goes to the client, which ignores the exchange.
Publish(x, k, type, options) ==
  [path |-> IF ~options /\ k \in StandardKeys THEN "client" ELSE "direct",
   exchange |-> x, key |-> k, type |-> type, delayed |-> FALSE]

SubmitJob(x, k, type, delayed) ==
  IF delayed THEN PublishWithDelay(x, k, type) ELSE Publish(x, k, type, FALSE)

\* The default exchange leads to the queue the key names.
SendToQueue(q, type) ==
  [path |-> "direct", exchange |-> Default, key |-> q, type |-> type, delayed |-> FALSE]

\* The job type goes into the field `jobType', which no consumer reads.
EnqueueJob(delayed) ==
  IF delayed THEN PublishWithDelay("delayed_exchange", "job.background", NoType)
  ELSE Publish("user_events", "job.background", NoType, FALSE)

ScheduleTask == PublishWithDelay("delayed_exchange", "job.scheduled", NoType)

EmitWithDelay(x, k) == PublishWithDelay(x, k, NoType)

ScheduleUserCleanup == SubmitJob("user_events", "job.background", "user_cleanup", FALSE)

ApiCalls ==
  { Publish(x, k, t, o) : x \in Exchanges, k \in Keys, t \in Types, o \in BOOLEAN }
    \cup { SendToQueue(q, t) : q \in Targets, t \in Types }
    \cup { SubmitJob(x, k, t, d) : x \in Exchanges, k \in Keys, t \in Types, d \in BOOLEAN }
    \cup { EnqueueJob(d) : d \in BOOLEAN }
    \cup { ScheduleTask }
    \cup { EmitWithDelay(x, k) : x \in Exchanges, k \in Keys }

-----------------------------------------------------------------------------
(* The broker.                                                             *)

\* A message no queue is bound for is dropped.
Arrives(x, k) == IF Routed(x, k) = {} THEN "gone" ELSE "ready"

\* The delay header means something to a delayed exchange only.
Held(c) == c.delayed /\ KindOf[c.exchange] = "x-delayed-message"

\* (mutant) the delay header is not written
PlacedAtOnce(c) == Arrives(c.exchange, c.key)

\* Where a message published on the direct channel gets to.
Placed(c) == IF Held(c) THEN "held" ELSE Arrives(c.exchange, c.key)

Queue(j) == Routed(call[j].exchange, call[j].key)

\* The deliveries of a channel that is gone are ready again.
Requeued(places) ==
  [j \in JobIds |-> IF places[j] = "unacked" THEN "ready" ELSE places[j]]

\* The process ends, and with it its callbacks and what the Nest client had not sent.
ProcessDies ==
  /\ up' = FALSE /\ channel' = "absent" /\ registered' = {}
  /\ frame' = [j \in JobIds |-> "idle"]
  /\ by' = [j \in JobIds |-> NoOne]
  /\ at' = Requeued([j \in JobIds |-> IF at[j] = "outbox" THEN "lost" ELSE at[j]])
  /\ crashes' = IF crashes <= MaxCrashes THEN crashes + 1 ELSE crashes
  /\ UNCHANGED << call, closes >>

DelayPasses(j) ==
  /\ call[j] # NoCall /\ call[j].delayed /\ j \notin expired
  /\ expired' = expired \cup {j}
  /\ at' = [at EXCEPT ![j] = IF @ = "held" THEN Arrives(call[j].exchange, call[j].key) ELSE @]
  /\ UNCHANGED << call, frame, by, service, done, failed, ignored >>

ChannelCloses ==
  /\ open /\ closes < MaxCloses
  /\ channel' = "closed" /\ closes' = closes + 1
  /\ at' = Requeued(at)
  /\ UNCHANGED << call, frame, by, up, registered, crashes, history >>

-----------------------------------------------------------------------------
(* Publishing.                                                             *)

\* ensureInitialized, or amqplib on a closed channel, throws; the client takes the
\* message whatever its connection does.
Call(j, c) ==
  /\ up /\ call[j] = NoCall
  /\ call' = [call EXCEPT ![j] = c]
  /\ at' = [at EXCEPT ![j] =
              IF c.path = "client" THEN "outbox"
              ELSE IF ~open THEN "refused"
              ELSE Placed(c)]
  /\ UNCHANGED << frame, by, service, history >>

\* The cron job, every day at midnight.
HandleInactiveUserCleanup(j) == Call(j, ScheduleUserCleanup)

\* The Nest client sends the message to its own queue, or cannot.
ClientSends(j) ==
  /\ at[j] = "outbox"
  /\ \E p \in {"parked", "lost"} : at' = [at EXCEPT ![j] = p]
  /\ UNCHANGED << call, frame, by, service, history >>

-----------------------------------------------------------------------------
(* The consumers.                                                          *)

Takes(k, c) == c.type \in ConsumerSpec[k].takes

\* (mutant) consumers are registered with automatic acknowledgement
DeliverAutoAcked(j, k) ==
  /\ open /\ k \in registered
  /\ at[j] = "ready" /\ frame[j] = "idle"
  /\ ConsumerSpec[k].queue \in Queue(j)
  /\ at' = [at EXCEPT ![j] = "gone"]
  /\ frame' = [frame EXCEPT ![j] = "running"]
  /\ by' = [by EXCEPT ![j] = k]
  /\ UNCHANGED << call, service, history >>

\* The broker hands the job to any one consumer of its queue.
Deliver(j, k) ==
  /\ open /\ k \in registered
  /\ at[j] = "ready" /\ frame[j] = "idle"
  /\ ConsumerSpec[k].queue \in Queue(j)
  /\ at' = [at EXCEPT ![j] = "unacked"]
  /\ frame' = [frame EXCEPT ![j] = "running"]
  /\ by' = [by EXCEPT ![j] = k]
  /\ UNCHANGED << call, service, history >>

\* channel.ack, or the end of the process on a closed channel.
Settle(j, place) ==
  \/ /\ open
     /\ at' = [at EXCEPT ![j] = place]
     /\ frame' = [frame EXCEPT ![j] = "idle"]
     /\ by' = [by EXCEPT ![j] = NoOne]
     /\ UNCHANGED << call, service >>
  \/ ~open /\ ProcessDies

\* A job of another type: the callback returns, and the job is acknowledged.
Ignore(j) ==
  /\ frame[j] = "running" /\ ~Takes(by[j], call[j])
  /\ ignored' = ignored \cup {j}
  /\ Settle(j, "gone")
  /\ UNCHANGED << done, failed, expired >>

WorkSucceeds(j) ==
  /\ frame[j] = "running" /\ Takes(by[j], call[j]) /\ ConsumerSpec[by[j]].succeeds
  /\ done' = done \cup {j}
  /\ frame' = [frame EXCEPT ![j] = "worked"]
  /\ UNCHANGED << call, at, by, service, failed, ignored, expired >>

Ack(j) == frame[j] = "worked" /\ Settle(j, "gone") /\ UNCHANGED history

\* The publication that retries a job.
Retry(c) == [c EXCEPT !.path = "direct", !.exchange = "retry_exchange", !.delayed = TRUE]

\* UserConsumer logs the error and its callback resolves; the others rethrow, and
\* consume publishes the job to the retry exchange under the key it came with.
WorkFails(j) ==
  /\ frame[j] = "running" /\ Takes(by[j], call[j])
  /\ failed' = failed \cup {j}
  /\ IF ConsumerSpec[by[j]].swallows
     THEN /\ frame' = [frame EXCEPT ![j] = "worked"]
          /\ UNCHANGED << call, at, by, service, expired >>
     ELSE \/ /\ open
             /\ call' = [call EXCEPT ![j] = Retry(@)]
             /\ at' = [at EXCEPT ![j] = Placed(Retry(call[j]))]
             /\ expired' = expired \ {j}
             /\ frame' = [frame EXCEPT ![j] = "idle"]
             /\ by' = [by EXCEPT ![j] = NoOne]
             /\ UNCHANGED service
          \/ ~open /\ ProcessDies /\ UNCHANGED expired
  /\ UNCHANGED << done, ignored >>

-----------------------------------------------------------------------------
(* The process.                                                            *)

\* RabbitMQService.onModuleInit: connect, open a channel, declare the topology.
Initialize ==
  /\ up /\ channel = "absent"
  /\ channel' = "open"
  /\ UNCHANGED << call, at, frame, by, up, registered, crashes, closes, history >>

\* onModuleInit of UserConsumer and of BaseWorker.  When consume throws, on a channel
\* that closed meanwhile, the application does not start.
Register(k) ==
  /\ up /\ channel # "absent" /\ k \notin registered
  /\ \/ /\ open
        /\ registered' = registered \cup {k}
        /\ UNCHANGED << call, at, frame, by, up, channel, crashes, closes >>
     \/ ~open /\ ProcessDies
  /\ UNCHANGED history

Crash ==
  /\ up /\ crashes < MaxCrashes
  /\ ProcessDies
  /\ UNCHANGED history

Restart ==
  /\ ~up /\ up' = TRUE
  /\ UNCHANGED << call, at, frame, by, channel, registered, crashes, closes, history >>

Next ==
  \/ \E j \in JobIds :
       \/ \E c \in ApiCalls : Call(j, c)
       \/ HandleInactiveUserCleanup(j)
       \/ ClientSends(j) \/ DelayPasses(j)
       \/ \E k \in Consumers : Deliver(j, k)
       \/ Ignore(j) \/ WorkSucceeds(j) \/ WorkFails(j) \/ Ack(j)
  \/ \E k \in Consumers : Register(k)
  \/ Initialize \/ ChannelCloses \/ Crash \/ Restart

Spec == Init /\ [][Next]_vars

-----------------------------------------------------------------------------
(* Properties.                                                             *)

\* The work on j failed in a consumer that keeps its errors to itself.
Swallowed(j) ==
  j \in failed /\ \E k \in Consumers : Takes(k, call[j]) /\ ConsumerSpec[k].swallows

\* A job the broker is done with was worked on, unless a consumer of another type was
\* handed it, its error was swallowed, or its last publication was bound to no queue.
\* Crashes, restarts, closed channels and competing consumers lose no other job, and
\* the failure of a worker that rethrows loses none whose retry has a route.
NoSilentJobLoss ==
  \A j \in JobIds :
    at[j] = "gone" => j \in done \/ j \in ignored \/ Swallowed(j) \/ Queue(j) = {}

\* A job published with a delay to a delayed exchange is not run before the delay is
\* over, whether it was published by a caller or as a retry.
NeverEarly ==
  \A j \in JobIds :
    /\ frame[j] # "idle" /\ call[j].delayed
    /\ KindOf[call[j].exchange] = "x-delayed-message"
    => j \in expired

\* What the comments "Submit a job to be processed" and "Enqueue a background job for
\* processing" say: a job does not end up where nothing processes it although the
\* exchange it was published to has a queue for it.
JobsReachTheirQueue ==
  \A j \in JobIds : at[j] = "parked" => Queue(j) = {}
=============================================================================
