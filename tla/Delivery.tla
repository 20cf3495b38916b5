------------------------------ MODULE Delivery ------------------------------
(***************************************************************************)
(* RabbitMQService.consume: one durable queue of the broker, one process   *)
(* that registered a consumer on it, and the callback that runs for every  *)
(* delivery.  Callbacks are asynchronous, so any number of them are in     *)
(* flight at once; the process may crash and the broker may close the      *)
(* connection between any two of their steps.                              *)
(*                                                                         *)
(* A logical message can exist in several copies at the broker (a retry is *)
(* a new publication), so the state is kept per copy <<message, slot>>.    *)
(***************************************************************************)
EXTENDS Integers

CONSTANTS
  Msgs,             \* the logical messages published to the queue
  Malformed,        \* those whose body JSON.parse does not accept
  Slots,            \* names for the copies of one message that exist at once
  Options,          \* the options callers may pass to consume
  RetryRouted,      \* the retry exchange routes this queue's key back to it
  RetryDelayed,     \* the retry exchange is an x-delayed-message exchange
  MaxCrashes,       \* bound on the crashes the environment causes
  MaxCloses,        \* bound on the connections the broker closes
  RejectionCap      \* where the history counter `rejections' saturates

ASSUME DeliveryAssumption ==
  /\ Malformed \subseteq Msgs
  /\ Options \subseteq [noAck : BOOLEAN, maxRetries : Int]
  /\ RetryRouted \in BOOLEAN /\ RetryDelayed \in BOOLEAN
  /\ MaxCrashes \in Nat /\ MaxCloses \in Nat
  /\ RejectionCap \in Nat \ {0}

VARIABLES
  options,    \* the options of the call of consume; maxRetries 0: not given
  broker,     \* broker[c]: where copy c is at the broker
  header,     \* header[c]: the retryCount header copy c was published with
  frame,      \* frame[c]: where the callback that runs for copy c has got to
  up,         \* the process runs
  open,       \* this.channel is open
  published,  \* the messages published so far
  handled,    \* history: completed handler runs per message, saturating at 2
  rejections, \* history: failed handler runs per message, saturating
  crashes,    \* history: crashes so far, saturating above MaxCrashes
  closes      \* history: connections the broker closed so far

vars == << options, broker, header, frame, up, open, published, handled,
           rejections, crashes, closes >>

Copies == Msgs \X Slots

\* "delayed" is inside a delayed exchange, "unacked" is delivered and not settled.
BrokerState == { "none", "delayed", "ready", "unacked" }

\* "running": the handler is awaited; "acking": it resolved and ack is next;
\* "published": the retry is published and the ack of the original is next.
FrameState == { "idle", "running", "acking", "published" }

TypeOK ==
  /\ options \in Options
  /\ broker \in [Copies -> BrokerState]
  /\ header \in [Copies -> Nat]
  /\ frame \in [Copies -> FrameState]
  /\ up \in BOOLEAN /\ open \in BOOLEAN
  /\ published \in SUBSET Msgs
  /\ handled \in [Msgs -> 0..2]
  /\ rejections \in [Msgs -> 0..RejectionCap]
  /\ crashes \in 0..(MaxCrashes + 1)
  /\ closes \in 0..MaxCloses

Init ==
  /\ options \in Options
  /\ broker = [c \in Copies |-> "none"]
  /\ header = [c \in Copies |-> 0]
  /\ frame = [c \in Copies |-> "idle"]
  /\ up = TRUE /\ open = TRUE
  /\ published = {}
  /\ handled = [m \in Msgs |-> 0]
  /\ rejections = [m \in Msgs |-> 0]
  /\ crashes = 0 /\ closes = 0

-----------------------------------------------------------------------------
\* `options.maxRetries || 3': zero is falsy, so it means three as well.
MaxRetries(opts) == IF opts.maxRetries = 0 THEN 3 ELSE opts.maxRetries

RetryCount(c) == header[c] + 1

\* (mutants) the header is carried over, and miscounted
CarriedHeader(c) == RetryCount(c)
DecrementedHeader(c) == header[c] - 1

\* The retryCount header of a retried copy: publishWithDelay builds the headers
\* from scratch with x-delay alone, so the consumer reads the default 0 from it.
RepublishedHeader(c) == 0

Live(c) == broker[c] # "none"

Free(c) == ~Live(c) /\ frame[c] = "idle"

Saturate(n, cap) == IF n < cap THEN n + 1 ELSE cap

\* What the broker does with the deliveries of a channel that is gone.
Requeued ==
  [c \in Copies |-> IF broker[c] = "unacked" THEN "ready" ELSE broker[c]]

\* The process exits with every callback in it.
ProcessDies ==
  /\ up' = FALSE /\ open' = FALSE
  /\ frame' = [c \in Copies |-> "idle"]
  /\ broker' = Requeued
  /\ crashes' = Saturate(crashes, MaxCrashes + 1)
  /\ UNCHANGED << options, header, published, handled, closes >>

-----------------------------------------------------------------------------
(* The broker, as the code uses it.                                        *)

\* Somebody publishes m to the queue; the code never sets retryCount.
Publish(m) ==
  /\ m \notin published
  /\ published' = published \cup {m}
  /\ \E s \in Slots :
       /\ broker' = [broker EXCEPT ![<<m, s>>] = "ready"]
       /\ header' = [header EXCEPT ![<<m, s>>] = 0]
  /\ UNCHANGED << options, frame, up, open, handled, rejections, crashes, closes >>

\* (mutant) consumeOptions, with noAck, handed on to channel.consume
DeliverAutoAcked(c) ==
  /\ open
  /\ broker[c] = "ready"
  /\ frame[c] = "idle"
  /\ broker' = [broker EXCEPT ![c] = IF options.noAck THEN "none" ELSE "unacked"]
  /\ frame' = [frame EXCEPT ![c] = "running"]
  /\ UNCHANGED << options, header, up, open, published, handled, rejections, crashes, closes >>

\* There is no prefetch limit: whatever is ready is pushed to the consumer.
Deliver(c) ==
  /\ open
  /\ broker[c] = "ready"
  /\ frame[c] = "idle"
  /\ broker' = [broker EXCEPT ![c] = "unacked"]
  /\ frame' = [frame EXCEPT ![c] = "running"]
  /\ UNCHANGED << options, header, up, open, published, handled, rejections, crashes, closes >>

DelayExpires(c) ==
  /\ broker[c] = "delayed"
  /\ broker' = [broker EXCEPT ![c] = "ready"]
  /\ UNCHANGED << options, header, frame, up, open, published, handled, rejections,
                  crashes, closes >>

\* (mutant) handleConnectionFailure wired up: callbacks of the old channel go on
\* with the new one
ChannelReopens ==
  /\ open
  /\ closes < MaxCloses
  /\ closes' = closes + 1
  /\ broker' = Requeued
  /\ UNCHANGED << options, header, frame, up, open, published, handled, rejections, crashes >>

\* The broker shuts the connection down.  The process survives with a closed
\* channel: nothing listens for the event and handleConnectionFailure, the
\* method that would reconnect, has no caller.
ChannelCloses ==
  /\ open
  /\ closes < MaxCloses
  /\ closes' = closes + 1
  /\ open' = FALSE
  /\ broker' = Requeued
  /\ UNCHANGED << options, header, frame, up, published, handled, rejections, crashes >>

-----------------------------------------------------------------------------
(* The callback of RabbitMQService.consume.                                *)

\* The handler resolves.  With noAck nothing follows, although channel.consume
\* was called with `noAck: false' and the broker waits for an ack.
HandlerResolves(c) ==
  LET m == c[1] IN
  /\ frame[c] = "running"
  /\ m \notin Malformed
  /\ handled' = [handled EXCEPT ![m] = Saturate(@, 2)]
  /\ frame' = [frame EXCEPT ![c] = IF options.noAck THEN "idle" ELSE "acking"]
  /\ UNCHANGED << options, broker, header, up, open, published, rejections, crashes, closes >>

\* The retry branch: publish a copy to the retry exchange.  The ack of the
\* original follows in a later step (AckRetried).
PublishRetry(c) ==
  /\ ~options.noAck /\ open /\ c[1] \notin Malformed
  /\ RetryCount(c) <= MaxRetries(options)
  /\ frame' = [frame EXCEPT ![c] = "published"]
  /\ \/ /\ RetryRouted
        /\ \E d \in Copies :
             /\ d[1] = c[1] /\ Free(d)
             /\ broker' = [broker EXCEPT
                             ![d] = IF RetryDelayed THEN "delayed" ELSE "ready"]
             /\ header' = [header EXCEPT ![d] = RepublishedHeader(c)]
     \/ /\ ~RetryRouted
        /\ UNCHANGED << broker, header >>
  /\ UNCHANGED << options, up, open, published, handled, crashes, closes >>

\* (mutant) nack with requeue
NackRequeues(c) ==
  /\ ~options.noAck /\ open
  /\ RetryCount(c) > MaxRetries(options)
  /\ broker' = [broker EXCEPT ![c] = "ready"]
  /\ frame' = [frame EXCEPT ![c] = "idle"]
  /\ UNCHANGED << options, header, up, open, published, handled, crashes, closes >>

\* The exhausted branch: nack without requeue.  None of the consumed queues has
\* a dead-letter exchange, so the broker discards the message.
Nack(c) ==
  /\ ~options.noAck /\ open
  /\ RetryCount(c) > MaxRetries(options)
  /\ broker' = [broker EXCEPT ![c] = "none"]
  /\ frame' = [frame EXCEPT ![c] = "idle"]
  /\ UNCHANGED << options, header, up, open, published, handled, crashes, closes >>

\* The catch block throws itself, on a closed channel or on the second
\* JSON.parse: nobody awaits the callback, and the rejection ends the process.
CatchBlockThrows(c) ==
  /\ ~options.noAck
  /\ ~open \/ (c[1] \in Malformed /\ RetryCount(c) <= MaxRetries(options))
  /\ ProcessDies

\* With noAck the error is logged and nothing else happens.
ErrorLoggedOnly(c) ==
  /\ options.noAck
  /\ frame' = [frame EXCEPT ![c] = "idle"]
  /\ UNCHANGED << options, broker, header, up, open, published, handled, crashes, closes >>

\* JSON.parse throws or the handler rejects: the catch block runs.
HandlerRejects(c) ==
  /\ frame[c] = "running"
  /\ rejections' = [rejections EXCEPT ![c[1]] = Saturate(@, RejectionCap)]
  /\ \/ PublishRetry(c)
     \/ Nack(c)
     \/ CatchBlockThrows(c)
     \/ ErrorLoggedOnly(c)

AckCopy(c) ==
  /\ open
  /\ broker' = [broker EXCEPT ![c] = "none"]
  /\ frame' = [frame EXCEPT ![c] = "idle"]
  /\ UNCHANGED << options, header, up, open, published, handled, rejections, crashes, closes >>

\* ack on a closed channel throws; every way out of the catch block uses the
\* same channel and throws again, so the process ends.
AckThrows == ~open /\ ProcessDies /\ UNCHANGED rejections

AckHandled(c) == frame[c] = "acking" /\ (AckCopy(c) \/ AckThrows)

\* (mutant) the original is put back after its retry was published
NackRetried(c) ==
  /\ frame[c] = "published" /\ open
  /\ broker' = [broker EXCEPT ![c] = "ready"]
  /\ frame' = [frame EXCEPT ![c] = "idle"]
  /\ UNCHANGED << options, header, up, open, published, handled, rejections, crashes, closes >>

AckRetried(c) == frame[c] = "published" /\ (AckCopy(c) \/ AckThrows)

-----------------------------------------------------------------------------
(* The process.                                                            *)

Crash ==
  /\ up
  /\ crashes < MaxCrashes
  /\ ProcessDies
  /\ UNCHANGED rejections

\* A new process connects, opens a channel and registers its consumer.
Restart ==
  /\ ~up
  /\ up' = TRUE /\ open' = TRUE
  /\ UNCHANGED << options, broker, header, frame, published, handled, rejections,
                  crashes, closes >>

Step(c) ==
  \/ Deliver(c) \/ DelayExpires(c)
  \/ HandlerResolves(c) \/ HandlerRejects(c)
  \/ AckHandled(c) \/ AckRetried(c)

Next ==
  \/ \E m \in Msgs : Publish(m)
  \/ \E c \in Copies : Step(c)
  \/ ChannelCloses
  \/ Crash
  \/ Restart

Spec == Init /\ [][Next]_vars

\* The broker keeps pushing, timers expire, every handler settles one way or the
\* other, the event loop resumes every callback, and an operator restarts a
\* process that exited.
Fairness ==
  /\ \A c \in Copies :
       /\ WF_vars(Deliver(c)) /\ WF_vars(DelayExpires(c))
       /\ WF_vars(HandlerResolves(c) \/ HandlerRejects(c))
       /\ WF_vars(AckHandled(c)) /\ WF_vars(AckRetried(c))
  /\ WF_vars(Restart)

FairSpec == Spec /\ Fairness

-----------------------------------------------------------------------------
(* Properties.                                                             *)

\* No crash and no lost connection so far.
Undisturbed == crashes = 0 /\ closes = 0

\* A copy the consumer still owes a handler run: not one whose retry is out.
Owed(c) == Live(c) /\ frame[c] # "published"

\* A published message that was never handled is still at the broker, unless a
\* handler run of it failed: crashes, restarts and lost connections lose nothing,
\* because consume acknowledges only after the handler or after the republication.
NoSilentLoss ==
  \A m \in published :
    \/ handled[m] > 0
    \/ rejections[m] > 0
    \/ \E s \in Slots : Live(<<m, s>>)

\* With a retry exchange that routes back to the queue, a failed run loses nothing
\* either: some copy other than the one about to be acknowledged is still owed.
RetriedUntilHandled ==
  RetryRouted /\ MaxRetries(options) >= 1 =>
    \A m \in published : handled[m] > 0 \/ \E s \in Slots : Owed(<<m, s>>)

\* As long as nothing crashes or disconnects, retries never multiply a message:
\* one copy is owed at a time and the handler completes at most once.
ExactlyOnceUndisturbed ==
  Undisturbed =>
    /\ \A m \in Msgs : handled[m] <= 1
    /\ \A c, d \in Copies : c[1] = d[1] /\ Owed(c) /\ Owed(d) => c = d

\* A callback never acknowledges a delivery the broker has already taken back: when
\* its ack goes out on an open channel, that channel still holds the delivery.
NoStaleAck ==
  \A c \in Copies :
    open /\ frame[c] \in {"acking", "published"} => broker[c] = "unacked"

\* Some copy of m is still at the broker.
Pending(m) == \E s \in Slots : Live(<<m, s>>)

\* The message as the abstract queue sees it, whatever copies of it exist.
MessageStatus(m) ==
  CASE handled[m] > 0                                        -> "handled"
    [] handled[m] = 0 /\ Pending(m)                          -> "pending"
    [] handled[m] = 0 /\ ~Pending(m) /\ m \in published      -> "lost"
    [] handled[m] = 0 /\ ~Pending(m) /\ m \notin published   -> "new"

Queue == INSTANCE AtLeastOnce WITH
           Lossy  <- ~ \A opts \in Options : RetryRouted /\ MaxRetries(opts) >= 1,
           status <- [m \in Msgs |-> MessageStatus(m)],
           failed <- { m \in Msgs : rejections[m] > 0 }

\* consume implements the abstract queue: a message is lost only after a failed
\* run, only for want of a route back, and then for good; a handled message is
\* never pending again, although copies of it may still be delivered.
ImplementsQueue == Queue!Spec

\* Every published message is eventually handled or given up, and its last copy
\* leaves the broker.
EveryMessageSettles ==
  ~options.noAck =>
    \A m \in Msgs : m \in published ~> \A s \in Slots : ~Live(<<m, s>>)

\* What the comments and log messages of consume say, and the code does not do.

\* "Message has been retried too many times, dead-letter it": a message fails at
\* most maxRetries + 1 times.
RetriesAreBounded ==
  Undisturbed => \A m \in Msgs : rejections[m] <= MaxRetries(options) + 1

\* "Message requeued for retry": once the retry is published, another copy of the
\* message is at the broker.
RequeuedForRetry ==
  \A c \in Copies :
    frame[c] = "published" =>
      \E d \in Copies : d # c /\ d[1] = c[1] /\ (Live(d) \/ handled[d[1]] > 0)

\* "consumer [...] with automatic message acknowledgement": with noAck, a delivery
\* whose handler is done is not left unacknowledged.
NoAckLeavesNothing ==
  options.noAck =>
    \A c \in Copies : broker[c] = "unacked" => frame[c] = "running"
=============================================================================
