----------------------------- MODULE Connection -----------------------------
(***************************************************************************)
(* The life of RabbitMQService's connections: onModuleInit with the direct *)
(* connection and the topology it sets up, the consumers registered on the *)
(* channel, onApplicationShutdown, and handleConnectionFailure, which the  *)
(* class defines and nothing in the repository calls: here a caller may    *)
(* call it for a connection, open or not, whenever it is not running and   *)
(* the service is not stopping.  The broker may close any connection       *)
(* between any two steps.                                                  *)
(***************************************************************************)
EXTENDS Integers, FiniteSets

CONSTANTS
  Configs,    \* the configurations that RabbitMQModule.register may be given
  Conns,      \* handles for the direct connections, each with one channel
  Tags,       \* consumer tags
  Queues,     \* the queues that are consumed
  None,       \* no connection, no channel, no tag
  MaxAttempts \* maxRetries of handleConnectionFailure

Items == {"exchanges", "queues", "bindings"}

ASSUME ConnectionAssumption ==
  /\ None \notin Conns \cup Tags
  /\ MaxAttempts \in Nat \ {0}
  /\ \A cfg \in Configs :
       /\ cfg.exchanges \subseteq {"topic", "x-delayed-message"} \* their types
       /\ cfg.queues \subseteq BOOLEAN                           \* whether they have arguments
       /\ cfg.bindings \in BOOLEAN                               \* whether there are any

VARIABLES
  config,      \* the configuration; it never changes
  client,      \* the connection of the Nest client
  link,        \* link[c]: the connection c as the broker has it
  connection,  \* this.connection
  channel,     \* this.channel, named by its connection
  initialized,
  declared,    \* what of the topology the broker has; it is durable
  main,        \* how far onModuleInit has got
  setup,       \* how far setupDirectConnection has got
  reconnect,   \* how far handleConnectionFailure has got
  attempt,     \* its retryCount
  stop,        \* how far onApplicationShutdown has got
  visited,     \* the queues its loop over the consumers has seen
  consumers,   \* consumers[q]: the tag the map holds for q
  live,        \* live[t]: the consumer t as the broker has it, or None
  overlapped   \* history: the shutdown began during handleConnectionFailure

consumerVars == << consumers, live >>
stopVars == << stop, visited, overlapped >>
reconnectVars == << reconnect, attempt >>
vars == << config, client, link, connection, channel, initialized, declared, main,
           setup, reconnectVars, stopVars, consumerVars >>

\* "bare": the connection is open, its channel is not, or not yet.
LinkState == {"closed", "bare", "open"}

\* "pending": channel.consume has not resolved, the map does not have the tag yet;
\* "late": it got into the map after a shutdown began.
Consumer == [queue : Queues, on : Conns, as : {"pending", "mapped", "late"}]

Busy == {"closing", "closingConnection", "waiting", "setup"}

TypeOK ==
  /\ config \in Configs
  /\ client \in {"new", "connected", "closed"}
  /\ link \in [Conns -> LinkState]
  /\ connection \in Conns \cup {None} /\ channel \in Conns \cup {None}
  /\ initialized \in BOOLEAN
  /\ declared \in SUBSET Items
  /\ main \in {"start", "setup", "ready", "failed"}
  /\ setup \in {"none", "connect", "channel"} \cup Items
  /\ reconnect \in {"idle", "reconnected", "exhausted"} \cup Busy
  /\ attempt \in 0..MaxAttempts
  /\ stop \in {"no", "cancel", "channel", "connection", "client", "done", "error"}
  /\ visited \in SUBSET Queues
  /\ overlapped \in BOOLEAN
  /\ consumers \in [Queues -> Tags \cup {None}]
  /\ live \in [Tags -> Consumer \cup {None}]

Init ==
  /\ config \in Configs
  /\ client = "new"
  /\ link = [c \in Conns |-> "closed"]
  /\ connection = None /\ channel = None
  /\ initialized = FALSE /\ declared = {}
  /\ main = "start" /\ setup = "none"
  /\ reconnect = "idle" /\ attempt = 0
  /\ stop = "no" /\ visited = {} /\ overlapped = FALSE
  /\ consumers = [q \in Queues |-> None]
  /\ live = [t \in Tags |-> None]

-----------------------------------------------------------------------------
(* Connections and channels.                                               *)

NeedsDirectConnection ==
  \/ "x-delayed-message" \in config.exchanges
  \/ TRUE \in config.queues
  \/ config.exchanges # {}
  \/ config.queues # {}

\* A channel that is not open throws at every call.
IsOpen(ch) == ch # None /\ link[ch] = "open"

Alive == {"bare", "open"}

\* The consumers the broker has on the channel of c.
On(c) == { t \in Tags : live[t] # None /\ live[t].on = c }

\* A channel closes, by itself or with its connection, and the broker forgets the
\* consumers on it; a channel.consume that still waits rejects.
Becomes(c, state) ==
  /\ link' = [link EXCEPT ![c] = state]
  /\ live' = [t \in Tags |-> IF t \in On(c) THEN None ELSE live[t]]

Mapped == { q \in Queues : consumers[q] # None }

EnsureInitialized == initialized /\ channel # None

-----------------------------------------------------------------------------
(* onModuleInit and setupDirectConnection.                                 *)

\* (mutant) the service counts as initialized before the topology is set up
ClientConnectsTooSoon ==
  /\ main = "start"
  /\ client' = "connected"
  /\ initialized' = TRUE
  /\ IF NeedsDirectConnection
     THEN main' = "setup" /\ setup' = "connect"
     ELSE main' = "ready" /\ UNCHANGED setup
  /\ UNCHANGED << config, link, connection, channel, declared, reconnectVars,
                  stopVars, consumerVars >>

ClientConnects ==
  /\ main = "start"
  /\ client' = "connected"
  /\ IF NeedsDirectConnection
     THEN main' = "setup" /\ setup' = "connect" /\ UNCHANGED initialized
     ELSE main' = "ready" /\ initialized' = TRUE /\ UNCHANGED setup
  /\ UNCHANGED << config, link, connection, channel, declared, reconnectVars,
                  stopVars, consumerVars >>

\* onModuleInit rethrows: the application does not start and the process ends.
InitFails ==
  /\ main' = "failed" /\ setup' = "none"
  /\ link' = [c \in Conns |-> "closed"]
  /\ live' = [t \in Tags |-> None]
  /\ client' = "closed"

ClientFails ==
  /\ main = "start"
  /\ InitFails
  /\ UNCHANGED << config, connection, channel, initialized, declared, reconnectVars,
                  stopVars, consumers >>

\* (mutant) retryCount is compared before it is incremented
SetupFailsOffByOne ==
  \/ /\ main = "setup" /\ InitFails
     /\ UNCHANGED reconnectVars
  \/ /\ reconnect = "setup"
     /\ attempt' = attempt + 1
     /\ reconnect' = IF attempt < MaxAttempts THEN "closing" ELSE "exhausted"
     /\ setup' = "none"
     /\ UNCHANGED << main, client, link, live >>

\* (mutant) the attempt is not counted
SetupFailsUncounted ==
  \/ /\ main = "setup" /\ InitFails
     /\ UNCHANGED reconnectVars
  \/ /\ reconnect = "setup"
     /\ reconnect' = "closing"
     /\ setup' = "none"
     /\ UNCHANGED << main, client, link, live, attempt >>

\* What awaits setupDirectConnection when it rejects: onModuleInit, or a try of
\* handleConnectionFailure, which counts it and goes round its loop.
SetupFails ==
  \/ /\ main = "setup" /\ InitFails
     /\ UNCHANGED reconnectVars
  \/ /\ reconnect = "setup"
     /\ attempt' = attempt + 1
     /\ reconnect' = IF attempt' < MaxAttempts THEN "closing" ELSE "exhausted"
     /\ setup' = "none"
     /\ UNCHANGED << main, client, link, live >>

\* What awaits it when it resolves.
SetupSucceeds ==
  /\ setup' = "none"
  /\ IF main = "setup"
     THEN main' = "ready" /\ initialized' = TRUE /\ UNCHANGED reconnect
     ELSE reconnect' = "reconnected" /\ UNCHANGED << main, initialized >>

\* The handles of connections that no field refers to any more are used again: it does
\* not matter which.
Unused == { c \in Conns \ {connection, channel} : link[c] = "closed" }

\* amqp.connect.
Connect ==
  /\ setup = "connect"
  /\ \/ LET c == CHOOSE c \in Unused : TRUE IN
          /\ Unused # {}
          /\ link' = [link EXCEPT ![c] = "bare"]
          /\ connection' = c
          /\ setup' = "channel"
          /\ UNCHANGED << main, client, live, reconnectVars >>
     \/ SetupFails /\ UNCHANGED connection
  /\ UNCHANGED << config, channel, initialized, declared, stopVars, consumers >>

\* createChannel fails only on a connection that has closed; this.channel then still
\* is the channel of an earlier connection.
CreateChannel ==
  /\ setup = "channel"
  /\ \/ /\ link[connection] = "bare"
        /\ link' = [link EXCEPT ![connection] = "open"]
        /\ channel' = connection
        /\ setup' = "exchanges"
        /\ UNCHANGED << main, client, live, reconnectVars >>
     \/ /\ link[connection] = "closed"
        /\ SetupFails /\ UNCHANGED channel
  /\ UNCHANGED << config, connection, initialized, declared, stopVars, consumers >>

After(item) == [exchanges |-> "queues", queues |-> "bindings", bindings |-> "none"][item]

\* One of the three loops of setupTopology, on this.channel.
Declare ==
  /\ setup \in Items
  /\ \/ /\ IsOpen(channel)
        /\ declared' = declared \cup {setup}
        /\ IF setup = "bindings" THEN SetupSucceeds
           ELSE setup' = After(setup) /\ UNCHANGED << main, initialized, reconnect >>
        /\ UNCHANGED << client, link, live, attempt >>
     \/ /\ ~IsOpen(channel)
        /\ SetupFails /\ UNCHANGED << initialized, declared >>
  /\ UNCHANGED << config, connection, channel, stopVars, consumers >>

-----------------------------------------------------------------------------
(* consume: the registration on the broker, then the entry in the map.     *)

Consume(q) ==
  LET free == { t \in Tags : live[t] = None /\ \A p \in Queues : consumers[p] # t } IN
  /\ EnsureInitialized /\ IsOpen(channel)
  /\ free # {}
  /\ live' = [live EXCEPT ![CHOOSE t \in free : TRUE] =
                [queue |-> q, on |-> channel, as |-> "pending"]]
  /\ UNCHANGED << config, client, link, connection, channel, initialized, declared, main,
                  setup, reconnectVars, stopVars, consumers >>

\* The map has one tag per queue: a second consumer of a queue replaces the first.
ConsumeReturns(t) ==
  /\ live[t] # None /\ live[t].as = "pending"
  /\ consumers' = [consumers EXCEPT ![live[t].queue] = t]
  /\ live' = [live EXCEPT ![t].as = IF stop = "no" THEN "mapped" ELSE "late"]
  /\ UNCHANGED << config, client, link, connection, channel, initialized, declared, main,
                  setup, reconnectVars, stopVars >>

-----------------------------------------------------------------------------
(* onApplicationShutdown.                                                  *)

ShutdownBegins ==
  /\ main = "ready" /\ stop = "no"
  /\ stop' = IF channel # None /\ Mapped # {} THEN "cancel" ELSE "channel"
  /\ overlapped' = (reconnect \in Busy)
  /\ UNCHANGED << config, client, link, connection, channel, initialized, declared, main,
                  setup, reconnectVars, visited, consumerVars >>

\* The try block ends at the first call that fails.
ShutdownFails ==
  /\ stop' = "error"
  /\ UNCHANGED << link, live, client, visited >>

\* channel.cancel; the broker ignores a tag it does not have on that channel.
ShutdownCancels(q) ==
  /\ stop = "cancel" /\ q \in Mapped \ visited
  /\ \/ /\ IsOpen(channel)
        /\ live' = [live EXCEPT ![consumers[q]] = IF consumers[q] \in On(channel) THEN None ELSE @]
        /\ visited' = visited \cup {q}
        /\ UNCHANGED << link, client, stop >>
     \/ ~IsOpen(channel) /\ ShutdownFails
  /\ UNCHANGED << config, connection, channel, initialized, declared, main, setup,
                  reconnectVars, overlapped, consumers >>

\* (mutant) the loop ends after its first consumer
CancelledSome == stop = "channel" \/ (stop = "cancel" /\ visited # {})

\* The loop is over, or there was nothing to cancel.
CancelledAll == stop = "channel" \/ (stop = "cancel" /\ Mapped \subseteq visited)

ShutdownClosesChannel ==
  /\ CancelledAll
  /\ \/ channel = None /\ stop' = "connection" /\ UNCHANGED << link, live, client, visited >>
     \/ /\ IsOpen(channel)
        /\ Becomes(channel, "bare")
        /\ stop' = "connection"
        /\ UNCHANGED << client, visited >>
     \/ channel # None /\ ~IsOpen(channel) /\ ShutdownFails
  /\ UNCHANGED << config, connection, channel, initialized, declared, main, setup,
                  reconnectVars, overlapped, consumers >>

\* (mutant) the shutdown closes the channel only
ShutdownKeepsConnection ==
  /\ stop = "connection" /\ stop' = "client"
  /\ UNCHANGED << config, client, link, connection, channel, initialized, declared, main,
                  setup, reconnectVars, visited, overlapped, consumerVars >>

ShutdownClosesConnection ==
  /\ stop = "connection"
  /\ \/ connection = None /\ stop' = "client" /\ UNCHANGED << link, live, client, visited >>
     \/ /\ connection # None /\ link[connection] \in Alive
        /\ Becomes(connection, "closed")
        /\ stop' = "client"
        /\ UNCHANGED << client, visited >>
     \/ connection # None /\ link[connection] = "closed" /\ ShutdownFails
  /\ UNCHANGED << config, connection, channel, initialized, declared, main, setup,
                  reconnectVars, overlapped, consumers >>

ShutdownClosesClient ==
  /\ stop = "client" /\ stop' = "done"
  /\ client' = "closed"
  /\ UNCHANGED << config, link, connection, channel, initialized, declared, main, setup,
                  reconnectVars, visited, overlapped, consumerVars >>

-----------------------------------------------------------------------------
(* handleConnectionFailure.                                                *)

\* (mutant) nothing is closed before the next try
ReconnectBeginsWaiting ==
  /\ main = "ready" /\ connection # None /\ stop = "no" /\ reconnect \notin Busy
  /\ reconnect' = "waiting" /\ attempt' = 0
  /\ UNCHANGED << config, client, link, connection, channel, initialized, declared, main,
                  setup, stopVars, consumerVars >>

\* (mutant) retryCount lives across calls
ReconnectBeginsCounted ==
  /\ main = "ready" /\ connection # None /\ stop = "no" /\ reconnect \notin Busy
  /\ reconnect' = "closing"
  /\ UNCHANGED << config, client, link, connection, channel, initialized, declared, main,
                  setup, attempt, stopVars, consumerVars >>

ReconnectBegins ==
  /\ main = "ready" /\ connection # None /\ stop = "no" /\ reconnect \notin Busy
  /\ reconnect' = "closing" /\ attempt' = 0
  /\ UNCHANGED << config, client, link, connection, channel, initialized, declared, main,
                  setup, stopVars, consumerVars >>

\* channel.close throws on a channel that has closed, which skips connection.close.
ReconnectClosesChannel ==
  /\ reconnect = "closing"
  /\ \/ /\ IsOpen(channel)
        /\ Becomes(channel, "bare")
        /\ reconnect' = "closingConnection"
     \/ /\ ~IsOpen(channel)
        /\ reconnect' = "waiting"
        /\ UNCHANGED << link, live >>
  /\ UNCHANGED << config, client, connection, channel, initialized, declared, main, setup,
                  attempt, stopVars, consumers >>

ReconnectClosesConnection ==
  /\ reconnect = "closingConnection" /\ reconnect' = "waiting"
  /\ IF link[connection] \in Alive
     THEN Becomes(connection, "closed") ELSE UNCHANGED << link, live >>
  /\ UNCHANGED << config, client, connection, channel, initialized, declared, main, setup,
                  attempt, stopVars, consumers >>

\* The timer of the backoff fires.
BackoffEnds ==
  /\ reconnect = "waiting" /\ reconnect' = "setup"
  /\ setup' = "connect"
  /\ UNCHANGED << config, client, link, connection, channel, initialized, declared, main,
                  attempt, stopVars, consumerVars >>

-----------------------------------------------------------------------------
\* The broker closes a connection: a `close' event that nobody listens for.
BrokerCloses(c) ==
  /\ link[c] \in Alive
  /\ Becomes(c, "closed")
  /\ UNCHANGED << config, client, connection, channel, initialized, declared, main, setup,
                  reconnectVars, stopVars, consumers >>

ShutdownStep ==
  \/ \E q \in Queues : ShutdownCancels(q)
  \/ ShutdownClosesChannel \/ ShutdownClosesConnection \/ ShutdownClosesClient

ReconnectStep ==
  \/ ReconnectClosesChannel \/ ReconnectClosesConnection \/ BackoffEnds

SetupStep == Connect \/ CreateChannel \/ Declare

Next ==
  \/ ClientConnects \/ ClientFails
  \/ SetupStep
  \/ \E q \in Queues : Consume(q)
  \/ \E t \in Tags : ConsumeReturns(t)
  \/ ShutdownBegins \/ ShutdownStep
  \/ ReconnectBegins \/ ReconnectStep
  \/ \E c \in Conns : BrokerCloses(c)

Spec == Init /\ [][Next]_vars

\* Timers fire, and an await on the broker is answered or its connection fails.
FairSpec ==
  /\ Spec
  /\ WF_vars(SetupStep) /\ WF_vars(ReconnectStep) /\ WF_vars(ShutdownStep)

-----------------------------------------------------------------------------
(* Properties.                                                             *)

\* Failed attempts, channels that throw when they are closed again and a broker that
\* hangs up in between leave no connection behind: at most one direct connection is
\* open, the one this.connection refers to.  A shutdown during handleConnectionFailure
\* is left out: both then close and open the same fields.
OneDirectConnection ==
  ~overlapped => \A c \in Conns : link[c] \in Alive => c = connection

\* Whoever passes ensureInitialized has a channel behind which all exchanges, queues and
\* bindings of the configuration are declared, before, during and after reconnections.
ReadyMeansDeclared == EnsureInitialized => declared = Items

\* A shutdown leaves no direct connection open, whether it completes or stops at a call
\* that fails; when it completes, the Nest client is closed as well.  After a failed call
\* the client stays open: "Clean up all resources" holds for the direct connection only.
ShutdownReleases ==
  /\ stop \in {"done", "error"} /\ ~overlapped => \A c \in Conns : link[c] \notin Alive
  /\ stop = "done" => client = "closed"

\* "Cancel all consumers": a shutdown closes the channel under no consumer that was in
\* the map when it began; only a tag that another one of its queue has replaced, and
\* registrations that race with the shutdown, are closed without having been cancelled.
ConsumersCancelledFirst ==
  [][ \A t \in Tags :
        stop' = "connection" /\ stop # "connection" /\ live[t] # None
        => \/ live[t].as # "mapped"
           \/ consumers[live[t].queue] # t ]_vars

\* handleConnectionFailure always returns, however often the broker hangs up meanwhile.
ReconnectReturns == reconnect \in Busy ~> reconnect \notin Busy

\* What a retry loop shows of handleConnectionFailure.
Round ==
  CASE reconnect \in Busy -> "busy"
    [] reconnect = "idle" -> "idle"
    [] reconnect = "reconnected" -> "ok"
    [] reconnect = "exhausted" -> "exhausted"

\* The loop of handleConnectionFailure is a retry loop of MaxAttempts tries.
RetryLoop == INSTANCE BoundedRetry WITH limit <- MaxAttempts, tries <- attempt, round <- Round

ReconnectIsBounded == RetryLoop!Spec
=============================================================================
