--------------------------- MODULE ConnectionProofs ---------------------------
(***************************************************************************)
(* Proofs about Connection, for every set of configurations, connections,  *)
(* tags and queues and every number of attempts: what is declared when the *)
(* service is used, which connections can be open, what a shutdown leaves  *)
(* behind, and that handleConnectionFailure is a bounded retry loop.       *)
(***************************************************************************)
EXTENDS Connection, TLAPS

\* How far the routines of the service can be at the same time.
Phases ==
  /\ main = "start" =>
       connection = None /\ channel = None /\ \A c \in Conns : link[c] = "closed"
  /\ main \in {"start", "failed"} => setup = "none"
  /\ main # "ready" => reconnect = "idle" /\ stop = "no" /\ ~initialized
  /\ main = "ready" /\ setup # "none" => reconnect = "setup"
  /\ reconnect \in Busy => connection # None /\ attempt < MaxAttempts
  /\ setup = "channel" => connection # None
  /\ setup \in Items => channel # None

TypeInv == TypeOK /\ Phases

-----------------------------------------------------------------------------
(* Connections.                                                            *)

\* A connection that changes its state takes its own consumers with it only.
LEMMA BecomesEffect ==
  ASSUME TypeOK, NEW c \in Conns, NEW state \in LinkState, Becomes(c, state)
  PROVE  /\ link' \in [Conns -> LinkState] /\ live' \in [Tags -> Consumer \cup {None}]
         /\ link'[c] = state /\ \A d \in Conns : d # c => link'[d] = link[d]
         /\ \A t \in Tags : live'[t] # None => live[t] # None /\ live'[t] = live[t] /\ live[t].on # c
BY DEF Becomes, On, TypeOK

-----------------------------------------------------------------------------
(* Types and phases.                                                       *)

LEMMA TypeInit == Init => TypeInv
<1> SUFFICES ASSUME Init PROVE TypeInv
  OBVIOUS
<1>1. attempt \in 0..MaxAttempts
  BY ConnectionAssumption DEF Init
<1>2. live \in [Tags -> Consumer \cup {None}] /\ consumers \in [Queues -> Tags \cup {None}]
  BY DEF Init
<1>3. link \in [Conns -> LinkState] /\ \A c \in Conns : link[c] = "closed"
  BY DEF Init, LinkState
<1>4. TypeOK
  BY <1>1, <1>2, <1>3 DEF Init, TypeOK
<1>5. Phases
  BY <1>3 DEF Init, Phases, Items, Busy
<1> QED BY <1>4, <1>5 DEF TypeInv

LEMMA SetupFailsTyped ==
  ASSUME TypeInv, SetupFails, setup # "none"
  PROVE  /\ main' \in {main, "failed"} /\ setup' = "none"
         /\ link' \in [Conns -> LinkState] /\ live' \in [Tags -> Consumer \cup {None}]
         /\ client' \in {client, "closed"}
         /\ attempt' \in 0..MaxAttempts
         /\ \/ /\ main = "setup" /\ main' = "failed" /\ UNCHANGED reconnectVars
               /\ link' = [c \in Conns |-> "closed"] /\ live' = [t \in Tags |-> None]
            \/ /\ main = "ready" /\ reconnect = "setup" /\ UNCHANGED << main, client, link, live >>
               /\ attempt' = attempt + 1
               /\ \/ reconnect' = "closing" /\ attempt' < MaxAttempts
                  \/ reconnect' = "exhausted" /\ attempt' = MaxAttempts
BY ConnectionAssumption
   DEF SetupFails, InitFails, TypeInv, TypeOK, Phases, reconnectVars, LinkState, Busy

LEMMA TypeStep == TypeInv /\ [Next]_vars => TypeInv'
<1> SUFFICES ASSUME TypeInv, [Next]_vars PROVE TypeInv'
  OBVIOUS
<1> USE DEF TypeInv, consumerVars, stopVars, reconnectVars, Busy, Items
<1>1. CASE ClientConnects
  BY <1>1 DEF ClientConnects, TypeOK, Phases
<1>2. CASE ClientFails
  BY <1>2 DEF ClientFails, InitFails, TypeOK, Phases, LinkState
<1>3. CASE Connect
  <2>1. CASE SetupFails /\ UNCHANGED connection
    <3>1. setup # "none"
      BY <1>3 DEF Connect
    <3>2. TypeOK'
      BY <1>3, <2>1, <3>1, SetupFailsTyped DEF Connect, TypeOK
    <3>3. Phases'
      BY <1>3, <2>1, <3>1, SetupFailsTyped, ConnectionAssumption DEF Connect, TypeOK, Phases
    <3> QED BY <3>2, <3>3
  <2>2. CASE Unused # {} /\ setup' = "channel"
    <3> DEFINE c == CHOOSE c \in Unused : TRUE
    <3>1. c \in Conns
      BY <2>2 DEF Unused
    <3>2. /\ link' = [link EXCEPT ![c] = "bare"] /\ connection' = c
          /\ UNCHANGED << main, client, live, reconnectVars >>
      BY <1>3, <2>2 DEF Connect, SetupFails, InitFails
    <3> HIDE DEF c
    <3>3. TypeOK' /\ main # "start" /\ main # "failed"
      BY <1>3, <2>2, <3>1, <3>2 DEF Connect, TypeOK, LinkState, Phases
    <3>4. Phases'
      BY <1>3, <2>2, <3>1, <3>2, <3>3, ConnectionAssumption DEF Connect, Phases
    <3> QED BY <3>3, <3>4
  <2> QED BY <1>3, <2>1, <2>2 DEF Connect
<1>4. CASE CreateChannel
  <2>1. CASE SetupFails /\ UNCHANGED channel
    <3>1. setup # "none"
      BY <1>4 DEF CreateChannel
    <3>2. TypeOK'
      BY <1>4, <2>1, <3>1, SetupFailsTyped DEF CreateChannel, TypeOK
    <3>3. Phases'
      BY <1>4, <2>1, <3>1, SetupFailsTyped, ConnectionAssumption DEF CreateChannel, TypeOK, Phases
    <3> QED BY <3>2, <3>3
  <2>2. CASE setup' = "exchanges"
    BY <1>4, <2>2, ConnectionAssumption DEF CreateChannel, SetupFails, InitFails, TypeOK, LinkState, Phases
  <2> QED BY <1>4, <2>1, <2>2 DEF CreateChannel
<1>5. CASE Declare
  <2>1. CASE SetupFails /\ UNCHANGED << initialized, declared >>
    <3>1. setup # "none"
      BY <1>5 DEF Declare
    <3>2. TypeOK'
      BY <1>5, <2>1, <3>1, SetupFailsTyped DEF Declare, TypeOK
    <3>3. Phases'
      BY <1>5, <2>1, <3>1, SetupFailsTyped, ConnectionAssumption DEF Declare, TypeOK, Phases
    <3> QED BY <3>2, <3>3
  <2>2. CASE IsOpen(channel)
    <3>1. CASE setup = "bindings"
      BY <1>5, <2>2, <3>1 DEF Declare, SetupSucceeds, TypeOK, Phases
    <3>2. CASE setup # "bindings"
      <4>1. setup \in {"exchanges", "queues"} /\ channel # None
        BY <1>5, <3>2 DEF Declare, Phases
      <4>2. /\ setup' \in {"queues", "bindings"} /\ declared' \in SUBSET Items
            /\ UNCHANGED << main, initialized, reconnect, client, link, live, attempt >>
        <5>1. After("exchanges") = "queues" /\ After("queues") = "bindings"
          BY DEF After
        <5>2. /\ setup' = After(setup) /\ declared' = declared \cup {setup}
              /\ UNCHANGED << main, initialized, reconnect, client, link, live, attempt >>
          BY <1>5, <2>2, <4>1 DEF Declare
        <5> QED BY <4>1, <5>1, <5>2 DEF TypeOK
      <4>3. TypeOK'
        BY <1>5, <4>2 DEF Declare, TypeOK
      <4>4. Phases'
        BY <1>5, <4>1, <4>2 DEF Declare, Phases
      <4> QED BY <4>3, <4>4
    <3> QED BY <3>1, <3>2
  <2> QED BY <1>5, <2>1, <2>2 DEF Declare
<1>6. ASSUME NEW q \in Queues, Consume(q) PROVE TypeInv'
  <2> DEFINE free == { t \in Tags : live[t] = None /\ \A p \in Queues : consumers[p] # t }
             t == CHOOSE t \in free : TRUE
             new == [queue |-> q, on |-> channel, as |-> "pending"]
  <2>1. t \in Tags /\ live' = [live EXCEPT ![t] = new]
    BY <1>6 DEF Consume
  <2>2. new \in Consumer
    BY <1>6 DEF Consume, IsOpen, TypeOK, Consumer
  <2> HIDE DEF t, new
  <2>3. live' \in [Tags -> Consumer \cup {None}]
    BY <2>1, <2>2 DEF TypeOK
  <2> QED BY <1>6, <2>3 DEF Consume, TypeOK, Phases
<1>7. ASSUME NEW t \in Tags, ConsumeReturns(t) PROVE TypeInv'
  <2>1. live[t] \in Consumer
    BY <1>7 DEF ConsumeReturns, TypeOK
  <2>2. /\ live' \in [Tags -> Consumer \cup {None}]
        /\ consumers' \in [Queues -> Tags \cup {None}]
    BY <1>7, <2>1 DEF ConsumeReturns, TypeOK, Consumer
  <2> QED BY <1>7, <2>2 DEF ConsumeReturns, TypeOK, Phases
<1>8. CASE ShutdownBegins
  BY <1>8 DEF ShutdownBegins, TypeOK, Phases
<1>9. ASSUME NEW q \in Queues, ShutdownCancels(q) PROVE TypeInv'
  <2>1. live' \in [Tags -> Consumer \cup {None}]
    BY <1>9 DEF ShutdownCancels, ShutdownFails, TypeOK
  <2> QED BY <1>9, <2>1 DEF ShutdownCancels, ShutdownFails, TypeOK, Phases
<1>10. CASE ShutdownClosesChannel
  <2>1. /\ link' \in [Conns -> LinkState] /\ live' \in [Tags -> Consumer \cup {None}]
    BY <1>10, BecomesEffect DEF ShutdownClosesChannel, ShutdownFails, IsOpen, TypeOK, LinkState
  <2>2. main = "ready"
    BY <1>10 DEF ShutdownClosesChannel, CancelledAll, Phases
  <2> QED BY <1>10, <2>1, <2>2 DEF ShutdownClosesChannel, ShutdownFails, TypeOK, Phases
<1>11. CASE ShutdownClosesConnection
  <2>1. /\ link' \in [Conns -> LinkState] /\ live' \in [Tags -> Consumer \cup {None}]
    BY <1>11, BecomesEffect DEF ShutdownClosesConnection, ShutdownFails, TypeOK, LinkState
  <2>2. main = "ready"
    BY <1>11 DEF ShutdownClosesConnection, Phases
  <2> QED BY <1>11, <2>1, <2>2 DEF ShutdownClosesConnection, ShutdownFails, TypeOK, Phases
<1>12. CASE ShutdownClosesClient
  BY <1>12 DEF ShutdownClosesClient, TypeOK, Phases
<1>13. CASE ReconnectBegins
  BY <1>13, ConnectionAssumption DEF ReconnectBegins, TypeOK, Phases
<1>14. CASE ReconnectClosesChannel
  <2>1. /\ link' \in [Conns -> LinkState] /\ live' \in [Tags -> Consumer \cup {None}]
    BY <1>14, BecomesEffect DEF ReconnectClosesChannel, IsOpen, TypeOK, LinkState
  <2> QED BY <1>14, <2>1 DEF ReconnectClosesChannel, TypeOK, Phases
<1>15. CASE ReconnectClosesConnection
  <2>1. connection \in Conns
    BY <1>15 DEF ReconnectClosesConnection, TypeOK, Phases
  <2>2. /\ link' \in [Conns -> LinkState] /\ live' \in [Tags -> Consumer \cup {None}]
    BY <1>15, <2>1, BecomesEffect DEF ReconnectClosesConnection, TypeOK, LinkState
  <2> QED BY <1>15, <2>2 DEF ReconnectClosesConnection, TypeOK, Phases
<1>16. CASE BackoffEnds
  BY <1>16 DEF BackoffEnds, TypeOK, Phases
<1>17. ASSUME NEW c \in Conns, BrokerCloses(c) PROVE TypeInv'
  <2>1. /\ link' \in [Conns -> LinkState] /\ live' \in [Tags -> Consumer \cup {None}]
        /\ link[c] # "closed"
    BY <1>17, BecomesEffect DEF BrokerCloses, LinkState, Alive
  <2> QED BY <1>17, <2>1 DEF BrokerCloses, TypeOK, Phases
<1>18. CASE UNCHANGED vars
  BY <1>18 DEF vars, TypeOK, Phases
<1> QED BY <1>1, <1>2, <1>3, <1>4, <1>5, <1>6, <1>7, <1>8, <1>9, <1>10, <1>11, <1>12,
           <1>13, <1>14, <1>15, <1>16, <1>17, <1>18
        DEF Next, SetupStep, ShutdownStep, ReconnectStep

LEMMA TypeInvCorrect == Spec => []TypeInv
BY TypeInit, TypeStep, PTL DEF Spec

\* The fields of the service, and what the broker has of it, have their types in every
\* reachable state; in particular the attempts of a reconnection never pass MaxAttempts.
THEOREM TypeCorrect == Spec => []TypeOK
BY TypeInvCorrect, PTL DEF TypeInv
-----------------------------------------------------------------------------
(* What is declared.                                                       *)

\* The loops of setupTopology run in their order and nothing is ever undeclared, so the
\* last one finishes the topology; a service that declares nothing has no channel.
Declared ==
  /\ setup \in {"queues", "bindings"} => "exchanges" \in declared
  /\ setup = "bindings" => "queues" \in declared
  /\ initialized => declared = Items \/ (connection = None /\ channel = None)

LEMMA DeclaredStep == TypeInv /\ Declared /\ [Next]_vars => Declared'
<1> SUFFICES ASSUME TypeInv, Declared, [Next]_vars PROVE Declared'
  OBVIOUS
<1> USE DEF TypeInv, reconnectVars
<1>1. CASE ClientConnects
  BY <1>1 DEF ClientConnects, Declared, Phases
<1>2. CASE ClientFails
  BY <1>2 DEF ClientFails, InitFails, Declared
<1>3. CASE Connect
  <2>1. setup' \in {"none", "channel"} /\ UNCHANGED << declared, initialized, channel >>
    BY <1>3 DEF Connect, SetupFails, InitFails
  <2>2. CASE initialized
    <3>1. main = "ready" /\ reconnect = "setup" /\ connection # None
      BY <1>3, <2>2 DEF Connect, Phases, TypeOK, Busy
    <3> QED BY <2>1, <3>1 DEF Declared
  <2> QED BY <2>1, <2>2 DEF Declared
<1>4. CASE CreateChannel
  <2>1. /\ setup' \in {"none", "exchanges"} /\ UNCHANGED << declared, initialized, connection >>
        /\ connection # None
    BY <1>4 DEF CreateChannel, SetupFails, InitFails, Phases
  <2> QED BY <2>1 DEF Declared
<1>5. CASE Declare
  <2>1. CASE ~IsOpen(channel)
    BY <1>5, <2>1 DEF Declare, SetupFails, InitFails, Declared
  <2>2. CASE IsOpen(channel) /\ setup = "bindings"
    <3>1. declared' = Items
      BY <1>5, <2>2 DEF Declare, Declared, TypeOK, Items
    <3>2. setup' = "none"
      BY <1>5, <2>2 DEF Declare, SetupSucceeds
    <3> QED BY <3>1, <3>2 DEF Declared
  <2>3. CASE IsOpen(channel) /\ setup # "bindings"
    <3>1. setup \in {"exchanges", "queues"} /\ setup' = After(setup) /\ UNCHANGED initialized
      BY <1>5, <2>3 DEF Declare, Items
    <3>2. After("exchanges") = "queues" /\ After("queues") = "bindings"
      BY DEF After
    <3>3. declared' = declared \cup {setup} /\ UNCHANGED << connection, channel >>
      BY <1>5, <2>3 DEF Declare
    <3>4. initialized => declared' = Items \/ (connection = None /\ channel = None)
      BY <3>1, <3>3 DEF Declared, Items
    <3> QED BY <3>1, <3>2, <3>3, <3>4 DEF Declared
  <2> QED BY <2>1, <2>2, <2>3
<1>6. CASE UNCHANGED << setup, declared, initialized, connection, channel >>
  BY <1>6 DEF Declared
<1>7. CASE BackoffEnds
  BY <1>7 DEF BackoffEnds, Declared, consumerVars
<1>8. ASSUME NEW q \in Queues, Consume(q) \/ ShutdownCancels(q)
      PROVE  UNCHANGED << setup, declared, initialized, connection, channel >>
  BY <1>8 DEF Consume, ShutdownCancels
<1>9. ASSUME NEW t \in Tags, ConsumeReturns(t)
      PROVE  UNCHANGED << setup, declared, initialized, connection, channel >>
  BY <1>9 DEF ConsumeReturns
<1>10. ASSUME NEW c \in Conns, BrokerCloses(c)
       PROVE  UNCHANGED << setup, declared, initialized, connection, channel >>
  BY <1>10 DEF BrokerCloses
<1>11. ASSUME \/ ShutdownBegins \/ ShutdownClosesChannel \/ ShutdownClosesConnection
              \/ ShutdownClosesClient \/ ReconnectBegins \/ ReconnectClosesChannel
              \/ ReconnectClosesConnection \/ UNCHANGED vars
       PROVE  UNCHANGED << setup, declared, initialized, connection, channel >>
  BY <1>11 DEF ShutdownBegins, ShutdownClosesChannel, ShutdownClosesConnection,
               ShutdownClosesClient, ReconnectBegins, ReconnectClosesChannel,
               ReconnectClosesConnection, vars
<1> QED BY <1>1, <1>2, <1>3, <1>4, <1>5, <1>6, <1>7, <1>8, <1>9, <1>10, <1>11
        DEF Next, SetupStep, ShutdownStep, ReconnectStep

\* Whoever passes ensureInitialized has the whole topology behind it, whatever the
\* configuration and however often the connection has been lost and set up again.
THEOREM ReadyMeansDeclaredCorrect == Spec => []ReadyMeansDeclared
<1>1. Init => Declared
  BY DEF Init, Declared
<1>2. Declared => ReadyMeansDeclared
  BY DEF Declared, ReadyMeansDeclared, EnsureInitialized
<1> QED BY <1>1, <1>2, TypeInvCorrect, DeclaredStep, PTL DEF Spec
-----------------------------------------------------------------------------
(* Which connections are open.                                             *)

\* Only this.channel is open, and not while the connection behind it is being replaced.
Channels ==
  /\ \A c \in Conns : link[c] = "open" => c = channel
  /\ reconnect \in {"closingConnection", "waiting"} \/ setup \in {"connect", "channel"}
       => \A c \in Conns : link[c] # "open"
  /\ stop = "no" => ~overlapped

\* Only this.connection is open, a connection without a channel is about to get one or to
\* be closed, and nothing is open where amqp.connect runs or the service has stopped.
Connections ==
  ~overlapped =>
    /\ \A c \in Conns : link[c] # "closed" => c = connection
    /\ \A c \in Conns : link[c] = "bare" =>
         setup = "channel" \/ reconnect = "closingConnection" \/ stop = "connection"
    /\ stop # "no" => reconnect \notin Busy
    /\ reconnect = "waiting" \/ setup = "connect" \/ main = "failed" \/ stop \in {"client", "done", "error"}
         => \A c \in Conns : link[c] = "closed"

LinkInv == Channels /\ Connections

LEMMA LinkStep == TypeInv /\ LinkInv /\ [Next]_vars => LinkInv'
<1> SUFFICES ASSUME TypeInv, LinkInv, [Next]_vars PROVE LinkInv'
  OBVIOUS
<1> USE DEF TypeInv, LinkInv, stopVars, reconnectVars, consumerVars
<1> DEFINE linkVars == << link, connection, channel, main, setup, reconnect, stop, overlapped >>
<1>1. CASE ClientConnects
  <2>1. \A c \in Conns : link[c] = "closed"
    BY <1>1 DEF ClientConnects, Phases
  <2>2. stop = "no" /\ reconnect = "idle" /\ UNCHANGED << link, stop, reconnect, overlapped >>
    BY <1>1 DEF ClientConnects, Phases
  <2> QED BY <2>1, <2>2 DEF Channels, Connections, Busy
<1>2. CASE ClientFails
  <2>1. \A c \in Conns : link'[c] = "closed"
    BY <1>2 DEF ClientFails, InitFails
  <2>2. stop = "no" /\ reconnect = "idle" /\ UNCHANGED << stop, reconnect, overlapped >>
    BY <1>2 DEF ClientFails, Phases
  <2> QED BY <2>1, <2>2 DEF Channels, Connections, Busy
<1>3. CASE Connect
  <2>1. /\ setup = "connect" /\ UNCHANGED << channel, stop, overlapped >>
        /\ \A c \in Conns : link[c] # "open"
    BY <1>3 DEF Connect, Channels
  <2>2. CASE SetupFails /\ UNCHANGED connection
    <3>1. /\ setup' = "none" /\ \A c \in Conns : link'[c] = link[c] \/ link'[c] = "closed"
          /\ \/ reconnect' = reconnect /\ main = "setup"
             \/ reconnect' \in {"closing", "exhausted"} /\ reconnect = "setup"
      BY <2>1, <2>2, SetupFailsTyped
    <3>2. Channels'
      BY <2>1, <2>2, <3>1 DEF Channels, Phases
    <3>3. Connections'
      BY <2>1, <2>2, <3>1 DEF Connections, Phases, Busy
    <3> QED BY <3>2, <3>3
  <2>3. CASE Unused # {} /\ setup' = "channel"
    <3> DEFINE c == CHOOSE c \in Unused : TRUE
    <3>1. c \in Conns
      BY <2>3 DEF Unused
    <3>2. /\ link' = [link EXCEPT ![c] = "bare"] /\ connection' = c
          /\ UNCHANGED << main, reconnect >>
      BY <1>3, <2>3 DEF Connect, SetupFails, InitFails
    <3> HIDE DEF c
    <3>3. link'[c] = "bare" /\ \A d \in Conns : d # c => link'[d] = link[d]
      BY <3>1, <3>2 DEF TypeOK
    <3>4. reconnect \in {"setup", "idle"} /\ main # "failed"
      BY <2>1, <3>2 DEF Phases, TypeOK
    <3>5. Channels'
      BY <2>1, <2>3, <3>2, <3>3 DEF Channels
    <3>6. Connections'
      <4> SUFFICES ASSUME ~overlapped PROVE Connections'
        BY <2>1 DEF Connections
      <4>1. stop \notin {"client", "done", "error"}
        BY <2>1, <3>4 DEF Connections, Phases, Busy, TypeOK
      <4> QED BY <2>1, <2>3, <3>2, <3>3, <3>4, <4>1 DEF Connections
    <3> QED BY <3>5, <3>6
  <2> QED BY <1>3, <2>2, <2>3 DEF Connect
<1>4. CASE CreateChannel
  <2>1. /\ setup = "channel" /\ UNCHANGED << connection, stop, overlapped >>
        /\ \A c \in Conns : link[c] # "open"
        /\ connection \in Conns
    BY <1>4 DEF CreateChannel, Channels, Phases, TypeOK
  <2>2. CASE link[connection] = "closed" /\ SetupFails /\ UNCHANGED channel
    <3>1. /\ setup' = "none" /\ \A c \in Conns : link'[c] = link[c] \/ link'[c] = "closed"
          /\ main' = "failed" => \A c \in Conns : link'[c] = "closed"
          /\ \/ reconnect' = reconnect /\ main = "setup"
             \/ reconnect' \in {"closing", "exhausted"} /\ reconnect = "setup"
      BY <2>1, <2>2, SetupFailsTyped
    <3>2. Channels'
      BY <2>1, <2>2, <3>1 DEF Channels, Phases
    <3>3. ~overlapped => \A c \in Conns : link'[c] = "closed"
      BY <2>1, <2>2, <3>1 DEF Connections, TypeOK, LinkState
    <3>4. ~overlapped => stop = "no" \/ reconnect' \notin Busy
      BY <2>1, <3>1 DEF Connections, Phases, Busy
    <3> QED BY <2>1, <2>2, <3>1, <3>2, <3>3, <3>4 DEF Connections
  <2>3. CASE setup' = "exchanges"
    <3>1. /\ link' = [link EXCEPT ![connection] = "open"] /\ channel' = connection
          /\ UNCHANGED << main, reconnect >>
      BY <1>4, <2>3 DEF CreateChannel, SetupFails, InitFails
    <3>2. link'[connection] = "open" /\ \A d \in Conns : d # connection => link'[d] = link[d]
      BY <2>1, <3>1 DEF TypeOK
    <3>3. reconnect \in {"setup", "idle"} /\ main # "failed"
      BY <2>1 DEF Phases, TypeOK
    <3>4. Channels'
      BY <2>1, <2>3, <3>1, <3>2, <3>3 DEF Channels
    <3>5. Connections'
      <4> SUFFICES ASSUME ~overlapped PROVE Connections'
        BY <2>1 DEF Connections
      <4>1. stop \notin {"client", "done", "error"}
        BY <2>1, <3>3 DEF Connections, Phases, Busy, TypeOK
      <4> QED BY <2>1, <2>3, <3>1, <3>2, <3>3, <4>1 DEF Connections
    <3> QED BY <3>4, <3>5
  <2> QED BY <1>4, <2>2, <2>3 DEF CreateChannel
<1>5. CASE Declare
  <2>1. /\ setup \in Items /\ UNCHANGED << connection, channel, stop, overlapped >>
        /\ main \in {"setup", "ready"} /\ reconnect \in {"setup", "idle"}
    BY <1>5 DEF Declare, Phases, TypeOK, Items
  <2>2. CASE IsOpen(channel)
    <3>1. /\ UNCHANGED link /\ setup' \in Items \cup {"none"}
          /\ main' \in {"setup", "ready"}
          /\ reconnect' = reconnect \/ reconnect' = "reconnected"
      BY <1>5, <2>1, <2>2 DEF Declare, SetupSucceeds, After, Items
    <3>2. Channels'
      BY <2>1, <3>1 DEF Channels, Items
    <3>3. ~overlapped => /\ \A c \in Conns : link[c] # "bare"
                         /\ stop = "no" \/ reconnect' \notin Busy
                         /\ stop \notin {"client", "done", "error"}
      <4>1. ~overlapped => stop = "no"
        BY <2>1 DEF Connections, Busy, Phases, Items
      <4> QED BY <2>1, <4>1 DEF Connections, Items
    <3> QED BY <2>1, <3>1, <3>2, <3>3 DEF Connections, Items
  <2>3. CASE ~IsOpen(channel) /\ SetupFails
    <3>1. /\ setup' = "none" /\ \A c \in Conns : link'[c] = link[c] \/ link'[c] = "closed"
          /\ \/ reconnect' = reconnect /\ main = "setup"
             \/ reconnect' \in {"closing", "exhausted"} /\ reconnect = "setup"
      BY <2>1, <2>3, SetupFailsTyped DEF Items
    <3>2. \A c \in Conns : link[c] # "open"
      BY <2>3, ConnectionAssumption DEF IsOpen, Channels
    <3>3. Channels'
      BY <2>1, <3>1, <3>2 DEF Channels
    <3>4. ~overlapped => stop = "no"
      BY <2>1 DEF Connections, Busy, Phases, Items
    <3>5. ~overlapped => \A c \in Conns : link'[c] = "closed"
      BY <2>1, <3>1, <3>2, <3>4 DEF Connections, TypeOK, LinkState, Items
    <3> QED BY <2>1, <3>1, <3>3, <3>4, <3>5 DEF Connections
  <2> QED BY <1>5, <2>2, <2>3 DEF Declare
<1>6. CASE ShutdownBegins
  BY <1>6 DEF ShutdownBegins, Channels, Connections, Busy
<1>7. ASSUME NEW q \in Queues, ShutdownCancels(q) PROVE LinkInv'
  <2>1. CASE UNCHANGED linkVars
    BY <2>1 DEF Channels, Connections
  <2>2. CASE ~IsOpen(channel) /\ ShutdownFails
    <3>1. /\ stop = "cancel" /\ stop' = "error" /\ main = "ready"
          /\ UNCHANGED << link, connection, channel, main, setup, reconnect, overlapped >>
      BY <1>7, <2>2 DEF ShutdownCancels, ShutdownFails, Phases
    <3>2. \A c \in Conns : link[c] # "open"
      BY <2>2, ConnectionAssumption DEF IsOpen, Channels
    <3>3. ~overlapped => reconnect \notin Busy /\ setup = "none"
      BY <3>1 DEF Connections, Phases, Busy
    <3>4. ~overlapped => \A c \in Conns : link[c] = "closed"
      BY <3>1, <3>2, <3>3 DEF Connections, TypeOK, LinkState, Busy
    <3> QED BY <3>1, <3>3, <3>4 DEF Channels, Connections
  <2> QED BY <1>7, <2>1, <2>2 DEF ShutdownCancels
<1>8. CASE ShutdownClosesChannel
  <2>1. /\ stop \in {"cancel", "channel"} /\ main = "ready"
        /\ UNCHANGED << connection, channel, main, setup, reconnect, overlapped >>
    BY <1>8 DEF ShutdownClosesChannel, CancelledAll, Phases
  <2>2. ~overlapped => reconnect \notin Busy /\ setup = "none"
    BY <2>1 DEF Connections, Phases, Busy
  <2>3. CASE stop' = "connection" /\ UNCHANGED link
    BY <2>1, <2>2, <2>3 DEF Channels, Connections
  <2>4. CASE IsOpen(channel) /\ Becomes(channel, "bare") /\ stop' = "connection"
    <3>1. channel \in Conns
      BY <2>4 DEF IsOpen, TypeOK
    <3>2. link'[channel] = "bare" /\ \A d \in Conns : d # channel => link'[d] = link[d]
      BY <2>4, <3>1, BecomesEffect DEF LinkState
    <3>3. Channels'
      BY <2>1, <2>4, <3>2 DEF Channels
    <3>4. Connections'
      BY <2>1, <2>2, <2>4, <3>2 DEF Connections, IsOpen, Busy
    <3> QED BY <3>3, <3>4
  <2>5. CASE channel # None /\ ~IsOpen(channel) /\ ShutdownFails
    <3>1. \A c \in Conns : link[c] # "open"
      BY <2>5, ConnectionAssumption DEF IsOpen, Channels
    <3>2. ~overlapped => \A c \in Conns : link[c] = "closed"
      BY <2>1, <2>2, <3>1 DEF Connections, TypeOK, LinkState, Busy
    <3> QED BY <2>1, <2>2, <2>5, <3>1, <3>2 DEF Channels, Connections, ShutdownFails
  <2> QED BY <1>8, <2>3, <2>4, <2>5 DEF ShutdownClosesChannel
<1>9. CASE ShutdownClosesConnection
  <2>1. /\ stop = "connection" /\ main = "ready" /\ stop' \in {"client", "error"}
        /\ UNCHANGED << connection, channel, main, setup, reconnect, overlapped >>
    BY <1>9 DEF ShutdownClosesConnection, ShutdownFails, Phases
  <2>2. ~overlapped => reconnect \notin Busy /\ setup = "none"
    BY <2>1 DEF Connections, Phases, Busy
  <2>3. /\ \A c \in Conns : link'[c] = link[c] \/ link'[c] = "closed"
        /\ connection \in Conns => link'[connection] = "closed"
    BY <1>9, <2>1, BecomesEffect, ConnectionAssumption
       DEF ShutdownClosesConnection, ShutdownFails, TypeOK, LinkState
  <2>4. ~overlapped => \A c \in Conns : link'[c] = "closed"
    BY <2>3 DEF Connections
  <2> QED BY <2>1, <2>2, <2>3, <2>4 DEF Channels, Connections
<1>10. CASE ShutdownClosesClient
  BY <1>10 DEF ShutdownClosesClient, Channels, Connections
<1>11. CASE ReconnectBegins
  BY <1>11 DEF ReconnectBegins, Channels, Connections, Busy, Phases
<1>12. CASE ReconnectClosesChannel
  <2>1. /\ reconnect = "closing" /\ main = "ready" /\ setup = "none"
        /\ UNCHANGED << connection, channel, main, setup, stop, overlapped >>
    BY <1>12 DEF ReconnectClosesChannel, Phases
  <2>2. ~overlapped => stop = "no"
    BY <2>1 DEF Connections, Busy
  <2>3. CASE IsOpen(channel) /\ Becomes(channel, "bare") /\ reconnect' = "closingConnection"
    <3>1. channel \in Conns
      BY <2>3 DEF IsOpen, TypeOK
    <3>2. link'[channel] = "bare" /\ \A d \in Conns : d # channel => link'[d] = link[d]
      BY <2>3, <3>1, BecomesEffect DEF LinkState
    <3>3. Channels'
      BY <2>1, <2>3, <3>2 DEF Channels
    <3>4. Connections'
      BY <2>1, <2>2, <2>3, <3>2 DEF Connections, IsOpen
    <3> QED BY <3>3, <3>4
  <2>4. CASE ~IsOpen(channel) /\ reconnect' = "waiting" /\ UNCHANGED link
    <3>1. \A c \in Conns : link[c] # "open"
      BY <2>4, ConnectionAssumption DEF IsOpen, Channels
    <3>2. ~overlapped => \A c \in Conns : link[c] = "closed"
      BY <2>1, <2>2, <3>1 DEF Connections, TypeOK, LinkState
    <3> QED BY <2>1, <2>2, <2>4, <3>1, <3>2 DEF Channels, Connections
  <2> QED BY <1>12, <2>3, <2>4 DEF ReconnectClosesChannel
<1>13. CASE ReconnectClosesConnection
  <2>1. /\ reconnect = "closingConnection" /\ main = "ready" /\ reconnect' = "waiting"
        /\ setup = "none" /\ connection \in Conns
        /\ UNCHANGED << connection, channel, main, setup, stop, overlapped >>
    BY <1>13 DEF ReconnectClosesConnection, Phases, Busy, TypeOK
  <2>2. ~overlapped => stop = "no"
    BY <2>1 DEF Connections, Busy
  <2>3. /\ \A c \in Conns : link'[c] = link[c] \/ link'[c] = "closed"
        /\ link'[connection] = "closed"
    BY <1>13, <2>1, BecomesEffect DEF ReconnectClosesConnection, TypeOK, LinkState, Alive
  <2>4. ~overlapped => \A c \in Conns : link'[c] = "closed"
    BY <2>1, <2>3 DEF Connections
  <2> QED BY <2>1, <2>2, <2>3, <2>4 DEF Channels, Connections
<1>14. CASE BackoffEnds
  <2>1. reconnect = "waiting" /\ reconnect' = "setup" /\ setup' = "connect" /\ main = "ready"
    BY <1>14 DEF BackoffEnds, Phases
  <2> QED BY <1>14, <2>1 DEF BackoffEnds, Channels, Connections, Busy
<1>15. ASSUME NEW c \in Conns, BrokerCloses(c) PROVE LinkInv'
  <2>1. \A d \in Conns : link'[d] = link[d] \/ link'[d] = "closed"
    BY <1>15, BecomesEffect DEF BrokerCloses, LinkState
  <2> QED BY <1>15, <2>1 DEF BrokerCloses, Channels, Connections
<1>16. CASE UNCHANGED linkVars
  BY <1>16 DEF Channels, Connections
<1>17. ASSUME NEW q \in Queues, Consume(q) PROVE UNCHANGED linkVars
  BY <1>17 DEF Consume
<1>18. ASSUME NEW t \in Tags, ConsumeReturns(t) PROVE UNCHANGED linkVars
  BY <1>18 DEF ConsumeReturns
<1>19. UNCHANGED vars => UNCHANGED linkVars
  BY DEF vars
<1> QED BY <1>1, <1>2, <1>3, <1>4, <1>5, <1>6, <1>7, <1>8, <1>9, <1>10, <1>11, <1>12,
           <1>13, <1>14, <1>15, <1>16, <1>17, <1>18, <1>19
        DEF Next, SetupStep, ShutdownStep, ReconnectStep

LEMMA LinkInvCorrect == Spec => []LinkInv
<1>1. Init => LinkInv
  BY DEF Init, LinkInv, Channels, Connections, Busy
<1> QED BY <1>1, TypeInvCorrect, LinkStep, PTL DEF Spec

\* Failed attempts, closes that throw and a broker that hangs up at any step leave no
\* second direct connection behind, unless a shutdown overlaps a reconnection.
THEOREM OneDirectConnectionCorrect == Spec => []OneDirectConnection
<1>1. LinkInv => OneDirectConnection
  BY DEF LinkInv, Connections, OneDirectConnection, Alive
<1> QED BY <1>1, LinkInvCorrect, PTL

\* A shutdown that did not overlap a reconnection leaves no direct connection open, also
\* when one of its calls failed; one that completes closes the Nest client.
THEOREM ShutdownReleasesCorrect == Spec => []ShutdownReleases
<1> DEFINE ClientClosed == stop = "done" => client = "closed"
<1>1. Init => ClientClosed
  BY DEF Init
<1>2. TypeInv /\ ClientClosed /\ [Next]_vars => ClientClosed'
  <2> SUFFICES ASSUME TypeInv, ClientClosed, [Next]_vars PROVE ClientClosed'
    OBVIOUS
  <2>1. CASE UNCHANGED << stop, client >>
    BY <2>1
  <2>2. CASE main # "ready" /\ UNCHANGED stop
    BY <2>2 DEF TypeInv, Phases
  <2>3. CASE stop' # "done" \/ client' = "closed"
    BY <2>3
  <2>4. CASE SetupStep
    <3>1. UNCHANGED stop /\ (client' = client \/ main = "setup")
      BY <2>4 DEF SetupStep, Connect, CreateChannel, Declare, SetupFails, InitFails, stopVars
    <3> QED BY <2>1, <2>2, <3>1
  <2>5. CASE ClientConnects \/ ClientFails
    BY <2>2, <2>5 DEF ClientConnects, ClientFails, stopVars
  <2>6. ASSUME NEW q \in Queues, Consume(q) PROVE ClientClosed'
    BY <2>1, <2>6 DEF Consume, stopVars
  <2>7. ASSUME NEW t \in Tags, ConsumeReturns(t) PROVE ClientClosed'
    BY <2>1, <2>7 DEF ConsumeReturns, stopVars
  <2>8. ASSUME NEW q \in Queues, ShutdownCancels(q) PROVE ClientClosed'
    BY <2>1, <2>3, <2>8 DEF ShutdownCancels, ShutdownFails
  <2>9. CASE ShutdownBegins \/ ShutdownClosesChannel \/ ShutdownClosesConnection \/ ShutdownClosesClient
    BY <2>3, <2>9 DEF ShutdownBegins, ShutdownClosesChannel, ShutdownClosesConnection,
                      ShutdownClosesClient, ShutdownFails
  <2>10. CASE ReconnectBegins \/ ReconnectStep
    BY <2>1, <2>10 DEF ReconnectBegins, ReconnectStep, ReconnectClosesChannel,
                       ReconnectClosesConnection, BackoffEnds, stopVars
  <2>11. ASSUME NEW c \in Conns, BrokerCloses(c) PROVE ClientClosed'
    BY <2>1, <2>11 DEF BrokerCloses, stopVars
  <2>12. CASE UNCHANGED vars
    BY <2>1, <2>12 DEF vars, stopVars
  <2> QED BY <2>4, <2>5, <2>6, <2>7, <2>8, <2>9, <2>10, <2>11, <2>12 DEF Next, ShutdownStep
<1>3. LinkInv /\ ClientClosed => ShutdownReleases
  BY DEF LinkInv, Connections, ShutdownReleases, Alive
<1> QED BY <1>1, <1>2, <1>3, TypeInvCorrect, LinkInvCorrect, PTL DEF Spec
-----------------------------------------------------------------------------
(* What a shutdown does to the consumers.                                  *)

\* The map holds t for its queue, and t was in it before the shutdown began.
Registered(t) == live[t] # None /\ live[t].as = "mapped" /\ consumers[live[t].queue] = t

\* A consumer lives on an open channel only, and the loop of the shutdown has cancelled
\* what the map has for the queues it has seen.
Cancelled ==
  /\ \A t \in Tags : live[t] # None => link[live[t].on] = "open"
  /\ stop = "no" => visited = {}
  /\ stop = "cancel" => \A t \in Tags : Registered(t) => live[t].queue \notin visited
  /\ stop = "channel" => \A t \in Tags : ~Registered(t)

\* Every change of a connection that is not the opening of its channel keeps Cancelled.
LEMMA BecomesCancelled ==
  ASSUME TypeInv, Cancelled, NEW c \in Conns, NEW state \in LinkState, Becomes(c, state),
         UNCHANGED << consumers, visited >>,
         stop' \in {stop, "connection", "client"}
  PROVE  Cancelled'
<1>1. /\ \A d \in Conns : d # c => link'[d] = link[d]
      /\ \A t \in Tags : live'[t] # None => live[t] # None /\ live'[t] = live[t] /\ live[t].on # c
  BY BecomesEffect DEF TypeInv
<1>2. \A t \in Tags : live[t] # None => live[t].on \in Conns
  BY DEF TypeInv, TypeOK, Consumer
<1> QED BY <1>1, <1>2 DEF Cancelled, Registered

LEMMA CancelledStep == TypeInv /\ LinkInv /\ Cancelled /\ [Next]_vars => Cancelled'
<1> SUFFICES ASSUME TypeInv, LinkInv, Cancelled, [Next]_vars PROVE Cancelled'
  OBVIOUS
<1> USE DEF TypeInv, stopVars, reconnectVars, consumerVars
<1> DEFINE cancelVars == << link, live, consumers, stop, visited >>
<1>0. \A t \in Tags : live[t] # None => live[t] \in Consumer /\ live[t].on \in Conns /\ live[t].queue \in Queues
  BY DEF TypeOK, Consumer
<1>1. CASE UNCHANGED cancelVars
  BY <1>1 DEF Cancelled, Registered
<1>2. CASE ClientConnects \/ ShutdownClosesClient \/ ReconnectBegins \/ BackoffEnds \/ UNCHANGED vars
  BY <1>2 DEF ClientConnects, ShutdownClosesClient, ReconnectBegins, BackoffEnds, vars, Cancelled, Registered
<1>3. CASE ClientFails
  <2>1. stop = "no" /\ UNCHANGED << stop, visited >> /\ \A t \in Tags : live'[t] = None
    BY <1>3 DEF ClientFails, InitFails, Phases
  <2> QED BY <2>1 DEF Cancelled
<1>4. ASSUME SetupFails, UNCHANGED << stop, visited, consumers >>, setup # "none" PROVE Cancelled'
  <2>1. CASE UNCHANGED << link, live >>
    BY <1>1, <1>4, <2>1
  <2>2. CASE main = "setup" /\ live' = [t \in Tags |-> None]
    BY <1>4, <2>2 DEF Cancelled, Phases
  <2> QED BY <1>4, <2>1, <2>2, SetupFailsTyped
<1>5. CASE Connect
  <2>1. CASE SetupFails
    BY <1>4, <1>5, <2>1 DEF Connect
  <2>2. CASE Unused # {} /\ link' = [link EXCEPT ![CHOOSE c \in Unused : TRUE] = "bare"] /\ UNCHANGED live
    <3> DEFINE c == CHOOSE c \in Unused : TRUE
    <3>1. c \in Conns /\ link[c] = "closed"
      BY <2>2 DEF Unused
    <3>2. link' = [link EXCEPT ![c] = "bare"]
      BY <2>2
    <3> HIDE DEF c
    <3>3. \A d \in Conns : link[d] = "open" => link'[d] = "open"
      BY <3>1, <3>2 DEF TypeOK
    <3> QED BY <1>0, <1>5, <2>2, <3>3 DEF Connect, Cancelled, Registered
  <2> QED BY <1>5, <2>1, <2>2 DEF Connect
<1>6. CASE CreateChannel
  <2>1. CASE SetupFails
    BY <1>4, <1>6, <2>1 DEF CreateChannel
  <2>2. CASE link' = [link EXCEPT ![connection] = "open"] /\ UNCHANGED live
    <3>1. \A d \in Conns : link[d] = "open" => link'[d] = "open"
      BY <2>2 DEF TypeOK
    <3> QED BY <1>0, <1>6, <2>2, <3>1 DEF CreateChannel, Cancelled, Registered
  <2> QED BY <1>6, <2>1, <2>2 DEF CreateChannel
<1>7. CASE Declare
  <2>1. CASE SetupFails
    <3>1. setup # "none" /\ UNCHANGED << stop, visited, consumers >>
      BY <1>7 DEF Declare, Items
    <3> QED BY <1>4, <2>1, <3>1
  <2>2. CASE UNCHANGED << link, live >>
    BY <1>1, <1>7, <2>2 DEF Declare
  <2> QED BY <1>7, <2>1, <2>2 DEF Declare
<1>8. ASSUME NEW q \in Queues, Consume(q) PROVE Cancelled'
  <2>1. PICK t \in Tags : live' = [live EXCEPT ![t] = [queue |-> q, on |-> channel, as |-> "pending"]]
    BY <1>8 DEF Consume
  <2>2. link[channel] = "open" /\ UNCHANGED << link, consumers, stop, visited >>
    BY <1>8 DEF Consume, IsOpen
  <2>3. /\ live'[t].on = channel /\ live'[t].as = "pending"
        /\ \A s \in Tags : s # t => live'[s] = live[s]
    BY <2>1 DEF TypeOK
  <2>4. ~Registered(t)' /\ \A s \in Tags : s # t => (Registered(s)' <=> Registered(s))
    BY <2>2, <2>3 DEF Registered
  <2> QED BY <2>2, <2>3, <2>4 DEF Cancelled
<1>9. ASSUME NEW t \in Tags, ConsumeReturns(t) PROVE Cancelled'
  <2>1. /\ live[t] # None /\ live[t] \in Consumer /\ live[t].queue \in Queues
        /\ consumers' = [consumers EXCEPT ![live[t].queue] = t]
        /\ UNCHANGED << link, stop, visited >>
    BY <1>0, <1>9 DEF ConsumeReturns
  <2>2. /\ live'[t].on = live[t].on /\ live'[t].queue = live[t].queue
        /\ stop # "no" => live'[t].as # "mapped"
        /\ \A s \in Tags : s # t => live'[s] = live[s]
    BY <1>9, <2>1 DEF ConsumeReturns, TypeOK, Consumer
  <2>3. \A s \in Tags : s # t /\ Registered(s)' => Registered(s)
    BY <1>0, <2>1, <2>2 DEF Registered, TypeOK
  <2> QED BY <2>1, <2>2, <2>3 DEF Cancelled, Registered
<1>10. CASE ShutdownBegins
  <2>1. UNCHANGED << link, consumers, live, visited >> /\ stop = "no" /\ visited = {}
    BY <1>10 DEF ShutdownBegins, Cancelled
  <2>2. CASE stop' = "cancel"
    BY <2>1, <2>2 DEF Cancelled
  <2>3. CASE stop' = "channel" /\ (channel = None \/ Mapped = {})
    <3>1. \A t \in Tags : ~Registered(t)
      BY <1>0, <2>3, ConnectionAssumption DEF Cancelled, LinkInv, Channels, Mapped, Registered
    <3> QED BY <2>1, <2>3, <3>1 DEF Cancelled, Registered
  <2> QED BY <1>10, <2>2, <2>3 DEF ShutdownBegins
<1>11. ASSUME NEW q \in Queues, ShutdownCancels(q) PROVE Cancelled'
  <2>1. stop = "cancel" /\ consumers[q] \in Tags /\ UNCHANGED << consumers, link >>
    BY <1>11 DEF ShutdownCancels, ShutdownFails, Mapped, TypeOK
  <2>2. CASE ShutdownFails
    BY <2>1, <2>2 DEF ShutdownFails, Cancelled
  <2>3. CASE IsOpen(channel) /\ visited' = visited \cup {q} /\ UNCHANGED stop
    <3> DEFINE t == consumers[q]
    <3>1. live' = [live EXCEPT ![t] = IF t \in On(channel) THEN None ELSE @]
      BY <1>11, <2>3 DEF ShutdownCancels, ShutdownFails
    <3>2. t \in Tags /\ (live[t] # None => t \in On(channel))
      BY <1>0, <2>1 DEF On, Cancelled, LinkInv, Channels
    <3> HIDE DEF t
    <3>3. live'[t] = None /\ \A s \in Tags : s # t => live'[s] = live[s]
      BY <3>1, <3>2 DEF On, TypeOK
    <3>4. \A s \in Tags : Registered(s)' => s # t /\ Registered(s)
      BY <2>1, <3>3 DEF Registered
    <3>5. \A s \in Tags : s # t /\ Registered(s) => live[s].queue # q
      BY DEF Registered, t
    <3> QED BY <2>1, <2>3, <3>3, <3>4, <3>5 DEF Cancelled
  <2> QED BY <1>11, <2>2, <2>3 DEF ShutdownCancels
<1>12. CASE ShutdownClosesChannel \/ ShutdownClosesConnection
  <2>1. UNCHANGED << consumers, visited >> /\ stop' \in {"connection", "client", "error"}
    BY <1>12 DEF ShutdownClosesChannel, ShutdownClosesConnection, ShutdownFails
  <2>2. CASE UNCHANGED << link, live >>
    BY <2>1, <2>2 DEF Cancelled
  <2>3. CASE IsOpen(channel) /\ Becomes(channel, "bare") /\ stop' = "connection"
    BY <2>1, <2>3, BecomesCancelled DEF IsOpen, TypeOK, LinkState
  <2>4. CASE connection # None /\ Becomes(connection, "closed") /\ stop' = "client"
    BY <2>1, <2>4, BecomesCancelled DEF TypeOK, LinkState
  <2> QED BY <1>12, <2>2, <2>3, <2>4 DEF ShutdownClosesChannel, ShutdownClosesConnection, ShutdownFails
<1>13. CASE ReconnectClosesChannel \/ ReconnectClosesConnection
  <2>1. UNCHANGED << consumers, visited, stop >> /\ (reconnect = "closingConnection" => connection \in Conns)
    BY <1>13 DEF ReconnectClosesChannel, ReconnectClosesConnection, Phases, Busy, TypeOK
  <2>2. CASE UNCHANGED << link, live >>
    BY <1>1, <2>1, <2>2
  <2>3. CASE IsOpen(channel) /\ Becomes(channel, "bare")
    BY <2>1, <2>3, BecomesCancelled DEF IsOpen, TypeOK, LinkState
  <2>4. CASE reconnect = "closingConnection" /\ Becomes(connection, "closed")
    BY <2>1, <2>4, BecomesCancelled DEF LinkState
  <2> QED BY <1>13, <2>2, <2>3, <2>4 DEF ReconnectClosesChannel, ReconnectClosesConnection
<1>14. ASSUME NEW c \in Conns, BrokerCloses(c) PROVE Cancelled'
  BY <1>14, BecomesCancelled DEF BrokerCloses, LinkState
<1> QED BY <1>2, <1>3, <1>5, <1>6, <1>7, <1>8, <1>9, <1>10, <1>11, <1>12, <1>13, <1>14
        DEF Next, SetupStep, ShutdownStep, ReconnectStep

\* A step to "connection" that some consumer of the map survives uncancelled is not one
\* of the shutdown's: with the loop over, or with nothing to loop over, none is left.
THEOREM ConsumersCancelledFirstCorrect == Spec => ConsumersCancelledFirst
<1> DEFINE Kept == \A t \in Tags :
      stop' = "connection" /\ stop # "connection" /\ live[t] # None
      => \/ live[t].as # "mapped"
         \/ consumers[live[t].queue] # t
<1>1. Init => Cancelled
  <2> SUFFICES ASSUME Init PROVE Cancelled
    OBVIOUS
  <2>1. \A t \in Tags : live[t] = None
    BY DEF Init
  <2> QED BY <2>1 DEF Init, Cancelled
<1>2. TypeInv /\ Cancelled /\ [Next]_vars => Kept
  <2> SUFFICES ASSUME TypeInv, Cancelled, [Next]_vars, stop' = "connection", stop # "connection",
                      NEW t \in Tags, Registered(t)
               PROVE  FALSE
    BY DEF Registered
  <2>1. ShutdownClosesChannel
    BY DEF Next, SetupStep, ShutdownStep, ReconnectStep, vars, ClientConnects, ClientFails, Connect,
           CreateChannel, Declare, Consume, ConsumeReturns, ShutdownBegins, ShutdownCancels,
           ShutdownFails, ShutdownClosesConnection, ShutdownClosesClient, ReconnectBegins,
           ReconnectClosesChannel, ReconnectClosesConnection, BackoffEnds, BrokerCloses, stopVars
  <2>2. stop = "cancel" /\ Mapped \subseteq visited
    BY <2>1 DEF ShutdownClosesChannel, CancelledAll, Cancelled
  <2>3. live[t].queue \in Mapped
    BY ConnectionAssumption DEF Registered, Mapped, TypeInv, TypeOK, Consumer
  <2> QED BY <2>2, <2>3 DEF Cancelled
<1>3. Spec => []Cancelled
  BY <1>1, TypeInvCorrect, LinkInvCorrect, CancelledStep, PTL DEF Spec
<1> QED BY <1>2, <1>3, TypeInvCorrect, PTL DEF Spec, ConsumersCancelledFirst
-----------------------------------------------------------------------------
(* handleConnectionFailure implements BoundedRetry.                        *)

LEMMA RoundCases ==
  /\ reconnect \in Busy => Round = "busy"
  /\ reconnect = "idle" => Round = "idle"
  /\ reconnect = "reconnected" => Round = "ok"
  /\ reconnect = "exhausted" => Round = "exhausted"
BY DEF Round, Busy

LEMMA RoundCasesNext ==
  /\ reconnect' \in Busy => Round' = "busy"
  /\ reconnect' = "idle" => Round' = "idle"
  /\ reconnect' = "reconnected" => Round' = "ok"
  /\ reconnect' = "exhausted" => Round' = "exhausted"
BY DEF Round, Busy

\* The steps of a BoundedRetry with MaxAttempts tries, on the round and its count.
Begins == Round # "busy" /\ Round' = "busy" /\ attempt' = 0
Fails ==
  /\ Round = "busy" /\ attempt < MaxAttempts /\ attempt' = attempt + 1
  /\ Round' = IF attempt' < MaxAttempts THEN "busy" ELSE "exhausted"
Succeeds == Round = "busy" /\ attempt < MaxAttempts /\ Round' = "ok" /\ UNCHANGED attempt
Stays == UNCHANGED << Round, attempt >>

LEMMA ReconnectStepsMap == TypeInv /\ [Next]_vars => Begins \/ Fails \/ Succeeds \/ Stays
<1> SUFFICES ASSUME TypeInv, [Next]_vars PROVE Begins \/ Fails \/ Succeeds \/ Stays
  OBVIOUS
<1> USE DEF TypeInv, stopVars, reconnectVars, consumerVars
<1>1. CASE UNCHANGED << reconnect, attempt >>
  BY <1>1 DEF Stays, Round
<1>2. ASSUME reconnect \in Busy, reconnect' \in Busy, UNCHANGED attempt PROVE Stays
  BY <1>2, RoundCases, RoundCasesNext DEF Stays
<1>3. ASSUME SetupFails, setup # "none" PROVE Fails \/ Stays
  <2>1. CASE UNCHANGED reconnectVars
    BY <2>1 DEF Stays, Round
  <2>2. CASE reconnect = "setup" /\ attempt' = attempt + 1
    <3>1. Round = "busy" /\ attempt < MaxAttempts
      BY <2>2, RoundCases DEF Busy, Phases
    <3>2. CASE reconnect' = "closing" /\ attempt' < MaxAttempts
      BY <2>2, <3>1, <3>2, RoundCasesNext DEF Fails, Busy
    <3>3. CASE reconnect' = "exhausted" /\ attempt' = MaxAttempts
      BY <2>2, <3>1, <3>3, RoundCasesNext, ConnectionAssumption DEF Fails
    <3> QED BY <1>3, <2>2, <3>2, <3>3, SetupFailsTyped
  <2> QED BY <1>3, <2>1, <2>2, SetupFailsTyped
<1>4. CASE Connect
  BY <1>1, <1>3, <1>4 DEF Connect
<1>5. CASE CreateChannel
  BY <1>1, <1>3, <1>5 DEF CreateChannel
<1>6. CASE Declare
  <2>1. CASE SetupFails
    BY <1>3, <1>6, <2>1 DEF Declare, Items
  <2>2. CASE SetupSucceeds /\ UNCHANGED attempt /\ main # "setup"
    <3>1. reconnect = "setup" /\ reconnect' = "reconnected" /\ attempt < MaxAttempts
      BY <1>6, <2>2 DEF Declare, SetupSucceeds, Items, Phases, TypeOK, Busy
    <3> QED BY <2>2, <3>1, RoundCases, RoundCasesNext DEF Succeeds, Busy
  <2>3. CASE UNCHANGED << reconnect, attempt >>
    BY <1>1, <2>3
  <2> QED BY <1>6, <2>1, <2>2, <2>3 DEF Declare, SetupSucceeds
<1>7. CASE ReconnectBegins
  <2>1. Round # "busy"
    BY <1>7, RoundCases DEF ReconnectBegins, TypeOK
  <2> QED BY <1>7, <2>1, RoundCasesNext DEF ReconnectBegins, Begins, Busy
<1>8. CASE ReconnectClosesChannel \/ ReconnectClosesConnection \/ BackoffEnds
  BY <1>2, <1>8 DEF ReconnectClosesChannel, ReconnectClosesConnection, BackoffEnds, Busy
<1>9. CASE ClientConnects \/ ClientFails \/ ShutdownBegins \/ ShutdownClosesChannel
           \/ ShutdownClosesConnection \/ ShutdownClosesClient \/ UNCHANGED vars
  BY <1>1, <1>9 DEF ClientConnects, ClientFails, ShutdownBegins, ShutdownClosesChannel,
                    ShutdownClosesConnection, ShutdownClosesClient, vars
<1>10. ASSUME NEW q \in Queues, Consume(q) \/ ShutdownCancels(q) PROVE Stays
  BY <1>10 DEF Consume, ShutdownCancels, Stays, Round
<1>11. ASSUME NEW t \in Tags, ConsumeReturns(t) PROVE Stays
  BY <1>11 DEF ConsumeReturns, Stays, Round
<1>12. ASSUME NEW c \in Conns, BrokerCloses(c) PROVE Stays
  BY <1>12 DEF BrokerCloses, Stays, Round
<1> QED BY <1>4, <1>5, <1>6, <1>7, <1>8, <1>9, <1>10, <1>11, <1>12
        DEF Next, SetupStep, ShutdownStep, ReconnectStep

\* handleConnectionFailure implements BoundedRetry: it tries at most MaxAttempts times,
\* ends with the first try that succeeds, gives up only after the last one failed, and
\* counts from zero each time it is called.
THEOREM ReconnectIsBoundedCorrect == Spec => ReconnectIsBounded
<1> USE DEF RetryLoop!vars
<1>1. Init => RetryLoop!Init
  BY ConnectionAssumption, RoundCases DEF Init, RetryLoop!Init
<1>2. Begins \/ Fails \/ Succeeds \/ Stays => [RetryLoop!Next]_RetryLoop!vars
  <2>1. Begins => RetryLoop!Begin
    BY ConnectionAssumption DEF Begins, RetryLoop!Begin
  <2>2. Fails => RetryLoop!TryFails
    BY DEF Fails, RetryLoop!TryFails
  <2>3. Succeeds => RetryLoop!TrySucceeds
    BY DEF Succeeds, RetryLoop!TrySucceeds
  <2>4. Stays => UNCHANGED RetryLoop!vars
    BY DEF Stays
  <2> QED BY <2>1, <2>2, <2>3, <2>4 DEF RetryLoop!Next
<1>3. TypeInv /\ [Next]_vars => [RetryLoop!Next]_RetryLoop!vars
  BY <1>2, ReconnectStepsMap
<1> QED BY <1>1, <1>3, TypeInvCorrect, PTL DEF Spec, ReconnectIsBounded, RetryLoop!Spec
=============================================================================
