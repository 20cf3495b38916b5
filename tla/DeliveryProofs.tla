--------------------------- MODULE DeliveryProofs ---------------------------
(***************************************************************************)
(* Proofs about RabbitMQService.consume for every number of messages,      *)
(* copies, crashes and lost connections and for every set of options.      *)
(***************************************************************************)
EXTENDS Delivery, TLAPS

-----------------------------------------------------------------------------
(* Types.                                                                  *)

LEMMA SaturateType ==
  ASSUME NEW cap \in Nat, NEW n \in 0..cap
  PROVE  /\ Saturate(n, cap) \in 0..cap
         /\ Saturate(n, cap) >= n
         /\ cap > 0 => Saturate(n, cap) > 0
BY DEF Saturate

LEMMA InitType == Init => TypeOK
BY DeliveryAssumption DEF Init, TypeOK, DeliveryAssumption, BrokerState, FrameState

\* A dying process leaves every variable in its type.
LEMMA ProcessDiesType ==
  ASSUME TypeOK, ProcessDies, rejections' \in [Msgs -> 0..RejectionCap]
  PROVE  TypeOK'
<1>1. crashes' \in 0..(MaxCrashes + 1)
  BY DeliveryAssumption DEF TypeOK, ProcessDies, DeliveryAssumption, Saturate
<1>2. broker' \in [Copies -> BrokerState]
  BY DEF TypeOK, ProcessDies, Requeued, BrokerState
<1>3. frame' \in [Copies -> FrameState]
  BY DEF ProcessDies, FrameState
<1>4. QED
  BY <1>1, <1>2, <1>3 DEF TypeOK, ProcessDies

LEMMA TypeStep == TypeOK /\ [Next]_vars => TypeOK'
<1> SUFFICES ASSUME TypeOK, [Next]_vars PROVE TypeOK'
  OBVIOUS
<1> USE DeliveryAssumption
<1>1. ASSUME NEW m \in Msgs, Publish(m) PROVE TypeOK'
  BY <1>1 DEF TypeOK, Publish, Copies, BrokerState
<1>2. ASSUME NEW c \in Copies, Deliver(c) PROVE TypeOK'
  BY <1>2 DEF TypeOK, Deliver, BrokerState, FrameState
<1>3. ASSUME NEW c \in Copies, DelayExpires(c) PROVE TypeOK'
  BY <1>3 DEF TypeOK, DelayExpires, BrokerState
<1>4. ASSUME NEW c \in Copies, HandlerResolves(c) PROVE TypeOK'
  <2>1. c[1] \in Msgs
    BY DEF Copies
  <2>2. handled' \in [Msgs -> 0..2]
    BY <1>4, <2>1, SaturateType DEF TypeOK, HandlerResolves
  <2>3. QED
    BY <1>4, <2>2 DEF TypeOK, HandlerResolves, FrameState
<1>5. ASSUME NEW c \in Copies, HandlerRejects(c) PROVE TypeOK'
  <2>1. c[1] \in Msgs
    BY DEF Copies
  <2>2. rejections' \in [Msgs -> 0..RejectionCap]
    BY <1>5, <2>1, SaturateType DEF TypeOK, HandlerRejects, DeliveryAssumption
  <2>3. CASE PublishRetry(c)
    BY <2>2, <2>3 DEF TypeOK, PublishRetry, RepublishedHeader, BrokerState, FrameState
  <2>4. CASE Nack(c)
    BY <2>2, <2>4 DEF TypeOK, Nack, BrokerState, FrameState
  <2>5. CASE CatchBlockThrows(c)
    BY <2>2, <2>5, ProcessDiesType DEF CatchBlockThrows
  <2>6. CASE ErrorLoggedOnly(c)
    BY <2>2, <2>6 DEF TypeOK, ErrorLoggedOnly, FrameState
  <2>7. QED
    BY <1>5, <2>3, <2>4, <2>5, <2>6 DEF HandlerRejects
<1>6. ASSUME NEW c \in Copies, AckCopy(c) \/ AckThrows PROVE TypeOK'
  <2>1. CASE AckCopy(c)
    BY <2>1 DEF TypeOK, AckCopy, BrokerState, FrameState
  <2>2. CASE AckThrows
    BY <2>2, ProcessDiesType DEF TypeOK, AckThrows
  <2>3. QED
    BY <1>6, <2>1, <2>2
<1>7. CASE ChannelCloses
  <2>1. broker' \in [Copies -> BrokerState]
    BY <1>7 DEF TypeOK, ChannelCloses, Requeued, BrokerState
  <2>2. closes' \in 0..MaxCloses
    BY <1>7 DEF TypeOK, ChannelCloses, DeliveryAssumption
  <2>3. QED
    BY <1>7, <2>1, <2>2 DEF TypeOK, ChannelCloses
<1>8. CASE Crash
  BY <1>8, ProcessDiesType DEF TypeOK, Crash
<1>9. CASE Restart
  BY <1>9 DEF TypeOK, Restart
<1>10. CASE UNCHANGED vars
  BY <1>10 DEF TypeOK, vars
<1>11. QED
  BY <1>1, <1>2, <1>3, <1>4, <1>5, <1>6, <1>7, <1>8, <1>9, <1>10
     DEF Next, Step, AckHandled, AckRetried

\* Type correctness of the consumer, its queue and the history counters.
THEOREM TypeCorrect == Spec => []TypeOK
BY InitType, TypeStep, PTL DEF Spec

-----------------------------------------------------------------------------
(* Where callbacks and copies may be.                                      *)

\* Callbacks run only in a process that is up, and each belongs to a delivery the
\* broker has not settled: unacknowledged on the open channel, or taken back when
\* the channel closed.  Only published messages have copies or handler runs.
Placement ==
  /\ open => up
  /\ \A c \in Copies :
       frame[c] # "idle" =>
         /\ up
         /\ broker[c] \in {"ready", "unacked"}
         /\ open => broker[c] = "unacked"
  /\ \A c \in Copies : Live(c) => c[1] \in published
  /\ \A m \in Msgs : m \notin published => handled[m] = 0 /\ rejections[m] = 0

LEMMA RequeuedLive ==
  ASSUME TypeOK, NEW c \in Copies
  PROVE  /\ Requeued[c] # "none" <=> Live(c)
         /\ Requeued[c] # "unacked"
BY DEF Requeued, Live, TypeOK

LEMMA ProcessDiesPlacement ==
  ASSUME TypeOK, Placement, ProcessDies,
         \A m \in Msgs : m \notin published => rejections'[m] = 0
  PROVE  Placement'
BY RequeuedLive DEF Placement, ProcessDies, Live

LEMMA PlacementStep == TypeOK /\ Placement /\ [Next]_vars => Placement'
<1> SUFFICES ASSUME TypeOK, Placement, [Next]_vars PROVE Placement'
  OBVIOUS
<1>1. ASSUME NEW m \in Msgs, Publish(m) PROVE Placement'
  BY <1>1 DEF Placement, Publish, TypeOK, Live, Copies
<1>2. ASSUME NEW c \in Copies, Deliver(c) PROVE Placement'
  BY <1>2 DEF Placement, Deliver, TypeOK, Live
<1>3. ASSUME NEW c \in Copies, DelayExpires(c) PROVE Placement'
  BY <1>3 DEF Placement, DelayExpires, TypeOK, Live
<1>4. ASSUME NEW c \in Copies, HandlerResolves(c) PROVE Placement'
  <2>1. c[1] \in published
    BY <1>4 DEF Placement, HandlerResolves, Live
  <2>2. QED
    BY <1>4, <2>1 DEF Placement, HandlerResolves, TypeOK, Live
<1>5. ASSUME NEW c \in Copies, HandlerRejects(c) PROVE Placement'
  <2>1. c[1] \in published
    BY <1>5 DEF Placement, HandlerRejects, Live
  <2>2. \A m \in Msgs : m \notin published => rejections'[m] = 0
    BY <1>5, <2>1 DEF Placement, HandlerRejects, TypeOK
  <2>3. CASE PublishRetry(c)
    BY <1>5, <2>1, <2>2, <2>3
       DEF Placement, PublishRetry, HandlerRejects, TypeOK, Live, Free
  <2>4. CASE Nack(c)
    BY <2>2, <2>4 DEF Placement, Nack, TypeOK, Live
  <2>5. CASE CatchBlockThrows(c)
    BY <2>2, <2>5, ProcessDiesPlacement DEF CatchBlockThrows
  <2>6. CASE ErrorLoggedOnly(c)
    BY <2>2, <2>6 DEF Placement, ErrorLoggedOnly, TypeOK, Live
  <2>7. QED
    BY <1>5, <2>3, <2>4, <2>5, <2>6 DEF HandlerRejects
<1>6. ASSUME NEW c \in Copies, AckCopy(c) \/ AckThrows PROVE Placement'
  <2>1. CASE AckCopy(c)
    BY <2>1 DEF Placement, AckCopy, TypeOK, Live
  <2>2. CASE AckThrows
    BY <2>2, ProcessDiesPlacement DEF Placement, AckThrows
  <2>3. QED
    BY <1>6, <2>1, <2>2
<1>7. CASE ChannelCloses
  BY <1>7, RequeuedLive DEF Placement, ChannelCloses, Requeued, TypeOK, Live
<1>8. CASE Crash
  BY <1>8, ProcessDiesPlacement DEF Placement, Crash
<1>9. CASE Restart
  BY <1>9 DEF Placement, Restart, Live
<1>10. CASE UNCHANGED vars
  BY <1>10 DEF Placement, vars, Live
<1>11. QED
  BY <1>1, <1>2, <1>3, <1>4, <1>5, <1>6, <1>7, <1>8, <1>9, <1>10
     DEF Next, Step, AckHandled, AckRetried

THEOREM PlacementCorrect == Spec => []Placement
<1>1. Init => Placement
  BY DEF Init, Placement, Live, Copies
<1>2. QED
  BY <1>1, PlacementStep, TypeCorrect, PTL DEF Spec

\* No callback acknowledges a delivery that the broker took back.
THEOREM NoStaleAckCorrect == Spec => []NoStaleAck
<1>1. Placement => NoStaleAck
  BY DEF Placement, NoStaleAck
<1>2. QED
  BY <1>1, PlacementCorrect, PTL

-----------------------------------------------------------------------------
(* Nothing is lost before it failed.                                       *)

\* An acknowledgement is owed only after a completed run or a published retry.
AckIsEarned ==
  \A c \in Copies :
    /\ frame[c] = "acking" => handled[c[1]] > 0
    /\ frame[c] = "published" => rejections[c[1]] > 0

LEMMA AckIsEarnedStep == TypeOK /\ AckIsEarned /\ [Next]_vars => AckIsEarned'
<1> SUFFICES ASSUME TypeOK, AckIsEarned, [Next]_vars PROVE AckIsEarned'
  OBVIOUS
<1> USE DEF AckIsEarned
<1>1. ASSUME NEW m \in Msgs, Publish(m) PROVE AckIsEarned'
  BY <1>1 DEF Publish
<1>2. ASSUME NEW c \in Copies, Deliver(c) PROVE AckIsEarned'
  BY <1>2 DEF Deliver, TypeOK
<1>3. ASSUME NEW c \in Copies, DelayExpires(c) PROVE AckIsEarned'
  BY <1>3 DEF DelayExpires
<1>4. ASSUME NEW c \in Copies, HandlerResolves(c) PROVE AckIsEarned'
  <2>1. \A m \in Msgs : handled'[m] >= handled[m]
    BY <1>4 DEF HandlerResolves, TypeOK, Saturate
  <2>2. handled'[c[1]] > 0
    BY <1>4 DEF HandlerResolves, TypeOK, Copies, Saturate
  <2>3. QED
    BY <1>4, <2>1, <2>2 DEF HandlerResolves, TypeOK, Copies
<1>5. ASSUME NEW c \in Copies, HandlerRejects(c) PROVE AckIsEarned'
  <2>1. /\ \A m \in Msgs : rejections'[m] >= rejections[m]
        /\ rejections'[c[1]] > 0
    BY <1>5, SaturateType, DeliveryAssumption
       DEF HandlerRejects, TypeOK, Copies, DeliveryAssumption
  <2>2. handled' = handled
    BY <1>5 DEF HandlerRejects, PublishRetry, Nack, CatchBlockThrows, ErrorLoggedOnly, ProcessDies
  <2>3. \A d \in Copies : frame'[d] \in {frame[d], "idle"} \/ d = c
    BY <1>5 DEF HandlerRejects, PublishRetry, Nack, CatchBlockThrows, ErrorLoggedOnly,
                ProcessDies, TypeOK
  <2>4. frame'[c] \in {"idle", "published"}
    BY <1>5 DEF HandlerRejects, PublishRetry, Nack, CatchBlockThrows, ErrorLoggedOnly,
                ProcessDies, TypeOK
  <2>5. \A d \in Copies : d[1] \in Msgs
    BY DEF Copies
  <2>6. rejections \in [Msgs -> Nat] /\ rejections' \in [Msgs -> Nat]
    BY <1>5, DeliveryAssumption
       DEF TypeOK, DeliveryAssumption, HandlerRejects, Saturate, Copies
  <2>7. QED
    BY <2>1, <2>2, <2>3, <2>4, <2>5, <2>6
<1>6. ASSUME NEW c \in Copies, AckCopy(c) \/ AckThrows PROVE AckIsEarned'
  BY <1>6 DEF AckCopy, AckThrows, ProcessDies, TypeOK
<1>7. CASE ChannelCloses \/ Crash \/ Restart \/ UNCHANGED vars
  BY <1>7 DEF ChannelCloses, Crash, Restart, ProcessDies, vars
<1>8. QED
  BY <1>1, <1>2, <1>3, <1>4, <1>5, <1>6, <1>7 DEF Next, Step, AckHandled, AckRetried

\* What NoSilentLoss says of one message.
Accounted(m) ==
  \/ handled[m] > 0
  \/ rejections[m] > 0
  \/ \E s \in Slots : Live(<<m, s>>)

\* An action that removes no copy of m and forgets no run of it keeps m accounted for.
LEMMA AccountedStays ==
  ASSUME TypeOK, NEW m \in Msgs, Accounted(m),
         handled'[m] >= handled[m], rejections'[m] >= rejections[m],
         handled'[m] \in Nat, rejections'[m] \in Nat,
         \A s \in Slots : Live(<<m, s>>) => broker'[<<m, s>>] # "none"
  PROVE  Accounted(m)'
BY DEF Accounted, Live, TypeOK

LEMMA NoSilentLossStep ==
  TypeOK /\ TypeOK' /\ Placement /\ AckIsEarned /\ NoSilentLoss /\ [Next]_vars => NoSilentLoss'
<1> SUFFICES ASSUME TypeOK, TypeOK', Placement, AckIsEarned, NoSilentLoss, [Next]_vars,
                    NEW m \in published'
             PROVE  Accounted(m)'
  BY DEF NoSilentLoss, Accounted
<1>1. m \in Msgs
  BY DEF TypeOK
<1>2. ASSUME NEW n \in Msgs, Publish(n) PROVE Accounted(m)'
  <2>1. CASE m = n
    BY <1>2, <2>1 DEF Publish, Accounted, Live, TypeOK, Copies
  <2>2. CASE m # n
    BY <1>1, <1>2, <2>2, AccountedStays DEF Publish, NoSilentLoss, Accounted, Live, TypeOK, Copies
  <2>3. QED
    BY <2>1, <2>2
<1>3. ASSUME NEW c \in Copies, Deliver(c) \/ DelayExpires(c) \/ HandlerResolves(c)
      PROVE  Accounted(m)'
  <2>1. m \in published /\ rejections' = rejections
    BY <1>3 DEF Deliver, DelayExpires, HandlerResolves
  <2>2. handled'[m] >= handled[m]
    BY <1>1, <1>3 DEF Deliver, DelayExpires, HandlerResolves, TypeOK, Saturate
  <2>3. \A s \in Slots : Live(<<m, s>>) => broker'[<<m, s>>] # "none"
    BY <1>1, <1>3 DEF Deliver, DelayExpires, HandlerResolves, TypeOK, Live, Copies
  <2>4. /\ handled'[m] \in Nat /\ rejections'[m] \in Nat
        /\ rejections'[m] >= rejections[m]
    BY <1>1, <2>1 DEF TypeOK
  <2>5. QED
    BY <1>1, <2>1, <2>2, <2>3, <2>4, AccountedStays DEF NoSilentLoss, Accounted
<1>4. ASSUME NEW c \in Copies, HandlerRejects(c) PROVE Accounted(m)'
  <2>1. /\ m \in published /\ handled' = handled
        /\ rejections'[m] >= rejections[m]
        /\ m = c[1] => rejections'[m] > 0
    BY <1>1, <1>4, SaturateType, DeliveryAssumption
       DEF HandlerRejects, PublishRetry, Nack, CatchBlockThrows, ErrorLoggedOnly, ProcessDies,
           TypeOK, DeliveryAssumption
  <2>2. CASE m = c[1]
    BY <2>1, <2>2 DEF Accounted
  <2>3. CASE m # c[1]
    <3>1. \A s \in Slots : Live(<<m, s>>) => broker'[<<m, s>>] # "none"
      BY <1>1, <1>4, <2>3, RequeuedLive
         DEF HandlerRejects, PublishRetry, Nack, CatchBlockThrows, ErrorLoggedOnly, ProcessDies,
             TypeOK, Live, Copies
    <3>2. QED
      BY <1>1, <2>1, <3>1, AccountedStays DEF NoSilentLoss, Accounted, TypeOK
  <2>4. QED
    BY <2>2, <2>3
<1>5. ASSUME NEW c \in Copies, AckCopy(c), frame[c] \in {"acking", "published"}
      PROVE  Accounted(m)'
  <2>1. m \in published /\ handled' = handled /\ rejections' = rejections
    BY <1>5 DEF AckCopy
  <2>2. CASE m = c[1]
    BY <1>5, <2>1, <2>2 DEF AckIsEarned, Accounted
  <2>3. CASE m # c[1]
    BY <1>1, <1>5, <2>1, <2>3, AccountedStays
       DEF AckCopy, NoSilentLoss, Accounted, TypeOK, Live, Copies
  <2>4. QED
    BY <2>2, <2>3
<1>6. CASE AckThrows \/ Crash \/ ChannelCloses \/ Restart \/ UNCHANGED vars
  <2>1. m \in published /\ handled' = handled /\ rejections' = rejections
    BY <1>6 DEF AckThrows, Crash, ChannelCloses, Restart, ProcessDies, vars
  <2>2. broker' = Requeued \/ broker' = broker
    BY <1>6 DEF AckThrows, Crash, ChannelCloses, Restart, ProcessDies, vars
  <2>3. \A s \in Slots : Live(<<m, s>>) => broker'[<<m, s>>] # "none"
    BY <1>1, <2>2, RequeuedLive DEF Live, Copies
  <2>4. QED
    BY <1>1, <2>1, <2>3, AccountedStays DEF NoSilentLoss, Accounted, TypeOK
<1>7. QED
  BY <1>2, <1>3, <1>4, <1>5, <1>6 DEF Next, Step, AckHandled, AckRetried

\* Crashes, restarts and lost connections never lose a message that no run failed on.
THEOREM NoSilentLossCorrect == Spec => []NoSilentLoss
<1>1. Init => AckIsEarned /\ NoSilentLoss
  BY DEF Init, AckIsEarned, NoSilentLoss
<1>2. TypeOK /\ TypeOK' /\ Placement /\ AckIsEarned /\ NoSilentLoss /\ [Next]_vars
        => (AckIsEarned /\ NoSilentLoss)'
  BY AckIsEarnedStep, NoSilentLossStep
<1>3. QED
  BY <1>1, <1>2, TypeCorrect, PlacementCorrect, PTL DEF Spec

-----------------------------------------------------------------------------
(* With a route back, nothing is lost at all.                              *)

\* No copy ever carries the retryCount header.
HeadersZero == \A c \in Copies : header[c] = 0

LEMMA HeadersZeroStep == TypeOK /\ HeadersZero /\ [Next]_vars => HeadersZero'
<1> SUFFICES ASSUME TypeOK, HeadersZero, [Next]_vars PROVE HeadersZero'
  OBVIOUS
<1> USE DEF HeadersZero
<1>1. ASSUME NEW m \in Msgs, Publish(m) PROVE HeadersZero'
  BY <1>1 DEF Publish, TypeOK
<1>2. ASSUME NEW c \in Copies, HandlerRejects(c) PROVE HeadersZero'
  BY <1>2 DEF HandlerRejects, PublishRetry, Nack, CatchBlockThrows, ErrorLoggedOnly,
              ProcessDies, RepublishedHeader, TypeOK
<1>3. CASE \/ \E c \in Copies : \/ Deliver(c) \/ DelayExpires(c) \/ HandlerResolves(c)
                               \/ AckHandled(c) \/ AckRetried(c)
           \/ ChannelCloses \/ Crash \/ Restart \/ UNCHANGED vars
  BY <1>3 DEF Deliver, DelayExpires, HandlerResolves, AckHandled, AckRetried, AckCopy,
              AckThrows, ChannelCloses, Crash, Restart, ProcessDies, vars
<1>4. QED
  BY <1>1, <1>2, <1>3 DEF Next, Step

\* What RetriedUntilHandled says of one message.
StillOwed(m) == handled[m] > 0 \/ \E s \in Slots : Owed(<<m, s>>)

LEMMA OptionsFixed == [Next]_vars => options' = options
BY DEF Next, Step, Publish, Deliver, DelayExpires, HandlerResolves, HandlerRejects,
       PublishRetry, Nack, CatchBlockThrows, ErrorLoggedOnly, AckHandled, AckRetried, AckCopy,
       AckThrows, ChannelCloses, Crash, Restart, ProcessDies, vars

LEMMA RetriedStep ==
  /\ TypeOK /\ Placement /\ AckIsEarned /\ HeadersZero
  /\ RetriedUntilHandled /\ [Next]_vars
  => RetriedUntilHandled'
<1> SUFFICES ASSUME TypeOK, Placement, AckIsEarned, HeadersZero, RetriedUntilHandled, [Next]_vars,
                    RetryRouted, MaxRetries(options) >= 1, NEW m \in published'
             PROVE  StillOwed(m)'
  BY OptionsFixed DEF RetriedUntilHandled, StillOwed, MaxRetries
<1>1. m \in Msgs
  BY DEF TypeOK, Next, Step, Publish, Deliver, DelayExpires, HandlerResolves, HandlerRejects,
         PublishRetry, Nack, CatchBlockThrows, ErrorLoggedOnly, AckHandled, AckRetried, AckCopy,
         AckThrows, ChannelCloses, Crash, Restart, ProcessDies, vars
<1>2. m \in published => StillOwed(m)
  BY DEF RetriedUntilHandled, StillOwed
<1> USE DEF StillOwed, Owed, Live
<1>3. ASSUME NEW n \in Msgs, Publish(n) PROVE StillOwed(m)'
  <2>1. CASE m = n
    <3>1. PICK s \in Slots : broker' = [broker EXCEPT ![<<m, s>>] = "ready"]
      BY <1>3, <2>1 DEF Publish
    <3>2. frame[<<m, s>>] = "idle" /\ broker'[<<m, s>>] = "ready"
      BY <1>1, <1>3, <2>1, <3>1 DEF Placement, Publish, TypeOK, Copies
    <3>3. QED
      BY <1>3, <3>2 DEF Publish
  <2>2. CASE m # n
    BY <1>1, <1>2, <1>3, <2>2 DEF Publish, TypeOK, Copies
  <2>3. QED
    BY <2>1, <2>2
<1>4. ASSUME NEW c \in Copies, Deliver(c) \/ DelayExpires(c) PROVE StillOwed(m)'
  BY <1>1, <1>2, <1>4 DEF Deliver, DelayExpires, TypeOK, Copies
<1>5. ASSUME NEW c \in Copies, HandlerResolves(c) PROVE StillOwed(m)'
  <2>1. CASE m = c[1]
    BY <1>1, <1>5, <2>1 DEF HandlerResolves, TypeOK, Saturate
  <2>2. CASE m # c[1]
    BY <1>1, <1>2, <1>5, <2>2 DEF HandlerResolves, TypeOK, Copies
  <2>3. QED
    BY <2>1, <2>2
<1>6. ASSUME NEW c \in Copies, HandlerRejects(c) PROVE StillOwed(m)'
  <2>1. CASE PublishRetry(c) /\ m = c[1]
    <3>1. PICK d \in Copies :
            /\ d[1] = c[1] /\ Free(d)
            /\ broker' = [broker EXCEPT ![d] = IF RetryDelayed THEN "delayed" ELSE "ready"]
      BY <2>1 DEF PublishRetry
    <3>2. d # c /\ broker'[d] # "none" /\ frame'[d] = "idle"
      BY <1>6, <2>1, <3>1 DEF Placement, HandlerRejects, PublishRetry, Free, TypeOK
    <3>3. \E s \in Slots : d = <<m, s>>
      BY <2>1, <3>1 DEF Copies
    <3>4. QED
      BY <3>2, <3>3
  <2>2. CASE PublishRetry(c) /\ m # c[1]
    BY <1>1, <1>2, <2>2 DEF PublishRetry, TypeOK, Copies
  <2>3. ~Nack(c)
    <3>1. MaxRetries(options) \in Int
      BY DeliveryAssumption DEF DeliveryAssumption, TypeOK, MaxRetries
    <3>2. QED
      BY <3>1 DEF Nack, RetryCount, HeadersZero
  <2>4. CASE CatchBlockThrows(c)
    BY <1>1, <1>2, <2>4, RequeuedLive DEF CatchBlockThrows, ProcessDies, Copies
  <2>5. CASE ErrorLoggedOnly(c)
    BY <1>1, <1>2, <2>5 DEF ErrorLoggedOnly, TypeOK, Copies
  <2>6. QED
    BY <1>6, <2>1, <2>2, <2>3, <2>4, <2>5 DEF HandlerRejects
<1>7. ASSUME NEW c \in Copies, AckCopy(c), frame[c] \in {"acking", "published"}
      PROVE  StillOwed(m)'
  <2>1. m \in published /\ handled' = handled
    BY <1>7 DEF AckCopy
  <2>2. CASE handled[m] > 0
    BY <2>1, <2>2
  <2>3. CASE handled[m] = 0
    <3>1. PICK s \in Slots : Owed(<<m, s>>)
      BY <1>2, <2>1, <2>3
    <3>2. <<m, s>> # c
      BY <1>7, <2>3, <3>1 DEF AckIsEarned
    <3>3. QED
      BY <1>1, <1>7, <3>1, <3>2 DEF AckCopy, TypeOK, Copies
  <2>4. QED
    BY <1>1, <2>2, <2>3 DEF TypeOK
<1>8. CASE AckThrows \/ Crash \/ ChannelCloses \/ Restart \/ UNCHANGED vars
  <2>1. m \in published /\ handled' = handled
    BY <1>8 DEF AckThrows, Crash, ChannelCloses, Restart, ProcessDies, vars
  <2>2. \A c \in Copies : Live(c) => broker'[c] # "none"
    BY <1>8, RequeuedLive DEF AckThrows, Crash, ChannelCloses, Restart, ProcessDies, vars
  <2>3. \A c \in Copies : frame[c] # "published" => frame'[c] # "published"
    BY <1>8 DEF AckThrows, Crash, ChannelCloses, Restart, ProcessDies, vars
  <2>4. QED
    BY <1>1, <1>2, <2>1, <2>2, <2>3 DEF Copies
<1>9. QED
  BY <1>3, <1>4, <1>5, <1>6, <1>7, <1>8 DEF Next, Step, AckHandled, AckRetried

\* With a retry exchange that routes back, a failed run loses nothing either.
THEOREM RetriedUntilHandledCorrect == Spec => []RetriedUntilHandled
<1>1. Init => AckIsEarned /\ HeadersZero /\ RetriedUntilHandled
  BY DEF Init, AckIsEarned, HeadersZero, RetriedUntilHandled
<1>2. /\ TypeOK /\ Placement /\ AckIsEarned /\ HeadersZero /\ RetriedUntilHandled
      /\ [Next]_vars
      => (AckIsEarned /\ HeadersZero /\ RetriedUntilHandled)'
  BY AckIsEarnedStep, HeadersZeroStep, RetriedStep
<1>3. QED
  BY <1>1, <1>2, TypeCorrect, PlacementCorrect, PTL DEF Spec

-----------------------------------------------------------------------------
(* Exactly once while nothing crashes or disconnects.                      *)

\* The inductive form of ExactlyOnceUndisturbed: once a message is handled, the only
\* copy still owed is the one whose acknowledgement is on its way.
OneOwedCopy ==
  Undisturbed =>
    /\ up /\ open
    /\ \A m \in Msgs : handled[m] <= 1
    /\ \A c, d \in Copies : c[1] = d[1] /\ Owed(c) /\ Owed(d) => c = d
    /\ \A c \in Copies :
         Owed(c) /\ handled[c[1]] > 0 => broker[c] = "unacked" /\ frame[c] # "running"

LEMMA OneOwedCopyStep ==
  TypeOK /\ TypeOK' /\ Placement /\ OneOwedCopy /\ [Next]_vars => OneOwedCopy'
<1> SUFFICES ASSUME TypeOK, TypeOK', Placement, OneOwedCopy, [Next]_vars, Undisturbed'
             PROVE  OneOwedCopy'
  BY DEF OneOwedCopy
<1> USE DEF OneOwedCopy, Owed, Live
<1>1. ~ProcessDies /\ ~ChannelCloses
  BY DeliveryAssumption
     DEF DeliveryAssumption, Undisturbed, ProcessDies, ChannelCloses, Saturate, TypeOK
<1>2. Undisturbed
  BY <1>1 DEF Undisturbed, Next, Step, Publish, Deliver, DelayExpires, HandlerResolves,
              HandlerRejects, PublishRetry, Nack, CatchBlockThrows, ErrorLoggedOnly, AckHandled,
              AckRetried, AckCopy, AckThrows, Crash, Restart, vars
<1>3. ASSUME NEW m \in Msgs, Publish(m) PROVE OneOwedCopy'
  <2>1. PICK s \in Slots : broker' = [broker EXCEPT ![<<m, s>>] = "ready"]
    BY <1>3 DEF Publish
  <2>2. <<m, s>> \in Copies /\ m \notin published /\ handled[m] = 0
    BY <1>3 DEF Publish, Placement, Copies
  <2>3. \A c \in Copies : c[1] = m => ~Live(c)
    BY <2>2 DEF Placement
  <2>4. QED
    BY <1>2, <1>3, <2>1, <2>2, <2>3 DEF Publish, TypeOK
<1>4. ASSUME NEW c \in Copies, Deliver(c) PROVE OneOwedCopy'
  <2>1. handled[c[1]] = 0
    BY <1>2, <1>4 DEF Deliver, TypeOK, Copies
  <2>2. QED
    BY <1>2, <1>4, <2>1 DEF Deliver, TypeOK, Copies
<1>5. ASSUME NEW c \in Copies, DelayExpires(c) PROVE OneOwedCopy'
  <2>1. frame[c] = "idle" /\ handled[c[1]] = 0
    BY <1>2, <1>5 DEF DelayExpires, Placement, TypeOK, Copies
  <2>2. QED
    BY <1>2, <1>5, <2>1 DEF DelayExpires, TypeOK, Copies
<1>6. ASSUME NEW c \in Copies, HandlerResolves(c) PROVE OneOwedCopy'
  <2>1. broker[c] = "unacked" /\ Owed(c) /\ handled[c[1]] = 0
    BY <1>2, <1>6 DEF HandlerResolves, Placement, TypeOK, Copies
  <2>2. /\ handled'[c[1]] = 1
        /\ \A m \in Msgs : m # c[1] => handled'[m] = handled[m]
    BY <1>6, <2>1 DEF HandlerResolves, TypeOK, Copies, Saturate
  <2>3. /\ broker' = broker /\ up' = up /\ open' = open
        /\ frame'[c] \in {"idle", "acking"}
        /\ \A d \in Copies : d # c => frame'[d] = frame[d]
    BY <1>6 DEF HandlerResolves, TypeOK
  <2>4. \A d \in Copies : Owed(d)' <=> Owed(d)
    BY <2>1, <2>3
  <2>5. \A d \in Copies : d[1] \in Msgs
    BY DEF Copies
  <2>6. QED
    BY <1>2, <2>1, <2>2, <2>3, <2>4, <2>5 DEF TypeOK
<1>7. ASSUME NEW c \in Copies, HandlerRejects(c) PROVE OneOwedCopy'
  <2>1. broker[c] = "unacked" /\ Owed(c) /\ handled[c[1]] = 0
    BY <1>2, <1>7 DEF HandlerRejects, Placement, TypeOK, Copies
  <2>2. CASE PublishRetry(c)
    <3>1. \A d \in Copies : d[1] = c[1] /\ Owed(d) => d = c
      BY <1>2, <2>1
    <3>2. CASE RetryRouted
      <4>1. PICK d \in Copies :
              /\ d[1] = c[1] /\ Free(d)
              /\ broker' = [broker EXCEPT ![d] = IF RetryDelayed THEN "delayed" ELSE "ready"]
        BY <2>2, <3>2 DEF PublishRetry
      <4>2. \A e \in Copies : Owed(e)' <=> (e = d \/ (Owed(e) /\ e # c))
        BY <1>7, <2>1, <2>2, <4>1 DEF PublishRetry, HandlerRejects, Free, TypeOK
      <4>3. QED
        BY <1>2, <2>1, <2>2, <3>1, <4>1, <4>2 DEF PublishRetry, Free, TypeOK
    <3>3. CASE ~RetryRouted
      BY <1>2, <2>1, <2>2, <3>1, <3>3 DEF PublishRetry, TypeOK
    <3>4. QED
      BY <3>2, <3>3
  <2>3. CASE Nack(c) \/ ErrorLoggedOnly(c)
    <3>1. /\ frame' = [frame EXCEPT ![c] = "idle"]
          /\ broker' \in {broker, [broker EXCEPT ![c] = "none"]}
          /\ up' = up /\ open' = open /\ handled' = handled
      BY <2>3 DEF Nack, ErrorLoggedOnly
    <3>2. \A d \in Copies : Owed(d)' => Owed(d) /\ (broker'[d] = broker[d] \/ d = c)
      BY <2>1, <3>1 DEF TypeOK
    <3>3. \A d \in Copies : Owed(d)' /\ d # c =>
            broker'[d] = broker[d] /\ frame'[d] = frame[d]
      BY <3>1, <3>2 DEF TypeOK
    <3>4. QED
      BY <1>2, <2>1, <3>1, <3>2, <3>3
  <2>4. QED
    BY <1>1, <1>7, <2>2, <2>3 DEF HandlerRejects, CatchBlockThrows
<1>8. ASSUME NEW c \in Copies, AckCopy(c) PROVE OneOwedCopy'
  BY <1>2, <1>8 DEF AckCopy, TypeOK
<1>9. CASE Restart \/ UNCHANGED vars
  BY <1>2, <1>9 DEF Restart, vars
<1>10. QED
  BY <1>1, <1>3, <1>4, <1>5, <1>6, <1>7, <1>8, <1>9
     DEF Next, Step, AckHandled, AckRetried, AckThrows, Crash

\* Without crashes and lost connections a handler completes at most once per message.
THEOREM ExactlyOnceCorrect == Spec => []ExactlyOnceUndisturbed
<1>1. Init => OneOwedCopy
  BY DEF Init, OneOwedCopy, Owed, Live
<1>2. OneOwedCopy => ExactlyOnceUndisturbed
  BY DEF OneOwedCopy, ExactlyOnceUndisturbed
<1>3. QED
  BY <1>1, <1>2, OneOwedCopyStep, TypeCorrect, PlacementCorrect, PTL DEF Spec

-----------------------------------------------------------------------------
(* consume implements the abstract queue.                                  *)

\* The abstract state of every message, and the messages that failed.
Statuses == [m \in Msgs |-> MessageStatus(m)]
FailedOnce == { m \in Msgs : rejections[m] > 0 }

\* The status of a message depends on three facts about it alone.
LEMMA StatusUnchanged ==
  ASSUME TypeOK, TypeOK', NEW m \in Msgs,
         (handled'[m] > 0) <=> (handled[m] > 0),
         Pending(m)' <=> Pending(m),
         (m \in published') <=> (m \in published)
  PROVE  MessageStatus(m)' = MessageStatus(m)
BY DEF MessageStatus, TypeOK

\* Whether m is at the broker depends on its own copies only.
LEMMA PendingUnchanged ==
  ASSUME NEW m \in Msgs, \A d \in Copies : d[1] = m => (Live(d)' <=> Live(d))
  PROVE  Pending(m)' <=> Pending(m)
BY DEF Pending, Copies

LEMMA StatusCases ==
  ASSUME TypeOK, NEW m \in Msgs
  PROVE  /\ handled[m] > 0 => MessageStatus(m) = "handled"
         /\ handled[m] = 0 /\ Pending(m) => MessageStatus(m) = "pending"
         /\ handled[m] = 0 /\ ~Pending(m) /\ m \in published => MessageStatus(m) = "lost"
         /\ handled[m] = 0 /\ ~Pending(m) /\ m \notin published => MessageStatus(m) = "new"
BY DEF MessageStatus, TypeOK

\* When only the copies of m change place, the status of m alone can change.
LEMMA OnlyOneMoves ==
  ASSUME NEW m \in Msgs, NEW to,
         \A n \in Msgs : n # m => MessageStatus(n)' = MessageStatus(n),
         MessageStatus(m)' = to
  PROVE  Statuses' = [Statuses EXCEPT ![m] = to]
BY DEF Statuses

LEMMA NobodyMoves ==
  ASSUME \A n \in Msgs : MessageStatus(n)' = MessageStatus(n)
  PROVE  Statuses' = Statuses
BY DEF Statuses

QueueStep == Queue!Next \/ (Statuses' = Statuses /\ FailedOnce' = FailedOnce)

LEMMA ImplementationStep ==
  /\ TypeOK /\ TypeOK' /\ Placement /\ AckIsEarned /\ HeadersZero
  /\ RetriedUntilHandled /\ [Next]_vars
  => QueueStep
<1> SUFFICES ASSUME TypeOK, TypeOK', Placement, AckIsEarned, HeadersZero, RetriedUntilHandled,
                    [Next]_vars
             PROVE  QueueStep
  OBVIOUS
<1> DEFINE Lossy == ~ \A opts \in Options : RetryRouted /\ MaxRetries(opts) >= 1
<1>1. ASSUME NEW n \in Msgs, Publish(n) PROVE QueueStep
  <2>1. /\ handled' = handled /\ rejections' = rejections /\ FailedOnce' = FailedOnce
        /\ published' = published \cup {n} /\ n \notin published
    BY <1>1 DEF Publish, FailedOnce
  <2>2. \A m \in Msgs : m # n => (Pending(m)' <=> Pending(m))
    BY <1>1 DEF Publish, TypeOK, Pending, Live, Copies
  <2>3. Pending(n)' /\ ~Pending(n) /\ handled[n] = 0
    <3>1. ~Pending(n) /\ handled[n] = 0
      <4>1. \A s \in Slots : <<n, s>> \in Copies /\ <<n, s>>[1] = n
        BY DEF Copies
      <4>2. QED
        BY <2>1, <4>1 DEF Placement, Pending
    <3>2. PICK s \in Slots : broker' = [broker EXCEPT ![<<n, s>>] = "ready"]
      BY <1>1 DEF Publish
    <3>3. Live(<<n, s>>)'
      BY <1>1, <3>2 DEF TypeOK, Live, Copies
    <3>4. QED
      BY <3>1, <3>3 DEF Pending
  <2>4. MessageStatus(n) = "new" /\ MessageStatus(n)' = "pending"
    BY <2>1, <2>3 DEF MessageStatus
  <2>5. \A m \in Msgs : m # n => MessageStatus(m)' = MessageStatus(m)
    BY <2>1, <2>2, StatusUnchanged
  <2>6. Statuses' = [Statuses EXCEPT ![n] = "pending"]
    BY <2>4, <2>5, OnlyOneMoves
  <2>7. Queue!Accept(n)
    BY <2>1, <2>4, <2>6 DEF Queue!Accept, Queue!Move, Statuses, FailedOnce
  <2>8. QED
    BY <2>7 DEF QueueStep, Queue!Next
<1>2. CASE \/ \E c \in Copies : Deliver(c) \/ DelayExpires(c)
           \/ ChannelCloses \/ Crash \/ Restart \/ AckThrows \/ UNCHANGED vars
  <2>1. handled' = handled /\ rejections' = rejections /\ published' = published
    BY <1>2 DEF Deliver, DelayExpires, ChannelCloses, Crash, Restart, AckThrows, ProcessDies, vars
  <2>2. \A c \in Copies : Live(c)' <=> Live(c)
    BY <1>2, RequeuedLive
       DEF Deliver, DelayExpires, ChannelCloses, Crash, Restart, AckThrows, ProcessDies, vars,
           TypeOK, Live
  <2>3. \A m \in Msgs : MessageStatus(m)' = MessageStatus(m)
    BY <2>1, <2>2, StatusUnchanged DEF Pending, Copies
  <2>4. QED
    BY <2>1, <2>3, NobodyMoves DEF QueueStep, FailedOnce
<1>3. ASSUME NEW c \in Copies, HandlerResolves(c) PROVE QueueStep
  <2>1. /\ broker' = broker /\ rejections' = rejections /\ published' = published
        /\ FailedOnce' = FailedOnce
    BY <1>3 DEF HandlerResolves, FailedOnce
  <2>2. c[1] \in Msgs /\ Pending(c[1])
    BY <1>3 DEF HandlerResolves, Placement, Pending, Live, Copies
  <2>3. /\ handled'[c[1]] > 0
        /\ \A m \in Msgs : m # c[1] => handled'[m] = handled[m]
    BY <1>3, <2>2 DEF HandlerResolves, TypeOK, Saturate
  <2>4. \A m \in Msgs : m # c[1] => MessageStatus(m)' = MessageStatus(m)
    BY <2>1, <2>3, StatusUnchanged DEF Pending, Live
  <2>5. MessageStatus(c[1])' = "handled"
    BY <2>3 DEF MessageStatus
  <2>6. CASE handled[c[1]] > 0
    <3>1. MessageStatus(c[1]) = "handled"
      BY <2>6 DEF MessageStatus
    <3>2. QED
      BY <2>1, <2>4, <2>5, <3>1, NobodyMoves DEF QueueStep
  <2>7. CASE handled[c[1]] = 0
    <3>1. MessageStatus(c[1]) = "pending"
      BY <2>2, <2>7 DEF MessageStatus
    <3>2. Queue!Handle(c[1])
      BY <2>1, <2>2, <2>4, <2>5, <3>1, OnlyOneMoves
         DEF Queue!Handle, Queue!Move, Statuses, FailedOnce
    <3>3. QED
      BY <2>2, <3>2 DEF QueueStep, Queue!Next
  <2>8. QED
    BY <2>2, <2>6, <2>7 DEF TypeOK
<1>4. ASSUME NEW c \in Copies, HandlerRejects(c) PROVE QueueStep
  <2>1. /\ handled' = handled /\ published' = published
        /\ c[1] \in Msgs /\ Pending(c[1]) /\ FailedOnce' = FailedOnce \cup {c[1]}
    <3>1. handled' = handled /\ published' = published
      BY <1>4 DEF HandlerRejects, PublishRetry, Nack, CatchBlockThrows, ErrorLoggedOnly, ProcessDies
    <3>2. c[1] \in Msgs /\ Pending(c[1])
      BY <1>4 DEF HandlerRejects, Placement, Pending, Live, Copies
    <3>3. /\ rejections'[c[1]] > 0
          /\ \A m \in Msgs : m # c[1] => rejections'[m] = rejections[m]
      BY <1>4, <3>2, DeliveryAssumption DEF HandlerRejects, TypeOK, Saturate, DeliveryAssumption
    <3>4. QED
      BY <3>1, <3>2, <3>3 DEF FailedOnce
  <2>2. MessageStatus(c[1]) \in {"pending", "handled"}
    BY <2>1, StatusCases DEF TypeOK
  <2>3. CASE Statuses' = Statuses
    <3>1. Queue!Fail(c[1])
      BY <2>1, <2>2, <2>3 DEF Queue!Fail, Statuses, FailedOnce
    <3>2. QED
      BY <2>1, <3>1 DEF QueueStep, Queue!Next
  <2>4. CASE PublishRetry(c)
    <3>1. \A m \in Msgs : Pending(m)' <=> Pending(m)
      <4>1. \A d \in Copies : d[1] # c[1] \/ ~RetryRouted => (Live(d)' <=> Live(d))
        BY <2>4 DEF PublishRetry, TypeOK, Live
      <4>2. Live(c) /\ Live(c)'
        BY <1>4, <2>4 DEF HandlerRejects, Placement, PublishRetry, Free, TypeOK, Live
      <4>3. Pending(c[1])'
        BY <4>2 DEF Pending, Copies
      <4>4. QED
        BY <2>1, <4>1, <4>3 DEF Pending, Copies
    <3>2. QED
      BY <2>1, <2>3, <3>1, StatusUnchanged, NobodyMoves
  <2>5. CASE CatchBlockThrows(c) \/ ErrorLoggedOnly(c)
    <3>1. \A d \in Copies : Live(d)' <=> Live(d)
      BY <2>5, RequeuedLive DEF CatchBlockThrows, ErrorLoggedOnly, ProcessDies, Live
    <3>2. QED
      BY <2>1, <2>3, <3>1, StatusUnchanged, NobodyMoves DEF Pending, Copies
  <2>6. CASE Nack(c)
    <3>1. \A m \in Msgs : m # c[1] => (Pending(m)' <=> Pending(m))
      <4>1. \A d \in Copies : d[1] # c[1] => (Live(d)' <=> Live(d))
        BY <2>6 DEF Nack, TypeOK, Live
      <4>2. QED
        BY <4>1, PendingUnchanged
    <3>2. \A m \in Msgs : m # c[1] => MessageStatus(m)' = MessageStatus(m)
      BY <2>1, <3>1, StatusUnchanged
    <3>3. CASE handled[c[1]] > 0 \/ Pending(c[1])'
      <4>1. MessageStatus(c[1])' = MessageStatus(c[1])
        BY <2>1, <3>3, StatusUnchanged DEF MessageStatus, TypeOK
      <4>2. QED
        BY <2>3, <3>2, <4>1, NobodyMoves
    <3>4. CASE handled[c[1]] = 0 /\ ~Pending(c[1])'
      <4>1. c[1] \in published
        BY <1>4 DEF HandlerRejects, Placement, Live
      <4>2. MessageStatus(c[1]) = "pending" /\ MessageStatus(c[1])' = "lost"
        BY <2>1, <3>4, <4>1 DEF MessageStatus
      <4>3. Lossy
        BY <2>6, DeliveryAssumption
           DEF Nack, RetryCount, HeadersZero, TypeOK, DeliveryAssumption, MaxRetries
      <4>4. Queue!Fail(c[1])
        BY <2>1, <3>2, <4>2, <4>3, OnlyOneMoves
           DEF Queue!Fail, Queue!Move, Statuses, FailedOnce
      <4>5. QED
        BY <2>1, <4>4 DEF QueueStep, Queue!Next
    <3>5. QED
      BY <2>1, <3>3, <3>4 DEF TypeOK
  <2>7. QED
    BY <1>4, <2>4, <2>5, <2>6 DEF HandlerRejects
<1>5. ASSUME NEW c \in Copies, AckCopy(c), frame[c] \in {"acking", "published"}
      PROVE  QueueStep
  <2>1. /\ handled' = handled /\ rejections' = rejections /\ published' = published
        /\ FailedOnce' = FailedOnce
    BY <1>5 DEF AckCopy, FailedOnce
  <2>2. c[1] \in Msgs /\ Pending(c[1]) /\ c[1] \in published
    BY <1>5 DEF Placement, Pending, Live, Copies
  <2>3. \A m \in Msgs : m # c[1] => (Pending(m)' <=> Pending(m))
    <3>1. \A d \in Copies : d[1] # c[1] => (Live(d)' <=> Live(d))
      BY <1>5 DEF AckCopy, TypeOK, Live
    <3>2. QED
      BY <3>1, PendingUnchanged
  <2>4. \A m \in Msgs : m # c[1] => MessageStatus(m)' = MessageStatus(m)
    BY <2>1, <2>3, StatusUnchanged
  <2>5. CASE handled[c[1]] > 0 \/ Pending(c[1])'
    <3>1. MessageStatus(c[1])' = MessageStatus(c[1])
      BY <2>1, <2>2, <2>5, StatusUnchanged DEF MessageStatus, TypeOK
    <3>2. QED
      BY <2>1, <2>4, <3>1, NobodyMoves DEF QueueStep
  <2>6. CASE handled[c[1]] = 0 /\ ~Pending(c[1])'
    <3>1. MessageStatus(c[1]) = "pending" /\ MessageStatus(c[1])' = "lost"
      BY <2>1, <2>2, <2>6 DEF MessageStatus
    <3>2. frame[c] = "published" /\ c[1] \in FailedOnce
      BY <1>5, <2>2, <2>6 DEF AckIsEarned, FailedOnce, TypeOK
    <3>3. ASSUME RetryRouted, MaxRetries(options) >= 1 PROVE FALSE
      <4>1. PICK s \in Slots : Owed(<<c[1], s>>)
        BY <2>2, <2>6, <3>3 DEF RetriedUntilHandled, TypeOK
      <4>2. <<c[1], s>> # c
        BY <3>2, <4>1 DEF Owed
      <4>3. Live(<<c[1], s>>)'
        BY <1>5, <2>2, <4>1, <4>2 DEF AckCopy, Owed, Live, TypeOK, Copies
      <4>4. QED
        BY <2>6, <4>3 DEF Pending
    <3>4. Lossy
      BY <3>3 DEF TypeOK
    <3>5. Queue!Discard(c[1])
      BY <2>1, <2>2, <2>4, <3>1, <3>2, <3>4, OnlyOneMoves
         DEF Queue!Discard, Queue!Move, Statuses, FailedOnce
    <3>6. QED
      BY <2>2, <3>5 DEF QueueStep, Queue!Next
  <2>7. QED
    BY <2>2, <2>5, <2>6 DEF TypeOK
<1>6. QED
  BY <1>1, <1>2, <1>3, <1>4, <1>5 DEF Next, Step, AckHandled, AckRetried

\* consume implements AtLeastOnce: a message is lost only after a failed run of its
\* handler and only for want of a route back, and a handled message stays handled.
THEOREM QueueImplemented == Spec => ImplementsQueue
<1>1. Init => Queue!Init
  <2> SUFFICES ASSUME Init PROVE Queue!Init
    OBVIOUS
  <2>1. TypeOK /\ \A m \in Msgs : handled[m] = 0 /\ rejections[m] = 0 /\ m \notin published
    BY InitType DEF Init
  <2>2. \A m \in Msgs : ~Pending(m)
    BY DEF Init, Pending, Live, Copies
  <2>3. \A m \in Msgs : MessageStatus(m) = "new"
    BY <2>1, <2>2, StatusCases
  <2>4. { m \in Msgs : rejections[m] > 0 } = {}
    BY <2>1
  <2>5. QED
    BY <2>3, <2>4, Zenon DEF Queue!Init
<1>2. Init => AckIsEarned /\ HeadersZero
  BY DEF Init, AckIsEarned, HeadersZero
<1>3. /\ TypeOK /\ TypeOK' /\ Placement /\ AckIsEarned /\ HeadersZero
      /\ RetriedUntilHandled /\ [Next]_vars
      => (AckIsEarned /\ HeadersZero)' /\ QueueStep
  BY AckIsEarnedStep, HeadersZeroStep, ImplementationStep
<1>4. QueueStep => [Queue!Next]_<<Statuses, FailedOnce>>
  BY DEF QueueStep
<1>5. QED
  BY <1>1, <1>2, <1>3, <1>4, TypeCorrect, PlacementCorrect, RetriedUntilHandledCorrect, PTL
     DEF Spec, ImplementsQueue, Queue!Spec, Statuses, FailedOnce
=============================================================================
