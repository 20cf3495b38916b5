------------------------------ MODULE JobsProofs ------------------------------
(***************************************************************************)
(* Proofs about Jobs, for every topology, every set of consumers, callers' *)
(* keys and job types, and every number of crashes and closed channels:    *)
(* which jobs the broker may be done with, and that no job runs early.     *)
(***************************************************************************)
EXTENDS Jobs, TLAPS

\* A message that is anywhere was published by some call.
Called ==
  \A j \in JobIds : at[j] # "unsent" \/ frame[j] # "idle" => call[j] \in PublishCall

TypeInv == TypeOK /\ Called

-----------------------------------------------------------------------------
(* Calls.                                                                  *)

LEMMA ApiCallsTyped == ApiCalls \subseteq PublishCall /\ ScheduleUserCleanup \in PublishCall
<1>1. \A x \in Exchanges, k \in Keys \cup StandardKeys, t \in Types \cup {NoType}, o \in BOOLEAN :
        Publish(x, k, t, o) \in PublishCall
  BY DEF Publish, PublishCall
<1>2. \A x \in Exchanges, k \in Keys \cup StandardKeys, t \in Types \cup {NoType} :
        PublishWithDelay(x, k, t) \in PublishCall
  BY DEF PublishWithDelay, PublishCall
<1>3. \A q \in Targets, t \in Types : SendToQueue(q, t) \in PublishCall
  BY JobsAssumption DEF SendToQueue, PublishCall
<1>4. \A x \in Exchanges, k \in Keys \cup StandardKeys, t \in Types \cup {NoType}, d \in BOOLEAN :
        SubmitJob(x, k, t, d) \in PublishCall
  BY <1>1, <1>2 DEF SubmitJob
<1>5. \A d \in BOOLEAN : EnqueueJob(d) \in PublishCall
  BY <1>1, <1>2, JobsAssumption DEF EnqueueJob
<1>6. ScheduleTask \in PublishCall
  BY <1>2, JobsAssumption DEF ScheduleTask
<1>7. \A x \in Exchanges, k \in Keys : EmitWithDelay(x, k) \in PublishCall
  BY <1>2 DEF EmitWithDelay
<1>8. ScheduleUserCleanup \in PublishCall
  BY <1>4, JobsAssumption DEF ScheduleUserCleanup
<1> QED BY <1>1, <1>3, <1>4, <1>5, <1>6, <1>7, <1>8 DEF ApiCalls

\* A retry is a call that asks for the same type and key.
LEMMA RetryTyped ==
  ASSUME NEW c \in PublishCall
  PROVE  Retry(c) \in PublishCall /\ Retry(c).type = c.type
<1>1. "retry_exchange" \in Exchanges
  BY JobsAssumption
<1> QED BY <1>1, Zenon DEF Retry, PublishCall

\* Where a publication on the direct channel gets to, and what this means.
LEMMA PlacedWhere ==
  ASSUME NEW c
  PROVE  /\ Placed(c) \in {"held", "ready", "gone"}
         /\ Placed(c) = "gone" => Routed(c.exchange, c.key) = {}
         /\ Held(c) => Placed(c) = "held"
BY DEF Placed, Arrives

-----------------------------------------------------------------------------
(* What the environment and the acknowledgements do to a message.          *)

LEMMA DiesEffect ==
  ASSUME TypeOK, ProcessDies
  PROVE  /\ at' \in [JobIds -> Place] /\ call' = call
         /\ \A j \in JobIds :
              /\ at[j] = "unsent" => at'[j] = "unsent"
              /\ at'[j] \in {at[j], "lost"} \/ (at[j] = "unacked" /\ at'[j] = "ready")
         /\ frame' = [j \in JobIds |-> "idle"] /\ by' = [j \in JobIds |-> NoOne]
         /\ up' \in BOOLEAN /\ channel' \in {"absent", "open", "closed"}
         /\ registered' \in SUBSET Consumers
         /\ crashes' \in 0..(MaxCrashes + 1) /\ closes' = closes
<1>1. crashes' \in 0..(MaxCrashes + 1)
  BY JobsAssumption DEF ProcessDies, TypeOK
<1> QED BY <1>1 DEF ProcessDies, Requeued, TypeOK, Place

\* Settling moves one message to a place and ends its callback, or ends the process.
LEMMA SettleEffect ==
  ASSUME TypeOK, NEW j \in JobIds, Settle(j, "gone")
  PROVE  /\ at' \in [JobIds -> Place] /\ call' = call
         /\ \A i \in JobIds :
              /\ at[i] = "unsent" /\ i # j => at'[i] = "unsent"
              /\ i # j => at'[i] \in {at[i], "lost"} \/ (at[i] = "unacked" /\ at'[i] = "ready")
              /\ at'[i] # "unsent" => at[i] # "unsent" \/ i = j
         /\ at'[j] \in {at[j], "lost", "gone"} \/ (at[j] = "unacked" /\ at'[j] = "ready")
         /\ frame' \in [JobIds -> FrameState]
         /\ \A i \in JobIds :
              frame'[i] = "idle" \/ (frame'[i] = frame[i] /\ by'[i] = by[i])
         /\ by' \in [JobIds -> Consumers \cup {NoOne}]
         /\ up' \in BOOLEAN /\ channel' \in {"absent", "open", "closed"}
         /\ registered' \in SUBSET Consumers
         /\ crashes' \in 0..(MaxCrashes + 1) /\ closes' \in 0..MaxCloses
<1>1. CASE open /\ at' = [at EXCEPT ![j] = "gone"] /\ frame' = [frame EXCEPT ![j] = "idle"]
           /\ by' = [by EXCEPT ![j] = NoOne] /\ UNCHANGED << call, service >>
  BY <1>1 DEF TypeOK, Place, FrameState, service
<1>2. CASE ProcessDies
  BY <1>2, DiesEffect DEF TypeOK, FrameState
<1> QED BY <1>1, <1>2 DEF Settle

-----------------------------------------------------------------------------
(* Types.                                                                  *)

LEMMA TypeInit == Init => TypeInv
BY JobsAssumption DEF Init, TypeInv, TypeOK, Called, Place, FrameState

LEMMA TypeStep == TypeInv /\ [Next]_vars => TypeInv'
<1> SUFFICES ASSUME TypeInv, [Next]_vars PROVE TypeInv'
  OBVIOUS
<1> USE DEF TypeInv
<1>0. /\ call \in [JobIds -> PublishCall \cup {NoCall}] /\ at \in [JobIds -> Place]
      /\ frame \in [JobIds -> FrameState] /\ by \in [JobIds -> Consumers \cup {NoOne}]
  BY DEF TypeOK
<1>1. ASSUME NEW j \in JobIds, NEW c \in PublishCall, Call(j, c) PROVE TypeInv'
  <2>1. at' \in [JobIds -> Place] /\ call' \in [JobIds -> PublishCall \cup {NoCall}]
    BY <1>0, <1>1, PlacedWhere DEF Call, Place
  <2>2. TypeOK'
    BY <1>1, <2>1 DEF Call, TypeOK, service, history
  <2>3. \A i \in JobIds : i # j => call'[i] = call[i] /\ at'[i] = at[i] /\ frame'[i] = frame[i]
    BY <1>0, <1>1 DEF Call
  <2>4. call'[j] = c
    BY <1>0, <1>1 DEF Call
  <2>5. Called'
    BY <2>3, <2>4 DEF Called
  <2> QED BY <2>2, <2>5
<1>2. ASSUME NEW j \in JobIds, HandleInactiveUserCleanup(j) PROVE TypeInv'
  BY <1>1, <1>2, ApiCallsTyped DEF HandleInactiveUserCleanup
<1>3. ASSUME NEW j \in JobIds, ClientSends(j) PROVE TypeInv'
  <2>1. TypeOK'
    BY <1>3 DEF ClientSends, TypeOK, Place, service, history
  <2>2. Called'
    BY <1>0, <1>3 DEF ClientSends, Called
  <2> QED BY <2>1, <2>2
<1>4. ASSUME NEW j \in JobIds, DelayPasses(j) PROVE TypeInv'
  <2>1. Arrives(call[j].exchange, call[j].key) \in Place
    BY DEF Arrives, Place
  <2>2. TypeOK'
    BY <1>4, <2>1 DEF DelayPasses, TypeOK, service, history
  <2>3. Called'
    BY <1>0, <1>4 DEF DelayPasses, Called
  <2> QED BY <2>2, <2>3
<1>5. ASSUME NEW j \in JobIds, NEW k \in Consumers, Deliver(j, k) PROVE TypeInv'
  <2>1. TypeOK'
    BY <1>5 DEF Deliver, TypeOK, Place, FrameState, service, history
  <2>2. Called'
    BY <1>0, <1>5 DEF Deliver, Called
  <2> QED BY <2>1, <2>2
<1>6. ASSUME NEW j \in JobIds, Settle(j, "gone"), frame[j] # "idle",
             done' \in SUBSET JobIds, failed' \in SUBSET JobIds,
             ignored' \in SUBSET JobIds, expired' \in SUBSET JobIds
      PROVE  TypeInv'
  <2>1. TypeOK'
    BY <1>0, <1>6, SettleEffect DEF TypeOK
  <2>2. Called'
    BY <1>6, SettleEffect DEF Called
  <2> QED BY <2>1, <2>2
<1>7. ASSUME NEW j \in JobIds, Ignore(j) PROVE TypeInv'
  BY <1>6, <1>7 DEF Ignore, TypeOK
<1>8. ASSUME NEW j \in JobIds, WorkSucceeds(j) PROVE TypeInv'
  <2>1. TypeOK'
    BY <1>8 DEF WorkSucceeds, TypeOK, FrameState, service
  <2>2. Called'
    BY <1>0, <1>8 DEF WorkSucceeds, Called
  <2> QED BY <2>1, <2>2
<1>9. ASSUME NEW j \in JobIds, Ack(j) PROVE TypeInv'
  BY <1>6, <1>9 DEF Ack, TypeOK, history
<1>10. ASSUME NEW j \in JobIds, WorkFails(j) PROVE TypeInv'
  <2>0. failed' \in SUBSET JobIds /\ UNCHANGED << done, ignored >> /\ frame[j] = "running"
    BY <1>10 DEF WorkFails, TypeOK
  <2>1. CASE ConsumerSpec[by[j]].swallows
    <3>1. /\ frame' = [frame EXCEPT ![j] = "worked"]
          /\ UNCHANGED << call, at, by, service, expired >>
      BY <1>10, <2>1 DEF WorkFails
    <3>2. TypeOK'
      BY <2>0, <3>1 DEF TypeOK, FrameState, service
    <3>3. Called'
      BY <1>0, <2>0, <3>1 DEF Called
    <3> QED BY <3>2, <3>3
  <2>2. CASE open /\ ~ConsumerSpec[by[j]].swallows
    <3>1. /\ call' = [call EXCEPT ![j] = Retry(call[j])]
          /\ at' = [at EXCEPT ![j] = Placed(Retry(call[j]))]
          /\ expired' = expired \ {j}
          /\ frame' = [frame EXCEPT ![j] = "idle"]
          /\ by' = [by EXCEPT ![j] = NoOne]
          /\ UNCHANGED service
      BY <1>10, <2>2 DEF WorkFails, ProcessDies
    <3>2. call[j] \in PublishCall /\ Retry(call[j]) \in PublishCall
      BY <2>0, RetryTyped DEF Called
    <3>3. Placed(Retry(call[j])) \in Place
      BY PlacedWhere DEF Place
    <3>4. /\ call' \in [JobIds -> PublishCall \cup {NoCall}] /\ at' \in [JobIds -> Place]
          /\ frame' \in [JobIds -> FrameState] /\ by' \in [JobIds -> Consumers \cup {NoOne}]
      BY <1>0, <3>1, <3>2, <3>3 DEF FrameState
    <3>5. TypeOK'
      BY <2>0, <3>1, <3>4 DEF TypeOK, service
    <3>6. Called'
      BY <1>0, <3>1, <3>2 DEF Called
    <3> QED BY <3>5, <3>6
  <2>3. CASE ~open /\ ~ConsumerSpec[by[j]].swallows
    <3>1. ProcessDies /\ UNCHANGED expired
      BY <1>10, <2>3 DEF WorkFails
    <3> QED BY <1>0, <2>0, <3>1, DiesEffect DEF TypeOK, Called, FrameState
  <2> QED BY <2>1, <2>2, <2>3
<1>11. ASSUME ProcessDies, UNCHANGED history PROVE TypeInv'
  BY <1>0, <1>11, DiesEffect DEF TypeOK, Called, FrameState, history
<1>12. ASSUME NEW k \in Consumers, Register(k) PROVE TypeInv'
  <2>1. CASE ProcessDies
    BY <1>11, <1>12, <2>1 DEF Register
  <2>2. CASE registered' = registered \cup {k} /\ UNCHANGED << call, at, frame, by, up, channel, crashes, closes >>
    BY <1>12, <2>2 DEF Register, TypeOK, Called, history
  <2> QED BY <1>12, <2>1, <2>2 DEF Register
<1>13. CASE Initialize
  BY <1>13 DEF Initialize, TypeOK, Called, history
<1>14. CASE ChannelCloses
  <2>1. TypeOK'
    BY <1>14, JobsAssumption DEF ChannelCloses, Requeued, TypeOK, Place, history
  <2>2. Called'
    BY <1>0, <1>14 DEF ChannelCloses, Requeued, Called
  <2> QED BY <2>1, <2>2
<1>15. CASE Crash
  BY <1>11, <1>15 DEF Crash
<1>16. CASE Restart
  BY <1>16 DEF Restart, TypeOK, Called, history
<1>17. CASE UNCHANGED vars
  BY <1>17 DEF vars, TypeOK, Called
<1> QED BY <1>1, <1>2, <1>3, <1>4, <1>5, <1>7, <1>8, <1>9, <1>10, <1>12, <1>13, <1>14,
           <1>15, <1>16, <1>17, ApiCallsTyped DEF Next

LEMMA TypeInvCorrect == Spec => []TypeInv
BY TypeInit, TypeStep, PTL DEF Spec

\* Every call, wherever it is, is one that some caller makes or the retry of one, and the
\* consumers that hold deliveries are provided ones, in every reachable state.
THEOREM TypeCorrect == Spec => []TypeOK
BY TypeInvCorrect, PTL DEF TypeInv

-----------------------------------------------------------------------------
(* Jobs the broker is done with.                                           *)

\* Why j need not be anywhere any more.
Accounted(j) == j \in done \/ j \in ignored \/ Swallowed(j) \/ Queue(j) = {}

\* A callback belongs to a consumer.
Owned == \A j \in JobIds : frame[j] # "idle" => by[j] \in Consumers

\* What is about to be acknowledged was worked on, or its error was swallowed.
AckIsEarned == \A j \in JobIds : frame[j] = "worked" => j \in done \/ Swallowed(j)

LossInv == Owned /\ AckIsEarned /\ NoSilentJobLoss

LEMMA LossInit == Init => LossInv
BY DEF Init, LossInv, Owned, AckIsEarned, NoSilentJobLoss

\* A call keeps its reasons while it is not replaced, since the histories only grow.
LEMMA ReasonsStay ==
  ASSUME NEW j \in JobIds, call'[j] = call[j],
         done \subseteq done', ignored \subseteq ignored', failed \subseteq failed'
  PROVE  /\ Accounted(j) => Accounted(j)'
         /\ j \in done \/ Swallowed(j) => (j \in done \/ Swallowed(j))'
BY DEF Accounted, Swallowed, Queue

\* Steps in which no message leaves the queue and nothing becomes ready to be acknowledged.
LEMMA LossKept ==
  ASSUME LossInv, call' = call,
         done \subseteq done', ignored \subseteq ignored', failed \subseteq failed',
         \A j \in JobIds : at'[j] = "gone" => at[j] = "gone" \/ Accounted(j)',
         \A j \in JobIds : frame'[j] = "idle" \/ (frame'[j] = frame[j] /\ by'[j] = by[j])
  PROVE  LossInv'
<1>1. Owned' /\ AckIsEarned'
  BY ReasonsStay DEF LossInv, Owned, AckIsEarned
<1>2. \A j \in JobIds : at'[j] = "gone" => Accounted(j)'
  BY ReasonsStay DEF LossInv, NoSilentJobLoss, Accounted
<1>3. NoSilentJobLoss'
  BY <1>2 DEF NoSilentJobLoss, Accounted
<1> QED BY <1>1, <1>3 DEF LossInv

LEMMA LossStep == TypeInv /\ LossInv /\ [Next]_vars => LossInv'
<1> SUFFICES ASSUME TypeInv, LossInv, [Next]_vars PROVE LossInv'
  OBVIOUS
<1>0. /\ call \in [JobIds -> PublishCall \cup {NoCall}] /\ at \in [JobIds -> Place]
      /\ frame \in [JobIds -> FrameState] /\ by \in [JobIds -> Consumers \cup {NoOne}]
      /\ TypeOK
  BY DEF TypeInv, TypeOK
<1>1. ASSUME NEW j \in JobIds, NEW c \in PublishCall, Call(j, c) PROVE LossInv'
  <2>1. /\ call[j] = NoCall /\ call' = [call EXCEPT ![j] = c]
        /\ UNCHANGED << frame, by, done, failed, ignored >>
    BY <1>1 DEF Call, history
  <2>2. frame[j] = "idle"
    BY <2>1, NoCallAssumption DEF TypeInv, Called
  <2>3. \A i \in JobIds : i # j => call'[i] = call[i] /\ at'[i] = at[i]
    BY <1>0, <1>1 DEF Call
  <2>4. at'[j] = "gone" => Queue(j)' = {}
    BY <1>0, <1>1, PlacedWhere DEF Call, Queue
  <2>5. Owned' /\ AckIsEarned'
    BY <2>1, <2>2, <2>3 DEF LossInv, Owned, AckIsEarned, Swallowed
  <2>6. \A i \in JobIds : at'[i] = "gone" => Accounted(i)'
    BY <2>1, <2>3, <2>4, ReasonsStay DEF LossInv, NoSilentJobLoss, Accounted
  <2>7. NoSilentJobLoss'
    BY <2>6 DEF NoSilentJobLoss, Accounted
  <2> QED BY <2>5, <2>7 DEF LossInv
<1>2. ASSUME NEW j \in JobIds, HandleInactiveUserCleanup(j) PROVE LossInv'
  BY <1>1, <1>2, ApiCallsTyped DEF HandleInactiveUserCleanup
<1>3. ASSUME NEW j \in JobIds, ClientSends(j) PROVE LossInv'
  BY <1>0, <1>3, LossKept DEF ClientSends, history
<1>4. ASSUME NEW j \in JobIds, DelayPasses(j) PROVE LossInv'
  <2>1. at'[j] = "gone" => at[j] = "gone" \/ Queue(j)' = {}
    BY <1>0, <1>4 DEF DelayPasses, Arrives, Queue
  <2> QED BY <1>0, <1>4, <2>1, LossKept DEF DelayPasses, Accounted
<1>5. ASSUME NEW j \in JobIds, NEW k \in Consumers, Deliver(j, k) PROVE LossInv'
  <2>1. UNCHANGED << call, done, failed, ignored >>
    BY <1>5 DEF Deliver, history
  <2>2. Owned'
    BY <1>0, <1>5 DEF Deliver, LossInv, Owned
  <2>3. AckIsEarned'
    BY <1>0, <1>5, <2>1 DEF Deliver, LossInv, AckIsEarned, Swallowed
  <2>4. NoSilentJobLoss'
    BY <1>0, <1>5, <2>1 DEF Deliver, LossInv, NoSilentJobLoss, Swallowed, Queue
  <2> QED BY <2>2, <2>3, <2>4 DEF LossInv
<1>6. ASSUME NEW j \in JobIds, Ignore(j) PROVE LossInv'
  <2>1. j \in ignored' /\ Settle(j, "gone") /\ ignored \subseteq ignored' /\ UNCHANGED << done, failed >>
    BY <1>6 DEF Ignore
  <2>2. Accounted(j)'
    BY <2>1 DEF Accounted
  <2> QED BY <1>0, <2>1, <2>2, SettleEffect, LossKept
<1>7. ASSUME NEW j \in JobIds, WorkSucceeds(j) PROVE LossInv'
  <2>1. /\ j \in done' /\ done \subseteq done' /\ UNCHANGED << call, at, by, failed, ignored >>
        /\ frame[j] = "running" /\ frame' = [frame EXCEPT ![j] = "worked"]
    BY <1>7 DEF WorkSucceeds
  <2>2. Owned'
    BY <1>0, <2>1 DEF LossInv, Owned
  <2>3. AckIsEarned'
    BY <1>0, <2>1 DEF LossInv, AckIsEarned, Swallowed
  <2>4. NoSilentJobLoss'
    BY <2>1 DEF LossInv, NoSilentJobLoss, Swallowed, Queue
  <2> QED BY <2>2, <2>3, <2>4 DEF LossInv
<1>8. ASSUME NEW j \in JobIds, Ack(j) PROVE LossInv'
  <2>1. frame[j] = "worked" /\ Settle(j, "gone") /\ UNCHANGED << done, failed, ignored >>
    BY <1>8 DEF Ack, history
  <2>2. call' = call
    BY <1>0, <2>1, SettleEffect
  <2>3. Accounted(j)'
    BY <2>1, <2>2 DEF LossInv, AckIsEarned, Accounted, Swallowed
  <2> QED BY <1>0, <2>1, <2>3, SettleEffect, LossKept
<1>9. ASSUME NEW j \in JobIds, WorkFails(j) PROVE LossInv'
  <2>0. /\ j \in failed' /\ failed \subseteq failed' /\ UNCHANGED << done, ignored >>
        /\ frame[j] = "running" /\ Takes(by[j], call[j]) /\ by[j] \in Consumers
    BY <1>9 DEF WorkFails, LossInv, Owned
  <2>1. CASE ConsumerSpec[by[j]].swallows
    <3>1. /\ frame' = [frame EXCEPT ![j] = "worked"] /\ UNCHANGED << call, at, by >>
      BY <1>9, <2>1 DEF WorkFails
    <3>2. Swallowed(j)'
      BY <2>0, <2>1, <3>1 DEF Swallowed, Takes
    <3>3. Owned'
      BY <1>0, <2>0, <3>1 DEF LossInv, Owned
    <3>4. AckIsEarned'
      BY <1>0, <2>0, <3>1, <3>2, ReasonsStay DEF LossInv, AckIsEarned
    <3>5. \A i \in JobIds : at'[i] = "gone" => Accounted(i)'
      BY <2>0, <3>1, ReasonsStay DEF LossInv, NoSilentJobLoss, Accounted
    <3>6. NoSilentJobLoss'
      BY <3>5 DEF NoSilentJobLoss, Accounted
    <3> QED BY <3>3, <3>4, <3>6 DEF LossInv
  <2>2. CASE open /\ ~ConsumerSpec[by[j]].swallows
    <3>1. /\ call' = [call EXCEPT ![j] = Retry(call[j])]
          /\ at' = [at EXCEPT ![j] = Placed(Retry(call[j]))]
          /\ frame' = [frame EXCEPT ![j] = "idle"]
          /\ by' = [by EXCEPT ![j] = NoOne]
      BY <1>9, <2>2 DEF WorkFails, ProcessDies
    <3>2. /\ \A i \in JobIds : i # j =>
               call'[i] = call[i] /\ at'[i] = at[i] /\ frame'[i] = frame[i] /\ by'[i] = by[i]
          /\ call'[j] = Retry(call[j]) /\ at'[j] = Placed(call'[j]) /\ frame'[j] = "idle"
      BY <1>0, <3>1
    <3>3. at'[j] = "gone" => Queue(j)' = {}
      BY <3>2, PlacedWhere DEF Queue
    <3>4. Owned'
      BY <3>2 DEF LossInv, Owned
    <3>5. AckIsEarned'
      BY <2>0, <3>2, ReasonsStay DEF LossInv, AckIsEarned
    <3>6. \A i \in JobIds : at'[i] = "gone" => Accounted(i)'
      BY <2>0, <3>2, <3>3, ReasonsStay DEF LossInv, NoSilentJobLoss, Accounted
    <3>7. NoSilentJobLoss'
      BY <3>6 DEF NoSilentJobLoss, Accounted
    <3> QED BY <3>4, <3>5, <3>7 DEF LossInv
  <2>3. CASE ~open /\ ~ConsumerSpec[by[j]].swallows
    <3>1. ProcessDies
      BY <1>9, <2>3 DEF WorkFails
    <3> QED BY <1>0, <2>0, <3>1, DiesEffect, LossKept
  <2> QED BY <2>1, <2>2, <2>3
<1>10. ASSUME ProcessDies, UNCHANGED history PROVE LossInv'
  BY <1>0, <1>10, DiesEffect, LossKept DEF history
<1>11. ASSUME NEW k \in Consumers, Register(k) PROVE LossInv'
  BY <1>10, <1>11, LossKept DEF Register, history
<1>12. CASE Initialize \/ Restart \/ UNCHANGED vars
  BY <1>12, LossKept DEF Initialize, Restart, vars, history
<1>13. CASE ChannelCloses
  BY <1>0, <1>13, LossKept DEF ChannelCloses, Requeued, history
<1>14. CASE Crash
  BY <1>10, <1>14 DEF Crash
<1> QED BY <1>1, <1>2, <1>3, <1>4, <1>5, <1>6, <1>7, <1>8, <1>9, <1>11, <1>12, <1>13,
           <1>14, ApiCallsTyped DEF Next

LEMMA LossInvCorrect == Spec => []LossInv
BY LossInit, LossStep, TypeInvCorrect, PTL DEF Spec

\* Whatever topology, consumers and calls there are, and however often the process crashes
\* and its channel closes: the broker is done with a job only if somebody worked on it,
\* returned from it because it was of another type, swallowed its error, or published it
\* where no queue is bound.
THEOREM NoSilentJobLossCorrect == Spec => []NoSilentJobLoss
BY LossInvCorrect, PTL DEF LossInv

-----------------------------------------------------------------------------
(* Delays.                                                                 *)

\* What a delayed exchange has to hold is neither in a queue nor with a consumer before
\* its delay has passed.
HeldBack ==
  \A j \in JobIds :
    Held(call[j]) /\ (frame[j] # "idle" \/ at[j] \in {"ready", "unacked"}) => j \in expired

LEMMA HeldBackInit == Init => HeldBack
BY DEF Init, HeldBack

\* Steps that make nothing ready which was not, and start no callback.
LEMMA HeldBackKept ==
  ASSUME HeldBack, call' = call, expired \subseteq expired',
         \A j \in JobIds : at'[j] \in {"ready", "unacked"} => at[j] \in {"ready", "unacked"} \/ j \in expired',
         \A j \in JobIds : frame'[j] # "idle" => frame[j] # "idle" \/ at[j] = "ready"
  PROVE  HeldBack'
BY DEF HeldBack, Held

LEMMA HeldBackStep == TypeInv /\ HeldBack /\ [Next]_vars => HeldBack'
<1> SUFFICES ASSUME TypeInv, HeldBack, [Next]_vars PROVE HeldBack'
  OBVIOUS
<1>0. /\ call \in [JobIds -> PublishCall \cup {NoCall}] /\ at \in [JobIds -> Place]
      /\ frame \in [JobIds -> FrameState] /\ by \in [JobIds -> Consumers \cup {NoOne}]
      /\ TypeOK
  BY DEF TypeInv, TypeOK
<1>1. ASSUME NEW j \in JobIds, NEW c \in PublishCall, Call(j, c) PROVE HeldBack'
  <2>1. /\ call[j] = NoCall /\ call' = [call EXCEPT ![j] = c]
        /\ UNCHANGED << frame, expired >>
    BY <1>1 DEF Call, history
  <2>2. frame[j] = "idle"
    BY <2>1, NoCallAssumption DEF TypeInv, Called
  <2>3. at'[j] \in {"outbox", "refused", Placed(c)}
    BY <1>0, <1>1 DEF Call
  <2>4. Held(call'[j]) => at'[j] \notin {"ready", "unacked"}
    BY <1>0, <2>1, <2>3, PlacedWhere
  <2>5. \A i \in JobIds : i # j => call'[i] = call[i] /\ at'[i] = at[i]
    BY <1>0, <1>1 DEF Call
  <2> QED BY <2>1, <2>2, <2>4, <2>5 DEF HeldBack, Held
<1>2. ASSUME NEW j \in JobIds, HandleInactiveUserCleanup(j) PROVE HeldBack'
  BY <1>1, <1>2, ApiCallsTyped DEF HandleInactiveUserCleanup
<1>3. ASSUME NEW j \in JobIds, ClientSends(j) PROVE HeldBack'
  BY <1>0, <1>3, HeldBackKept DEF ClientSends, history
<1>4. ASSUME NEW j \in JobIds, DelayPasses(j) PROVE HeldBack'
  BY <1>0, <1>4, HeldBackKept DEF DelayPasses
<1>5. ASSUME NEW j \in JobIds, NEW k \in Consumers, Deliver(j, k) PROVE HeldBack'
  BY <1>0, <1>5, HeldBackKept DEF Deliver, history
<1>6. ASSUME NEW j \in JobIds, Settle(j, "gone"), frame[j] # "idle", UNCHANGED expired
      PROVE  HeldBack'
  BY <1>0, <1>6, SettleEffect, HeldBackKept
<1>7. ASSUME NEW j \in JobIds, Ignore(j) \/ Ack(j) PROVE HeldBack'
  BY <1>6, <1>7 DEF Ignore, Ack, history
<1>8. ASSUME NEW j \in JobIds, WorkSucceeds(j) PROVE HeldBack'
  BY <1>0, <1>8, HeldBackKept DEF WorkSucceeds
<1>9. ASSUME NEW j \in JobIds, WorkFails(j) PROVE HeldBack'
  <2>1. CASE ConsumerSpec[by[j]].swallows
    BY <1>0, <1>9, <2>1, HeldBackKept DEF WorkFails
  <2>2. CASE open /\ ~ConsumerSpec[by[j]].swallows
    <3>1. /\ call' = [call EXCEPT ![j] = Retry(call[j])]
          /\ at' = [at EXCEPT ![j] = Placed(Retry(call[j]))]
          /\ expired' = expired \ {j}
          /\ frame' = [frame EXCEPT ![j] = "idle"]
      BY <1>9, <2>2 DEF WorkFails, ProcessDies
    <3>2. /\ \A i \in JobIds : i # j =>
               call'[i] = call[i] /\ at'[i] = at[i] /\ frame'[i] = frame[i]
          /\ call'[j] = Retry(call[j]) /\ at'[j] = Placed(call'[j]) /\ frame'[j] = "idle"
      BY <1>0, <3>1
    <3>3. Held(call'[j]) => at'[j] = "held"
      BY <3>2, PlacedWhere
    <3> QED BY <3>1, <3>2, <3>3 DEF HeldBack, Held
  <2>3. CASE ~open /\ ~ConsumerSpec[by[j]].swallows
    <3>1. ProcessDies /\ UNCHANGED expired
      BY <1>9, <2>3 DEF WorkFails
    <3> QED BY <1>0, <3>1, DiesEffect, HeldBackKept
  <2> QED BY <2>1, <2>2, <2>3
<1>10. ASSUME ProcessDies, UNCHANGED history PROVE HeldBack'
  BY <1>0, <1>10, DiesEffect, HeldBackKept DEF history
<1>11. ASSUME NEW k \in Consumers, Register(k) PROVE HeldBack'
  BY <1>10, <1>11, HeldBackKept DEF Register, history
<1>12. CASE Initialize \/ Restart \/ UNCHANGED vars
  BY <1>12, HeldBackKept DEF Initialize, Restart, vars, history
<1>13. CASE ChannelCloses
  BY <1>0, <1>13, HeldBackKept DEF ChannelCloses, Requeued, history
<1>14. CASE Crash
  BY <1>10, <1>14 DEF Crash
<1> QED BY <1>1, <1>2, <1>3, <1>4, <1>5, <1>7, <1>8, <1>9, <1>11, <1>12, <1>13, <1>14,
           ApiCallsTyped DEF Next

\* No job that a delayed exchange is to hold is run before its delay is over: neither what
\* callers publish nor a retry, through whatever crashes and redeliveries.
THEOREM NeverEarlyCorrect == Spec => []NeverEarly
<1>1. HeldBack => NeverEarly
  BY DEF HeldBack, Held, NeverEarly
<1> QED BY <1>1, HeldBackInit, HeldBackStep, TypeInvCorrect, PTL DEF Spec
=============================================================================
