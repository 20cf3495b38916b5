------------------------ MODULE MessagePatternsProofs ------------------------
(***************************************************************************)
(* Proofs about MessagePatterns, for every set of messages and runs and    *)
(* every number of crashes and closed channels: what manual                *)
(* acknowledgement loses, what it repeats, and what the caller of send is  *)
(* told.                                                                   *)
(***************************************************************************)
EXTENDS MessagePatterns, TLAPS

Updates == Requests \cup Events

RunOf(r, m) == run[r] # None /\ run[r].msg = m

-----------------------------------------------------------------------------
(* Settling a delivery.                                                    *)

\* Settling changes nothing but how far runs are, how fresh their channels, and where
\* messages are; it ends as asked for or as an error; and without a closed channel it
\* does exactly what it is asked for.
LEMMA SettleEffect ==
  ASSUME TypeOK, NEW r \in Runs, run[r] # None, NEW place \in {"ready", "gone"},
         NEW to \in {"ok", "error"}, Settle(r, place, to)
  PROVE  /\ broker' \in [Msgs -> {"new", "ready", "unacked", "gone"}]
         /\ run' \in [Runs -> Run \cup {None}]
         /\ hungUp' \in BOOLEAN /\ cutOff' \in SUBSET Msgs
         /\ \A q \in Runs : run'[q] # None =>
              /\ run[q] # None /\ run'[q].msg = run[q].msg
              /\ q # r => run'[q].at = run[q].at
              /\ q = r => run'[q].at \in {to, "error"}
         /\ \A m \in Msgs : broker'[m] = "gone" =>
              broker[m] = "gone" \/ (place = "gone" /\ RunOf(r, m))
         /\ ~hungUp' /\ run[r].fresh =>
              /\ ~noAck /\ ~hungUp
              /\ broker' = [broker EXCEPT ![run[r].msg] = place]
              /\ run' = [run EXCEPT ![r].at = to]
<1> USE DEF TypeOK
<1>0. /\ run \in [Runs -> Run \cup {None}] /\ run[r] \in Run
      /\ broker \in [Msgs -> {"new", "ready", "unacked", "gone"}]
      /\ run[r].msg \in Msgs
  BY DEF Run
<1>1. CASE run[r].fresh /\ ~noAck
  <2>1. /\ broker' = [broker EXCEPT ![run[r].msg] = place]
        /\ run' = [run EXCEPT ![r].at = to]
        /\ UNCHANGED << hungUp, cutOff >>
    BY <1>1 DEF Settle
  <2>2. run' \in [Runs -> Run \cup {None}]
    BY <1>0, <2>1 DEF Run
  <2>3. \A q \in Runs : run'[q] # None =>
          /\ run[q] # None /\ run'[q].msg = run[q].msg
          /\ q # r => run'[q].at = run[q].at
          /\ q = r => run'[q].at \in {to, "error"}
    BY <1>0, <2>1 DEF Run
  <2> QED BY <1>0, <1>1, <2>1, <2>2, <2>3 DEF RunOf
<1>2. CASE run[r].fresh /\ noAck
  <2>1. /\ broker' = Requeued /\ hungUp' = TRUE /\ cutOff' = cutOff \cup Unanswerable
        /\ run' = Stale([run EXCEPT ![r].at = to])
    BY <1>2 DEF Settle
  <2>2. [run EXCEPT ![r].at = to] \in [Runs -> Run \cup {None}]
    BY <1>0 DEF Run
  <2>3. run' \in [Runs -> Run \cup {None}]
    BY <2>1, <2>2 DEF Stale, Run
  <2>4. \A q \in Runs : run'[q] # None =>
          /\ run[q] # None /\ run'[q].msg = run[q].msg
          /\ q # r => run'[q].at = run[q].at
          /\ q = r => run'[q].at \in {to, "error"}
    BY <1>0, <2>1, <2>2 DEF Stale, Run
  <2>5. Unanswerable \in SUBSET Msgs
    BY DEF Unanswerable
  <2> QED BY <1>0, <2>1, <2>3, <2>4, <2>5 DEF Requeued
<1>3. CASE ~run[r].fresh
  <2>1. run' = [run EXCEPT ![r].at = "error"] /\ UNCHANGED << broker, hungUp, cutOff >>
    BY <1>3 DEF Settle
  <2>2. run' \in [Runs -> Run \cup {None}]
    BY <1>0, <2>1 DEF Run
  <2>3. \A q \in Runs : run'[q] # None =>
          /\ run[q] # None /\ run'[q].msg = run[q].msg
          /\ q # r => run'[q].at = run[q].at
          /\ q = r => run'[q].at \in {to, "error"}
    BY <1>0, <2>1 DEF Run
  <2> QED BY <1>0, <1>3, <2>1, <2>2, <2>3
<1> QED BY <1>1, <1>2, <1>3

-----------------------------------------------------------------------------
(* Types.                                                                  *)

LEMMA TypeInit == Init => TypeOK
<1> SUFFICES ASSUME Init PROVE TypeOK
  OBVIOUS
<1>1. 0 \in 0..MaxCrashes /\ 0 \in 0..MaxCloses /\ 0 \in 0..AppliedCap
  BY MessagePatternsAssumption
<1>2. /\ noAck \in NoAckOptions
      /\ broker \in [Msgs -> {"new", "ready", "unacked", "gone"}]
      /\ run \in [Runs -> Run \cup {None}]
      /\ answer \in [Requests -> {None, "ok", "error"}]
  BY DEF Init
<1>3. /\ applied \in [Msgs -> 0..AppliedCap] /\ late \in [Msgs -> 0..AppliedCap]
      /\ permanent \in SUBSET Msgs /\ half \in SUBSET Msgs /\ transient \in SUBSET Msgs
      /\ hungUp \in BOOLEAN /\ cutOff \in SUBSET Msgs
      /\ crashes \in 0..MaxCrashes /\ closes \in 0..MaxCloses
  BY <1>1 DEF Init
<1> QED BY <1>2, <1>3 DEF TypeOK

\* One more update, or one more late failure, is counted up to the cap.
LEMMA CountStep ==
  ASSUME NEW count \in [Msgs -> 0..AppliedCap], NEW m \in Msgs
  PROVE  /\ OneMore(count, m) \in [Msgs -> 0..AppliedCap]
         /\ \A n \in Msgs : n # m => OneMore(count, m)[n] = count[n]
         /\ OneMore(count, m)[m] > 0 /\ OneMore(count, m)[m] >= count[m]
         /\ OneMore(count, m)[m] = count[m] + 1 \/ OneMore(count, m)[m] = AppliedCap
BY MessagePatternsAssumption DEF OneMore

\* What is remembered of a failed run only grows, by what the run has done.
LEMMA BlameEffect ==
  ASSUME TypeOK, NEW r \in Runs, run[r] # None, NEW e \in Errors, Blame(r, e)
  PROVE  /\ permanent' \in SUBSET Msgs /\ half' \in SUBSET Msgs /\ transient' \in SUBSET Msgs
         /\ late' \in [Msgs -> 0..AppliedCap]
         /\ permanent \subseteq permanent' /\ half \subseteq half' /\ transient \subseteq transient'
         /\ \A m \in Msgs : late'[m] >= late[m]
         /\ ShouldRequeueMessage(e) =>
              /\ run[r].msg \in transient'
              /\ \A m \in Msgs : m # run[r].msg => late'[m] = late[m]
              /\ Written(r) => \/ late'[run[r].msg] = late[run[r].msg] + 1
                               \/ late'[run[r].msg] = AppliedCap
         /\ ~ShouldRequeueMessage(e) =>
              /\ run[r].msg \in permanent' /\ late' = late
              /\ Written(r) => run[r].msg \in half'
<1>0. /\ run[r].msg \in Msgs /\ late \in [Msgs -> 0..AppliedCap]
      /\ permanent \in SUBSET Msgs /\ half \in SUBSET Msgs /\ transient \in SUBSET Msgs
  BY DEF TypeOK, Run
<1>1. CASE ShouldRequeueMessage(e)
  <2>1. /\ transient' = transient \cup {run[r].msg} /\ UNCHANGED << permanent, half >>
        /\ late' = IF Written(r) THEN OneMore(late, run[r].msg) ELSE late
    BY <1>1 DEF Blame, ShouldRequeueMessage
  <2>2. CASE Written(r)
    <3>1. late' = OneMore(late, run[r].msg)
      BY <2>1, <2>2
    <3>2. /\ late' \in [Msgs -> 0..AppliedCap]
          /\ \A n \in Msgs : n # run[r].msg => late'[n] = late[n]
          /\ late'[run[r].msg] >= late[run[r].msg]
          /\ late'[run[r].msg] = late[run[r].msg] + 1 \/ late'[run[r].msg] = AppliedCap
      BY <1>0, <3>1, CountStep
    <3>3. \A m \in Msgs : late'[m] >= late[m]
      BY <1>0, <3>2
    <3> QED BY <1>0, <1>1, <2>1, <3>2, <3>3
  <2>3. CASE ~Written(r)
    BY <1>0, <1>1, <2>1, <2>3
  <2> QED BY <2>2, <2>3
<1>2. CASE ~ShouldRequeueMessage(e)
  BY <1>0, <1>2 DEF Blame, ShouldRequeueMessage
<1> QED BY <1>1, <1>2

LEMMA TypeStep == TypeOK /\ [Next]_vars => TypeOK'
<1> SUFFICES ASSUME TypeOK, [Next]_vars PROVE TypeOK'
  OBVIOUS
<1>1. ASSUME NEW m \in Msgs, Send(m) PROVE TypeOK'
  BY <1>1 DEF Send, TypeOK
<1>2. ASSUME NEW m \in Msgs, Deliver(m) PROVE TypeOK'
  <2> DEFINE r == CHOOSE r \in {q \in Runs : run[q] = None} : TRUE
  <2>1. r \in Runs
    BY <1>2 DEF Deliver
  <2>2. run' = [run EXCEPT ![r] = [msg |-> m, fresh |-> TRUE, at |-> "running"]]
    BY <1>2 DEF Deliver
  <2>3. [msg |-> m, fresh |-> TRUE, at |-> "running"] \in Run
    BY DEF Run
  <2> HIDE DEF r
  <2>4. run' \in [Runs -> Run \cup {None}]
    BY <2>1, <2>2, <2>3 DEF TypeOK
  <2>5. broker' \in [Msgs -> {"new", "ready", "unacked", "gone"}]
    BY <1>2 DEF Deliver, TypeOK
  <2> QED BY <1>2, <2>4, <2>5 DEF Deliver, TypeOK
<1>3. ASSUME NEW r \in Runs, HandleUserFailedNotification(r) PROVE TypeOK'
  <2>1. run[r] # None /\ Settle(r, "gone", "ok")
    BY <1>3 DEF HandleUserFailedNotification, Running
  <2> QED BY <1>3, <2>1, SettleEffect DEF HandleUserFailedNotification, TypeOK
<1>4. ASSUME NEW r \in Runs, UpdateSucceeds(r) PROVE TypeOK'
  <2>1. run[r] # None /\ Settle(r, "gone", "ok")
    BY <1>4 DEF UpdateSucceeds, Written
  <2> QED BY <1>4, <2>1, SettleEffect DEF UpdateSucceeds, TypeOK
<1>5. ASSUME NEW r \in Runs, NEW e \in Errors, UpdateFails(r, e) PROVE TypeOK'
  <2> DEFINE place == IF ShouldRequeueMessage(e) THEN "ready" ELSE "gone"
  <2>1. /\ run[r] # None /\ Settle(r, place, "error") /\ Blame(r, e)
        /\ UNCHANGED << noAck, answer, applied, crashes, closes >>
    BY <1>5 DEF UpdateFails, Running, Written
  <2>2. place \in {"ready", "gone"}
    OBVIOUS
  <2> HIDE DEF place
  <2> QED BY <2>1, <2>2, SettleEffect, BlameEffect DEF TypeOK
<1>10. ASSUME NEW r \in Runs, UpdateWrite(r) PROVE TypeOK'
  <2>1. /\ run[r] # None /\ run[r] \in Run /\ run[r].msg \in Msgs
        /\ run' = [run EXCEPT ![r].at = "written"]
    BY <1>10 DEF UpdateWrite, Running, TypeOK, Msgs
  <2>2. run' \in [Runs -> Run \cup {None}]
    BY <2>1 DEF TypeOK, Run
  <2>3. applied' \in [Msgs -> 0..AppliedCap]
    BY <1>10, <2>1, CountStep DEF UpdateWrite, TypeOK
  <2> QED BY <1>10, <2>2, <2>3 DEF UpdateWrite, TypeOK
<1>6. ASSUME NEW r \in Runs, Reply(r) PROVE TypeOK'
  <2>1. run' \in [Runs -> Run \cup {None}]
    BY <1>6 DEF Reply, TypeOK
  <2>2. answer' \in [Requests -> {None, "ok", "error"}]
    BY <1>6 DEF Reply, TypeOK
  <2> QED BY <1>6, <2>1, <2>2 DEF Reply, TypeOK
<1>7. CASE ChannelCloses
  <2>1. run' \in [Runs -> Run \cup {None}]
    BY <1>7 DEF ChannelCloses, Stale, TypeOK, Run
  <2>2. /\ broker' \in [Msgs -> {"new", "ready", "unacked", "gone"}]
        /\ cutOff' \in SUBSET Msgs /\ closes' \in 0..MaxCloses /\ hungUp' \in BOOLEAN
    BY <1>7, MessagePatternsAssumption DEF ChannelCloses, Requeued, Unanswerable, TypeOK
  <2> QED BY <1>7, <2>1, <2>2 DEF ChannelCloses, TypeOK
<1>8. CASE Crash
  <2>1. /\ broker' \in [Msgs -> {"new", "ready", "unacked", "gone"}]
        /\ crashes' \in 0..MaxCrashes
    BY <1>8, MessagePatternsAssumption DEF Crash, Requeued, TypeOK
  <2> QED BY <1>8, <2>1 DEF Crash, TypeOK
<1>9. CASE UNCHANGED vars
  BY <1>9 DEF vars, TypeOK
<1> QED BY <1>1, <1>2, <1>3, <1>4, <1>5, <1>6, <1>7, <1>8, <1>9, <1>10
       DEF Next, Handle

\* The variables have their types in every reachable state: what is settled is a delivery,
\* and a caller is told only how a run has ended.
THEOREM TypeCorrect == Spec => []TypeOK
BY TypeInit, TypeStep, PTL DEF Spec

-----------------------------------------------------------------------------
(* What is lost, and who is told ok.                                       *)

\* A run that has written or ended well, and a caller who was told so, have a committed
\* UPDATE behind them.
OkIsApplied ==
  /\ \A r \in Runs :
       run[r] # None /\ run[r].at \in {"written", "ok"} /\ run[r].msg \in Updates => applied[run[r].msg] > 0
  /\ \A m \in Requests : answer[m] = "ok" => applied[m] > 0

Losses == OkIsApplied /\ OnlyPermanentLoses

LEMMA LossesInit == Init => Losses
BY MessagePatternsAssumption DEF Init, Losses, OkIsApplied, OnlyPermanentLoses, Msgs

LEMMA LossesStep == TypeOK /\ Losses /\ [Next]_vars => Losses'
<1> SUFFICES ASSUME TypeOK, Losses, [Next]_vars PROVE Losses'
  OBVIOUS
<1> USE DEF Losses, Updates
<1>0. /\ applied \in [Msgs -> 0..AppliedCap] /\ broker \in [Msgs -> {"new", "ready", "unacked", "gone"}]
      /\ Requests \subseteq Msgs /\ Events \subseteq Msgs
  BY DEF TypeOK, Msgs
<1>1. ASSUME NEW m \in Msgs, Send(m) PROVE Losses'
  BY <1>0, <1>1 DEF Send, OkIsApplied, OnlyPermanentLoses
<1>2. ASSUME NEW m \in Msgs, Deliver(m) PROVE Losses'
  <2> DEFINE r == CHOOSE r \in {q \in Runs : run[q] = None} : TRUE
  <2>1. r \in Runs
    BY <1>2 DEF Deliver
  <2>2. run' = [run EXCEPT ![r] = [msg |-> m, fresh |-> TRUE, at |-> "running"]]
    BY <1>2 DEF Deliver
  <2> HIDE DEF r
  <2>3. OkIsApplied'
    BY <1>2, <2>1, <2>2 DEF Deliver, OkIsApplied, TypeOK
  <2>4. OnlyPermanentLoses'
    BY <1>0, <1>2 DEF Deliver, OnlyPermanentLoses
  <2> QED BY <2>3, <2>4
<1>3. ASSUME NEW r \in Runs, HandleUserFailedNotification(r) PROVE Losses'
  <2>1. /\ run[r] # None /\ Settle(r, "gone", "ok") /\ run[r].msg \in Notifications
        /\ UNCHANGED << noAck, answer, applied, permanent, transient >>
    BY <1>3 DEF HandleUserFailedNotification, Running
  <2>2. run[r].msg \notin Updates
    BY <2>1, MessagePatternsAssumption
  <2>3. OkIsApplied'
    BY <2>1, <2>2, SettleEffect DEF OkIsApplied
  <2>4. OnlyPermanentLoses'
    BY <1>0, <2>1, <2>2, SettleEffect DEF OnlyPermanentLoses, RunOf
  <2> QED BY <2>3, <2>4
<1>4. ASSUME NEW r \in Runs, UpdateSucceeds(r) PROVE Losses'
  <2>1. /\ run[r] # None /\ run[r].at = "written" /\ Settle(r, "gone", "ok")
        /\ UNCHANGED << noAck, answer, applied, permanent, transient >>
    BY <1>4 DEF UpdateSucceeds, Written
  <2>2. run[r].msg \in Updates => applied[run[r].msg] > 0
    BY <2>1 DEF OkIsApplied
  <2>3. OkIsApplied'
    BY <2>1, <2>2, SettleEffect DEF OkIsApplied
  <2>4. OnlyPermanentLoses'
    BY <1>0, <2>1, <2>2, SettleEffect DEF OnlyPermanentLoses, RunOf
  <2> QED BY <2>3, <2>4
<1>5. ASSUME NEW r \in Runs, NEW e \in Errors, UpdateFails(r, e) PROVE Losses'
  <2> DEFINE place == IF ShouldRequeueMessage(e) THEN "ready" ELSE "gone"
  <2>1. /\ run[r] # None /\ Settle(r, place, "error") /\ Blame(r, e)
        /\ UNCHANGED << noAck, answer, applied >>
    BY <1>5 DEF UpdateFails, Running, Written
  <2>2. place \in {"ready", "gone"} /\ (place = "gone" => ~ShouldRequeueMessage(e))
    OBVIOUS
  <2>3. permanent \subseteq permanent' /\ (place = "gone" => run[r].msg \in permanent')
    BY <2>1, <2>2, BlameEffect
  <2> HIDE DEF place
  <2>4. OkIsApplied'
    BY <2>1, <2>2, SettleEffect DEF OkIsApplied
  <2>5. OnlyPermanentLoses'
    BY <1>0, <2>1, <2>2, <2>3, SettleEffect DEF OnlyPermanentLoses, RunOf
  <2> QED BY <2>4, <2>5
<1>10. ASSUME NEW r \in Runs, UpdateWrite(r) PROVE Losses'
  <2>1. /\ run[r] # None /\ run[r] \in Run /\ run[r].msg \in Msgs
        /\ run' = [run EXCEPT ![r].at = "written"]
        /\ UNCHANGED << noAck, broker, answer, permanent >>
    BY <1>10 DEF UpdateWrite, Running, TypeOK, Msgs
  <2>2. applied' = OneMore(applied, run[r].msg)
    BY <1>10 DEF UpdateWrite
  <2>3. /\ applied' \in [Msgs -> 0..AppliedCap] /\ applied'[run[r].msg] > 0
        /\ \A n \in Msgs : n # run[r].msg => applied'[n] = applied[n]
    BY <1>0, <2>1, <2>2, CountStep
  <2>4. \A n \in Msgs : applied[n] > 0 => applied'[n] > 0
    BY <2>3
  <2>5. \A q \in Runs : run'[q] # None =>
          run[q] # None /\ run'[q].msg = run[q].msg /\ (q # r => run'[q].at = run[q].at)
    BY <2>1 DEF TypeOK, Run
  <2>6. OkIsApplied'
    BY <1>0, <2>1, <2>3, <2>4, <2>5 DEF OkIsApplied
  <2>7. OnlyPermanentLoses'
    BY <1>0, <2>1, <2>4 DEF OnlyPermanentLoses
  <2> QED BY <2>6, <2>7
<1>6. ASSUME NEW r \in Runs, Reply(r) PROVE Losses'
  <2>1. OkIsApplied'
    BY <1>6 DEF Reply, OkIsApplied, TypeOK
  <2>2. OnlyPermanentLoses'
    BY <1>6 DEF Reply, OnlyPermanentLoses
  <2> QED BY <2>1, <2>2
<1>7. CASE ChannelCloses
  <2>1. \A r \in Runs : run'[r] # None =>
          run[r] # None /\ run'[r].msg = run[r].msg /\ run'[r].at = run[r].at
    BY <1>7 DEF ChannelCloses, Stale, TypeOK, Run
  <2>2. OkIsApplied'
    BY <1>7, <2>1 DEF ChannelCloses, OkIsApplied
  <2>3. OnlyPermanentLoses'
    BY <1>0, <1>7 DEF ChannelCloses, Requeued, OnlyPermanentLoses
  <2> QED BY <2>2, <2>3
<1>8. CASE Crash
  BY <1>0, <1>8 DEF Crash, Requeued, OkIsApplied, OnlyPermanentLoses
<1>9. CASE UNCHANGED vars
  BY <1>9 DEF vars, OkIsApplied, OnlyPermanentLoses
<1> QED BY <1>1, <1>2, <1>3, <1>4, <1>5, <1>6, <1>7, <1>8, <1>9, <1>10
       DEF Next, Handle

LEMMA LossesCorrect == Spec => []Losses
BY LossesInit, LossesStep, TypeCorrect, PTL DEF Spec

\* A message whose handlers acknowledge by hand leaves the queue unhandled only if a run
\* of it failed for good: no crash, closed channel or transient failure discards one.
THEOREM OnlyPermanentLosesCorrect == Spec => []OnlyPermanentLoses
BY LossesCorrect, PTL DEF Losses

-----------------------------------------------------------------------------
(* What happens once while nothing is cut off.                             *)

Undisturbed == crashes = 0 /\ ~hungUp

InProgress == {"running", "written"}

RunningOn(r, m) == RunOf(r, m) /\ run[r].at \in InProgress

\* No run has lost its channel, and with noAck none has settled its delivery.
FreshRuns ==
  \A r \in Runs : run[r] # None =>
    /\ run[r].fresh
    /\ noAck => run[r].at \in InProgress

\* Each message has one run in progress at most, which holds its delivery.
OneRunning ==
  \A m \in Msgs :
    /\ \A r \in Runs : RunningOn(r, m) => broker[m] = IF noAck THEN "gone" ELSE "unacked"
    /\ \A q, r \in Runs : RunningOn(q, m) /\ RunningOn(r, m) => q = r

\* What is going to be applied, again or for the first time, has been applied no more
\* often than runs have failed late; what has been, at most once more.
Accounted ==
  \A m \in Msgs :
    /\ applied[m] <= late[m] + 1
    /\ broker[m] \in {"new", "ready"} => applied[m] <= late[m]
    /\ \A r \in Runs : RunOf(r, m) /\ run[r].at = "running" => applied[m] <= late[m]
    /\ late[m] > 0 => m \in transient

FailedForGood(m) ==
  \/ m \in Requests /\ answer[m] = "error"
  \/ \E r \in Runs : RunOf(r, m) /\ run[r].at = "error"

\* An update that failed for good is settled; it was applied only if it failed late.
FailedIsGone ==
  \A m \in Updates \ transient :
    FailedForGood(m) => ~noAck /\ broker[m] = "gone" /\ (applied[m] > 0 => m \in half)

Quiet == Undisturbed => FreshRuns /\ OneRunning /\ Accounted /\ FailedIsGone

LEMMA QuietInit == Init => Quiet
<1> SUFFICES ASSUME Init PROVE FreshRuns /\ OneRunning /\ Accounted /\ FailedIsGone
  BY DEF Quiet
<1>1. FreshRuns /\ OneRunning /\ Accounted
  BY DEF Init, FreshRuns, OneRunning, Accounted, RunningOn, RunOf
<1>2. FailedIsGone
  BY MessagePatternsAssumption DEF Init, FailedIsGone, FailedForGood, RunOf, Updates, Msgs
<1> QED BY <1>1, <1>2

Going(r) == run[r] # None /\ run[r].at \in InProgress /\ run[r].msg \in Msgs

\* What a handler does that settles its delivery on an open channel.
LEMMA SettledQuietly ==
  ASSUME TypeOK, Quiet, Undisturbed', crashes' = crashes, NEW r \in Runs, Going(r),
         NEW place \in {"ready", "gone"}, NEW to \in {"ok", "error"}, Settle(r, place, to)
  PROVE  /\ Undisturbed /\ ~noAck
         /\ run[r].msg \in Msgs /\ RunningOn(r, run[r].msg) /\ broker[run[r].msg] = "unacked"
         /\ broker' = [broker EXCEPT ![run[r].msg] = place]
         /\ run' = [run EXCEPT ![r].at = to]
<1>1. run[r] # None /\ run[r].at \in InProgress /\ run[r].msg \in Msgs
  BY DEF Going
<1>2. hungUp => hungUp'
  BY <1>1 DEF Settle
<1>3. Undisturbed
  BY <1>2 DEF Undisturbed
<1>4. run[r].fresh
  BY <1>1, <1>3 DEF Quiet, FreshRuns
<1>5. /\ ~noAck /\ broker' = [broker EXCEPT ![run[r].msg] = place]
      /\ run' = [run EXCEPT ![r].at = to]
  BY <1>1, <1>4, SettleEffect DEF Undisturbed
<1>6. RunningOn(r, run[r].msg)
  BY <1>1 DEF RunningOn, RunOf
<1> QED BY <1>1, <1>3, <1>5, <1>6 DEF Quiet, OneRunning

\* Settling keeps the channels fresh, and what is left in progress.
LEMMA SettledRuns ==
  ASSUME TypeOK, Quiet, Undisturbed, ~noAck, noAck' = noAck, NEW r \in Runs,
         NEW place \in {"ready", "gone"}, NEW to \in {"ok", "error"}, Going(r),
         broker' = [broker EXCEPT ![run[r].msg] = place], run' = [run EXCEPT ![r].at = to]
  PROVE  /\ FreshRuns' /\ OneRunning'
         /\ \A q \in Runs : run'[q] # None =>
              run[q] # None /\ run'[q].msg = run[q].msg /\ (q # r => run'[q].at = run[q].at)
         /\ run'[r] # None => run'[r].at = to
         /\ \A m \in Msgs : m # run[r].msg => broker'[m] = broker[m]
         /\ broker'[run[r].msg] = place
<1>0. /\ run \in [Runs -> Run \cup {None}] /\ run[r] \in Run /\ run[r] # None
      /\ broker \in [Msgs -> {"new", "ready", "unacked", "gone"}]
      /\ run[r].msg \in Msgs
  BY DEF TypeOK, Going
<1>1. /\ \A q \in Runs : run'[q] # None =>
           run[q] # None /\ run'[q].msg = run[q].msg /\ (q # r => run'[q].at = run[q].at)
      /\ run'[r] # None => run'[r].at = to
  BY <1>0 DEF Run
<1>2. /\ \A m \in Msgs : m # run[r].msg => broker'[m] = broker[m]
      /\ broker'[run[r].msg] = place
  BY <1>0
<1>3. FreshRuns'
  <2>1. \A q \in Runs : run'[q] # None => run'[q].fresh
    <3>1. ASSUME NEW q \in Runs, run'[q] # None, q # r PROVE run'[q].fresh
      BY <1>0, <3>1 DEF Quiet, FreshRuns
    <3>2. ASSUME run'[r] # None PROVE run'[r].fresh
      <4>1. run[r].fresh
        BY <1>0 DEF Quiet, FreshRuns
      <4>2. run'[r] = [run[r] EXCEPT !.at = to]
        BY <1>0
      <4> QED BY <1>0, <4>1, <4>2 DEF Run
    <3> QED BY <3>1, <3>2
  <2> QED BY <2>1 DEF FreshRuns
<1>4. ASSUME NEW q \in Runs, NEW m \in Msgs, RunningOn(q, m)'
      PROVE  q # r /\ RunningOn(q, m)
  BY <1>1, <1>4 DEF RunningOn, RunOf, InProgress
<1>5. \A q \in Runs, m \in Msgs : RunningOn(q, m)' => m # run[r].msg
  <2>1. RunningOn(r, run[r].msg)
    BY <1>0 DEF RunningOn, RunOf, Going
  <2> QED BY <1>0, <1>4, <2>1 DEF Quiet, OneRunning
<1>6. OneRunning'
  BY <1>2, <1>4, <1>5 DEF Quiet, OneRunning
<1> QED BY <1>1, <1>2, <1>3, <1>6

LEMMA QuietStep == TypeOK /\ Quiet /\ [Next]_vars => Quiet'
<1> SUFFICES ASSUME TypeOK, Quiet, [Next]_vars, Undisturbed'
             PROVE  (FreshRuns /\ OneRunning /\ Accounted /\ FailedIsGone)'
  BY DEF Quiet
<1> DEFINE Goal == FreshRuns /\ OneRunning /\ Accounted /\ FailedIsGone
<1>0. /\ applied \in [Msgs -> 0..AppliedCap] /\ late \in [Msgs -> 0..AppliedCap]
      /\ broker \in [Msgs -> {"new", "ready", "unacked", "gone"}]
      /\ run \in [Runs -> Run \cup {None}] /\ answer \in [Requests -> {None, "ok", "error"}]
      /\ Requests \subseteq Msgs /\ Updates \subseteq Msgs /\ Notifications \subseteq Msgs
  BY DEF TypeOK, Msgs, Updates
<1>1. ASSUME NEW m \in Msgs, Send(m) PROVE Goal'
  <2>1. /\ Undisturbed /\ UNCHANGED << noAck, run, answer, applied, half, transient, late >>
        /\ broker[m] = "new" /\ broker' = [broker EXCEPT ![m] = "ready"]
    BY <1>1 DEF Send, Undisturbed
  <2>2. FreshRuns' /\ OneRunning'
    BY <1>0, <2>1 DEF Quiet, FreshRuns, OneRunning, RunningOn, RunOf
  <2>3. Accounted'
    BY <1>0, <2>1 DEF Quiet, Accounted, RunOf
  <2>4. FailedIsGone'
    BY <1>0, <2>1 DEF Quiet, FailedIsGone, FailedForGood, RunOf
  <2> QED BY <2>2, <2>3, <2>4
<1>2. ASSUME NEW m \in Msgs, Deliver(m) PROVE Goal'
  <2> DEFINE r == CHOOSE r \in {q \in Runs : run[q] = None} : TRUE
             new == [msg |-> m, fresh |-> TRUE, at |-> "running"]
  <2>1. r \in Runs /\ run[r] = None
    BY <1>2 DEF Deliver
  <2>2. run' = [run EXCEPT ![r] = new]
    BY <1>2 DEF Deliver
  <2>3. new.msg = m /\ new.fresh /\ new.at = "running"
    OBVIOUS
  <2> HIDE DEF r, new
  <2>4. Undisturbed /\ UNCHANGED << noAck, applied, answer, half, transient, late >>
    BY <1>2 DEF Deliver, Undisturbed
  <2>5. /\ broker[m] = "ready" /\ broker'[m] = IF noAck THEN "gone" ELSE "unacked"
        /\ \A n \in Msgs : n # m => broker'[n] = broker[n]
    BY <1>0, <1>2 DEF Deliver
  <2>6. \A q \in Runs : ~RunningOn(q, m)
    BY <2>4, <2>5 DEF Quiet, OneRunning
  <2>7. \A q \in Runs : q # r => run'[q] = run[q]
    BY <1>0, <2>2
  <2>8. run'[r] = new
    BY <1>0, <2>1, <2>2
  <2>9. FreshRuns'
    BY <2>3, <2>4, <2>7, <2>8 DEF Quiet, FreshRuns, InProgress
  <2>10. \A q \in Runs, n \in Msgs :
           RunningOn(q, n)' => (q # r /\ RunningOn(q, n)) \/ (q = r /\ n = m)
    BY <2>3, <2>7, <2>8 DEF RunningOn, RunOf
  <2>11. OneRunning'
    BY <2>4, <2>5, <2>6, <2>10 DEF Quiet, OneRunning
  <2>12. \A q \in Runs, n \in Msgs :
           (RunOf(q, n) /\ run[q].at = "running")' =>
             (RunOf(q, n) /\ run[q].at = "running") \/ n = m
    BY <2>3, <2>7, <2>8 DEF RunOf
  <2>13. Accounted'
    BY <2>4, <2>5, <2>12 DEF Quiet, Accounted
  <2>14. \A n \in Msgs : FailedForGood(n)' => FailedForGood(n)
    BY <2>3, <2>4, <2>7, <2>8 DEF FailedForGood, RunOf
  <2>15. FailedIsGone'
    BY <1>0, <2>4, <2>5, <2>14 DEF Quiet, FailedIsGone
  <2> QED BY <2>9, <2>11, <2>13, <2>15
<1>3. ASSUME NEW r \in Runs,
             HandleUserFailedNotification(r) \/ UpdateSucceeds(r)
      PROVE  Goal'
  <2>1. /\ Going(r) /\ Settle(r, "gone", "ok")
        /\ UNCHANGED << noAck, answer, applied, half, transient, late, crashes >>
    <3>1. run[r] # None /\ run[r].at \in InProgress
      BY <1>3 DEF HandleUserFailedNotification, UpdateSucceeds, Running, Written, InProgress
    <3>2. run[r].msg \in Msgs
      BY <1>0, <3>1 DEF Run
    <3> QED BY <1>3, <3>1, <3>2 DEF HandleUserFailedNotification, UpdateSucceeds, Going
  <2>2. /\ Undisturbed /\ ~noAck /\ RunningOn(r, run[r].msg) /\ broker[run[r].msg] = "unacked"
        /\ broker' = [broker EXCEPT ![run[r].msg] = "gone"] /\ run' = [run EXCEPT ![r].at = "ok"]
    BY <2>1, SettledQuietly
  <2>3. /\ FreshRuns' /\ OneRunning'
        /\ \A q \in Runs : run'[q] # None =>
             run[q] # None /\ run'[q].msg = run[q].msg /\ (q # r => run'[q].at = run[q].at)
        /\ run'[r] # None => run'[r].at = "ok"
        /\ \A m \in Msgs : m # run[r].msg => broker'[m] = broker[m]
        /\ broker'[run[r].msg] = "gone"
    BY <2>1, <2>2, SettledRuns
  <2>4. Accounted'
    <3>1. \A q \in Runs, n \in Msgs :
            (RunOf(q, n) /\ run[q].at = "running")' => RunOf(q, n) /\ run[q].at = "running"
      BY <2>3 DEF RunOf
    <3>2. \A n \in Msgs : broker'[n] \in {"new", "ready"} => broker'[n] = broker[n]
      BY <2>2, <2>3
    <3> QED BY <2>1, <2>2, <3>1, <3>2 DEF Quiet, Accounted
  <2>5. \A m : FailedForGood(m)' => FailedForGood(m)
    BY <2>1, <2>3 DEF FailedForGood, RunOf
  <2>6. FailedIsGone'
    BY <1>0, <2>1, <2>2, <2>3, <2>5 DEF Quiet, FailedIsGone
  <2> QED BY <2>3, <2>4, <2>6
<1>4. ASSUME NEW r \in Runs, UpdateWrite(r) PROVE Goal'
  <2>0. run[r] # None /\ run[r].at = "running" /\ run[r] \in Run /\ run[r].msg \in Msgs
    <3>1. run[r] # None /\ run[r].at = "running" /\ run[r] \in Run
      BY <1>0, <1>4 DEF UpdateWrite, Running
    <3> QED BY <3>1 DEF Run
  <2> PICK m \in Msgs : m = run[r].msg
    BY <2>0
  <2>1. /\ run[r] # None /\ run[r] \in Run /\ m \in Msgs /\ run[r].at = "running"
        /\ run' = [run EXCEPT ![r].at = "written"] /\ applied' = OneMore(applied, m)
        /\ UNCHANGED << noAck, broker, answer, half, transient, late >>
    BY <1>4, <2>0 DEF UpdateWrite
  <2>2. Undisturbed /\ RunningOn(r, m)
    BY <1>4, <2>1 DEF UpdateWrite, Undisturbed, RunningOn, RunOf, InProgress
  <2>3. /\ run'[r].at = "written" /\ run'[r].msg = m /\ run'[r].fresh = run[r].fresh
        /\ \A q \in Runs : q # r => run'[q] = run[q]
    BY <1>0, <2>1 DEF Run
  <2>4. FreshRuns'
    <3>1. \A q \in Runs : run'[q] # None => run'[q].fresh
      BY <2>1, <2>2, <2>3 DEF Quiet, FreshRuns
    <3>2. \A q \in Runs : run'[q] # None /\ noAck => run'[q].at \in InProgress
      BY <2>1, <2>2, <2>3 DEF Quiet, FreshRuns, InProgress
    <3> QED BY <2>1, <3>1, <3>2 DEF FreshRuns
  <2>5. \A q \in Runs, n \in Msgs : RunningOn(q, n)' => RunningOn(q, n)
    BY <2>1, <2>3 DEF RunningOn, RunOf, InProgress
  <2>6. OneRunning'
    BY <2>1, <2>2, <2>5 DEF Quiet, OneRunning
  <2>7. /\ \A n \in Msgs : n # m => applied'[n] = applied[n]
        /\ applied'[m] = applied[m] + 1 \/ applied'[m] = AppliedCap
        /\ applied'[m] \in 0..AppliedCap /\ applied'[m] >= applied[m]
    BY <1>0, <2>1, CountStep
  <2>8. broker[m] \notin {"new", "ready"}
    BY <2>1, <2>2 DEF Quiet, OneRunning
  <2>9. \A q \in Runs : ~(RunOf(q, m) /\ run[q].at = "running")'
    <3>1. ASSUME NEW q \in Runs, q # r PROVE ~(RunOf(q, m) /\ run[q].at = "running")'
      BY <2>1, <2>2, <2>3, <3>1 DEF Quiet, OneRunning, RunningOn, RunOf, InProgress
    <3>2. ~(RunOf(r, m) /\ run[r].at = "running")'
      BY <2>3
    <3> QED BY <3>1, <3>2
  <2>10. applied[m] <= late[m]
    BY <2>1, <2>2 DEF Quiet, Accounted, RunOf
  <2>11. applied'[m] <= late[m] + 1
    <3>1. applied[m] \in Nat /\ late[m] \in Nat /\ AppliedCap \in Nat
      BY <1>0, <2>1, MessagePatternsAssumption
    <3>2. applied'[m] <= applied[m] + 1
      BY <1>0, <2>1, MessagePatternsAssumption DEF OneMore
    <3> QED BY <2>7, <2>10, <3>1, <3>2
  <2>12. Accounted'
    <3>1. ASSUME NEW n \in Msgs, n # m
          PROVE  /\ applied'[n] <= late'[n] + 1
                 /\ broker'[n] \in {"new", "ready"} => applied'[n] <= late'[n]
                 /\ \A q \in Runs : (RunOf(q, n) /\ run[q].at = "running")' => applied'[n] <= late'[n]
                 /\ late'[n] > 0 => n \in transient'
      BY <2>1, <2>2, <2>3, <2>7, <3>1 DEF Quiet, Accounted, RunOf
    <3>2. /\ applied'[m] <= late'[m] + 1
          /\ broker'[m] \in {"new", "ready"} => applied'[m] <= late'[m]
          /\ \A q \in Runs : (RunOf(q, m) /\ run[q].at = "running")' => applied'[m] <= late'[m]
          /\ late'[m] > 0 => m \in transient'
      BY <2>1, <2>2, <2>8, <2>9, <2>11 DEF Quiet, Accounted
    <3> QED BY <3>1, <3>2 DEF Accounted
  <2>13. \A n : FailedForGood(n)' => FailedForGood(n)
    BY <2>1, <2>3 DEF FailedForGood, RunOf
  <2>14. m \in Updates \ transient => ~FailedForGood(m)
    BY <2>1, <2>2 DEF Quiet, FailedIsGone, OneRunning
  <2>15. FailedIsGone'
    BY <1>0, <2>1, <2>2, <2>7, <2>13, <2>14 DEF Quiet, FailedIsGone
  <2> QED BY <2>4, <2>6, <2>12, <2>15
<1>5. ASSUME NEW r \in Runs, NEW e \in Errors, UpdateFails(r, e) PROVE Goal'
  <2> DEFINE place == IF ShouldRequeueMessage(e) THEN "ready" ELSE "gone"
  <2>0. run[r] # None /\ run[r].at \in InProgress /\ run[r] \in Run /\ run[r].msg \in Msgs
    <3>1. run[r] # None /\ run[r].at \in InProgress /\ run[r] \in Run
      BY <1>0, <1>5 DEF UpdateFails, Running, Written, InProgress
    <3> QED BY <3>1 DEF Run
  <2> PICK m \in Msgs : m = run[r].msg
    BY <2>0
  <2>1. /\ run[r] # None /\ run[r] \in Run /\ run[r].at \in InProgress /\ m \in Msgs
        /\ Settle(r, place, "error") /\ Blame(r, e)
        /\ UNCHANGED << noAck, answer, applied, crashes >>
    BY <1>5, <2>0 DEF UpdateFails
  <2>2. /\ place \in {"ready", "gone"}
        /\ place = "ready" => ShouldRequeueMessage(e)
        /\ place = "gone" => ~ShouldRequeueMessage(e)
    OBVIOUS
  <2> HIDE DEF place
  <2>3. /\ Undisturbed /\ ~noAck /\ RunningOn(r, run[r].msg) /\ broker[run[r].msg] = "unacked"
        /\ broker' = [broker EXCEPT ![run[r].msg] = place] /\ run' = [run EXCEPT ![r].at = "error"]
    BY <2>1, <2>2, SettledQuietly DEF Going
  <2>4. /\ FreshRuns' /\ OneRunning'
        /\ \A q \in Runs : run'[q] # None =>
             run[q] # None /\ run'[q].msg = run[q].msg /\ (q # r => run'[q].at = run[q].at)
        /\ \A n \in Msgs : n # m => broker'[n] = broker[n]
        /\ broker'[m] = place
    BY <2>1, <2>2, <2>3, SettledRuns DEF Going
  <2>5. /\ half \subseteq half' /\ transient \subseteq transient'
        /\ late' \in [Msgs -> 0..AppliedCap] /\ \A n \in Msgs : late'[n] >= late[n]
        /\ place = "ready" =>
             /\ m \in transient' /\ \A n \in Msgs : n # m => late'[n] = late[n]
             /\ Written(r) => late'[m] = late[m] + 1 \/ late'[m] = AppliedCap
        /\ place = "gone" => late' = late /\ (Written(r) => m \in half')
    BY <2>1, <2>2, BlameEffect
  <2>6. ~Written(r) => applied[m] <= late[m]
    BY <2>1, <2>3 DEF Quiet, Accounted, RunOf, Written, InProgress
  <2>7. place = "ready" => applied[m] <= late'[m]
    <3>1. applied[m] \in Nat /\ late[m] \in Nat /\ late'[m] \in Nat /\ applied[m] <= AppliedCap
      BY <1>0, <2>1, <2>5, MessagePatternsAssumption
    <3>2. applied[m] <= late[m] + 1
      BY <2>1, <2>3 DEF Quiet, Accounted
    <3> QED BY <2>1, <2>5, <2>6, <3>1, <3>2
  <2>8. \A n \in Msgs : ~(RunningOn(r, n))'
    BY <1>0, <2>3, <2>1 DEF RunningOn, RunOf, InProgress
  <2>9. \A q \in Runs : ~(RunOf(q, m) /\ run[q].at = "running")'
    BY <2>1, <2>3, <2>4, <2>8 DEF Quiet, OneRunning, RunningOn, RunOf, InProgress
  <2>10. Accounted'
    <3>1. ASSUME NEW n \in Msgs, n # m
          PROVE  /\ applied'[n] <= late'[n] + 1
                 /\ broker'[n] \in {"new", "ready"} => applied'[n] <= late'[n]
                 /\ \A q \in Runs : (RunOf(q, n) /\ run[q].at = "running")' => applied'[n] <= late'[n]
                 /\ late'[n] > 0 => n \in transient'
      <4>1. late'[n] = late[n] /\ applied'[n] = applied[n] /\ broker'[n] = broker[n]
        BY <2>1, <2>2, <2>4, <2>5, <3>1
      <4>2. \A q \in Runs : (RunOf(q, n) /\ run[q].at = "running")' =>
                             RunOf(q, n) /\ run[q].at = "running"
        BY <2>4, <2>8 DEF RunningOn, RunOf, InProgress
      <4> QED BY <2>3, <2>5, <4>1, <4>2 DEF Quiet, Accounted
    <3>2. applied'[m] <= late'[m] + 1
      <4>1. applied[m] \in Nat /\ late[m] \in Nat /\ late'[m] \in Nat
        BY <1>0, <2>1, <2>5, MessagePatternsAssumption
      <4>2. applied[m] <= late[m] + 1 /\ late'[m] >= late[m]
        BY <2>1, <2>3, <2>5 DEF Quiet, Accounted
      <4> QED BY <2>1, <4>1, <4>2
    <3>3. /\ broker'[m] \in {"new", "ready"} => applied'[m] <= late'[m]
          /\ \A q \in Runs : (RunOf(q, m) /\ run[q].at = "running")' => applied'[m] <= late'[m]
      BY <2>1, <2>2, <2>4, <2>7, <2>9
    <3>4. late'[m] > 0 => m \in transient'
      BY <2>1, <2>2, <2>3, <2>5 DEF Quiet, Accounted
    <3> QED BY <3>1, <3>2, <3>3, <3>4 DEF Accounted
  <2>11. \A n : n # m /\ FailedForGood(n)' => FailedForGood(n)
    BY <2>1, <2>4 DEF FailedForGood, RunOf
  <2>12. m \in Updates \ transient' => (applied'[m] > 0 => m \in half')
    <3>1. CASE Written(r)
      BY <2>2, <2>5, <3>1
    <3>2. CASE ~Written(r)
      <4>1. applied[m] \in Nat /\ late[m] \in Nat
        BY <1>0, <2>1, MessagePatternsAssumption
      <4>2. m \notin transient => late[m] = 0
        BY <2>1, <2>3, <4>1 DEF Quiet, Accounted
      <4> QED BY <2>1, <2>5, <2>6, <3>2, <4>1, <4>2
    <3> QED BY <3>1, <3>2
  <2>13. FailedIsGone'
    <3>1. ASSUME NEW n \in Updates \ transient', n # m, FailedForGood(n)'
          PROVE  ~noAck' /\ broker'[n] = "gone" /\ (applied'[n] > 0 => n \in half')
      BY <1>0, <2>1, <2>3, <2>4, <2>5, <2>11, <3>1 DEF Quiet, FailedIsGone
    <3>2. ASSUME m \in Updates \ transient'
          PROVE  ~noAck' /\ broker'[m] = "gone" /\ (applied'[m] > 0 => m \in half')
      BY <2>1, <2>2, <2>3, <2>4, <2>5, <2>12, <3>2
    <3> QED BY <3>1, <3>2 DEF FailedIsGone
  <2> QED BY <2>4, <2>10, <2>13
<1>6. ASSUME NEW r \in Runs, Reply(r) PROVE Goal'
  <2>1. /\ Undisturbed /\ UNCHANGED << noAck, broker, applied, half, transient, late >>
        /\ run[r] # None /\ run[r].at \in {"ok", "error"}
        /\ run' = [run EXCEPT ![r] = None]
    BY <1>6 DEF Reply, Undisturbed
  <2>2. \A q \in Runs : run'[q] # None => run'[q] = run[q]
    BY <1>0, <2>1
  <2>3. FreshRuns' /\ OneRunning' /\ Accounted'
    BY <2>1, <2>2
       DEF Quiet, FreshRuns, OneRunning, Accounted, RunningOn, RunOf
  <2>4. \A m \in Requests : answer'[m] = "error" =>
          answer[m] = "error" \/ (RunOf(r, m) /\ run[r].at = "error")
    BY <1>6, <2>1 DEF Reply, RunOf
  <2>5. \A m : FailedForGood(m)' => FailedForGood(m)
    BY <2>2, <2>4 DEF FailedForGood, RunOf
  <2>6. FailedIsGone'
    BY <2>1, <2>5 DEF Quiet, FailedIsGone
  <2> QED BY <2>3, <2>6
<1>7. CASE ChannelCloses
  BY <1>7 DEF ChannelCloses, Undisturbed
<1>8. CASE Crash
  BY <1>8 DEF Crash, Undisturbed, TypeOK
<1>9. CASE UNCHANGED vars
  BY <1>9 DEF vars, Quiet, Undisturbed, FreshRuns, OneRunning, Accounted, FailedIsGone,
              FailedForGood, RunningOn, RunOf
<1> QED BY <1>1, <1>2, <1>3, <1>4, <1>5, <1>6, <1>7, <1>8, <1>9 DEF Next, Handle

LEMMA QuietCorrect == Spec => []Quiet
BY QuietInit, QuietStep, TypeCorrect, PTL DEF Spec

\* However many runs are in progress and however often a message is requeued, an update is
\* repeated only for a run that failed after its own UPDATE and asked for the requeue, as
\* long as no process crashes and no channel closes: each repetition has such a run.
THEOREM RepeatsHaveACauseCorrect == Spec => []RepeatsHaveACause
<1>1. TypeOK /\ Quiet => RepeatsHaveACause
  BY DEF Quiet, Undisturbed, Accounted, RepeatsHaveACause, TypeOK
<1> QED BY <1>1, QuietCorrect, TypeCorrect, PTL

\* The caller of send that is told ok had the update applied, and one that is told of an
\* error had not, unless a run failed for good after its UPDATE, or a requeue, a crash or a
\* closed channel had the request run again.
THEOREM AnswersAreHonestCorrect == Spec => []AnswersAreHonest
<1>1. TypeOK /\ Losses /\ Quiet => AnswersAreHonest
  BY DEF Quiet, Undisturbed, FailedIsGone, FailedForGood, Losses, OkIsApplied,
         AnswersAreHonest, TypeOK, Updates, Msgs
<1> QED BY <1>1, LossesCorrect, QuietCorrect, TypeCorrect, PTL

=============================================================================
