----------------------------- MODULE RetryProofs -----------------------------
(***************************************************************************)
(* Proofs about Retry, for every set of messages, exchanges and options and *)
(* every number of crashes: executeWithRetry is a bounded retry loop whose  *)
(* waits grow, a round trip through the broker loses no message, and the    *)
(* retryCount in the body tells how often the task has failed.              *)
(***************************************************************************)
EXTENDS Retry, FiniteSetTheorems, TLAPS

\* What a call of executeWithRetry has done, by how far it has got.
Call(c) ==
  /\ loop[c] # "idle" <=> copy[c] # None /\ copy[c].at = "unacked"
  /\ loop[c] = "idle" => attempt[c] = 0 /\ wait[c] = 0
  /\ loop[c] \in {"trying", "sleeping"} => attempt[c] < Limit
  /\ loop[c] = "returned" => c[1] \in processed
  /\ loop[c] \in {"threw", "scheduled"} => attempt[c] = Limit /\ c[1] \in rejected
  /\ copy[c] # None => c[1] \in accepted

\* Its last wait, and that the powers it is computed from are numbers: each is the one
\* before it times the factor.
Wait(c) ==
  loop[c] \in {"trying", "sleeping"} =>
    /\ options.backoffFactor ^ attempt[c] \in Nat
    /\ attempt[c] = 0 => wait[c] = 0
    /\ attempt[c] > 0 => /\ options.backoffFactor ^ (attempt[c] - 1) \in Nat
                         /\ wait[c] = Timer(Delay(attempt[c] - 1))

Calls == \A c \in Copies : Call(c) /\ Wait(c)

TypeInv == TypeOK /\ Calls

-----------------------------------------------------------------------------
(* Options, copies and slots.                                              *)

LEMMA CopyMoves ==
  ASSUME NEW k \in CopyState, NEW at \in {"ready", "unacked", "held"}
  PROVE  LET moved == [k EXCEPT !.at = at] IN
         /\ moved \in CopyState /\ moved # None
         /\ moved.at = at /\ moved.retryCount = k.retryCount
BY NoneAssumption DEF CopyState

LEMMA OptionsTyped ==
  ASSUME options \in Options
  PROVE  /\ options.maxRetries \in Int /\ options.initialDelayMs \in Nat /\ options.backoffFactor \in Nat
         /\ Limit \in Nat /\ \A n \in Nat : MayTry(n) <=> n < Limit
BY RetryAssumption DEF Limit, MayTry

LEMMA PowerUp ==
  ASSUME options \in Options, NEW n \in Nat, n < Limit, options.backoffFactor ^ n \in Nat
  PROVE  /\ options.backoffFactor ^ (n + 1) \in Nat
         /\ options.backoffFactor > 0 => options.backoffFactor ^ (n + 1) >= options.backoffFactor ^ n
<1>1. options.backoffFactor \in Nat /\ n \in 0..options.maxRetries
  BY OptionsTyped DEF Limit
<1>2. options.backoffFactor ^ (n + 1) = options.backoffFactor * options.backoffFactor ^ n
  BY <1>1, PowerAssumption
<1> DEFINE p == options.backoffFactor ^ n
           b == options.backoffFactor
<1> HIDE DEF p, b
<1>3. b * p \in Nat /\ (b > 0 => b * p >= p)
  <2>1. b \in Nat /\ p \in Nat
    BY <1>1 DEF b, p
  <2> QED BY <2>1
<1> QED BY <1>2, <1>3 DEF p, b

LEMMA PowerZero ==
  ASSUME options \in Options
  PROVE  options.backoffFactor ^ 0 \in Nat
BY PowerAssumption

LEMMA TimerTyped ==
  ASSUME options \in Options, NEW n \in Nat, options.backoffFactor ^ n \in Nat
  PROVE  Delay(n) \in Nat /\ Timer(Delay(n)) \in Nat
<1>1. options.initialDelayMs \in Nat
  BY OptionsTyped
<1> DEFINE p == options.backoffFactor ^ n
<1>2. p \in Nat
  OBVIOUS
<1> HIDE DEF p
<1>3. options.initialDelayMs * p \in Nat
  BY <1>1, <1>2
<1> QED BY <1>3 DEF Delay, Timer, p

\* A message that uses no more slots than the bound allows finds a free one.
LEMMA FreeSlotIsFree ==
  ASSUME TypeOK, NEW m \in Msgs, Cardinality(Of(m)) <= 2 + crashes
  PROVE  FreeSlot(m) \in Slots /\ copy[<< m, FreeSlot(m) >>] = None
<1>1. SUFFICES \E s \in Slots : copy[<< m, s >>] = None
  BY DEF FreeSlot
<1>2. SUFFICES ASSUME \A s \in Slots : copy[<< m, s >>] # None PROVE FALSE
  OBVIOUS
<1> DEFINE f == [s \in Slots |-> << m, s >>]
<1>3. Of(m) = { << m, s >> : s \in Slots }
  BY <1>2 DEF Of, Present, Copies
<1>4. ExistsBijection(Slots, Of(m))
  <2>1. f \in [Slots -> Of(m)]
    BY <1>3
  <2>2. \A s, t \in Slots : f[s] = f[t] => s = t
    OBVIOUS
  <2>3. \A c \in Of(m) : \E s \in Slots : f[s] = c
    BY <1>3
  <2> HIDE DEF f
  <2>4. f \in Bijection(Slots, Of(m))
    BY <2>1, <2>2, <2>3 DEF Bijection, Injection, IsInjective, Surjection
  <2> QED BY <2>4 DEF ExistsBijection
<1>5. IsFiniteSet(Slots) /\ Cardinality(Slots) = 3 + MaxCrashes
  BY RetryAssumption
<1>6. Cardinality(Of(m)) = Cardinality(Slots)
  BY <1>4, <1>5, FS_Bijection
<1> QED BY <1>5, <1>6, RetryAssumption DEF TypeOK

LEMMA FreshSlotIsFree ==
  ASSUME TypeInv, NEW m \in Msgs \ accepted
  PROVE  FreeSlot(m) \in Slots /\ copy[<< m, FreeSlot(m) >>] = None
<1>1. Of(m) = {}
  BY DEF Of, Present, TypeInv, Calls, Call
<1>2. Cardinality(Of(m)) = 0
  BY <1>1, FS_EmptySet
<1> QED BY <1>2, FreeSlotIsFree DEF TypeInv, TypeOK
-----------------------------------------------------------------------------
(* Types, calls and waits.                                                 *)

LEMMA TypeInit == Init => TypeInv
<1> SUFFICES ASSUME Init PROVE TypeInv
  OBVIOUS
<1>1. Limit \in Nat
  BY OptionsTyped DEF Init
<1>2. /\ copy \in [Copies -> CopyState \cup {None}] /\ attempt \in [Copies -> 0..Limit]
      /\ failures \in [Msgs -> 0..FailureCap] /\ crashes \in 0..MaxCrashes
  BY <1>1, RetryAssumption DEF Init
<1>3. wait \in [Copies -> Nat]
  BY DEF Init
<1>4. TypeOK
  BY <1>2, <1>3 DEF Init, TypeOK, Limit
<1>5. Calls
  BY DEF Init, Calls, Call, Wait
<1> QED BY <1>4, <1>5 DEF TypeInv

\* A step of one copy says nothing of the calls for the others.
LEMMA OthersKept ==
  ASSUME Calls, UNCHANGED options,
         accepted \subseteq accepted', processed \subseteq processed', rejected \subseteq rejected',
         NEW d \in Copies, UNCHANGED << copy[d], loop[d], attempt[d], wait[d] >>
  PROVE  Call(d)' /\ Wait(d)'
<1>1. Call(d) /\ Wait(d)
  BY DEF Calls
<1>2. Call(d)'
  BY <1>1 DEF Call, Limit
<1>3. Wait(d)'
  BY <1>1 DEF Wait, Timer, Delay
<1> QED BY <1>2, <1>3

\* What a copy that moves on stays.
LEMMA MovesOn ==
  ASSUME TypeInv, NEW c \in Copies, NEW at \in {"ready", "unacked", "held"},
         copy[c] # None, copy' = [copy EXCEPT ![c].at = at]
  PROVE  /\ copy' \in [Copies -> CopyState \cup {None}]
         /\ copy'[c] # None /\ copy'[c].at = at /\ copy'[c].retryCount = copy[c].retryCount
         /\ \A d \in Copies : d # c => copy'[d] = copy[d]
<1> DEFINE moved == [copy[c] EXCEPT !.at = at]
<1>1. moved \in CopyState /\ moved # None /\ moved.at = at /\ moved.retryCount = copy[c].retryCount
  <2>1. copy[c] \in CopyState
    BY DEF TypeInv, TypeOK
  <2> QED BY <2>1, CopyMoves
<1>2. copy' = [copy EXCEPT ![c] = moved]
  OBVIOUS
<1> HIDE DEF moved
<1> QED BY <1>1, <1>2 DEF TypeInv, TypeOK

LEMMA DeliverKeepsTypes == ASSUME TypeInv, NEW c \in Copies, Deliver(c) PROVE TypeInv'
<1> USE DEF TypeInv
<1>1. options \in Options /\ copy[c].at = "ready" /\ copy[c] # None /\ c[1] \in accepted
  BY DEF TypeOK, Deliver, Calls, Call
<1>2. Limit \in Nat /\ Limit' = Limit /\ (MayTry(0) <=> 0 < Limit)
  BY <1>1, OptionsTyped DEF Deliver, Limit
<1>3. loop[c] = "idle" /\ attempt[c] = 0 /\ wait[c] = 0
  BY <1>1 DEF Calls, Call
<1>4. /\ copy' \in [Copies -> CopyState \cup {None}] /\ copy'[c].at = "unacked" /\ copy'[c] # None
      /\ \A d \in Copies : d # c => copy'[d] = copy[d]
  BY <1>1, MovesOn DEF Deliver
<1>5. /\ loop' \in [Copies -> {"idle", "trying", "sleeping", "returned", "threw", "scheduled"}]
      /\ loop'[c] = IF 0 < Limit THEN "trying" ELSE "threw"
      /\ \A d \in Copies : d # c => loop'[d] = loop[d]
      /\ rejected' = IF 0 < Limit THEN rejected ELSE rejected \cup {c[1]}
  BY <1>2 DEF Deliver, TypeOK
<1>6. TypeOK'
  BY <1>1, <1>4, <1>5 DEF Deliver, TypeOK
<1>7. UNCHANGED << options, attempt, wait, processed, accepted >>
  BY DEF Deliver
<1>8. Call(c)' /\ Wait(c)'
  <2>1. Call(c)'
    BY <1>1, <1>2, <1>3, <1>4, <1>5, <1>7 DEF Call
  <2>2. Wait(c)'
    BY <1>1, <1>3, <1>7, PowerZero DEF Wait
  <2> QED BY <2>1, <2>2
<1>9. ASSUME NEW d \in Copies, d # c PROVE Call(d)' /\ Wait(d)'
  BY <1>4, <1>5, <1>7, <1>9, OthersKept
<1> QED BY <1>6, <1>8, <1>9 DEF Calls

LEMMA TaskSucceedsKeepsTypes == ASSUME TypeInv, NEW c \in Copies, TaskSucceeds(c) PROVE TypeInv'
<1> USE DEF TypeInv
<1>1. /\ loop' \in [Copies -> {"idle", "trying", "sleeping", "returned", "threw", "scheduled"}]
      /\ loop'[c] = "returned" /\ \A d \in Copies : d # c => loop'[d] = loop[d]
      /\ loop[c] = "trying" /\ processed' = processed \cup {c[1]}
      /\ UNCHANGED << options, accepted, copy, attempt, wait, rejected, failures, crashes >>
  BY DEF TaskSucceeds, TypeOK
<1>2. Call(c)
  BY DEF Calls
<1>3. TypeOK'
  BY <1>1, <1>2 DEF TypeOK, Call
<1>4. Call(c)' /\ Wait(c)'
  BY <1>1, <1>2 DEF Call, Wait
<1>5. ASSUME NEW d \in Copies, d # c PROVE Call(d)' /\ Wait(d)'
  BY <1>1, <1>5, OthersKept
<1> QED BY <1>3, <1>4, <1>5 DEF Calls

\* A failed run is counted, and the next one is waited for if there is one.
LEMMA TaskFailsEffect ==
  ASSUME TypeInv, NEW c \in Copies, TaskFails(c)
  PROVE  /\ loop[c] = "trying" /\ attempt[c] < Limit /\ attempt'[c] = attempt[c] + 1
         /\ loop'[c] = IF attempt[c] + 1 < Limit THEN "sleeping" ELSE "threw"
         /\ wait'[c] = IF attempt[c] + 1 < Limit THEN Timer(Delay(attempt[c])) ELSE wait[c]
         /\ rejected' = IF attempt[c] + 1 < Limit THEN rejected ELSE rejected \cup {c[1]}
         /\ \A d \in Copies : d # c => UNCHANGED << loop[d], attempt[d], wait[d] >>
         /\ UNCHANGED << options, accepted, copy, processed, crashes >>
<1> USE DEF TypeInv
<1>1. loop[c] = "trying" /\ attempt[c] < Limit /\ attempt[c] \in Nat
  BY OptionsTyped DEF TaskFails, TypeOK, Calls, Call
<1>2. attempt' = [attempt EXCEPT ![c] = attempt[c] + 1]
  BY DEF TaskFails
<1>3. attempt'[c] = attempt[c] + 1 /\ \A d \in Copies : d # c => attempt'[d] = attempt[d]
  BY <1>2 DEF TypeOK
<1>4. MayTry(attempt'[c]) <=> attempt[c] + 1 < Limit
  BY <1>1, <1>3, OptionsTyped DEF TypeOK
<1> QED BY <1>1, <1>3, <1>4 DEF TaskFails, TypeOK

LEMMA TaskFailsKeepsTypes == ASSUME TypeInv, NEW c \in Copies, TaskFails(c) PROVE TypeInv'
<1> USE DEF TypeInv
<1>1. Call(c) /\ Wait(c)
  BY DEF Calls
<1>2. options \in Options /\ Limit \in Nat /\ Limit' = Limit /\ attempt[c] \in Nat
  BY OptionsTyped, TaskFailsEffect DEF TypeOK, Limit
<1>3. /\ options.backoffFactor ^ attempt[c] \in Nat /\ options.backoffFactor ^ (attempt[c] + 1) \in Nat
      /\ Timer(Delay(attempt[c])) \in Nat
  BY <1>1, <1>2, TaskFailsEffect, PowerUp, TimerTyped DEF Wait
<1>4. TypeOK'
  <2>1. failures' \in [Msgs -> 0..FailureCap]
    <3>1. c[1] \in Msgs /\ FailureCap \in Nat
      BY RetryAssumption DEF Copies
    <3> QED BY <3>1 DEF TaskFails, TypeOK, Capped
  <2>2. attempt' \in [Copies -> 0..Limit]
    <3>1. attempt \in [Copies -> 0..Limit] /\ attempt' = [attempt EXCEPT ![c] = attempt[c] + 1]
      BY DEF TaskFails, TypeOK, Limit
    <3>2. attempt[c] + 1 \in 0..Limit
      BY <1>2, TaskFailsEffect
    <3> QED BY <3>1, <3>2
  <2>3. wait' \in [Copies -> Nat]
    BY <1>3 DEF TaskFails, TypeOK
  <2>4. loop' \in [Copies -> {"idle", "trying", "sleeping", "returned", "threw", "scheduled"}]
    BY DEF TaskFails, TypeOK
  <2>5. rejected' \subseteq accepted
    BY <1>1, TaskFailsEffect DEF Call, TypeOK
  <2> QED BY <1>2, <2>1, <2>2, <2>3, <2>4, <2>5, TaskFailsEffect DEF TypeOK, Limit
<1>5. Call(c)'
  BY <1>1, <1>2, TaskFailsEffect DEF Call
<1>6. Wait(c)'
  <2>1. \A n : Timer(Delay(n))' = Timer(Delay(n))
    BY TaskFailsEffect DEF Timer, Delay
  <2>2. attempt'[c] - 1 = attempt[c] /\ attempt'[c] = attempt[c] + 1 /\ attempt'[c] # 0
    BY <1>2, TaskFailsEffect
  <2>3. loop'[c] \in {"trying", "sleeping"} => wait'[c] = Timer(Delay(attempt[c]))
    BY TaskFailsEffect
  <2> QED BY <1>3, <2>1, <2>2, <2>3, TaskFailsEffect DEF Wait, Timer, Delay
<1>7. ASSUME NEW d \in Copies, d # c PROVE Call(d)' /\ Wait(d)'
  BY <1>7, TaskFailsEffect, OthersKept
<1> QED BY <1>4, <1>5, <1>6, <1>7 DEF Calls
LEMMA WakesKeepsTypes == ASSUME TypeInv, NEW c \in Copies, Wakes(c) PROVE TypeInv'
<1> USE DEF TypeInv
<1>1. /\ loop' \in [Copies -> {"idle", "trying", "sleeping", "returned", "threw", "scheduled"}]
      /\ loop'[c] = "trying" /\ \A d \in Copies : d # c => loop'[d] = loop[d]
      /\ loop[c] = "sleeping"
      /\ UNCHANGED << options, accepted, copy, attempt, wait, processed, rejected, failures, crashes >>
  BY DEF Wakes, TypeOK
<1>2. TypeOK'
  BY <1>1 DEF TypeOK
<1>3. Call(c)' /\ Wait(c)'
  <2>1. Call(c) /\ Wait(c)
    BY DEF Calls
  <2>2. Call(c)'
    BY <1>1, <2>1 DEF Call, Limit
  <2>3. Wait(c)'
    BY <1>1, <2>1 DEF Wait, Timer, Delay
  <2> QED BY <2>2, <2>3
<1>4. ASSUME NEW d \in Copies, d # c PROVE Call(d)' /\ Wait(d)'
  BY <1>1, <1>4, OthersKept
<1> QED BY <1>2, <1>3, <1>4 DEF Calls

\* A copy of m in a free slot, the only one that changes.
LEMMA NewCopy ==
  ASSUME TypeInv, NEW m \in Msgs, NEW new \in CopyState, NEW s \in Slots,
         copy[<< m, s >>] = None, copy' = [copy EXCEPT ![<< m, s >>] = new]
  PROVE  /\ copy' \in [Copies -> CopyState \cup {None}]
         /\ << m, s >> \in Copies /\ copy'[<< m, s >>] = new /\ new # None
         /\ \A d \in Copies : d # << m, s >> => copy'[d] = copy[d]
BY NoneAssumption DEF TypeInv, TypeOK, Copies

LEMMA PublishKeepsTypes == ASSUME TypeInv, NEW m \in Msgs, Publish(m) PROVE TypeInv'
<1> USE DEF TypeInv
<1> DEFINE n == << m, FreeSlot(m) >>
           new == [retryCount |-> 0, at |-> "ready"]
<1>1. FreeSlot(m) \in Slots /\ copy[n] = None
  BY FreshSlotIsFree DEF Publish
<1>2. new \in CopyState
  BY RetryAssumption DEF CopyState
<1>3. copy' = [copy EXCEPT ![n] = new] /\ new.at = "ready"
  BY DEF Publish
<1>4. accepted' = accepted \cup {m} /\ UNCHANGED << options, loop, attempt, wait, processed, rejected, failures, crashes >>
  BY DEF Publish
<1>5. \A s : << m, s >>[1] = m
  OBVIOUS
<1> HIDE DEF new
<1>6. /\ copy' \in [Copies -> CopyState \cup {None}] /\ n \in Copies /\ copy'[n] = new
      /\ \A d \in Copies : d # n => copy'[d] = copy[d]
  BY <1>1, <1>2, <1>3, NewCopy
<1>7. TypeOK'
  BY <1>4, <1>6 DEF TypeOK
<1>8. PICK k \in Copies : k = n
  BY <1>6
<1>9. k[1] = m
  BY <1>5, <1>8
<1> HIDE DEF n
<1>10. Call(k)' /\ Wait(k)'
  <2>1. loop[k] = "idle" /\ attempt[k] = 0 /\ wait[k] = 0
    BY <1>1, <1>8 DEF Calls, Call
  <2> QED BY <1>3, <1>4, <1>6, <1>8, <1>9, <2>1 DEF Call, Wait
<1>11. ASSUME NEW d \in Copies, d # k PROVE Call(d)' /\ Wait(d)'
  BY <1>4, <1>6, <1>8, <1>11, OthersKept
<1> QED BY <1>7, <1>10, <1>11 DEF Calls

\* scheduleRetry puts one copy more on the broker, or none where no route leads back.
LEMMA ScheduleEffect ==
  ASSUME TypeInv, NEW c \in Copies, Schedule(c)
  PROVE  /\ loop[c] = "threw" /\ loop'[c] = "scheduled" /\ \A d \in Copies : d # c => loop'[d] = loop[d]
         /\ UNCHANGED << options, accepted, attempt, wait, processed, rejected, failures, crashes >>
         /\ \/ ~LeadsBack /\ UNCHANGED copy
            \/ \E n \in Copies :
                 /\ LeadsBack /\ n[1] = c[1] /\ n # c /\ copy[n] = None /\ loop[n] = "idle"
                 /\ copy' = [copy EXCEPT ![n] = Rescheduled(c)]
                 /\ copy' \in [Copies -> CopyState \cup {None}]
                 /\ copy'[n] = Rescheduled(c) /\ copy'[n] # None /\ copy'[n].at # "unacked"
                 /\ copy'[n].retryCount = Capped(copy[c].retryCount + 1, CountCap)
                 /\ \A d \in Copies : d # n => copy'[d] = copy[d]
<1> USE DEF TypeInv
<1>1. /\ loop[c] = "threw" /\ loop'[c] = "scheduled" /\ \A d \in Copies : d # c => loop'[d] = loop[d]
      /\ UNCHANGED << options, accepted, attempt, wait, processed, rejected, failures, crashes >>
  BY DEF Schedule, TypeOK
<1>2. CASE LeadsBack /\ Cardinality(Of(c[1])) <= 2 + crashes
           /\ copy' = [copy EXCEPT ![<< c[1], FreeSlot(c[1]) >>] = Rescheduled(c)]
  <2> DEFINE m == c[1]
             s == FreeSlot(c[1])
  <2>1. m \in Msgs /\ s \in Slots /\ copy[<< m, s >>] = None
    BY <1>2, FreeSlotIsFree DEF Copies
  <2>2. copy[c] # None /\ copy[c] \in CopyState
    BY <1>1 DEF Calls, Call, TypeOK
  <2>3. Rescheduled(c) \in CopyState /\ Rescheduled(c).at # "unacked"
        /\ Rescheduled(c).retryCount = Capped(copy[c].retryCount + 1, CountCap)
    BY <2>2, RetryAssumption DEF Rescheduled, RetryAt, CopyState, Capped
  <2> HIDE DEF s
  <2>4. /\ copy' \in [Copies -> CopyState \cup {None}] /\ << m, s >> \in Copies
        /\ copy'[<< m, s >>] = Rescheduled(c) /\ Rescheduled(c) # None
        /\ \A d \in Copies : d # << m, s >> => copy'[d] = copy[d]
    BY <1>2, <2>1, <2>3, NewCopy DEF s
  <2>5. << m, s >>[1] = c[1] /\ loop[<< m, s >>] = "idle" /\ << m, s >> # c
    BY <2>1, <2>2, <2>4 DEF Calls, Call
  <2> QED BY <1>1, <1>2, <2>1, <2>3, <2>4, <2>5 DEF s
<1> QED BY <1>1, <1>2 DEF Schedule

LEMMA ScheduleKeepsTypes == ASSUME TypeInv, NEW c \in Copies, Schedule(c) PROVE TypeInv'
<1> USE DEF TypeInv
<1>1. /\ loop[c] = "threw" /\ loop'[c] = "scheduled" /\ \A d \in Copies : d # c => loop'[d] = loop[d]
      /\ UNCHANGED << options, accepted, attempt, wait, processed, rejected, failures, crashes >>
  BY ScheduleEffect
<1>2. loop' \in [Copies -> {"idle", "trying", "sleeping", "returned", "threw", "scheduled"}]
  BY DEF Schedule, TypeOK
<1>3. Call(c) /\ Limit' = Limit
  BY <1>1 DEF Calls, Limit
<1>4. CASE UNCHANGED copy
  <2>1. TypeOK'
    BY <1>1, <1>2, <1>4 DEF TypeOK
  <2>2. Call(c)' /\ Wait(c)'
    BY <1>1, <1>3, <1>4 DEF Call, Wait
  <2>3. ASSUME NEW d \in Copies, d # c PROVE Call(d)' /\ Wait(d)'
    BY <1>1, <1>4, <2>3, OthersKept
  <2> QED BY <2>1, <2>2, <2>3 DEF Calls
<1>5. ASSUME NEW n \in Copies, n[1] = c[1], n # c, loop[n] = "idle",
             copy' \in [Copies -> CopyState \cup {None}], copy'[n] # None, copy'[n].at # "unacked",
             \A d \in Copies : d # n => copy'[d] = copy[d]
      PROVE  TypeInv'
  <2>1. TypeOK'
    BY <1>1, <1>2, <1>5 DEF TypeOK
  <2>2. Call(c)' /\ Wait(c)'
    BY <1>1, <1>3, <1>5 DEF Call, Wait
  <2>3. Call(n)' /\ Wait(n)'
    <3>1. Call(n)
      BY DEF Calls
    <3>2. c[1] \in accepted
      BY <1>1, <1>3 DEF Call
    <3> QED BY <1>1, <1>3, <1>5, <3>1, <3>2 DEF Call, Wait
  <2>4. ASSUME NEW d \in Copies, d # c, d # n PROVE Call(d)' /\ Wait(d)'
    BY <1>1, <1>5, <2>4, OthersKept
  <2> QED BY <2>1, <2>2, <2>3, <2>4 DEF Calls
<1> QED BY <1>4, <1>5, ScheduleEffect

\* An acknowledged copy leaves nothing behind.
LEMMA AckEffect ==
  ASSUME TypeInv, NEW c \in Copies, Ack(c)
  PROVE  /\ loop[c] \in {"returned", "scheduled"}
         /\ copy'[c] = None /\ loop'[c] = "idle" /\ attempt'[c] = 0 /\ wait'[c] = 0
         /\ \A d \in Copies : d # c => UNCHANGED << copy[d], loop[d], attempt[d], wait[d] >>
         /\ UNCHANGED << options, accepted, processed, rejected, failures, crashes >>
BY DEF Ack, TypeInv, TypeOK

LEMMA AckKeepsTypes == ASSUME TypeInv, NEW c \in Copies, Ack(c) PROVE TypeInv'
<1> USE DEF TypeInv
<1>1. TypeOK'
  <2>1. 0 \in 0..Limit
    BY OptionsTyped DEF TypeOK
  <2>2. attempt' \in [Copies -> 0..Limit]
    BY <2>1 DEF Ack, TypeOK, Limit
  <2>3. /\ copy' \in [Copies -> CopyState \cup {None}] /\ wait' \in [Copies -> Nat]
        /\ loop' \in [Copies -> {"idle", "trying", "sleeping", "returned", "threw", "scheduled"}]
    BY DEF Ack, TypeOK
  <2> QED BY <2>2, <2>3, AckEffect DEF TypeOK, Limit
<1>2. Call(c)' /\ Wait(c)'
  BY AckEffect DEF Call, Wait
<1>3. ASSUME NEW d \in Copies, d # c PROVE Call(d)' /\ Wait(d)'
  BY <1>3, AckEffect, OthersKept
<1> QED BY <1>1, <1>2, <1>3 DEF Calls

LEMMA DelayExpiresKeepsTypes == ASSUME TypeInv, NEW c \in Copies, DelayExpires(c) PROVE TypeInv'
<1> USE DEF TypeInv
<1>1. UNCHANGED << options, accepted, loop, attempt, wait, processed, rejected, failures, crashes >>
  BY DEF DelayExpires
<1>2. /\ copy' \in [Copies -> CopyState \cup {None}] /\ copy'[c] # None /\ copy'[c].at = "ready"
      /\ \A d \in Copies : d # c => copy'[d] = copy[d]
  BY MovesOn DEF DelayExpires
<1>3. TypeOK'
  BY <1>1, <1>2 DEF TypeOK
<1>4. Call(c)' /\ Wait(c)'
  <2>1. Call(c) /\ Wait(c) /\ copy[c] # None /\ copy[c].at = "held" /\ Limit' = Limit
    BY <1>1 DEF Calls, DelayExpires, Limit
  <2>2. Call(c)'
    BY <1>1, <1>2, <2>1 DEF Call
  <2>3. Wait(c)'
    BY <1>1, <2>1 DEF Wait, Call
  <2> QED BY <2>2, <2>3
<1>5. ASSUME NEW d \in Copies, d # c PROVE Call(d)' /\ Wait(d)'
  BY <1>1, <1>2, <1>5, OthersKept
<1> QED BY <1>3, <1>4, <1>5 DEF Calls

\* A crash takes no copy from the broker and leaves no call behind.
LEMMA CrashEffect ==
  ASSUME TypeInv, Crash, NEW c \in Copies
  PROVE  /\ loop'[c] = "idle" /\ attempt'[c] = 0 /\ wait'[c] = 0
         /\ copy'[c] \in CopyState \cup {None} /\ (copy'[c] = None <=> copy[c] = None)
         /\ copy[c] # None => copy'[c].at # "unacked" /\ copy'[c].retryCount = copy[c].retryCount
         /\ UNCHANGED << options, accepted, processed, rejected, failures >>
<1>1. /\ loop'[c] = "idle" /\ attempt'[c] = 0 /\ wait'[c] = 0
      /\ UNCHANGED << options, accepted, processed, rejected, failures >>
  BY DEF Crash
<1>2. copy[c] \in CopyState \cup {None}
  BY DEF TypeInv, TypeOK
<1>3. CASE copy[c] # None /\ copy[c].at = "unacked"
  <2> DEFINE moved == [copy[c] EXCEPT !.at = "ready"]
  <2>1. moved \in CopyState /\ moved # None /\ moved.at = "ready" /\ moved.retryCount = copy[c].retryCount
    BY <1>2, <1>3, CopyMoves
  <2>2. copy'[c] = moved
    BY <1>3 DEF Crash
  <2> QED BY <1>1, <1>3, <2>1, <2>2
<1>4. CASE ~(copy[c] # None /\ copy[c].at = "unacked")
  <2>1. copy'[c] = copy[c]
    BY <1>4 DEF Crash
  <2> QED BY <1>1, <1>2, <1>4, <2>1
<1> QED BY <1>3, <1>4

LEMMA CrashKeepsTypes == ASSUME TypeInv, Crash PROVE TypeInv'
<1> USE DEF TypeInv
<1>1. TypeOK'
  <2>1. Limit \in Nat
    BY OptionsTyped DEF TypeOK
  <2>2. /\ attempt' \in [Copies -> 0..Limit] /\ wait' \in [Copies -> Nat]
        /\ loop' \in [Copies -> {"idle", "trying", "sleeping", "returned", "threw", "scheduled"}]
        /\ crashes' \in 0..MaxCrashes
    BY <2>1, RetryAssumption DEF Crash, TypeOK
  <2>3. copy' \in [Copies -> CopyState \cup {None}]
    <3>1. \A c \in Copies : copy'[c] \in CopyState \cup {None}
      BY CrashEffect
    <3>2. copy' = [c \in Copies |-> copy'[c]]
      BY Zenon DEF Crash
    <3> QED BY <3>1, <3>2
  <2>4. UNCHANGED << options, accepted, processed, rejected, failures >>
    BY DEF Crash
  <2> QED BY <2>2, <2>3, <2>4 DEF TypeOK, Limit
<1>2. ASSUME NEW c \in Copies PROVE Call(c)' /\ Wait(c)'
  <2>1. Call(c)
    BY DEF Calls
  <2> QED BY <2>1, CrashEffect DEF Call, Wait
<1> QED BY <1>1, <1>2 DEF Calls

LEMMA TypeStep == TypeInv /\ [Next]_vars => TypeInv'
<1> SUFFICES ASSUME TypeInv, [Next]_vars PROVE TypeInv'
  OBVIOUS
<1>1. CASE UNCHANGED vars
  <2>1. TypeOK'
    BY <1>1 DEF vars, TypeInv, TypeOK
  <2>2. ASSUME NEW d \in Copies PROVE Call(d)' /\ Wait(d)'
    BY <1>1, OthersKept DEF vars, TypeInv
  <2> QED BY <2>1, <2>2, <1>1 DEF TypeInv, Calls
<1> QED BY <1>1, PublishKeepsTypes, DeliverKeepsTypes, TaskSucceedsKeepsTypes, TaskFailsKeepsTypes,
           WakesKeepsTypes, ScheduleKeepsTypes, AckKeepsTypes, DelayExpiresKeepsTypes, CrashKeepsTypes
        DEF Next, Step

LEMMA TypeInvCorrect == Spec => []TypeInv
BY TypeInit, TypeStep, PTL DEF Spec

\* The broker and the calls have their types in every reachable state: a call never counts
\* more than maxRetries + 1 attempts, and nothing is processed or rejected unpublished.
THEOREM TypeCorrect == Spec => []TypeOK
BY TypeInvCorrect, PTL DEF TypeInv
-----------------------------------------------------------------------------
(* A round trip loses nothing.                                             *)

\* A copy whose call can still come to something.
Unsettled(c) == copy[c] # None /\ loop[c] \notin {"returned", "scheduled"}

\* It is not enough that some copy is there: two that are both about to be acknowledged
\* could each be the other's excuse.
KeptAlive ==
  \A m \in accepted \ processed :
    \/ \E c \in Copies : c[1] = m /\ Unsettled(c)
    \/ ~LeadsBack /\ m \in rejected

\* A step keeps what it does not settle.
LEMMA AliveKept ==
  ASSUME KeptAlive, NEW m \in (accepted \ processed), accepted' = accepted, UNCHANGED options,
         rejected \subseteq rejected',
         \A c \in Copies : c[1] = m /\ Unsettled(c) => Unsettled(c)'
  PROVE  (\E c \in Copies : c[1] = m /\ Unsettled(c)') \/ (~LeadsBack' /\ m \in rejected')
BY DEF KeptAlive, LeadsBack, Destination

LEMMA KeptAliveStep == TypeInv /\ KeptAlive /\ [Next]_vars => KeptAlive'
<1> SUFFICES ASSUME TypeInv, KeptAlive, [Next]_vars, NEW m \in (accepted \ processed)'
             PROVE  (\E c \in Copies : c[1] = m /\ Unsettled(c)') \/ (~LeadsBack' /\ m \in rejected')
  BY DEF KeptAlive
<1> USE DEF TypeInv
<1>1. ASSUME NEW n \in Msgs, Publish(n)
      PROVE  (\E c \in Copies : c[1] = m /\ Unsettled(c)') \/ (~LeadsBack' /\ m \in rejected')
  <2> DEFINE new == [retryCount |-> 0, at |-> "ready"]
  <2>1. new \in CopyState
    BY RetryAssumption DEF CopyState
  <2>2. PICK k \in Copies : k = << n, FreeSlot(n) >> /\ copy[k] = None
    BY <1>1, FreshSlotIsFree DEF Publish, Copies
  <2>3. copy' = [copy EXCEPT ![k] = new]
    BY <1>1, <2>2 DEF Publish
  <2> HIDE DEF new
  <2>4. copy'[k] # None /\ \A d \in Copies : d # k => copy'[d] = copy[d]
    BY <2>1, <2>3, NoneAssumption DEF TypeOK
  <2>5. loop[k] = "idle" /\ k[1] = n
    BY <2>2 DEF Calls, Call
  <2>6. accepted' = accepted \cup {n} /\ UNCHANGED << options, loop, processed, rejected >>
    BY <1>1 DEF Publish
  <2>7. CASE m = n
    BY <2>4, <2>5, <2>6, <2>7 DEF Unsettled
  <2>8. CASE m # n
    <3>1. m \in accepted \ processed
      BY <2>6, <2>8
    <3>2. CASE ~LeadsBack /\ m \in rejected
      BY <2>6, <3>2 DEF LeadsBack, Destination
    <3>3. ASSUME NEW c \in Copies, c[1] = m, Unsettled(c) PROVE Unsettled(c)'
      BY <2>2, <2>4, <2>6, <3>3 DEF Unsettled
    <3> QED BY <3>1, <3>2, <3>3 DEF KeptAlive
  <2> QED BY <2>7, <2>8
<1>2. ASSUME NEW c \in Copies, Deliver(c)
      PROVE  (\E d \in Copies : d[1] = m /\ Unsettled(d)') \/ (~LeadsBack' /\ m \in rejected')
  <2>1. UNCHANGED << options, accepted, processed >> /\ rejected \subseteq rejected'
    BY <1>2 DEF Deliver
  <2>2. copy'[c] # None /\ \A d \in Copies : d # c => copy'[d] = copy[d]
    BY <1>2, MovesOn DEF Deliver
  <2>3. loop'[c] \in {"trying", "threw"} /\ \A d \in Copies : d # c => loop'[d] = loop[d]
    BY <1>2 DEF Deliver, TypeOK
  <2> QED BY <2>1, <2>2, <2>3, AliveKept DEF Unsettled
<1>3. ASSUME NEW c \in Copies, TaskSucceeds(c)
      PROVE  (\E d \in Copies : d[1] = m /\ Unsettled(d)') \/ (~LeadsBack' /\ m \in rejected')
  <2>1. /\ UNCHANGED << options, accepted, copy, rejected >> /\ processed' = processed \cup {c[1]}
        /\ \A d \in Copies : d # c => loop'[d] = loop[d]
    BY <1>3 DEF TaskSucceeds, TypeOK
  <2> QED BY <2>1, AliveKept DEF Unsettled
<1>4. ASSUME NEW c \in Copies, TaskFails(c)
      PROVE  (\E d \in Copies : d[1] = m /\ Unsettled(d)') \/ (~LeadsBack' /\ m \in rejected')
  BY <1>4, TaskFailsEffect, AliveKept DEF Unsettled
<1>5. ASSUME NEW c \in Copies, Wakes(c)
      PROVE  (\E d \in Copies : d[1] = m /\ Unsettled(d)') \/ (~LeadsBack' /\ m \in rejected')
  <2>1. /\ UNCHANGED << options, accepted, processed, copy, rejected >> /\ loop'[c] = "trying"
        /\ \A d \in Copies : d # c => loop'[d] = loop[d]
    BY <1>5 DEF Wakes, TypeOK
  <2> QED BY <2>1, AliveKept DEF Unsettled
<1>6. ASSUME NEW c \in Copies, Schedule(c)
      PROVE  (\E d \in Copies : d[1] = m /\ Unsettled(d)') \/ (~LeadsBack' /\ m \in rejected')
  <2>1. /\ UNCHANGED << options, accepted, processed, rejected >> /\ loop[c] = "threw"
        /\ \A d \in Copies : d # c => loop'[d] = loop[d]
    BY <1>6, ScheduleEffect
  <2>2. m \in accepted \ processed
    BY <2>1
  <2>3. CASE c[1] = m /\ ~LeadsBack
    <3>1. m \in rejected
      BY <2>1, <2>3 DEF Calls, Call
    <3> QED BY <2>1, <2>3, <3>1 DEF LeadsBack, Destination
  <2>4. ASSUME NEW n \in Copies, n[1] = c[1], n # c, copy[n] = None, loop[n] = "idle", copy'[n] # None,
               \A d \in Copies : d # n => copy'[d] = copy[d]
        PROVE  (\E d \in Copies : d[1] = m /\ Unsettled(d)') \/ (~LeadsBack' /\ m \in rejected')
    <3>1. Unsettled(n)'
      BY <2>1, <2>4 DEF Unsettled
    <3>2. CASE c[1] = m
      BY <2>4, <3>1, <3>2
    <3>3. CASE c[1] # m
      BY <2>1, <2>2, <2>4, <3>3, AliveKept DEF Unsettled
    <3> QED BY <3>2, <3>3
  <2>5. CASE c[1] # m /\ UNCHANGED copy
    BY <2>1, <2>2, <2>5, AliveKept DEF Unsettled
  <2> QED BY <1>6, <2>3, <2>4, <2>5, ScheduleEffect
<1>7. ASSUME NEW c \in Copies, Ack(c)
      PROVE  (\E d \in Copies : d[1] = m /\ Unsettled(d)') \/ (~LeadsBack' /\ m \in rejected')
  BY <1>7, AckEffect, AliveKept DEF Unsettled
<1>8. ASSUME NEW c \in Copies, DelayExpires(c)
      PROVE  (\E d \in Copies : d[1] = m /\ Unsettled(d)') \/ (~LeadsBack' /\ m \in rejected')
  <2>1. UNCHANGED << options, accepted, processed, loop, rejected >>
    BY <1>8 DEF DelayExpires
  <2>2. copy'[c] # None /\ \A d \in Copies : d # c => copy'[d] = copy[d]
    BY <1>8, MovesOn DEF DelayExpires
  <2> QED BY <2>1, <2>2, AliveKept DEF Unsettled
<1>9. CASE Crash
  <2>1. UNCHANGED << options, accepted, processed, rejected >>
    BY <1>9 DEF Crash
  <2>2. \A c \in Copies : Unsettled(c) => Unsettled(c)'
    BY <1>9, CrashEffect DEF Unsettled
  <2> QED BY <2>1, <2>2, AliveKept
<1>10. CASE UNCHANGED vars
  BY <1>10, AliveKept DEF vars, Unsettled
<1> QED BY <1>1, <1>2, <1>3, <1>4, <1>5, <1>6, <1>7, <1>8, <1>9, <1>10 DEF Next, Step

\* Every message that is not processed has a copy on the broker whose call is not about to
\* be acknowledged, or went where no route leads back, after executeWithRetry threw for it.
THEOREM RoundTripLosesNothingCorrect == Spec => []RoundTripLosesNothing
<1>1. Init => KeptAlive
  BY DEF Init, KeptAlive
<1>2. TypeInv /\ KeptAlive => RoundTripLosesNothing
  BY DEF KeptAlive, RoundTripLosesNothing, Unsettled, Of, Present
<1> QED BY <1>1, <1>2, TypeInvCorrect, KeptAliveStep, PTL DEF Spec

-----------------------------------------------------------------------------
(* The waits grow.                                                         *)

LEMMA DelayGrows ==
  ASSUME options \in Options, NEW n \in Nat, n < Limit, options.backoffFactor ^ n \in Nat,
         options.backoffFactor > 0
  PROVE  Delay(n) \in Nat /\ Delay(n + 1) \in Nat /\ Delay(n) <= Delay(n + 1)
<1> DEFINE i == options.initialDelayMs
           p == options.backoffFactor ^ n
           q == options.backoffFactor ^ (n + 1)
<1>1. i \in Nat
  BY OptionsTyped
<1>2. q \in Nat /\ p \in Nat /\ q >= p
  BY PowerUp
<1>3. Delay(n) = i * p /\ Delay(n + 1) = i * q
  BY DEF Delay
<1> HIDE DEF i, p, q
<1>4. i * p \in Nat /\ i * q \in Nat /\ i * p <= i * q
  BY <1>1, <1>2
<1> QED BY <1>3, <1>4

\* From one wait of a call to the next the delay does not shrink, until it is longer than
\* setTimeout can hold.
THEOREM BackoffGrowsCorrect == Spec => BackoffGrows
<1> DEFINE Grows == \A c \in Copies :
      loop[c] = "trying" /\ loop'[c] = "sleeping" /\ options.backoffFactor > 0
      => wait'[c] >= wait[c] \/ Delay(attempt[c]) > MaxTimer
<1>1. TypeInv /\ [Next]_vars => Grows
  <2> SUFFICES ASSUME TypeInv, [Next]_vars, NEW c \in Copies, loop[c] = "trying",
                      loop'[c] = "sleeping", options.backoffFactor > 0
               PROVE  wait'[c] >= wait[c] \/ Delay(attempt[c]) > MaxTimer
    OBVIOUS
  <2>1. TaskFails(c)
    <3>1. CASE \E d \in Copies : d # c /\ Step(d)
      BY <3>1, TaskFailsEffect, ScheduleEffect, AckEffect
         DEF Step, Deliver, TaskSucceeds, Wakes, DelayExpires, TypeInv, TypeOK
    <3>2. CASE Step(c)
      BY <3>2, ScheduleEffect, AckEffect
         DEF Step, Deliver, TaskSucceeds, Wakes, DelayExpires, TypeInv, TypeOK
    <3>3. CASE Crash
      BY <3>3, CrashEffect
    <3> QED BY <3>1, <3>2, <3>3 DEF Next, Publish, vars
  <2>2. /\ options \in Options /\ attempt[c] \in Nat /\ attempt[c] < Limit /\ Wait(c)
        /\ wait'[c] = Timer(Delay(attempt[c]))
    BY <2>1, TaskFailsEffect, OptionsTyped DEF TypeInv, TypeOK, Calls
  <2>3. MaxTimer \in Nat \ {0}
    BY RetryAssumption
  <2>4. CASE attempt[c] = 0
    <3>1. wait[c] = 0 /\ wait'[c] \in Nat
      BY <2>2, <2>4, TimerTyped DEF Wait
    <3> QED BY <3>1
  <2>5. CASE attempt[c] > 0
    <3> DEFINE n == attempt[c] - 1
    <3>1. n \in Nat /\ n < Limit /\ n + 1 = attempt[c] /\ options.backoffFactor ^ n \in Nat
          /\ wait[c] = Timer(Delay(n))
      BY <2>2, <2>5, OptionsTyped DEF Wait
    <3> HIDE DEF n
    <3>2. Delay(n) \in Nat /\ Delay(n + 1) \in Nat /\ Delay(n) <= Delay(n + 1)
      BY <2>2, <3>1, DelayGrows
    <3>3. CASE Delay(n + 1) <= MaxTimer
      BY <2>2, <2>3, <3>1, <3>2, <3>3 DEF Timer
    <3> QED BY <2>3, <3>1, <3>2, <3>3
  <2> QED BY <2>2, <2>4, <2>5
<1> QED BY <1>1, TypeInvCorrect, PTL DEF Spec, BackoffGrows
-----------------------------------------------------------------------------
(* executeWithRetry implements BoundedRetry.                               *)

LEMMA RoundCases ==
  ASSUME NEW c \in Copies
  PROVE  /\ loop[c] = "idle" => Round(c) = "idle"
         /\ loop[c] \in {"trying", "sleeping"} => Round(c) = "busy"
         /\ loop[c] = "returned" => Round(c) = "ok"
         /\ loop[c] \in {"threw", "scheduled"} => Round(c) = "exhausted"
BY DEF Round

LEMMA RoundCasesNext ==
  ASSUME NEW c \in Copies
  PROVE  /\ loop'[c] = "idle" => Round(c)' = "idle"
         /\ loop'[c] \in {"trying", "sleeping"} => Round(c)' = "busy"
         /\ loop'[c] = "returned" => Round(c)' = "ok"
         /\ loop'[c] \in {"threw", "scheduled"} => Round(c)' = "exhausted"
BY DEF Round

\* A step of a BoundedRetry with Limit tries, on the round of c and its count.
RoundStep(c) ==
  \/ /\ Round(c) # "busy" /\ attempt'[c] = 0
     /\ Round(c)' = IF Limit > 0 THEN "busy" ELSE "exhausted"
  \/ Round(c) = "busy" /\ attempt[c] < Limit /\ Round(c)' = "ok" /\ attempt'[c] = attempt[c]
  \/ /\ Round(c) = "busy" /\ attempt[c] < Limit /\ attempt'[c] = attempt[c] + 1
     /\ Round(c)' = IF attempt'[c] < Limit THEN "busy" ELSE "exhausted"
  \/ Round(c) # "idle" /\ Round(c)' = "idle" /\ attempt'[c] = 0
  \/ Round(c)' = Round(c) /\ attempt'[c] = attempt[c]

LEMMA RoundStays ==
  ASSUME NEW c \in Copies, attempt'[c] = attempt[c],
         \/ loop'[c] = loop[c]
         \/ loop[c] = "sleeping" /\ loop'[c] = "trying"
         \/ loop[c] = "threw" /\ loop'[c] = "scheduled"
  PROVE  RoundStep(c)
<1>1. Round(c)' = Round(c)
  BY RoundCases, RoundCasesNext DEF Round
<1> QED BY <1>1 DEF RoundStep

LEMMA StepsMap == ASSUME TypeInv, [Next]_vars, NEW c \in Copies PROVE RoundStep(c) /\ Limit' = Limit
<1> USE DEF TypeInv
<1>1. SUFFICES RoundStep(c)
  BY DEF Next, Publish, Step, Deliver, TaskSucceeds, TaskFails, Wakes, Schedule, Ack, DelayExpires,
         Crash, vars, Limit
<1>2. CASE (\E m \in Msgs : Publish(m)) \/ UNCHANGED vars
  BY <1>2, RoundStays DEF Publish, vars
<1>3. ASSUME NEW d \in Copies, d # c, Step(d) PROVE RoundStep(c)
  <2>1. loop'[c] = loop[c] /\ attempt'[c] = attempt[c]
    BY <1>3, TaskFailsEffect, ScheduleEffect, AckEffect
       DEF Step, Deliver, TaskSucceeds, Wakes, DelayExpires, TypeOK
  <2> QED BY <2>1, RoundStays
<1>4. CASE Deliver(c)
  <2>1. loop[c] = "idle" /\ attempt[c] = 0 /\ UNCHANGED attempt
    BY <1>4 DEF Deliver, Calls, Call
  <2>2. loop'[c] = IF Limit > 0 THEN "trying" ELSE "threw"
    BY <1>4, OptionsTyped DEF Deliver, TypeOK
  <2> QED BY <2>1, <2>2, RoundCases, RoundCasesNext DEF RoundStep
<1>5. CASE TaskSucceeds(c)
  <2>1. loop[c] = "trying" /\ loop'[c] = "returned" /\ attempt[c] < Limit /\ UNCHANGED attempt
    BY <1>5 DEF TaskSucceeds, TypeOK, Calls, Call
  <2> QED BY <2>1, RoundCases, RoundCasesNext DEF RoundStep
<1>6. CASE TaskFails(c)
  BY <1>6, TaskFailsEffect, RoundCases, RoundCasesNext DEF RoundStep
<1>7. CASE Wakes(c)
  BY <1>7, RoundStays DEF Wakes, TypeOK
<1>8. CASE Schedule(c)
  BY <1>8, ScheduleEffect, RoundStays
<1>9. CASE Ack(c)
  BY <1>9, AckEffect, RoundCases, RoundCasesNext DEF RoundStep
<1>10. CASE DelayExpires(c)
  BY <1>10, RoundStays DEF DelayExpires
<1>11. CASE Crash
  <2>1. loop'[c] = "idle" /\ attempt'[c] = 0
    BY <1>11, CrashEffect
  <2>2. CASE loop[c] = "idle"
    BY <2>1, <2>2, RoundStays DEF Calls, Call
  <2>3. CASE loop[c] # "idle"
    <3>1. Round(c) # "idle"
      BY <2>3, RoundCases DEF TypeOK
    <3> QED BY <2>1, <3>1, RoundCasesNext DEF RoundStep
  <2> QED BY <2>2, <2>3
<1> QED BY <1>2, <1>3, <1>4, <1>5, <1>6, <1>7, <1>8, <1>9, <1>10, <1>11 DEF Next, Step

\* Every call of executeWithRetry implements BoundedRetry: maxRetries + 1 runs of the task
\* and no more, the first success ends it, and only the last failure gives up.
THEOREM ExecuteIsBoundedCorrect == Spec => ExecuteIsBounded
<1>1. Init => \A c \in Copies : RetryLoop(c)!Init
  <2> SUFFICES ASSUME Init, NEW c \in Copies PROVE RetryLoop(c)!Init
    OBVIOUS
  <2>1. Limit \in Nat /\ Round(c) = "idle" /\ attempt[c] = 0
    BY OptionsTyped, RoundCases DEF Init
  <2> QED BY <2>1 DEF RetryLoop!Init
<1>2. TypeInv /\ [Next]_vars => \A c \in Copies : [RetryLoop(c)!Next]_(RetryLoop(c)!vars)
  <2> SUFFICES ASSUME TypeInv, [Next]_vars, NEW c \in Copies
               PROVE  [RetryLoop(c)!Next]_(RetryLoop(c)!vars)
    OBVIOUS
  <2>1. RoundStep(c) /\ Limit' = Limit
    BY StepsMap
  <2> QED BY <2>1 DEF RoundStep, RetryLoop!Next, RetryLoop!Begin, RetryLoop!TryFails,
                      RetryLoop!TrySucceeds, RetryLoop!Leave, RetryLoop!vars
<1> QED BY <1>1, <1>2, TypeInvCorrect, PTL DEF Spec, ExecuteIsBounded
-----------------------------------------------------------------------------
(* What retryCount tells.                                                  *)

Behind(c) == copy[c].retryCount * Limit + attempt[c]

\* What the count of c says of the failed runs of its message.
Told(c) ==
  copy[c] # None =>
    /\ failures[c[1]] < FailureCap => failures[c[1]] >= Behind(c)
    /\ /\ crashes = 0 /\ loop[c] # "scheduled"
       /\ failures[c[1]] < FailureCap /\ copy[c].retryCount < CountCap
       => failures[c[1]] = Behind(c)

\* Without a crash a message has one copy at a time that is not about to be acknowledged
\* for its retry: no other call can fail for it meanwhile.
OneAtATime ==
  crashes = 0 =>
    \A c, d \in Copies :
      /\ copy[c] # None /\ copy[d] # None /\ c[1] = d[1]
      /\ loop[c] # "scheduled" /\ loop[d] # "scheduled"
      => c = d

Counted ==
  /\ \A c \in Copies : Told(c)
  /\ OneAtATime
  /\ \A m \in Msgs \ accepted : failures[m] = 0

LEMMA CountsTyped ==
  ASSUME TypeInv, NEW c \in Copies, copy[c] # None
  PROVE  /\ copy[c].retryCount \in 0..CountCap /\ copy[c].retryCount \in Nat /\ CountCap \in Nat
         /\ attempt[c] \in Nat /\ Limit \in Nat /\ c[1] \in Msgs /\ failures[c[1]] \in Nat
         /\ FailureCap \in Nat /\ Behind(c) \in Nat
<1>1. /\ copy[c].retryCount \in 0..CountCap /\ CountCap \in Nat /\ FailureCap \in Nat
      /\ attempt[c] \in Nat /\ Limit \in Nat /\ c[1] \in Msgs /\ failures[c[1]] \in Nat
  BY OptionsTyped, RetryAssumption DEF TypeInv, TypeOK, CopyState, Copies
<1> QED BY <1>1 DEF Behind

\* A step that leaves counts and failures alone, and makes no call unscheduled, keeps Counted.
LEMMA CountedKept ==
  ASSUME TypeInv, Counted, UNCHANGED << options, failures, crashes >>, accepted \subseteq accepted',
         \A c \in Copies : copy'[c] # None =>
           /\ copy[c] # None /\ copy'[c].retryCount = copy[c].retryCount /\ attempt'[c] = attempt[c]
           /\ loop'[c] # "scheduled" => loop[c] # "scheduled"
  PROVE  Counted'
<1>1. Limit' = Limit
  BY DEF Limit
<1>2. \A c \in Copies : copy'[c] # None => Behind(c)' = Behind(c)
  BY <1>1 DEF Behind
<1>3. \A c \in Copies : Told(c)'
  BY <1>2 DEF Counted, Told
<1>4. OneAtATime'
  BY DEF Counted, OneAtATime
<1> QED BY <1>3, <1>4 DEF Counted

LEMMA PublishCounted == ASSUME TypeInv, Counted, NEW m \in Msgs, Publish(m) PROVE Counted'
<1> USE DEF TypeInv
<1> DEFINE new == [retryCount |-> 0, at |-> "ready"]
<1>1. new \in CopyState /\ new.retryCount = 0
  BY RetryAssumption DEF CopyState
<1>2. PICK k \in Copies : k = << m, FreeSlot(m) >> /\ copy[k] = None
  BY FreshSlotIsFree DEF Publish, Copies
<1>3. copy' = [copy EXCEPT ![k] = new]
  BY <1>2 DEF Publish
<1> HIDE DEF new
<1>4. copy'[k] = new /\ \A d \in Copies : d # k => copy'[d] = copy[d]
  BY <1>3 DEF TypeOK
<1>5. loop[k] = "idle" /\ attempt[k] = 0 /\ k[1] = m
  BY <1>2 DEF Calls, Call
<1>6. /\ m \notin accepted /\ accepted' = accepted \cup {m}
      /\ UNCHANGED << options, loop, attempt, failures, crashes >>
  BY DEF Publish
<1>7. \A d \in Copies : copy[d] # None => d[1] # m
  BY <1>6 DEF Calls, Call
<1>8. Limit \in Nat /\ Limit' = Limit
  BY <1>6, OptionsTyped DEF Limit, TypeOK
<1>9. Told(k)'
  <2>1. Behind(k)' = 0 * Limit + 0
    BY <1>1, <1>4, <1>5, <1>6, <1>8 DEF Behind
  <2>2. failures[m] = 0
    BY <1>6 DEF Counted
  <2> QED BY <1>5, <1>6, <1>8, <2>1, <2>2 DEF Told
<1>10. ASSUME NEW d \in Copies, d # k PROVE Told(d)'
  <2>1. Behind(d)' = Behind(d) /\ Told(d)
    BY <1>4, <1>6, <1>8, <1>10 DEF Behind, Counted
  <2> QED BY <1>4, <1>6, <1>10, <2>1 DEF Told
<1>11. OneAtATime'
  BY <1>4, <1>5, <1>6, <1>7 DEF Counted, OneAtATime
<1> QED BY <1>6, <1>9, <1>10, <1>11 DEF Counted

LEMMA TaskFailsCounted == ASSUME TypeInv, Counted, NEW c \in Copies, TaskFails(c) PROVE Counted'
<1> USE DEF TypeInv
<1>1. /\ loop[c] = "trying" /\ loop'[c] \in {"sleeping", "threw"} /\ attempt'[c] = attempt[c] + 1
      /\ \A d \in Copies : d # c => UNCHANGED << loop[d], attempt[d] >>
      /\ UNCHANGED << options, accepted, copy, crashes >>
  BY TaskFailsEffect
<1>2. copy[c] # None /\ c[1] \in accepted
  BY <1>1 DEF Calls, Call
<1>3. /\ failures'[c[1]] = Capped(failures[c[1]] + 1, FailureCap)
      /\ \A m \in Msgs : m # c[1] => failures'[m] = failures[m]
  BY DEF TaskFails, TypeOK, Copies
<1>4. failures'[c[1]] < FailureCap => failures'[c[1]] = failures[c[1]] + 1 /\ failures[c[1]] < FailureCap
  BY <1>2, <1>3, CountsTyped DEF Capped
<1>5. Limit' = Limit
  BY <1>1 DEF Limit
<1>6. Told(c)'
  <2>1. Behind(c)' = Behind(c) + 1
    <3> DEFINE p == copy[c].retryCount * Limit
    <3>1. p \in Nat /\ attempt[c] \in Nat
      BY <1>2, CountsTyped
    <3>2. Behind(c) = p + attempt[c] /\ Behind(c)' = p + (attempt[c] + 1)
      BY <1>1, <1>5 DEF Behind
    <3> HIDE DEF p
    <3> QED BY <3>1, <3>2
  <2>2. Told(c)
    BY DEF Counted
  <2> QED BY <1>1, <1>2, <1>4, <2>1, <2>2, CountsTyped DEF Told
<1>7. ASSUME NEW d \in Copies, d # c PROVE Told(d)'
  <2>1. Told(d) /\ Behind(d)' = Behind(d)
    BY <1>1, <1>5, <1>7 DEF Counted, Behind
  <2>2. CASE d[1] = c[1] /\ copy[d] # None
    <3>1. ~(crashes = 0 /\ loop[d] # "scheduled")
      BY <1>1, <1>2, <1>7, <2>2 DEF Counted, OneAtATime
    <3> QED BY <1>1, <1>4, <1>7, <2>1, <2>2, <3>1, CountsTyped DEF Told
  <2>3. CASE d[1] # c[1] \/ copy[d] = None
    <3>1. d[1] \in Msgs
      BY DEF Copies
    <3> QED BY <1>1, <1>3, <1>7, <2>1, <2>3, <3>1 DEF Told
  <2> QED BY <2>2, <2>3
<1>8. OneAtATime'
  BY <1>1 DEF Counted, OneAtATime
<1>9. \A m \in Msgs \ accepted' : failures'[m] = 0
  BY <1>1, <1>2, <1>3 DEF Counted
<1> QED BY <1>6, <1>7, <1>8, <1>9 DEF Counted

LEMMA ScheduleCounted == ASSUME TypeInv, Counted, NEW c \in Copies, Schedule(c) PROVE Counted'
<1> USE DEF TypeInv
<1>1. /\ loop[c] = "threw" /\ loop'[c] = "scheduled" /\ \A d \in Copies : d # c => loop'[d] = loop[d]
      /\ UNCHANGED << options, accepted, attempt, failures, crashes >>
  BY ScheduleEffect
<1>2. CASE UNCHANGED copy
  BY <1>1, <1>2, CountedKept
<1>3. ASSUME NEW n \in Copies, n[1] = c[1], n # c, copy[n] = None, loop[n] = "idle", copy'[n] # None,
             copy'[n].retryCount = Capped(copy[c].retryCount + 1, CountCap),
             \A d \in Copies : d # n => copy'[d] = copy[d]
      PROVE  Counted'
  <2>1. copy[c] # None /\ attempt[c] = Limit /\ attempt[n] = 0 /\ Limit' = Limit
    BY <1>1, <1>3 DEF Calls, Call, Limit
  <2>2. Told(n)'
    <3> DEFINE r == copy[c].retryCount
               s == copy'[n].retryCount
    <3>1. r \in 0..CountCap /\ CountCap \in Nat /\ Limit \in Nat
      BY <2>1, CountsTyped
    <3>2. s = IF r + 1 > CountCap THEN CountCap ELSE r + 1
      BY <1>3 DEF Capped
    <3>3. Behind(c) = r * Limit + Limit /\ Behind(n)' = s * Limit + 0
      BY <1>1, <2>1 DEF Behind
    <3> HIDE DEF r, s
    <3>4. Behind(n)' <= Behind(c)
      <4>1. CASE s = r
        BY <3>1, <3>3, <4>1
      <4>2. CASE s = r + 1
        BY <3>1, <3>3, <4>2
      <4> QED BY <3>1, <3>2, <4>1, <4>2
    <3>5. s < CountCap => r < CountCap /\ Behind(n)' = Behind(c)
      <4>1. s < CountCap => s = r + 1 /\ r < CountCap
        BY <3>1, <3>2
      <4>2. s = r + 1 => s * Limit + 0 = r * Limit + Limit
        BY <3>1
      <4> QED BY <3>3, <4>1, <4>2
    <3>6. Told(c) /\ Behind(c) \in Nat /\ Behind(n)' \in Nat /\ failures[c[1]] \in Nat
      <4>1. s * Limit + 0 \in Nat
        BY <3>1, <3>2
      <4> QED BY <2>1, <3>3, <4>1, CountsTyped DEF Counted
    <3> QED BY <1>1, <1>3, <2>1, <3>4, <3>5, <3>6, CountsTyped DEF Told, r, s
  <2>3. ASSUME NEW d \in Copies, d # n PROVE Told(d)'
    <3>1. Told(d) /\ Behind(d)' = Behind(d)
      BY <1>1, <1>3, <2>1, <2>3 DEF Counted, Behind
    <3> QED BY <1>1, <1>3, <2>3, <3>1 DEF Told
  <2>4. OneAtATime'
    <3> SUFFICES ASSUME crashes = 0, NEW d \in Copies, NEW e \in Copies, copy'[d] # None, copy'[e] # None,
                        d[1] = e[1], loop'[d] # "scheduled", loop'[e] # "scheduled"
                 PROVE  d = e
      BY <1>1 DEF OneAtATime
    <3>1. ASSUME NEW f \in Copies, f # n, copy'[f] # None, loop'[f] # "scheduled" PROVE f[1] # c[1]
      BY <1>1, <1>3, <2>1, <3>1 DEF Counted, OneAtATime
    <3>2. CASE d = n \/ e = n
      BY <1>3, <3>1, <3>2
    <3>3. CASE d # n /\ e # n
      BY <1>1, <1>3, <3>3 DEF Counted, OneAtATime
    <3> QED BY <3>2, <3>3
  <2> QED BY <1>1, <2>2, <2>3, <2>4 DEF Counted
<1> QED BY <1>2, <1>3, ScheduleEffect

LEMMA CrashCounted == ASSUME TypeInv, Counted, Crash PROVE Counted'
<1> USE DEF TypeInv
<1>1. crashes' # 0 /\ UNCHANGED << options, failures, accepted >>
  BY DEF Crash, TypeOK
<1>2. ASSUME NEW c \in Copies PROVE Told(c)'
  <2> SUFFICES ASSUME copy'[c] # None, failures[c[1]] < FailureCap
               PROVE  failures[c[1]] >= Behind(c)'
    BY <1>1 DEF Told
  <2> DEFINE p == copy[c].retryCount * Limit
  <2>1. copy[c] # None /\ copy'[c].retryCount = copy[c].retryCount /\ attempt'[c] = 0 /\ Limit' = Limit
    BY CrashEffect DEF Limit
  <2>2. Behind(c) = p + attempt[c] /\ Behind(c)' = p + 0
    BY <2>1 DEF Behind
  <2>3. p \in Nat /\ attempt[c] \in Nat /\ failures[c[1]] \in Nat /\ failures[c[1]] >= Behind(c)
    BY <2>1, CountsTyped DEF Counted, Told
  <2> HIDE DEF p
  <2> QED BY <2>2, <2>3
<1> QED BY <1>1, <1>2 DEF Counted, OneAtATime

LEMMA CountedStep == TypeInv /\ Counted /\ [Next]_vars => Counted'
<1> SUFFICES ASSUME TypeInv, Counted, [Next]_vars PROVE Counted'
  OBVIOUS
<1>1. ASSUME NEW c \in Copies, Deliver(c) \/ TaskSucceeds(c) \/ Wakes(c) PROVE Counted'
  <2>1. UNCHANGED << options, failures, crashes, accepted, attempt >>
    BY <1>1 DEF Deliver, TaskSucceeds, Wakes
  <2>2. \A d \in Copies : copy'[d] # None => copy[d] # None /\ copy'[d].retryCount = copy[d].retryCount
    BY <1>1, MovesOn DEF Deliver, TaskSucceeds, Wakes
  <2>3. \A d \in Copies : loop'[d] # "scheduled" => loop[d] # "scheduled"
    <3>1. loop[c] # "scheduled"
      BY <1>1 DEF Deliver, TaskSucceeds, Wakes, TypeInv, Calls, Call
    <3> QED BY <1>1, <3>1 DEF Deliver, TaskSucceeds, Wakes, TypeInv, TypeOK
  <2> QED BY <2>1, <2>2, <2>3, CountedKept
<1>2. ASSUME NEW c \in Copies, Ack(c) PROVE Counted'
  BY <1>2, AckEffect, CountedKept
<1>3. ASSUME NEW c \in Copies, DelayExpires(c) PROVE Counted'
  BY <1>3, MovesOn, CountedKept DEF DelayExpires
<1>4. CASE UNCHANGED vars
  BY <1>4, CountedKept DEF vars
<1> QED BY <1>1, <1>2, <1>3, <1>4, PublishCounted, TaskFailsCounted, ScheduleCounted, CrashCounted
        DEF Next, Step

\* The retryCount that a message carries is never more than the rounds that failed for it,
\* and as long as no crash has repeated any it is exactly that.
THEOREM CountTellsFailuresCorrect == Spec => []CountTellsFailures
<1>1. Init => Counted
  BY DEF Init, Counted, Told, OneAtATime
<1>2. Counted => CountTellsFailures
  BY DEF Counted, Told, Behind, CountTellsFailures, Present
<1> QED BY <1>1, <1>2, TypeInvCorrect, CountedStep, PTL DEF Spec
=============================================================================
