-------------------------------- MODULE Retry --------------------------------
(***************************************************************************)
(* RetryService: executeWithRetry, which repeats a task in the process,    *)
(* and scheduleRetry, which sends a message round through the broker with  *)
(* its retryCount in the body.  The repository defines both and calls      *)
(* neither, so the caller is external: a consumer whose handler runs the   *)
(* task with executeWithRetry, calls scheduleRetry when that throws, and   *)
(* then resolves, so that consume acknowledges the delivery.  The process  *)
(* may crash between any two steps and is started again.                   *)
(***************************************************************************)
EXTENDS Integers, FiniteSets

CONSTANTS
  Msgs,
  Slots,        \* a message has at most one copy per slot; they are interchangeable
  Options,      \* the options callers pass
  Source,       \* <<exchange, routing key>> that callers of scheduleRetry name
  RoutedBack,   \* the pairs <<exchange, routing key>> bound to the consumer's queue
  Delaying,     \* the exchanges of type x-delayed-message
  None,         \* an option that is not given; a slot that is not used
  MaxTimer,     \* the longest delay setTimeout keeps: 2^31 - 1 in Node.js
  CountCap,     \* retryCount is not counted further
  FailureCap,   \* failed runs of a message are not counted further
  MaxCrashes    \* bound on the crashes

ASSUME RetryAssumption ==
  /\ MaxTimer \in Nat \ {0} /\ CountCap \in Nat /\ FailureCap \in Nat /\ MaxCrashes \in Nat
  /\ \A o \in Options :
       o.maxRetries \in Int /\ o.initialDelayMs \in Nat /\ o.backoffFactor \in Nat
  /\ IsFiniteSet(Slots) /\ Cardinality(Slots) = 3 + MaxCrashes

\* What Math.pow computes, for the exponents of executeWithRetry.
ASSUME PowerAssumption ==
  \A o \in Options :
    /\ o.backoffFactor ^ 0 = 1
    /\ \A n \in 0..o.maxRetries : o.backoffFactor ^ (n + 1) = o.backoffFactor * o.backoffFactor ^ n

VARIABLES
  options,   \* the options of every call; they never change
  accepted,  \* the messages published so far
  copy,      \* copy[c]: the copy c as the broker has it, or None
  loop,      \* loop[c]: how far the handler that runs for c has got
  attempt,   \* attempt[c]: `attempt' of executeWithRetry
  wait,      \* wait[c]: the delay of its last timer, 0 if there was none
  processed, \* history: messages for which the task has succeeded
  rejected,  \* history: messages for which executeWithRetry has thrown
  failures,  \* history: failed runs of the task per message
  crashes    \* history: crashes so far

vars == << options, accepted, copy, loop, attempt, wait, processed, rejected,
           failures, crashes >>

Copies == Msgs \X Slots

\* A copy as the broker has it.
CopyState == [retryCount : 0..CountCap, at : {"ready", "unacked", "held"}]

ASSUME NoneAssumption == None \notin CopyState

\* The copies at the broker, those of m, and a slot that none of m uses.
Present == { c \in Copies : copy[c] # None }
Of(m) == { c \in Present : c[1] = m }
FreeSlot(m) == CHOOSE s \in Slots : copy[<< m, s >>] = None

\* "returned" and "scheduled": the handler is about to resolve; "threw":
\* scheduleRetry is next.
TypeOK ==
  /\ options \in Options
  /\ accepted \in SUBSET Msgs
  /\ copy \in [Copies -> CopyState \cup {None}]
  /\ loop \in [Copies -> {"idle", "trying", "sleeping", "returned", "threw", "scheduled"}]
  /\ attempt \in [Copies -> 0..(IF options.maxRetries < 0 THEN 0 ELSE options.maxRetries + 1)]
  /\ wait \in [Copies -> Nat]
  /\ processed \in SUBSET accepted /\ rejected \in SUBSET accepted
  /\ failures \in [Msgs -> 0..FailureCap]
  /\ crashes \in 0..MaxCrashes

Init ==
  /\ options \in Options
  /\ accepted = {}
  /\ copy = [c \in Copies |-> None]
  /\ loop = [c \in Copies |-> "idle"]
  /\ attempt = [c \in Copies |-> 0]
  /\ wait = [c \in Copies |-> 0]
  /\ processed = {} /\ rejected = {}
  /\ failures = [m \in Msgs |-> 0]
  /\ crashes = 0

-----------------------------------------------------------------------------
(* Delays and destinations.                                                *)

Capped(n, cap) == IF n > cap THEN cap ELSE n

\* (mutant) the exponent counts down
DelayReversed(n) ==
  options.initialDelayMs * options.backoffFactor ^ (options.maxRetries - n)

\* initialDelayMs * Math.pow(backoffFactor, n)
Delay(n) == options.initialDelayMs * options.backoffFactor ^ n

\* setTimeout: what it cannot hold becomes 1 ms.
Timer(ms) == IF ms > MaxTimer THEN 1 ELSE ms

\* retryExchange || exchange, with retryRoutingKey || routingKey
Destination ==
  << IF options.retryExchange = None THEN Source[1] ELSE options.retryExchange,
     IF options.retryRoutingKey = None THEN Source[2] ELSE options.retryRoutingKey >>

LeadsBack == Destination \in RoutedBack

\* Where the broker has the retry: an exchange that does not delay ignores the x-delay
\* header.  How long the delay of scheduleRetry is, is left out: it may expire at any time.
RetryAt == IF Destination[1] \in Delaying THEN "held" ELSE "ready"

\* (mutant) `while (attempt < maxRetries)'
MayTryLess(n) == n < options.maxRetries

\* `while (attempt <= maxRetries)'
MayTry(n) == n <= options.maxRetries

\* The runs of the task that executeWithRetry is asked for.
Limit == IF options.maxRetries < 0 THEN 0 ELSE options.maxRetries + 1

-----------------------------------------------------------------------------
(* executeWithRetry.                                                       *)

\* A delivery starts the handler.  A negative maxRetries runs nothing and throws
\* `undefined'.
Deliver(c) ==
  /\ copy[c] # None /\ copy[c].at = "ready"
  /\ copy' = [copy EXCEPT ![c].at = "unacked"]
  /\ loop' = [loop EXCEPT ![c] = IF MayTry(0) THEN "trying" ELSE "threw"]
  /\ rejected' = IF MayTry(0) THEN rejected ELSE rejected \cup {c[1]}
  /\ UNCHANGED << options, accepted, attempt, wait, processed, failures, crashes >>

TaskSucceeds(c) ==
  /\ loop[c] = "trying"
  /\ loop' = [loop EXCEPT ![c] = "returned"]
  /\ processed' = processed \cup {c[1]}
  /\ UNCHANGED << options, accepted, copy, attempt, wait, rejected, failures, crashes >>

\* (mutant) the attempts are compared before they are counted
TaskFailsOffByOne(c) ==
  /\ loop[c] = "trying"
  /\ attempt' = [attempt EXCEPT ![c] = @ + 1]
  /\ failures' = [failures EXCEPT ![c[1]] = Capped(@ + 1, FailureCap)]
  /\ IF MayTry(attempt[c])
     THEN /\ loop' = [loop EXCEPT ![c] = "sleeping"]
          /\ wait' = [wait EXCEPT ![c] = Timer(Delay(attempt[c]))]
          /\ UNCHANGED rejected
     ELSE /\ loop' = [loop EXCEPT ![c] = "threw"]
          /\ rejected' = rejected \cup {c[1]}
          /\ UNCHANGED wait
  /\ UNCHANGED << options, accepted, copy, processed, crashes >>

\* (mutant) the last allowed attempt is not made
TaskFailsEarly(c) ==
  /\ loop[c] = "trying"
  /\ attempt' = [attempt EXCEPT ![c] = @ + 1]
  /\ failures' = [failures EXCEPT ![c[1]] = Capped(@ + 1, FailureCap)]
  /\ IF MayTry(attempt'[c] + 1)
     THEN /\ loop' = [loop EXCEPT ![c] = "sleeping"]
          /\ wait' = [wait EXCEPT ![c] = Timer(Delay(attempt[c]))]
          /\ UNCHANGED rejected
     ELSE /\ loop' = [loop EXCEPT ![c] = "threw"]
          /\ rejected' = rejected \cup {c[1]}
          /\ UNCHANGED wait
  /\ UNCHANGED << options, accepted, copy, processed, crashes >>

\* The catch block: the attempt is counted, and unless it was the last one the loop
\* sleeps before the next.
TaskFails(c) ==
  /\ loop[c] = "trying"
  /\ attempt' = [attempt EXCEPT ![c] = @ + 1]
  /\ failures' = [failures EXCEPT ![c[1]] = Capped(@ + 1, FailureCap)]
  /\ IF MayTry(attempt'[c])
     THEN /\ loop' = [loop EXCEPT ![c] = "sleeping"]
          /\ wait' = [wait EXCEPT ![c] = Timer(Delay(attempt[c]))]
          /\ UNCHANGED rejected
     ELSE /\ loop' = [loop EXCEPT ![c] = "threw"]
          /\ rejected' = rejected \cup {c[1]}
          /\ UNCHANGED wait
  /\ UNCHANGED << options, accepted, copy, processed, crashes >>

Wakes(c) ==
  /\ loop[c] = "sleeping"
  /\ loop' = [loop EXCEPT ![c] = "trying"]
  /\ UNCHANGED << options, accepted, copy, attempt, wait, processed, rejected, failures, crashes >>

-----------------------------------------------------------------------------
(* scheduleRetry.                                                          *)

\* (mutant) the message goes round without its count
RescheduledAnew(c) ==
  [retryCount |-> 0, at |-> RetryAt]

\* { ...message, retryCount: currentRetryCount + 1 }
Rescheduled(c) ==
  [retryCount |-> Capped(copy[c].retryCount + 1, CountCap), at |-> RetryAt]

\* (mutant) publishWithDelay is not awaited: it may reject unnoticed
ScheduleUnawaited(c) ==
  /\ loop[c] = "threw"
  /\ loop' = [loop EXCEPT ![c] = "scheduled"]
  /\ \/ /\ LeadsBack /\ Cardinality(Of(c[1])) <= 2 + crashes
        /\ copy' = [copy EXCEPT ![<< c[1], FreeSlot(c[1]) >>] = Rescheduled(c)]
     \/ UNCHANGED copy
  /\ UNCHANGED << options, accepted, attempt, wait, processed, rejected, failures, crashes >>

\* The copy is published beside the delivery that it retries.  Bound: at most three
\* copies, and one more after each crash; so a copy that a crash repeated finds a slot.
Schedule(c) ==
  /\ loop[c] = "threw"
  /\ loop' = [loop EXCEPT ![c] = "scheduled"]
  /\ \/ /\ LeadsBack /\ Cardinality(Of(c[1])) <= 2 + crashes
        /\ copy' = [copy EXCEPT ![<< c[1], FreeSlot(c[1]) >>] = Rescheduled(c)]
     \/ ~LeadsBack /\ UNCHANGED copy
  /\ UNCHANGED << options, accepted, attempt, wait, processed, rejected, failures, crashes >>

-----------------------------------------------------------------------------
(* The consumer, the broker and the process.                               *)

Publish(m) ==
  /\ m \notin accepted
  /\ accepted' = accepted \cup {m}
  /\ copy' = [copy EXCEPT ![<< m, FreeSlot(m) >>] = [retryCount |-> 0, at |-> "ready"]]
  /\ UNCHANGED << options, loop, attempt, wait, processed, rejected, failures, crashes >>

\* The handler has resolved.
Ack(c) ==
  /\ loop[c] \in {"returned", "scheduled"}
  /\ copy' = [copy EXCEPT ![c] = None]
  /\ loop' = [loop EXCEPT ![c] = "idle"]
  /\ attempt' = [attempt EXCEPT ![c] = 0]
  /\ wait' = [wait EXCEPT ![c] = 0]
  /\ UNCHANGED << options, accepted, processed, rejected, failures, crashes >>

DelayExpires(c) ==
  /\ copy[c] # None /\ copy[c].at = "held"
  /\ copy' = [copy EXCEPT ![c].at = "ready"]
  /\ UNCHANGED << options, accepted, loop, attempt, wait, processed, rejected, failures, crashes >>

\* The process dies and is started again: loops are gone, deliveries come back.
Crash ==
  /\ crashes < MaxCrashes
  /\ crashes' = crashes + 1
  /\ copy' = [c \in Copies |-> IF copy[c] # None /\ copy[c].at = "unacked"
                               THEN [copy[c] EXCEPT !.at = "ready"] ELSE copy[c]]
  /\ loop' = [c \in Copies |-> "idle"]
  /\ attempt' = [c \in Copies |-> 0]
  /\ wait' = [c \in Copies |-> 0]
  /\ UNCHANGED << options, accepted, processed, rejected, failures >>

Step(c) ==
  \/ Deliver(c) \/ TaskSucceeds(c) \/ TaskFails(c) \/ Wakes(c)
  \/ Schedule(c) \/ Ack(c) \/ DelayExpires(c)

Next ==
  \/ \E m \in Msgs : Publish(m)
  \/ \E c \in Copies : Step(c)
  \/ Crash

Spec == Init /\ [][Next]_vars

\* Timers fire, the broker delivers what is ready, and a task settles.
FairSpec == Spec /\ \A c \in Copies : WF_vars(Step(c))

-----------------------------------------------------------------------------
(* Properties.                                                             *)

\* What a retry loop shows of the call of executeWithRetry that runs for c.
Round(c) ==
  CASE loop[c] = "idle" -> "idle"
    [] loop[c] \in {"trying", "sleeping"} -> "busy"
    [] loop[c] = "returned" -> "ok"
    [] loop[c] \in {"threw", "scheduled"} -> "exhausted"

RetryLoop(c) == INSTANCE BoundedRetry WITH limit <- Limit, tries <- attempt[c], round <- Round(c)

\* A call of executeWithRetry is a retry loop of maxRetries + 1 tries: it never runs the
\* task once more or once less, does not sleep after the last failure, and ends with the
\* first success.
ExecuteIsBounded ==
  /\ \A c \in Copies : RetryLoop(c)!Init
  /\ [][ \A c \in Copies : [RetryLoop(c)!Next]_(RetryLoop(c)!vars) ]_vars

\* The retryCount in the body is the number of rounds of executeWithRetry that failed:
\* every copy that carries n has n full rounds of failed runs behind it, and exactly
\* that many, with those of the round in progress, if no crash repeated any and the
\* copy has no successor yet.
CountTellsFailures ==
  \A c \in Present :
    LET behind == copy[c].retryCount * Limit + attempt[c] IN
    /\ failures[c[1]] < FailureCap => failures[c[1]] >= behind
    /\ /\ crashes = 0 /\ loop[c] # "scheduled"
       /\ failures[c[1]] < FailureCap /\ copy[c].retryCount < CountCap
       => failures[c[1]] = behind

\* A crash between two steps, also between the publication of a retry and the
\* acknowledgement of what it retries, loses no message while the retries lead back to
\* the queue, and otherwise none that executeWithRetry has not thrown for.
RoundTripLosesNothing ==
  \A m \in accepted \ processed :
    \/ Of(m) # {}
    \/ ~LeadsBack /\ m \in rejected

\* The waits of one call never get shorter, until one is longer than a timer can be.
BackoffGrows ==
  [][ \A c \in Copies :
        loop[c] = "trying" /\ loop'[c] = "sleeping" /\ options.backoffFactor > 0
        => wait'[c] >= wait[c] \/ Delay(attempt[c]) > MaxTimer ]_vars

Trying(m) == \E c \in Copies : c[1] = m /\ loop[c] = "trying"

\* While the retries lead back, a message is tried again and again until it is
\* processed: nothing counts its rounds and gives up.
KeepsTrying ==
  \A m \in Msgs : m \in accepted /\ LeadsBack /\ Limit > 0 ~> m \in processed \/ Trying(m)
=============================================================================
