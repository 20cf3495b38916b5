--------------------------- MODULE MessagePatterns ---------------------------
(***************************************************************************)
(* The Nest message handlers of UserConsumer, handleUserUpdated and        *)
(* handleUserFailedNotification, which acknowledge and reject by hand, on  *)
(* the queue of a Nest RabbitMQ server, and RabbitMQService.send, whose    *)
(* caller waits for the first answer.  auth-service lists UserConsumer as  *)
(* a provider, so Nest does not register these handlers there: the host    *)
(* that does is external, and so is its option noAck, which auth-service   *)
(* leaves at its default TRUE and which manual acknowledgement needs FALSE.*)
(***************************************************************************)
EXTENDS Naturals, FiniteSets

CONSTANTS
  Requests,      \* user.updated sent with send, which waits for an answer
  Events,        \* user.updated emitted as an event
  Notifications, \* notification.failure events
  Runs,          \* handler runs in progress at a time; they are interchangeable
  NoAckOptions,  \* the values of the option noAck that hosts give
  None,          \* no answer yet, no run
  AppliedCap,    \* updates and late failures of a message are not counted further
  MaxCrashes,    \* bound on the crashes
  MaxCloses      \* bound on the connections the broker closes

Msgs == Requests \cup Events \cup Notifications

ASSUME MessagePatternsAssumption ==
  /\ Requests \cap Events = {} /\ Notifications \cap (Requests \cup Events) = {}
  /\ NoAckOptions \subseteq BOOLEAN
  /\ None \notin {"ok", "error"}
  /\ AppliedCap \in Nat \ {0} /\ MaxCrashes \in Nat /\ MaxCloses \in Nat

VARIABLES
  noAck,     \* the option of the server; it never changes
  broker,    \* broker[m]: where m is at the broker
  run,       \* run[r]: the message a handler run is about, and how far it has got
  answer,    \* answer[m]: what the caller of send was told first
  applied,   \* history: UPDATEs committed per message
  permanent, \* history: messages a run of which failed for good
  half,      \* history: those of them whose UPDATE that run had committed
  transient, \* history: messages a run of which failed and asked for a requeue
  late,      \* history: such failures per message that came after the run's UPDATE
  hungUp,    \* history: a channel has closed
  cutOff,    \* history: messages the broker was done with when the channel of a run closed
  crashes, closes

vars == << noAck, broker, run, answer, applied, permanent, half, transient, late, hungUp,
           cutOff, crashes, closes >>

\* The error names that shouldRequeueMessage tells apart.
Errors == {"ValidationError", "BusinessError", "DatabaseConnectionError", "TimeoutError", "other"}

\* fresh: the channel of the delivery has not closed since.  written: the UPDATE of the
\* run is committed and userService.update goes on.
Run == [msg : Msgs, fresh : BOOLEAN, at : {"running", "written", "ok", "error"}]

TypeOK ==
  /\ noAck \in NoAckOptions
  /\ broker \in [Msgs -> {"new", "ready", "unacked", "gone"}]
  /\ run \in [Runs -> Run \cup {None}]
  /\ answer \in [Requests -> {None, "ok", "error"}]
  /\ applied \in [Msgs -> 0..AppliedCap]
  /\ permanent \in SUBSET Msgs /\ half \in SUBSET Msgs
  /\ transient \in SUBSET Msgs /\ late \in [Msgs -> 0..AppliedCap]
  /\ hungUp \in BOOLEAN /\ cutOff \in SUBSET Msgs
  /\ crashes \in 0..MaxCrashes /\ closes \in 0..MaxCloses

Init ==
  /\ noAck \in NoAckOptions
  /\ broker = [m \in Msgs |-> "new"]
  /\ run = [r \in Runs |-> None]
  /\ answer = [m \in Requests |-> None]
  /\ applied = [m \in Msgs |-> 0]
  /\ permanent = {} /\ half = {} /\ transient = {}
  /\ late = [m \in Msgs |-> 0]
  /\ hungUp = FALSE /\ cutOff = {}
  /\ crashes = 0 /\ closes = 0

-----------------------------------------------------------------------------
(* Acknowledging by hand.                                                  *)

\* (mutant) everything that fails is discarded
RequeueNothing(e) == FALSE

\* Unknown errors are not requeued.
ShouldRequeueMessage(e) == e \in {"DatabaseConnectionError", "TimeoutError"}

Requeued == [m \in Msgs |-> IF broker[m] = "unacked" THEN "ready" ELSE broker[m]]

\* The channel closes under the runs: the broker takes back what they have not settled.
Unanswerable == { m \in Msgs : broker[m] = "gone" /\ \E r \in Runs : run[r] # None /\ run[r].msg = m }

Stale(runs) == [r \in Runs |-> IF runs[r] = None THEN None ELSE [runs[r] EXCEPT !.fresh = FALSE]]

\* Run r goes on as `to', having put its message to `place' by an ack or a reject.  On a
\* channel that has noAck the broker does not know the delivery and closes the channel,
\* which the server opens again; on a channel that has closed the call throws, inside
\* or into the catch block, and the run ends as an error either way.
Settle(r, place, to) ==
  \/ /\ run[r].fresh /\ ~noAck
     /\ broker' = [broker EXCEPT ![run[r].msg] = place]
     /\ run' = [run EXCEPT ![r].at = to]
     /\ UNCHANGED << hungUp, cutOff >>
  \/ /\ run[r].fresh /\ noAck
     /\ broker' = Requeued
     /\ run' = Stale([run EXCEPT ![r].at = to])
     /\ hungUp' = TRUE /\ cutOff' = cutOff \cup Unanswerable
  \/ /\ ~run[r].fresh
     /\ run' = [run EXCEPT ![r].at = "error"]
     /\ UNCHANGED << broker, hungUp, cutOff >>

-----------------------------------------------------------------------------
(* The handlers.                                                           *)

Running(r, msgs) == run[r] # None /\ run[r].at = "running" /\ run[r].msg \in msgs

Written(r) == run[r] # None /\ run[r].at = "written"

OneMore(count, m) == [count EXCEPT ![m] = IF @ < AppliedCap THEN @ + 1 ELSE @]

\* The body is empty: the acknowledgement is all there is.
HandleUserFailedNotification(r) ==
  /\ Running(r, Notifications)
  /\ Settle(r, "gone", "ok")
  /\ UNCHANGED << noAck, answer, applied, permanent, half, transient, late, crashes, closes >>

\* userService.update, first half: updateById has its UPDATE committed.
UpdateWrite(r) ==
  /\ Running(r, Requests \cup Events)
  /\ applied' = OneMore(applied, run[r].msg)
  /\ run' = [run EXCEPT ![r].at = "written"]
  /\ UNCHANGED << noAck, broker, answer, permanent, half, transient, late, hungUp, cutOff,
                  crashes, closes >>

\* (mutant) the message is requeued after a successful update
UpdateRequeues(r) ==
  /\ Written(r)
  /\ Settle(r, "ready", "ok")
  /\ UNCHANGED << noAck, answer, applied, permanent, half, transient, late, crashes, closes >>

\* Second half: the row is read back, the event emitted, and userService.update resolves.
UpdateSucceeds(r) ==
  /\ Written(r)
  /\ Settle(r, "gone", "ok")
  /\ UNCHANGED << noAck, answer, applied, permanent, half, transient, late, crashes, closes >>

\* What is remembered of run r that failed with error e.
Blame(r, e) ==
  IF e \in {"DatabaseConnectionError", "TimeoutError"}
  THEN /\ transient' = transient \cup {run[r].msg}
       /\ late' = IF Written(r) THEN OneMore(late, run[r].msg) ELSE late
       /\ UNCHANGED << permanent, half >>
  ELSE /\ permanent' = permanent \cup {run[r].msg}
       /\ half' = IF Written(r) THEN half \cup {run[r].msg} ELSE half
       /\ UNCHANGED << transient, late >>

\* (mutant) the catch block does not throw the error on
UpdateFailsQuietly(r, e) ==
  /\ Running(r, Requests \cup Events) \/ Written(r)
  /\ Settle(r, IF ShouldRequeueMessage(e) THEN "ready" ELSE "gone", "ok")
  /\ Blame(r, e)
  /\ UNCHANGED << noAck, answer, applied, crashes, closes >>

\* userService.update has rejected, before its UPDATE took effect or after it: the row
\* cannot be read back or is missing, or the event cannot be emitted.  The delivery is
\* rejected and the error thrown on; nothing takes the UPDATE back.
UpdateFails(r, e) ==
  /\ Running(r, Requests \cup Events) \/ Written(r)
  /\ Settle(r, IF ShouldRequeueMessage(e) THEN "ready" ELSE "gone", "error")
  /\ Blame(r, e)
  /\ UNCHANGED << noAck, answer, applied, crashes, closes >>

\* (mutant) the server answers before the handler has resolved
ReplyNotAwaited(r) ==
  /\ run[r] # None
  /\ answer' = [m \in Requests |->
                  IF m = run[r].msg /\ answer[m] = None THEN run[r].at ELSE answer[m]]
  /\ run' = [run EXCEPT ![r] = None]
  /\ UNCHANGED << noAck, broker, applied, permanent, half, transient, late, hungUp, cutOff,
                  crashes, closes >>

\* (mutant) the server does not answer errors
ReplyOkOnly(r) ==
  /\ run[r] # None /\ run[r].at \in {"ok", "error"}
  /\ answer' = [m \in Requests |->
                  IF m = run[r].msg /\ answer[m] = None /\ run[r].at = "ok"
                  THEN "ok" ELSE answer[m]]
  /\ run' = [run EXCEPT ![r] = None]
  /\ UNCHANGED << noAck, broker, applied, permanent, half, transient, late, hungUp, cutOff,
                  crashes, closes >>

\* The server answers a request on its channel; firstValueFrom takes the first answer.
\* While the channel is being opened again there is nothing to answer on.
Reply(r) ==
  /\ run[r] # None /\ run[r].at \in {"ok", "error"}
  /\ \/ answer' = [m \in Requests |->
                     IF m = run[r].msg /\ answer[m] = None THEN run[r].at ELSE answer[m]]
     \/ ~run[r].fresh /\ UNCHANGED answer
  /\ run' = [run EXCEPT ![r] = None]
  /\ UNCHANGED << noAck, broker, applied, permanent, half, transient, late, hungUp, cutOff,
                  crashes, closes >>

-----------------------------------------------------------------------------
(* The broker, the server and the process.                                 *)

\* client.send and client.emit of some other process.
Send(m) ==
  /\ broker[m] = "new"
  /\ broker' = [broker EXCEPT ![m] = "ready"]
  /\ UNCHANGED << noAck, run, answer, applied, permanent, half, transient, late, hungUp,
                  cutOff, crashes, closes >>

\* Handler runs are concurrent.  With noAck the broker is done with what it delivers.
Deliver(m) ==
  LET free == { r \in Runs : run[r] = None } IN
  /\ broker[m] = "ready" /\ free # {}
  /\ broker' = [broker EXCEPT ![m] = IF noAck THEN "gone" ELSE "unacked"]
  /\ run' = [run EXCEPT ![CHOOSE r \in free : TRUE] = [msg |-> m, fresh |-> TRUE, at |-> "running"]]
  /\ UNCHANGED << noAck, answer, applied, permanent, half, transient, late, hungUp, cutOff,
                  crashes, closes >>

\* The connection manager opens another channel and consumes again.
ChannelCloses ==
  /\ closes < MaxCloses
  /\ closes' = closes + 1 /\ hungUp' = TRUE /\ cutOff' = cutOff \cup Unanswerable
  /\ broker' = Requeued /\ run' = Stale(run)
  /\ UNCHANGED << noAck, answer, applied, permanent, half, transient, late, crashes >>

\* The process dies and is started again.
Crash ==
  /\ crashes < MaxCrashes
  /\ crashes' = crashes + 1
  /\ broker' = Requeued
  /\ run' = [r \in Runs |-> None]
  /\ UNCHANGED << noAck, answer, applied, permanent, half, transient, late, hungUp, cutOff,
                  closes >>

Handle(r) ==
  \/ HandleUserFailedNotification(r) \/ UpdateWrite(r) \/ UpdateSucceeds(r)
  \/ \E e \in Errors : UpdateFails(r, e)

Next ==
  \/ \E m \in Msgs : Send(m) \/ Deliver(m)
  \/ \E r \in Runs : Handle(r) \/ Reply(r)
  \/ ChannelCloses \/ Crash

Spec == Init /\ [][Next]_vars

\* The broker delivers, the handlers settle and the server answers.
FairSpec ==
  /\ Spec
  /\ \A m \in Msgs : SF_vars(Deliver(m))
  /\ \A r \in Runs : WF_vars(Handle(r)) /\ WF_vars(Reply(r))

-----------------------------------------------------------------------------
(* Properties.                                                             *)

\* With manual acknowledgement a message leaves the queue without having been handled
\* only if a run of it failed for good: neither transient failures nor closed channels
\* and crashes, at any point of a run, discard one.
OnlyPermanentLoses ==
  \A m \in Requests \cup Events :
    ~noAck /\ broker[m] = "gone" => applied[m] > 0 \/ m \in permanent

\* Every repetition of an update has a cause of its own: while no process crashed and no
\* channel closed over a run, an update is applied again only for a run that asked for a
\* requeue after its UPDATE.  A failure before the UPDATE, a failure for good, a second
\* run in progress and the acknowledgement repeat none.
RepeatsHaveACause ==
  \A m \in Msgs : crashes = 0 /\ ~hungUp => applied[m] <= late[m] + 1

\* The caller of send who is told ok had the update applied.  One who is told of an error
\* had not, with four exceptions: a run of the request failed for good after its UPDATE,
\* the request was requeued, was crashed, or was run on a channel that closed.
AnswersAreHonest ==
  \A m \in Requests :
    /\ answer[m] = "ok" => applied[m] > 0
    /\ answer[m] = "error" /\ applied[m] > 0 =>
         m \in half \/ m \in transient \/ hungUp \/ crashes > 0

\* The caller of send waits for ever only if the process crashed, or the channel closed
\* between the moment its message left the queue and the answer: messages that are
\* requeued, and channels that close over an unsettled run, do not keep it waiting.
AnsweredUnlessCut ==
  \A m \in Requests : broker[m] # "new" ~> answer[m] # None \/ m \in cutOff \/ crashes > 0
=============================================================================
