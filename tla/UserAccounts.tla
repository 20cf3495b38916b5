---------------------------- MODULE UserAccounts ----------------------------
(***************************************************************************)
(* AuthService and UserService over the users table: requests that         *)
(* register, log in, update, delete and look up users run interleaved in   *)
(* one Node process, one database statement or one stretch of code between *)
(* two awaits at a time.  Registrations and updates are announced by       *)
(* events that leave the process some time after the request is answered.  *)
(***************************************************************************)
EXTENDS Naturals, Sequences

CONSTANTS
  Reqs,       \* the requests that reach the service
  Ids,        \* the identifiers the database may generate
  Emails, Names,
  None,       \* no row, no identifier, no value
  MaxCrashes, \* bound on the crashes of the process
  MaxLost     \* bound on the events lost on the way to the broker

ASSUME UserAccountsAssumption ==
  /\ None \notin Ids \cup Emails \cup Names
  /\ MaxCrashes \in Nat /\ MaxLost \in Nat

VARIABLES
  rows,      \* the users table: rows[u] is the row with id u, or None
  used,      \* the identifiers the database has generated
  call,      \* call[r]: how far request r has got
  known,     \* the identifiers some client was told
  outbox,    \* events handed to the RabbitMQ client, not yet sent
  view,      \* the table as a subscriber that applies every event has it
  disturbed, \* history: users whose events need not agree with the table
  crashes,   \* history: crashes so far
  lost       \* history: events lost so far

vars == << rows, used, call, known, outbox, view, disturbed, crashes, lost >>

\* firstName and lastName stand or fall together: one name.
Row == [email : Emails, name : Names]

\* A missing row is not a row.
ASSUME NoneAssumption == None \notin Row

\* A field the request leaves out is None.
Dto == [email : Emails \cup {None}, name : Names \cup {None}]

Ops == {"none", "register", "login", "update", "delete", "find", "validate", "refresh"}

\* The awaits a request can be at, and the ways it can end.
InFlight == {"begun", "found", "written", "read"}
Answered == {"ok", "refused", "failed"}

\* late: the user of the request was already deleted when the request arrived.
Call == [op : Ops, at : {"idle", "dead"} \cup InFlight \cup Answered,
         id : Ids \cup {None}, dto : Dto, late : BOOLEAN]

Event == [kind : {"created", "updated"}, id : Ids, dto : Dto]

TypeOK ==
  /\ rows \in [Ids -> Row \cup {None}]
  /\ used \in SUBSET Ids
  /\ call \in [Reqs -> Call]
  /\ known \in SUBSET used
  /\ outbox \in Seq(Event)
  /\ view \in [Ids -> Row \cup {None}]
  /\ disturbed \in SUBSET Ids
  /\ crashes \in 0..MaxCrashes
  /\ lost \in 0..MaxLost

NoDto == [email |-> None, name |-> None]

Init ==
  /\ rows = [u \in Ids |-> None]
  /\ used = {}
  /\ call = [r \in Reqs |-> [op |-> "none", at |-> "idle", id |-> None,
                             dto |-> NoDto, late |-> FALSE]]
  /\ known = {}
  /\ outbox = << >>
  /\ view = [u \in Ids |-> None]
  /\ disturbed = {}
  /\ crashes = 0 /\ lost = 0

-----------------------------------------------------------------------------
(* The database and the broker client.                                     *)

Exists(u) == rows[u] # None

\* findOne({ email })
WithEmail(e) == { u \in Ids : Exists(u) /\ rows[u].email = e }

\* The fields present in the dto replace those of the row.
Patch(row, dto) ==
  [ email |-> IF dto.email = None THEN row.email ELSE dto.email,
    name  |-> IF dto.name = None THEN row.name ELSE dto.name ]

\* A unique violation of an UPDATE: the new address belongs to somebody else.
Clash(u, dto) == dto.email # None /\ WithEmail(dto.email) \ {u} # {}

\* What a subscriber makes of an event; it ignores updates of strangers.
Applied(v, e) ==
  IF e.kind = "created" THEN [v EXCEPT ![e.id] = e.dto]
  ELSE IF v[e.id] = None THEN v
  ELSE [v EXCEPT ![e.id] = Patch(@, e.dto)]

\* Requests that have written, or may have written, the row of u and have not
\* announced it yet.
Writers(u) ==
  { r \in Reqs : call[r].id = u /\ call[r].at \in {"written", "read"} }

\* client.emit: the event is queued in the process; the caller does not wait for it.
Emit(kind, u, dto) == outbox' = Append(outbox, [kind |-> kind, id |-> u, dto |-> dto])

Start(r, op, at, u, dto) ==
  /\ call[r].at = "idle"
  /\ call' = [call EXCEPT ![r] = [op |-> op, at |-> at, id |-> u, dto |-> dto,
                                  late |-> u \in used /\ ~Exists(u)]]

Await(r, op, from) == call[r].op = op /\ call[r].at = from

Goto(r, to) == call' = [call EXCEPT ![r].at = to]

-----------------------------------------------------------------------------
(* AuthService.register                                                    *)

\* The check for an existing user, and the hashing that follows it.
RegisterFind(r, e, n) ==
  /\ \/ Start(r, "register", IF WithEmail(e) # {} THEN "refused" ELSE "found", None,
              [email |-> e, name |-> n])
     \/ Start(r, "register", "failed", None, NoDto)
  /\ UNCHANGED << rows, used, known, outbox, view, disturbed, crashes, lost >>

\* (mutant) no unique index: the earlier findOne is the only check
RegisterInsertUnchecked(r) ==
  /\ Await(r, "register", "found")
  /\ \E u \in Ids \ used :
       /\ used' = used \cup {u}
       /\ rows' = [rows EXCEPT ![u] = call[r].dto]
       /\ call' = [call EXCEPT ![r].at = "written", ![r].id = u]
  /\ UNCHANGED << known, outbox, view, disturbed, crashes, lost >>

\* The INSERT.  The unique index on email refuses a second row: the error is not a
\* ConflictException, the client sees an internal error.
RegisterInsert(r) ==
  /\ Await(r, "register", "found")
  /\ \/ /\ WithEmail(call[r].dto.email) # {}
        /\ Goto(r, "failed")
        /\ UNCHANGED << rows, used >>
     \/ /\ WithEmail(call[r].dto.email) = {}
        /\ \E u \in Ids \ used :
             /\ used' = used \cup {u}
             /\ rows' = [rows EXCEPT ![u] = call[r].dto]
             /\ call' = [call EXCEPT ![r].at = "written", ![r].id = u]
  /\ UNCHANGED << known, outbox, view, disturbed, crashes, lost >>

\* Tokens, event and answer: one stretch of code, since emit does not wait.
RegisterReply(r) ==
  LET c == call[r] IN
  /\ Await(r, "register", "written")
  /\ Emit("created", c.id, c.dto)
  /\ Goto(r, "ok")
  /\ known' = known \cup {c.id}
  /\ UNCHANGED << rows, used, view, disturbed, crashes, lost >>

-----------------------------------------------------------------------------
(* AuthService.login                                                       *)

\* (mutant) the missing user is not noticed
LoginFindUnguarded(r, e) ==
  /\ \/ \E u \in WithEmail(e) : Start(r, "login", "found", u, NoDto)
     \/ WithEmail(e) = {} /\ Start(r, "login", "found", None, NoDto)
  /\ UNCHANGED << rows, used, known, outbox, view, disturbed, crashes, lost >>

LoginFind(r, e) ==
  /\ \/ \E u \in WithEmail(e) : Start(r, "login", "found", u, NoDto)
     \/ WithEmail(e) = {} /\ Start(r, "login", "refused", None, NoDto)
     \/ Start(r, "login", "failed", None, NoDto)
  /\ UNCHANGED << rows, used, known, outbox, view, disturbed, crashes, lost >>

\* bcrypt.compare has settled, one way or the other; the tokens carry the id found.
LoginReply(r) ==
  /\ Await(r, "login", "found")
  /\ \/ Goto(r, "ok") /\ known' = known \cup {call[r].id}
     \/ Goto(r, "refused") /\ UNCHANGED known
  /\ UNCHANGED << rows, used, outbox, view, disturbed, crashes, lost >>

-----------------------------------------------------------------------------
(* UserService.update and UserService.delete                               *)

\* (mutant) updateById saves the entity, which inserts a row that is missing
UpdateSaves(r, u, dto) ==
  /\ ~Clash(u, dto)
  /\ Exists(u) \/ dto \in Row
  /\ Start(r, "update", "written", u, dto)
  /\ rows' = [rows EXCEPT ![u] = IF Exists(u) THEN Patch(@, dto) ELSE dto]
  /\ disturbed' = IF Writers(u) # {} THEN disturbed \cup {u} ELSE disturbed
  /\ UNCHANGED << used, known, outbox, view, crashes, lost >>

\* (mutant) the event is emitted before the UPDATE, which may then fail
UpdateEmitsFirst(r, u, dto) ==
  /\ Exists(u)
  /\ Emit("updated", u, dto)
  /\ Start(r, "update", IF Clash(u, dto) THEN "failed" ELSE "written", u, dto)
  /\ rows' = IF Clash(u, dto) THEN rows ELSE [rows EXCEPT ![u] = Patch(@, dto)]
  /\ disturbed' = IF Writers(u) # {} THEN disturbed \cup {u} ELSE disturbed
  /\ UNCHANGED << used, known, view, crashes, lost >>

\* The UPDATE of updateById: it patches the row that is there, affects nothing when there
\* is none, and may be refused, by the unique index or because the statement fails (then
\* what was asked for no longer matters).
UpdateWrite(r, u, dto) ==
  /\ \/ /\ Exists(u) /\ ~Clash(u, dto)
        /\ Start(r, "update", "written", u, dto)
        /\ rows' = [rows EXCEPT ![u] = Patch(@, dto)]
        /\ disturbed' = IF Writers(u) # {} THEN disturbed \cup {u} ELSE disturbed
     \/ /\ Start(r, "update", "failed", u, NoDto)
        /\ UNCHANGED << rows, disturbed >>
     \/ /\ ~Exists(u)
        /\ Start(r, "update", "written", u, dto)
        /\ UNCHANGED << rows, disturbed >>
  /\ UNCHANGED << used, known, outbox, view, crashes, lost >>

\* The findById of updateById; null makes `user.id' throw.
UpdateRead(r) ==
  /\ Await(r, "update", "written")
  /\ Goto(r, IF Exists(call[r].id) THEN "read" ELSE "failed")
  /\ UNCHANGED << rows, used, known, outbox, view, disturbed, crashes, lost >>

\* The event carries the fields of the dto, not those of the row just read.
UpdateReply(r) ==
  /\ Await(r, "update", "read")
  /\ Emit("updated", call[r].id, call[r].dto)
  /\ Goto(r, "ok")
  /\ UNCHANGED << rows, used, known, view, disturbed, crashes, lost >>

\* No event announces a deletion.  One that fails may have deleted the row or not.
Delete(r, u) ==
  /\ \/ /\ Start(r, "delete", "ok", u, NoDto) \/ Start(r, "delete", "failed", u, NoDto)
        /\ rows' = [rows EXCEPT ![u] = None]
     \/ /\ Start(r, "delete", "failed", u, NoDto)
        /\ UNCHANGED rows
  /\ UNCHANGED << used, known, outbox, view, disturbed, crashes, lost >>

-----------------------------------------------------------------------------
(* findById, validateToken, refreshToken                                   *)

\* A token names the user it was signed for; verify may refuse it at once.
Lookup(r, op, u) ==
  /\ \/ Start(r, op, "begun", u, NoDto)
     \/ op # "find" /\ Start(r, op, "refused", u, NoDto)
  /\ UNCHANGED << rows, used, known, outbox, view, disturbed, crashes, lost >>

\* null makes the next line throw: an internal error, { valid: false } or 401.
LookupReply(r) ==
  /\ call[r].op \in {"find", "validate", "refresh"} /\ call[r].at = "begun"
  /\ Goto(r, IF Exists(call[r].id) THEN "ok"
             ELSE IF call[r].op = "find" THEN "failed" ELSE "refused")
  /\ UNCHANGED << rows, used, known, outbox, view, disturbed, crashes, lost >>

-----------------------------------------------------------------------------
(* The database call a request waits for.                                  *)

\* It rejects: the statement failed, or it took effect and only its answer was lost.  What
\* has been written stays and is never announced: the INSERT whose id is lost, and the
\* UPDATE whose own answer is, or whose row findById cannot read back.
DatabaseFails(r) ==
  LET c == call[r] IN
  /\ \/ c.op = "register" /\ c.at \in {"found", "written"}
     \/ c.op = "update" /\ c.at = "written"
     \/ c.op \in {"find", "validate", "refresh"} /\ c.at = "begun"
  /\ Goto(r, IF c.op \in {"validate", "refresh"} THEN "refused" ELSE "failed")
  /\ disturbed' = IF c.at = "written" THEN disturbed \cup {c.id} ELSE disturbed
  /\ UNCHANGED << rows, used, known, outbox, view, crashes, lost >>

-----------------------------------------------------------------------------
(* The events and the process.                                             *)

Dispatch ==
  /\ outbox # << >>
  /\ view' = Applied(view, Head(outbox))
  /\ outbox' = Tail(outbox)
  /\ UNCHANGED << rows, used, call, known, disturbed, crashes, lost >>

\* The client is not connected: the Observable that emit returned fails, and nobody
\* subscribed to it.
EmitFails ==
  /\ outbox # << >> /\ lost < MaxLost
  /\ lost' = lost + 1
  /\ outbox' = Tail(outbox)
  /\ disturbed' = disturbed \cup {Head(outbox).id}
  /\ UNCHANGED << rows, used, call, known, view, crashes >>

\* The process dies and is started again: its requests and its queued events are
\* gone, what the database has committed stays.
Crash ==
  /\ crashes < MaxCrashes
  /\ crashes' = crashes + 1
  /\ call' = [r \in Reqs |->
                IF call[r].at \in InFlight THEN [call[r] EXCEPT !.at = "dead"] ELSE call[r]]
  /\ outbox' = << >>
  /\ disturbed' = disturbed \cup { u \in Ids : Writers(u) # {} }
                            \cup { outbox[i].id : i \in 1..Len(outbox) }
  /\ UNCHANGED << rows, used, known, view, lost >>

Next ==
  \/ \E r \in Reqs :
       \/ \E e \in Emails, n \in Names : RegisterFind(r, e, n)
       \/ RegisterInsert(r) \/ RegisterReply(r)
       \/ \E e \in Emails : LoginFind(r, e)
       \/ LoginReply(r)
       \/ \E u \in known, dto \in Dto : UpdateWrite(r, u, dto)
       \/ UpdateRead(r) \/ UpdateReply(r)
       \/ \E u \in known : Delete(r, u)
       \/ \E u \in known, op \in {"find", "validate", "refresh"} : Lookup(r, op, u)
       \/ LookupReply(r) \/ DatabaseFails(r)
  \/ Dispatch \/ EmitFails \/ Crash

Spec == Init /\ [][Next]_vars

-----------------------------------------------------------------------------
(* Properties.                                                             *)

\* Two registrations that both found the address free, or an update onto it, never
\* leave two users with one address.
UniqueEmail ==
  \A u, v \in Ids :
    Exists(u) /\ Exists(v) /\ rows[u].email = rows[v].email => u = v

\* A token or an id dies with its user: no request that arrives after the deletion is
\* ever answered for it, whatever updates were in flight around the deletion.
DeletedForGood ==
  \A r \in Reqs :
    call[r].late /\ call[r].op # "delete" => call[r].at # "ok"

\* Nothing about u is on its way to the subscriber.
Quiet(u) ==
  /\ Writers(u) = {}
  /\ \A i \in 1..Len(outbox) : outbox[i].id # u

\* A subscriber that applies the events in order has the row of every user that exists,
\* once the events are through, with four exceptions: requests that write the user
\* overlapped, the process crashed over one of them, a database call failed after one of
\* them had written, or an event was lost.
SubscriberAgrees ==
  \A u \in Ids : Exists(u) /\ u \notin disturbed /\ Quiet(u) => view[u] = rows[u]
=============================================================================
