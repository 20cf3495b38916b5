-------------------------- MODULE UserAccountsProofs --------------------------
(***************************************************************************)
(* Proofs about UserAccounts, for every set of requests, identifiers,      *)
(* addresses and names: its types, that addresses are unique, and that no  *)
(* request is answered for a user deleted before it arrived.               *)
(***************************************************************************)
EXTENDS UserAccounts, TLAPS

\* Only identifiers the database generated have rows.
RowsUsed == \A u \in Ids : Exists(u) => u \in used

\* A registration in progress carries a whole row, and every request past its first database
\* statement names a user the database once had.
CallWellFormed(c) ==
  /\ c.op = "register" /\ c.at \in {"found", "written"} => c.dto \in Row
  /\ c.at \in {"written", "read"} => c.id \in used
  /\ c.op = "login" /\ c.at = "found" => c.id \in used

CallsWellFormed == \A r \in Reqs : CallWellFormed(call[r])

\* A created event carries a whole row.
EventsWellFormed ==
  \A i \in 1..Len(outbox) : outbox[i].kind = "created" => outbox[i].dto \in Row

TypeInv == TypeOK /\ RowsUsed /\ CallsWellFormed /\ EventsWellFormed

-----------------------------------------------------------------------------
(* Lemmas about the helpers.                                               *)

\* Patching a row with a dto gives a row: None never gets into a field.
LEMMA PatchTyped ==
  ASSUME NEW row \in Row, NEW dto \in Dto
  PROVE  Patch(row, dto) \in Row
BY DEF Patch, Row, Dto

\* A dto that leaves nothing out is a row, so every row is a dto.
LEMMA RowIsDto == Row \subseteq Dto
BY DEF Row, Dto

\* A request that moves on changes only where it is.
LEMMA GotoEffect ==
  ASSUME call \in [Reqs -> Call], NEW r \in Reqs,
         NEW to \in {"idle", "dead"} \cup InFlight \cup Answered, Goto(r, to)
  PROVE  /\ call' \in [Reqs -> Call]
         /\ \A q \in Reqs : q # r => call'[q] = call[q]
         /\ call'[r].at = to /\ call'[r].op = call[r].op
         /\ call'[r].id = call[r].id /\ call'[r].dto = call[r].dto
         /\ call'[r].late = call[r].late
BY DEF Goto, Call

\* A request that arrives is recorded with its operation, user and dto.
LEMMA StartEffect ==
  ASSUME call \in [Reqs -> Call], NEW r \in Reqs, NEW op \in Ops,
         NEW at \in InFlight \cup Answered, NEW u \in Ids \cup {None},
         NEW dto \in Dto, Start(r, op, at, u, dto)
  PROVE  /\ call' \in [Reqs -> Call]
         /\ \A q \in Reqs : q # r => call'[q] = call[q]
         /\ call'[r] = [op |-> op, at |-> at, id |-> u, dto |-> dto,
                        late |-> u \in used /\ ~Exists(u)]
<1>1. (u \in used /\ ~Exists(u)) \in BOOLEAN
  OBVIOUS
<1>2. [op |-> op, at |-> at, id |-> u, dto |-> dto,
       late |-> u \in used /\ ~Exists(u)] \in Call
  BY <1>1 DEF Call
<1> QED BY <1>2 DEF Start

\* An event at the end of the outbox keeps it well formed.
LEMMA EmitEffect ==
  ASSUME outbox \in Seq(Event), EventsWellFormed,
         NEW kind \in {"created", "updated"}, NEW u \in Ids, NEW dto \in Dto,
         kind = "created" => dto \in Row, Emit(kind, u, dto)
  PROVE  outbox' \in Seq(Event) /\ EventsWellFormed'
<1> DEFINE e == [kind |-> kind, id |-> u, dto |-> dto]
<1>1. e \in Event
  BY DEF Event
<1>2. outbox' = Append(outbox, e)
  BY DEF Emit
<1>3. outbox' \in Seq(Event)
  BY <1>1, <1>2
<1>4. \A i \in 1..Len(outbox') : outbox'[i] = IF i = Len(outbox) + 1 THEN e ELSE outbox[i]
  BY <1>1, <1>2
<1>5. EventsWellFormed'
  <2> SUFFICES ASSUME NEW i \in 1..Len(outbox'), outbox'[i].kind = "created"
               PROVE  outbox'[i].dto \in Row
    BY DEF EventsWellFormed
  <2>1. CASE i = Len(outbox) + 1
    BY <1>4, <2>1
  <2>2. CASE i # Len(outbox) + 1
    <3>1. i \in 1..Len(outbox)
      BY <1>1, <1>2, <2>2
    <3> QED BY <1>4, <2>2, <3>1 DEF EventsWellFormed
  <2> QED BY <2>1, <2>2
<1> QED BY <1>3, <1>5

\* Taking the first event off keeps the rest well formed.
LEMMA TailEffect ==
  ASSUME outbox \in Seq(Event), EventsWellFormed, outbox # << >>, outbox' = Tail(outbox)
  PROVE  /\ outbox' \in Seq(Event) /\ EventsWellFormed'
         /\ Head(outbox) \in Event
         /\ Head(outbox).kind = "created" => Head(outbox).dto \in Row
<1>1. Len(outbox) \in Nat \ {0} /\ outbox[1] = Head(outbox) /\ Head(outbox) \in Event
  OBVIOUS
<1>2. outbox' \in Seq(Event) /\ Len(outbox') = Len(outbox) - 1
  OBVIOUS
<1>3. \A i \in 1..Len(outbox') : outbox'[i] = outbox[i + 1] /\ i + 1 \in 1..Len(outbox)
  BY <1>1, <1>2
<1>4. EventsWellFormed'
  BY <1>3 DEF EventsWellFormed
<1>5. 1 \in 1..Len(outbox)
  BY <1>1
<1> QED BY <1>1, <1>2, <1>4, <1>5 DEF EventsWellFormed

\* What a subscriber makes of a well-formed event is a table.
LEMMA AppliedTyped ==
  ASSUME NEW v \in [Ids -> Row \cup {None}], NEW e \in Event,
         e.kind = "created" => e.dto \in Row
  PROVE  Applied(v, e) \in [Ids -> Row \cup {None}]
<1>1. e.id \in Ids /\ e.dto \in Dto
  BY DEF Event
<1>2. CASE e.kind = "created"
  BY <1>1, <1>2 DEF Applied
<1>3. CASE e.kind # "created" /\ v[e.id] = None
  BY <1>3 DEF Applied
<1>4. CASE e.kind # "created" /\ v[e.id] # None
  <2>1. Patch(v[e.id], e.dto) \in Row
    BY <1>1, <1>4, PatchTyped
  <2> QED BY <1>1, <1>4, <2>1 DEF Applied
<1> QED BY <1>2, <1>3, <1>4

-----------------------------------------------------------------------------
(* Types.                                                                  *)

LEMMA TypeInit == Init => TypeInv
BY UserAccountsAssumption
   DEF Init, TypeInv, TypeOK, RowsUsed, CallsWellFormed, CallWellFormed,
       EventsWellFormed, Exists, Call, Dto, NoDto, Ops, Event

\* One lemma per kind of step: a request that only moves on, ...
LEMMA TypeGoto ==
  ASSUME TypeInv, NEW r \in Reqs, NEW to \in {"dead"} \cup InFlight \cup Answered, Goto(r, to),
         to = "read" => call[r].id \in used,
         to \notin {"found", "written"},
         UNCHANGED << rows, used, outbox >>
  PROVE  /\ call' \in [Reqs -> Call]
         /\ RowsUsed' /\ CallsWellFormed' /\ EventsWellFormed'
<1>1. /\ call' \in [Reqs -> Call]
      /\ \A q \in Reqs : q # r => call'[q] = call[q]
      /\ call'[r].at = to /\ call'[r].op = call[r].op
      /\ call'[r].id = call[r].id /\ call'[r].dto = call[r].dto
  BY GotoEffect DEF TypeInv, TypeOK
<1>2. RowsUsed' /\ EventsWellFormed'
  BY DEF TypeInv, RowsUsed, EventsWellFormed, Exists
<1>3. CallsWellFormed'
  BY <1>1 DEF TypeInv, CallsWellFormed, CallWellFormed
<1> QED BY <1>1, <1>2, <1>3

\* ... a request that arrives, ...
LEMMA TypeStart ==
  ASSUME TypeInv, NEW r \in Reqs, NEW op \in Ops, NEW at \in InFlight \cup Answered,
         NEW u \in Ids \cup {None}, NEW dto \in Dto, Start(r, op, at, u, dto),
         op = "register" /\ at = "found" => dto \in Row,
         op = "register" => at # "written",
         at \in {"written", "read"} \/ (op = "login" /\ at = "found") => u \in used,
         UNCHANGED used
  PROVE  call' \in [Reqs -> Call] /\ CallsWellFormed'
<1>1. /\ call' \in [Reqs -> Call]
      /\ \A q \in Reqs : q # r => call'[q] = call[q]
      /\ call'[r] = [op |-> op, at |-> at, id |-> u, dto |-> dto,
                     late |-> u \in used /\ ~Exists(u)]
  BY StartEffect DEF TypeInv, TypeOK
<1>2. CallsWellFormed'
  <2> SUFFICES ASSUME NEW q \in Reqs PROVE CallWellFormed(call[q])'
    BY DEF CallsWellFormed
  <2>1. CASE q = r
    BY <1>1, <2>1 DEF CallWellFormed
  <2>2. CASE q # r
    BY <1>1, <2>2 DEF TypeInv, CallsWellFormed, CallWellFormed
  <2> QED BY <2>1, <2>2
<1> QED BY <1>1, <1>2

\* ... the insertion of a new row, ...
LEMMA TypeInsert ==
  ASSUME TypeInv, NEW r \in Reqs, RegisterInsert(r)
  PROVE  TypeInv'
<1> USE DEF TypeInv
<1>1. call[r].op = "register" /\ call[r].at = "found" /\ call[r].dto \in Row
  BY DEF RegisterInsert, Await, CallsWellFormed, CallWellFormed
<1>2. CASE Goto(r, "failed") /\ UNCHANGED << rows, used >>
  <2>1. UNCHANGED << rows, used, known, outbox, view, disturbed, crashes, lost >>
    BY <1>2 DEF RegisterInsert
  <2>2. call' \in [Reqs -> Call] /\ RowsUsed' /\ CallsWellFormed' /\ EventsWellFormed'
    BY <1>2, <2>1, TypeGoto DEF Answered
  <2> QED BY <2>1, <2>2 DEF TypeOK
<1>3. CASE \E u \in Ids \ used :
             /\ used' = used \cup {u}
             /\ rows' = [rows EXCEPT ![u] = call[r].dto]
             /\ call' = [call EXCEPT ![r].at = "written", ![r].id = u]
  <2> PICK u \in Ids \ used :
             /\ used' = used \cup {u}
             /\ rows' = [rows EXCEPT ![u] = call[r].dto]
             /\ call' = [call EXCEPT ![r].at = "written", ![r].id = u]
    BY <1>3
  <2>1. UNCHANGED << known, outbox, view, disturbed, crashes, lost >>
    BY DEF RegisterInsert
  <2>2. /\ call' \in [Reqs -> Call]
        /\ \A q \in Reqs : q # r => call'[q] = call[q]
        /\ call'[r].op = "register" /\ call'[r].at = "written" /\ call'[r].id = u
        /\ call'[r].dto = call[r].dto
    BY <1>1 DEF TypeOK, Call, InFlight
  <2>3. TypeOK'
    BY <1>1, <2>1, <2>2 DEF TypeOK
  <2>4. RowsUsed'
    BY DEF RowsUsed, Exists, TypeOK
  <2>5. CallsWellFormed'
    BY <1>1, <2>2 DEF CallsWellFormed, CallWellFormed
  <2>6. EventsWellFormed'
    BY <2>1 DEF EventsWellFormed
  <2> QED BY <2>3, <2>4, <2>5, <2>6
<1> QED BY <1>2, <1>3 DEF RegisterInsert

\* ... and the two writes to a row that exists or goes.
LEMMA TypeUpdate ==
  ASSUME TypeInv, NEW r \in Reqs, NEW u \in known, NEW dto \in Dto, UpdateWrite(r, u, dto)
  PROVE  TypeInv'
<1> USE DEF TypeInv
<1>1. u \in Ids /\ u \in used
  BY DEF TypeOK
<1>2. UNCHANGED << used, known, outbox, view, crashes, lost >>
  BY DEF UpdateWrite
<1>3. Start(r, "update", "written", u, dto) \/ Start(r, "update", "failed", u, NoDto)
  BY DEF UpdateWrite
<1>4. call' \in [Reqs -> Call] /\ CallsWellFormed'
  <2>1. NoDto \in Dto
    BY DEF NoDto, Dto
  <2>2. "update" \in Ops /\ "written" \in InFlight /\ "failed" \in Answered
    BY DEF Ops, InFlight, Answered
  <2> QED BY <1>1, <1>2, <1>3, <2>1, <2>2, TypeStart
<1>5. /\ rows' \in [Ids -> Row \cup {None}]
      /\ disturbed' \in SUBSET Ids
      /\ RowsUsed'
  <2>1. CASE UNCHANGED << rows, disturbed >>
    BY <1>2, <2>1 DEF TypeOK, RowsUsed, Exists
  <2>2. CASE ~UNCHANGED << rows, disturbed >>
    <3>1. /\ Exists(u)
          /\ rows' = [rows EXCEPT ![u] = Patch(rows[u], dto)]
          /\ disturbed' = IF Writers(u) # {} THEN disturbed \cup {u} ELSE disturbed
      BY <2>2 DEF UpdateWrite
    <3>2. Patch(rows[u], dto) \in Row
      BY <1>1, <3>1, PatchTyped DEF Exists, TypeOK
    <3> QED BY <1>1, <1>2, <3>1, <3>2 DEF TypeOK, RowsUsed, Exists
  <2> QED BY <2>1, <2>2
<1> QED BY <1>2, <1>4, <1>5 DEF TypeOK, EventsWellFormed

LEMMA TypeDelete ==
  ASSUME TypeInv, NEW r \in Reqs, NEW u \in known, Delete(r, u)
  PROVE  TypeInv'
<1> USE DEF TypeInv
<1>1. u \in Ids /\ u \in used
  BY DEF TypeOK
<1>2. /\ Start(r, "delete", "ok", u, NoDto) \/ Start(r, "delete", "failed", u, NoDto)
      /\ rows' = [rows EXCEPT ![u] = None] \/ rows' = rows
      /\ UNCHANGED << used, known, outbox, view, disturbed, crashes, lost >>
  BY DEF Delete
<1>3. call' \in [Reqs -> Call] /\ CallsWellFormed'
  BY <1>1, <1>2, TypeStart DEF Ops, InFlight, Answered, NoDto, Dto
<1>4. rows' \in [Ids -> Row \cup {None}] /\ RowsUsed'
  BY <1>1, <1>2 DEF TypeOK, RowsUsed, Exists
<1> QED BY <1>2, <1>3, <1>4 DEF TypeOK, EventsWellFormed

\* The answers that emit an event.
LEMMA TypeReply ==
  ASSUME TypeInv, NEW r \in Reqs, RegisterReply(r) \/ UpdateReply(r)
  PROVE  TypeInv'
<1> USE DEF TypeInv
<1>1. call[r].at \in {"written", "read"} /\ Goto(r, "ok")
  BY DEF RegisterReply, UpdateReply, Await
<1>2. call[r].id \in used /\ call[r].id \in Ids /\ call[r].dto \in Dto
  BY <1>1 DEF CallsWellFormed, CallWellFormed, TypeOK, Call
<1>3. outbox' \in Seq(Event) /\ EventsWellFormed'
  <2>1. CASE RegisterReply(r)
    <3>1. call[r].dto \in Row /\ Emit("created", call[r].id, call[r].dto)
      BY <2>1 DEF RegisterReply, Await, CallsWellFormed, CallWellFormed
    <3> QED BY <1>2, <3>1, EmitEffect DEF TypeOK
  <2>2. CASE UpdateReply(r)
    <3>1. Emit("updated", call[r].id, call[r].dto)
      BY <2>2 DEF UpdateReply
    <3> QED BY <1>2, <3>1, EmitEffect DEF TypeOK
  <2> QED BY <2>1, <2>2
<1>4. /\ UNCHANGED << rows, used, view, disturbed, crashes, lost >>
      /\ known' \in SUBSET used
  BY <1>2 DEF RegisterReply, UpdateReply, TypeOK
<1>5. /\ call' \in [Reqs -> Call]
      /\ \A q \in Reqs : q # r => call'[q] = call[q]
      /\ call'[r].at = "ok" /\ call'[r].op = call[r].op
      /\ call'[r].id = call[r].id /\ call'[r].dto = call[r].dto
  BY <1>1, GotoEffect DEF TypeOK, Answered
<1>6. CallsWellFormed'
  BY <1>4, <1>5 DEF CallsWellFormed, CallWellFormed
<1>7. RowsUsed'
  BY <1>4 DEF RowsUsed, Exists
<1> QED BY <1>3, <1>4, <1>5, <1>6, <1>7 DEF TypeOK

LEMMA TypeCrash ==
  ASSUME TypeInv, Crash
  PROVE  TypeInv'
<1> USE DEF TypeInv
<1>1. /\ UNCHANGED << rows, used, known, view, lost >>
      /\ crashes' = crashes + 1 /\ crashes < MaxCrashes
      /\ outbox' = << >>
      /\ call' = [r \in Reqs |->
                    IF call[r].at \in InFlight THEN [call[r] EXCEPT !.at = "dead"] ELSE call[r]]
      /\ disturbed' = disturbed \cup { u \in Ids : Writers(u) # {} }
                                 \cup { outbox[i].id : i \in 1..Len(outbox) }
  BY DEF Crash
<1>2. call' \in [Reqs -> Call] /\ CallsWellFormed'
  <2>1. \A r \in Reqs :
          /\ call'[r] \in Call
          /\ call'[r].at \in {call[r].at, "dead"} /\ call'[r].op = call[r].op
          /\ call'[r].id = call[r].id /\ call'[r].dto = call[r].dto
    <3> SUFFICES ASSUME NEW r \in Reqs
                 PROVE  /\ call'[r] \in Call
                        /\ call'[r].at \in {call[r].at, "dead"} /\ call'[r].op = call[r].op
                        /\ call'[r].id = call[r].id /\ call'[r].dto = call[r].dto
      OBVIOUS
    <3>1. call[r] \in Call
      BY DEF TypeOK
    <3>2. CASE call[r].at \in InFlight
      <4>1. call'[r] = [call[r] EXCEPT !.at = "dead"]
        BY <1>1, <3>2
      <4> QED BY <3>1, <4>1 DEF Call
    <3>3. CASE call[r].at \notin InFlight
      <4>1. call'[r] = call[r]
        BY <1>1, <3>3
      <4> QED BY <3>1, <4>1
    <3> QED BY <3>2, <3>3
  <2>2. call' \in [Reqs -> Call]
    <3>1. call' = [r \in Reqs |-> call'[r]]
      BY <1>1
    <3> QED BY <2>1, <3>1
  <2>3. CallsWellFormed'
    BY <1>1, <2>1 DEF CallsWellFormed, CallWellFormed
  <2> QED BY <2>2, <2>3
<1>3. disturbed' \in SUBSET Ids
  <2>1. \A i \in 1..Len(outbox) : outbox[i].id \in Ids
    <3>1. outbox \in Seq(Event)
      BY DEF TypeOK
    <3>2. \A i \in 1..Len(outbox) : outbox[i] \in Event
      BY <3>1
    <3> QED BY <3>2 DEF Event
  <2> QED BY <1>1, <2>1 DEF TypeOK
<1>4. crashes' \in 0..MaxCrashes
  BY <1>1, UserAccountsAssumption DEF TypeOK
<1>5. outbox' \in Seq(Event) /\ EventsWellFormed'
  BY <1>1 DEF EventsWellFormed
<1> QED BY <1>1, <1>2, <1>3, <1>4, <1>5 DEF TypeOK, RowsUsed, Exists

\* Types and well-formedness are inductive.
LEMMA TypeStep == TypeInv /\ [Next]_vars => TypeInv'
<1> SUFFICES ASSUME TypeInv, [Next]_vars PROVE TypeInv'
  OBVIOUS
<1> USE DEF TypeInv
<1>1. ASSUME NEW r \in Reqs, NEW e \in Emails, NEW n \in Names, RegisterFind(r, e, n)
      PROVE  TypeInv'
  <2> DEFINE dto == [email |-> e, name |-> n]
  <2>1. \/ \E at \in {"refused", "found"} : Start(r, "register", at, None, dto)
        \/ Start(r, "register", "failed", None, NoDto)
    BY <1>1 DEF RegisterFind
  <2>2. UNCHANGED << rows, used, known, outbox, view, disturbed, crashes, lost >>
    BY <1>1 DEF RegisterFind
  <2>3. dto \in Row /\ dto \in Dto /\ NoDto \in Dto
    BY DEF Row, Dto, NoDto
  <2>4. "register" \in Ops /\ {"refused", "found", "failed"} \subseteq InFlight \cup Answered
    BY DEF Ops, InFlight, Answered
  <2> HIDE DEF dto
  <2>5. call' \in [Reqs -> Call] /\ CallsWellFormed'
    BY <2>1, <2>2, <2>3, <2>4, TypeStart
  <2> QED BY <2>2, <2>5 DEF TypeOK, RowsUsed, Exists, EventsWellFormed
<1>2. ASSUME NEW r \in Reqs, NEW e \in Emails, LoginFind(r, e) PROVE TypeInv'
  <2>1. UNCHANGED << rows, used, known, outbox, view, disturbed, crashes, lost >>
    BY <1>2 DEF LoginFind
  <2>2. NoDto \in Dto
    BY DEF NoDto, Dto
  <2>3. call' \in [Reqs -> Call] /\ CallsWellFormed'
    <3>1. CASE \E u \in WithEmail(e) : Start(r, "login", "found", u, NoDto)
      <4>1. PICK u \in WithEmail(e) : Start(r, "login", "found", u, NoDto)
        BY <3>1
      <4>2. u \in Ids /\ u \in used
        BY DEF WithEmail, RowsUsed
      <4> QED BY <2>1, <2>2, <4>1, <4>2, TypeStart DEF Ops, InFlight
    <3>2. CASE \E at \in {"refused", "failed"} : Start(r, "login", at, None, NoDto)
      BY <2>1, <2>2, <3>2, TypeStart DEF Ops, Answered
    <3> QED BY <1>2, <3>1, <3>2 DEF LoginFind
  <2> QED BY <2>1, <2>3 DEF TypeOK, RowsUsed, Exists, EventsWellFormed
<1>3. ASSUME NEW r \in Reqs, LoginReply(r) PROVE TypeInv'
  <2>1. UNCHANGED << rows, used, outbox, view, disturbed, crashes, lost >>
    BY <1>3 DEF LoginReply
  <2>2. call' \in [Reqs -> Call] /\ RowsUsed' /\ CallsWellFormed' /\ EventsWellFormed'
    <3>1. \E to \in {"ok", "refused"} : Goto(r, to)
      BY <1>3 DEF LoginReply
    <3> QED BY <2>1, <3>1, TypeGoto DEF Answered
  <2>3. known' \in SUBSET used
    BY <1>3 DEF LoginReply, Await, CallsWellFormed, CallWellFormed, TypeOK
  <2> QED BY <2>1, <2>2, <2>3 DEF TypeOK
<1>4. ASSUME NEW r \in Reqs, UpdateRead(r) PROVE TypeInv'
  <2>1. UNCHANGED << rows, used, known, outbox, view, disturbed, crashes, lost >>
    BY <1>4 DEF UpdateRead
  <2>2. call[r].id \in used /\ \E to \in {"read", "failed"} : Goto(r, to)
    BY <1>4 DEF UpdateRead, Await, CallsWellFormed, CallWellFormed
  <2>3. call' \in [Reqs -> Call] /\ RowsUsed' /\ CallsWellFormed' /\ EventsWellFormed'
    BY <2>1, <2>2, TypeGoto DEF InFlight, Answered
  <2> QED BY <2>1, <2>3 DEF TypeOK
<1>5. ASSUME NEW r \in Reqs, NEW u \in known,
             NEW op \in {"find", "validate", "refresh"}, Lookup(r, op, u)
      PROVE  TypeInv'
  <2>1. UNCHANGED << rows, used, known, outbox, view, disturbed, crashes, lost >>
    BY <1>5 DEF Lookup
  <2>2. \E at \in {"begun", "refused"} : Start(r, op, at, u, NoDto)
    BY <1>5 DEF Lookup
  <2>3. NoDto \in Dto /\ u \in Ids
    BY DEF NoDto, Dto, TypeOK
  <2>4. call' \in [Reqs -> Call] /\ CallsWellFormed'
    BY <2>1, <2>2, <2>3, TypeStart DEF Ops, InFlight, Answered
  <2> QED BY <2>1, <2>4 DEF TypeOK, RowsUsed, Exists, EventsWellFormed
<1>6. ASSUME NEW r \in Reqs, LookupReply(r) PROVE TypeInv'
  <2>1. UNCHANGED << rows, used, known, outbox, view, disturbed, crashes, lost >>
    BY <1>6 DEF LookupReply
  <2>2. \E to \in {"ok", "failed", "refused"} : Goto(r, to)
    BY <1>6 DEF LookupReply
  <2>3. call' \in [Reqs -> Call] /\ RowsUsed' /\ CallsWellFormed' /\ EventsWellFormed'
    BY <2>1, <2>2, TypeGoto DEF Answered
  <2> QED BY <2>1, <2>3 DEF TypeOK
<1>7. CASE Dispatch
  <2>1. /\ outbox # << >> /\ outbox' = Tail(outbox)
        /\ view' = Applied(view, Head(outbox))
        /\ UNCHANGED << rows, used, call, known, disturbed, crashes, lost >>
    BY <1>7 DEF Dispatch
  <2>2. outbox' \in Seq(Event) /\ EventsWellFormed'
    BY <2>1, TailEffect DEF TypeOK
  <2>3. view' \in [Ids -> Row \cup {None}]
    BY <2>1, TailEffect, AppliedTyped DEF TypeOK
  <2> QED BY <2>1, <2>2, <2>3
          DEF TypeOK, RowsUsed, Exists, CallsWellFormed, CallWellFormed
<1>8. CASE EmitFails
  <2>1. /\ outbox # << >> /\ outbox' = Tail(outbox)
        /\ lost < MaxLost /\ lost' = lost + 1
        /\ disturbed' = disturbed \cup {Head(outbox).id}
        /\ UNCHANGED << rows, used, call, known, view, crashes >>
    BY <1>8 DEF EmitFails
  <2>2. outbox' \in Seq(Event) /\ EventsWellFormed' /\ Head(outbox).id \in Ids
    BY <2>1, TailEffect DEF TypeOK, Event
  <2>3. lost' \in 0..MaxLost
    BY <2>1, UserAccountsAssumption DEF TypeOK
  <2> QED BY <2>1, <2>2, <2>3
          DEF TypeOK, RowsUsed, Exists, CallsWellFormed, CallWellFormed
<1>10. ASSUME NEW r \in Reqs, DatabaseFails(r) PROVE TypeInv'
  <2>1. /\ UNCHANGED << rows, used, known, outbox, view, crashes, lost >>
        /\ \E to \in {"failed", "refused"} : Goto(r, to)
        /\ disturbed' = IF call[r].at = "written" THEN disturbed \cup {call[r].id} ELSE disturbed
    BY <1>10 DEF DatabaseFails
  <2>2. call' \in [Reqs -> Call] /\ RowsUsed' /\ CallsWellFormed' /\ EventsWellFormed'
    BY <2>1, TypeGoto DEF Answered
  <2>3. disturbed' \in SUBSET Ids
    BY <2>1 DEF CallsWellFormed, CallWellFormed, TypeOK
  <2> QED BY <2>1, <2>2, <2>3 DEF TypeOK
<1>9. CASE UNCHANGED vars
  BY <1>9 DEF vars, TypeOK, RowsUsed, Exists, CallsWellFormed, CallWellFormed,
              EventsWellFormed
<1> QED
  BY <1>1, <1>2, <1>3, <1>4, <1>5, <1>6, <1>7, <1>8, <1>9, <1>10,
     TypeInsert, TypeUpdate, TypeDelete, TypeReply, TypeCrash DEF Next

\* The invariant behind the other proofs, for every reachable state.
LEMMA TypeInvCorrect == Spec => []TypeInv
BY TypeInit, TypeStep, PTL DEF Spec

\* Requests, rows, events and history counters keep their types whatever requests
\* interleave: a registration never inserts a partial row (AuthService.register,
\* UserService.update and the events they emit).
THEOREM TypeCorrect == Spec => []TypeOK
BY TypeInvCorrect, PTL DEF TypeInv

-----------------------------------------------------------------------------
(* One account per address.                                                *)

\* UniqueEmail needs nothing but the types to be inductive: the unique index decides
\* at the very statement that writes.
LEMMA UniqueStep == TypeInv /\ UniqueEmail /\ [Next]_vars => UniqueEmail'
<1> SUFFICES ASSUME TypeInv, UniqueEmail, [Next]_vars PROVE UniqueEmail'
  OBVIOUS
<1> USE DEF TypeInv
<1>1. ASSUME NEW r \in Reqs, RegisterInsert(r), ~UNCHANGED rows PROVE UniqueEmail'
  <2> DEFINE e == call[r].dto.email
  <2>1. WithEmail(e) = {}
    BY <1>1 DEF RegisterInsert
  <2>2. PICK u \in Ids \ used : rows' = [rows EXCEPT ![u] = call[r].dto]
    BY <1>1 DEF RegisterInsert
  <2>3. \A v \in Ids : Exists(v) => rows[v].email # e
    BY <2>1 DEF WithEmail
  <2>4. rows'[u].email = e /\ \A v \in Ids : v # u => rows'[v] = rows[v]
    BY <2>2 DEF TypeOK
  <2> QED BY <2>3, <2>4 DEF UniqueEmail, Exists
<1>2. ASSUME NEW r \in Reqs, NEW u \in known, NEW dto \in Dto, UpdateWrite(r, u, dto),
             ~UNCHANGED rows
      PROVE  UniqueEmail'
  <2>1. /\ Exists(u) /\ ~Clash(u, dto)
        /\ rows' = [rows EXCEPT ![u] = Patch(rows[u], dto)]
    BY <1>2 DEF UpdateWrite
  <2>2. u \in Ids
    BY DEF TypeOK
  <2>3. rows'[u] = Patch(rows[u], dto) /\ \A v \in Ids : v # u => rows'[v] = rows[v]
    BY <2>1, <2>2 DEF TypeOK
  <2>4. \A v \in Ids : v # u /\ Exists(v) => rows[v].email # rows'[u].email
    <3>1. CASE dto.email = None
      BY <2>1, <2>2, <2>3, <3>1 DEF Patch, UniqueEmail
    <3>2. CASE dto.email # None
      BY <2>1, <2>3, <3>2 DEF Patch, Clash, WithEmail
    <3> QED BY <3>1, <3>2
  <2> QED BY <2>2, <2>3, <2>4 DEF UniqueEmail, Exists
<1>3. ASSUME NEW r \in Reqs, NEW u \in known, Delete(r, u) PROVE UniqueEmail'
  <2>1. \A v \in Ids : rows'[v] \in {rows[v], None}
    BY <1>3 DEF Delete, TypeOK
  <2> QED BY <2>1 DEF UniqueEmail, Exists
<1>4. ASSUME UNCHANGED rows PROVE UniqueEmail'
  BY <1>4 DEF UniqueEmail, Exists
<1> QED
  BY <1>1, <1>2, <1>3, <1>4
     DEF Next, vars, RegisterFind, RegisterReply, LoginFind, LoginReply, UpdateRead,
         UpdateReply, Lookup, LookupReply, DatabaseFails,
         Dispatch, EmitFails, Crash

\* However many registrations find an address free before one of them inserts it, and
\* whatever updates move addresses meanwhile, no two users share one
\* (AuthService.register between findOne and create; UserService.update).
THEOREM UniqueEmailCorrect == Spec => []UniqueEmail
<1>1. Init => UniqueEmail
  BY DEF Init, UniqueEmail, Exists
<1> QED BY <1>1, UniqueStep, TypeInvCorrect, PTL DEF Spec

-----------------------------------------------------------------------------
(* A deleted user is gone.                                                 *)

\* A request that arrived after its user was deleted: the row is still missing, and
\* the request has not got past the read that notices.
LateIsDead ==
  \A r \in Reqs :
    call[r].late =>
      /\ call[r].op \in {"update", "delete", "find", "validate", "refresh"}
      /\ call[r].id \in used /\ ~Exists(call[r].id)
      /\ call[r].at # "read"
      /\ call[r].op # "delete" => call[r].at # "ok"

\* Identifiers are never reused, so a user once deleted never comes back.
LEMMA StaysDead ==
  ASSUME TypeInv, [Next]_vars
  PROVE  /\ used \subseteq used'
         /\ \A u \in used : ~Exists(u) => ~Exists(u)'
<1> USE DEF TypeInv
<1>1. ASSUME NEW r \in Reqs, RegisterInsert(r), ~UNCHANGED << rows, used >>
      PROVE  used \subseteq used' /\ \A u \in used : ~Exists(u) => ~Exists(u)'
  BY <1>1 DEF RegisterInsert, Exists, TypeOK
<1>2. ASSUME NEW r \in Reqs, NEW u \in known, NEW dto \in Dto, UpdateWrite(r, u, dto),
             ~UNCHANGED rows
      PROVE  used \subseteq used' /\ \A v \in used : ~Exists(v) => ~Exists(v)'
  BY <1>2 DEF UpdateWrite, Exists, TypeOK
<1>3. ASSUME NEW r \in Reqs, NEW u \in known, Delete(r, u)
      PROVE  used \subseteq used' /\ \A v \in used : ~Exists(v) => ~Exists(v)'
  BY <1>3 DEF Delete, Exists, TypeOK
<1>4. ASSUME UNCHANGED << rows, used >>
      PROVE  used \subseteq used' /\ \A u \in used : ~Exists(u) => ~Exists(u)'
  BY <1>4 DEF Exists
<1> QED
  BY <1>1, <1>2, <1>3, <1>4
     DEF Next, vars, RegisterFind, RegisterInsert, RegisterReply, LoginFind, LoginReply,
         UpdateWrite, UpdateRead, UpdateReply, Lookup, LookupReply, DatabaseFails,
         Dispatch, EmitFails, Crash

\* A request that moves on keeps LateIsDead if, being late, it is not answered.
LEMMA LateGoto ==
  ASSUME TypeInv, LateIsDead, [Next]_vars, NEW r \in Reqs,
         NEW to \in InFlight \cup Answered, Goto(r, to),
         call[r].late => to # "read" /\ (call[r].op # "delete" => to # "ok")
  PROVE  LateIsDead'
<1>1. /\ \A q \in Reqs : q # r => call'[q] = call[q]
      /\ call'[r].at = to /\ call'[r].op = call[r].op
      /\ call'[r].id = call[r].id /\ call'[r].late = call[r].late
  BY GotoEffect DEF TypeInv, TypeOK
<1>2. used \subseteq used' /\ \A u \in used : ~Exists(u) => ~Exists(u)'
  BY StaysDead
<1>3. \A q \in Reqs : call[q].late => call[q].id \in used' /\ ~(call[q].id \in used /\ rows'[call[q].id] # None)
  BY <1>2 DEF LateIsDead, Exists
<1> QED BY <1>1, <1>2, <1>3 DEF LateIsDead, Exists

\* A request that arrives keeps it if it is not answered at once.
LEMMA LateStart ==
  ASSUME TypeInv, LateIsDead, [Next]_vars, NEW r \in Reqs, NEW op \in Ops,
         NEW at \in InFlight \cup Answered, NEW u \in Ids \cup {None},
         NEW dto \in Dto, Start(r, op, at, u, dto),
         at # "read", op # "delete" => at # "ok",
         \/ op \in {"update", "delete", "find", "validate", "refresh"}
         \/ u = None \/ Exists(u)
  PROVE  LateIsDead'
<1>1. /\ \A q \in Reqs : q # r => call'[q] = call[q]
      /\ call'[r] = [op |-> op, at |-> at, id |-> u, dto |-> dto,
                     late |-> u \in used /\ ~Exists(u)]
  BY StartEffect DEF TypeInv, TypeOK
<1>2. used \subseteq used' /\ \A v \in used : ~Exists(v) => ~Exists(v)'
  BY StaysDead
<1>3. None \notin used
  BY UserAccountsAssumption DEF TypeInv, TypeOK
<1> SUFFICES ASSUME NEW q \in Reqs, call'[q].late
             PROVE  /\ call'[q].op \in {"update", "delete", "find", "validate", "refresh"}
                    /\ call'[q].id \in used' /\ rows'[call'[q].id] = None
                    /\ call'[q].at # "read"
                    /\ call'[q].op # "delete" => call'[q].at # "ok"
  BY DEF LateIsDead, Exists
<1>4. CASE q = r
  <2> DEFINE gone == u \in used /\ ~Exists(u)
  <2>1. call'[q] = [op |-> op, at |-> at, id |-> u, dto |-> dto, late |-> gone]
    BY <1>1, <1>4
  <2> HIDE DEF gone
  <2>2. gone
    BY <2>1
  <2>3. u \in used /\ ~Exists(u)
    BY <2>2 DEF gone
  <2> QED BY <1>2, <1>3, <2>1, <2>3 DEF Exists
<1>5. CASE q # r
  BY <1>1, <1>2, <1>5 DEF LateIsDead, Exists
<1> QED BY <1>4, <1>5

LEMMA LateStep == TypeInv /\ LateIsDead /\ [Next]_vars => LateIsDead'
<1> SUFFICES ASSUME TypeInv, LateIsDead, [Next]_vars PROVE LateIsDead'
  OBVIOUS
<1> USE DEF TypeInv
<1>0. used \subseteq used' /\ \A u \in used : ~Exists(u) => ~Exists(u)'
  BY StaysDead
<1>1. ASSUME NEW r \in Reqs, NEW e \in Emails, NEW n \in Names, RegisterFind(r, e, n)
      PROVE  LateIsDead'
  <2>1. \E at \in {"refused", "found", "failed"}, dto \in {[email |-> e, name |-> n], NoDto} :
          Start(r, "register", at, None, dto)
    BY <1>1 DEF RegisterFind
  <2>2. {[email |-> e, name |-> n], NoDto} \subseteq Dto
    BY DEF Dto, NoDto
  <2>3. "register" \in Ops /\ {"refused", "found", "failed"} \subseteq InFlight \cup Answered
    BY DEF Ops, InFlight, Answered
  <2> QED BY <2>1, <2>2, <2>3, LateStart
<1>2. ASSUME NEW r \in Reqs, RegisterInsert(r) PROVE LateIsDead'
  <2>1. ~call[r].late
    BY <1>2 DEF RegisterInsert, Await, LateIsDead
  <2>2. CASE Goto(r, "failed")
    BY <2>1, <2>2, LateGoto DEF Answered
  <2>3. CASE \E u \in Ids \ used : call' = [call EXCEPT ![r].at = "written", ![r].id = u]
    <3>1. \A q \in Reqs : call'[q].late => q # r /\ call'[q] = call[q]
      BY <2>1, <2>3 DEF TypeOK, Call
    <3> QED BY <1>0, <3>1 DEF LateIsDead, Exists
  <2> QED BY <1>2, <2>2, <2>3 DEF RegisterInsert
<1>3. ASSUME NEW r \in Reqs, RegisterReply(r) PROVE LateIsDead'
  BY <1>3, LateGoto DEF RegisterReply, Await, LateIsDead, Answered
<1>4. ASSUME NEW r \in Reqs, NEW e \in Emails, LoginFind(r, e) PROVE LateIsDead'
  <2>1. NoDto \in Dto
    BY DEF NoDto, Dto
  <2>2. CASE \E u \in WithEmail(e) : Start(r, "login", "found", u, NoDto)
    BY <2>1, <2>2, LateStart DEF WithEmail, Ops, InFlight
  <2>3. CASE \E at \in {"refused", "failed"} : Start(r, "login", at, None, NoDto)
    BY <2>1, <2>3, LateStart DEF Ops, Answered
  <2> QED BY <1>4, <2>2, <2>3 DEF LoginFind
<1>5. ASSUME NEW r \in Reqs, LoginReply(r) PROVE LateIsDead'
  BY <1>5, LateGoto DEF LoginReply, Await, LateIsDead, Answered
<1>6. ASSUME NEW r \in Reqs, NEW u \in known, NEW dto \in Dto, UpdateWrite(r, u, dto)
      PROVE  LateIsDead'
  <2>1. \E at \in {"written", "failed"}, d \in {dto, NoDto} : Start(r, "update", at, u, d)
    BY <1>6 DEF UpdateWrite
  <2>2. NoDto \in Dto /\ u \in Ids
    BY DEF NoDto, Dto, TypeOK
  <2> QED BY <2>1, <2>2, LateStart DEF Ops, InFlight, Answered
<1>7. ASSUME NEW r \in Reqs, UpdateRead(r) PROVE LateIsDead'
  BY <1>7, LateGoto DEF UpdateRead, LateIsDead, InFlight, Answered
<1>8. ASSUME NEW r \in Reqs, UpdateReply(r) PROVE LateIsDead'
  BY <1>8, LateGoto DEF UpdateReply, Await, LateIsDead, Answered
<1>9. ASSUME NEW r \in Reqs, NEW u \in known, Delete(r, u) PROVE LateIsDead'
  <2>1. /\ \E at \in {"ok", "failed"} : Start(r, "delete", at, u, NoDto)
        /\ NoDto \in Dto /\ u \in Ids
    BY <1>9 DEF Delete, NoDto, Dto, TypeOK
  <2> QED BY <2>1, LateStart DEF Ops, Answered
<1>10. ASSUME NEW r \in Reqs, NEW u \in known,
              NEW op \in {"find", "validate", "refresh"}, Lookup(r, op, u)
       PROVE  LateIsDead'
  <2>1. \E at \in {"begun", "refused"} : Start(r, op, at, u, NoDto)
    BY <1>10 DEF Lookup
  <2>2. NoDto \in Dto /\ u \in Ids
    BY DEF NoDto, Dto, TypeOK
  <2> QED BY <2>1, <2>2, LateStart DEF Ops, InFlight, Answered
<1>11. ASSUME NEW r \in Reqs, LookupReply(r) PROVE LateIsDead'
  <2>1. PICK to \in {"ok", "failed", "refused"} :
           Goto(r, to) /\ (to = "ok" => Exists(call[r].id))
    BY <1>11 DEF LookupReply
  <2> QED BY <2>1, LateGoto DEF LateIsDead, Answered
<1>12. CASE Crash
  <2>1. \A r \in Reqs :
          /\ call'[r].late = call[r].late /\ call'[r].op = call[r].op
          /\ call'[r].id = call[r].id /\ call'[r].at \in {call[r].at, "dead"}
    <3> SUFFICES ASSUME NEW r \in Reqs
                 PROVE  /\ call'[r].late = call[r].late /\ call'[r].op = call[r].op
                        /\ call'[r].id = call[r].id /\ call'[r].at \in {call[r].at, "dead"}
      OBVIOUS
    <3>1. call[r] \in Call /\ call'[r] \in {call[r], [call[r] EXCEPT !.at = "dead"]}
      BY <1>12 DEF Crash, TypeOK
    <3> QED BY <3>1 DEF Call
  <2> QED BY <1>0, <2>1 DEF LateIsDead, Exists
<1>14. ASSUME NEW r \in Reqs, DatabaseFails(r) PROVE LateIsDead'
  <2>1. \E to \in {"failed", "refused"} : Goto(r, to)
    BY <1>14 DEF DatabaseFails
  <2> QED BY <2>1, LateGoto DEF Answered
<1>13. CASE UNCHANGED << rows, used, call >>
  BY <1>13 DEF LateIsDead, Exists
<1> QED
  BY <1>1, <1>2, <1>3, <1>4, <1>5, <1>6, <1>7, <1>8, <1>9, <1>10, <1>11, <1>12, <1>13,
     <1>14
     DEF Next, vars, Dispatch, EmitFails

\* Whatever updates, logins and crashes surround a deletion, no request that arrives
\* after it is answered for the user: no update revives the row (UserService.update,
\* whose UPDATE affects nothing) and no token outlives it (AuthService.validateToken,
\* refreshToken).
THEOREM DeletedForGoodCorrect == Spec => []DeletedForGood
<1>1. Init => LateIsDead
  BY DEF Init, LateIsDead
<1>2. LateIsDead => DeletedForGood
  BY DEF LateIsDead, DeletedForGood
<1> QED BY <1>1, <1>2, LateStep, TypeInvCorrect, PTL DEF Spec
=============================================================================
