--------------------------- MODULE SubscriberProofs ---------------------------
(***************************************************************************)
(* Proof that the events of UserAccounts are worth something: a subscriber *)
(* that applies them in order has the rows of the users that exist.        *)
(***************************************************************************)
EXTENDS UserAccountsProofs

Fields == {"email", "name"}

\* The event e sets the field f of u.
Sets(e, u, f) == e.id = u /\ e.dto[f] # None

\* x is what a subscriber that has row for u will have in its field f after the
\* events q: what the last of them that sets the field says, else what is there.
LastWord(q, row, u, f, x) ==
  \/ \E i \in 1..Len(q) :
       /\ Sets(q[i], u, f) /\ q[i].dto[f] = x
       /\ \A j \in 1..Len(q) : j > i => ~Sets(q[j], u, f)
  \/ /\ \A j \in 1..Len(q) : ~Sets(q[j], u, f)
     /\ row # None /\ row[f] = x

\* The first event of q about u is the one that creates it.
Introduced(q, u) ==
  \E i \in 1..Len(q) :
    /\ q[i].id = u /\ q[i].kind = "created"
    /\ \A j \in 1..Len(q) : j < i => q[j].id # u

Unmentioned(q, u) == \A i \in 1..Len(q) : q[i].id # u

\* A subscriber without u has its creation still to come, from the registration
\* itself or in the outbox, and before anything else about it.
Announced(u) ==
  view[u] = None =>
    \/ (\E r \in Writers(u) : call[r].op = "register") /\ Unmentioned(outbox, u)
    \/ Introduced(outbox, u)

\* The field f of u in the table is what the request that is writing u sets, or else
\* what the events leave the subscriber with.
FieldAgrees(u, f) ==
  \/ \E r \in Writers(u) : call[r].dto[f] # None /\ call[r].dto[f] = rows[u][f]
  \/ /\ \A r \in Writers(u) : call[r].dto[f] = None
     /\ LastWord(outbox, view[u], u, f, rows[u][f])

OneWriter(u) == \A r, s \in Writers(u) : r = s

Agrees(u) == OneWriter(u) /\ Announced(u) /\ \A f \in Fields : FieldAgrees(u, f)

\* Events are about users that have been there.
EventsUsed == \A i \in 1..Len(outbox) : outbox[i].id \in used

Agreement ==
  /\ EventsUsed
  /\ \A u \in Ids : Exists(u) /\ u \notin disturbed => Agrees(u)

SubscriberInv == TypeInv /\ Agreement

-----------------------------------------------------------------------------
(* Rows and fields.                                                        *)

\* A row leaves out no field, and its fields say which row it is.
LEMMA RowFields ==
  /\ \A row \in Row, f \in Fields : row[f] # None
  /\ \A a, b \in Row : (\A f \in Fields : a[f] = b[f]) => a = b
<1>1. \A row \in Row, f \in Fields : row[f] # None
  BY UserAccountsAssumption DEF Row, Fields
<1>2. ASSUME NEW a \in Row, NEW b \in Row, \A f \in Fields : a[f] = b[f] PROVE a = b
  <2>1. a.email = b.email /\ a.name = b.name
    BY <1>2 DEF Fields
  <2> QED BY <2>1 DEF Row
<1> QED BY <1>1, <1>2

\* Patching replaces the fields that the dto has.
LEMMA PatchField ==
  ASSUME NEW row \in Row, NEW dto \in Dto, NEW f \in Fields
  PROVE  Patch(row, dto)[f] = IF dto[f] = None THEN row[f] ELSE dto[f]
BY DEF Patch, Fields

\* What an event makes of the row that a subscriber has for u.
AppliedRow(row, e, u) ==
  IF e.id # u THEN row
  ELSE IF e.kind = "created" THEN e.dto
  ELSE IF row = None THEN None ELSE Patch(row, e.dto)

LEMMA AppliedIsRow ==
  ASSUME NEW v \in [Ids -> Row \cup {None}], NEW e \in Event, NEW u \in Ids
  PROVE  Applied(v, e)[u] = AppliedRow(v[u], e, u)
BY DEF Applied, AppliedRow, Event

-----------------------------------------------------------------------------
(* What an outbox says.                                                    *)

\* An event that sets the field has the last word, one that does not leaves it.
LEMMA AppendWord ==
  ASSUME NEW q \in Seq(Event), NEW e \in Event, NEW row, NEW u, NEW f, NEW x
  PROVE  /\ Sets(e, u, f) /\ e.dto[f] = x => LastWord(Append(q, e), row, u, f, x)
         /\ ~Sets(e, u, f) /\ LastWord(q, row, u, f, x) => LastWord(Append(q, e), row, u, f, x)
<1> DEFINE p == Append(q, e)
<1>1. Len(q) \in Nat /\ Len(p) = Len(q) + 1
  OBVIOUS
<1>2. p[Len(q) + 1] = e /\ \A i \in 1..Len(q) : p[i] = q[i]
  OBVIOUS
<1> HIDE DEF p
<1>3. \A i \in 1..Len(p) : i \in 1..Len(q) \/ i = Len(q) + 1
  BY <1>1
<1>4. ASSUME Sets(e, u, f), e.dto[f] = x PROVE LastWord(p, row, u, f, x)
  <2>1. Len(q) + 1 \in 1..Len(p) /\ \A j \in 1..Len(p) : ~(j > Len(q) + 1)
    BY <1>1
  <2> QED BY <1>2, <1>4, <2>1 DEF LastWord
<1>5. ASSUME ~Sets(e, u, f), LastWord(q, row, u, f, x) PROVE LastWord(p, row, u, f, x)
  <2>1. ASSUME NEW i \in 1..Len(q), Sets(q[i], u, f), q[i].dto[f] = x,
               \A j \in 1..Len(q) : j > i => ~Sets(q[j], u, f)
        PROVE  LastWord(p, row, u, f, x)
    <3>1. i \in 1..Len(p) /\ p[i] = q[i]
      BY <1>1, <1>2
    <3>2. \A j \in 1..Len(p) : j > i => ~Sets(p[j], u, f)
      BY <1>2, <1>3, <1>5, <2>1
    <3> QED BY <2>1, <3>1, <3>2 DEF LastWord
  <2>2. ASSUME \A j \in 1..Len(q) : ~Sets(q[j], u, f), row # None, row[f] = x
        PROVE  LastWord(p, row, u, f, x)
    <3>1. \A j \in 1..Len(p) : ~Sets(p[j], u, f)
      BY <1>2, <1>3, <1>5, <2>2
    <3> QED BY <2>2, <3>1 DEF LastWord
  <2> QED BY <1>5, <2>1, <2>2 DEF LastWord
<1> QED BY <1>4, <1>5 DEF p

\* Events at the end do not change which event about u is the first.
LEMMA AppendIntroduced ==
  ASSUME NEW q \in Seq(Event), NEW e \in Event, NEW u
  PROVE  /\ Introduced(q, u) => Introduced(Append(q, e), u)
         /\ Unmentioned(q, u) /\ e.id = u /\ e.kind = "created" => Introduced(Append(q, e), u)
         /\ Unmentioned(q, u) /\ e.id # u => Unmentioned(Append(q, e), u)
<1> DEFINE p == Append(q, e)
<1>1. Len(q) \in Nat /\ Len(p) = Len(q) + 1
  OBVIOUS
<1>2. p[Len(q) + 1] = e /\ \A i \in 1..Len(q) : p[i] = q[i]
  OBVIOUS
<1> HIDE DEF p
<1>3. \A i \in 1..Len(p) : i \in 1..Len(q) \/ i = Len(q) + 1
  BY <1>1
<1>4. ASSUME Introduced(q, u) PROVE Introduced(p, u)
  <2>1. PICK i \in 1..Len(q) : /\ q[i].id = u /\ q[i].kind = "created"
                               /\ \A j \in 1..Len(q) : j < i => q[j].id # u
    BY <1>4 DEF Introduced
  <2>2. i \in 1..Len(p) /\ \A j \in 1..Len(p) : j < i => j \in 1..Len(q)
    BY <1>1, <1>3
  <2> QED BY <1>2, <2>1, <2>2 DEF Introduced
<1>5. ASSUME Unmentioned(q, u), e.id = u, e.kind = "created" PROVE Introduced(p, u)
  <2>1. Len(q) + 1 \in 1..Len(p) /\ \A j \in 1..Len(p) : j < Len(q) + 1 => j \in 1..Len(q)
    BY <1>1
  <2> QED BY <1>2, <1>5, <2>1 DEF Introduced, Unmentioned
<1>6. ASSUME Unmentioned(q, u), e.id # u PROVE Unmentioned(p, u)
  BY <1>2, <1>3, <1>6 DEF Unmentioned
<1> QED BY <1>4, <1>5, <1>6 DEF p

\* The indices of a tail.
LEMMA TailIndices ==
  ASSUME NEW q \in Seq(Event), q # << >>
  PROVE  /\ 1 \in 1..Len(q) /\ q[1] = Head(q)
         /\ \A i \in 1..Len(Tail(q)) : i + 1 \in 1..Len(q) /\ Tail(q)[i] = q[i + 1]
         /\ \A i \in 1..Len(q) : i # 1 => i - 1 \in 1..Len(Tail(q)) /\ Tail(q)[i - 1] = q[i]
<1>1. Len(q) \in Nat \ {0} /\ q[1] = Head(q) /\ Len(Tail(q)) = Len(q) - 1
  OBVIOUS
<1>2. \A i \in 1..Len(Tail(q)) : Tail(q)[i] = q[i + 1]
  OBVIOUS
<1>3. \A i \in 1..Len(q) : i # 1 => i - 1 \in 1..Len(Tail(q)) /\ (i - 1) + 1 = i
  BY <1>1
<1>4. \A i \in 1..Len(Tail(q)) : i + 1 \in 1..Len(q)
  BY <1>1
<1>5. \A i \in 1..Len(q) : i # 1 => Tail(q)[i - 1] = q[i]
  BY <1>2, <1>3
<1>6. 1 \in 1..Len(q)
  BY <1>1
<1> QED BY <1>1, <1>2, <1>3, <1>4, <1>5, <1>6

\* Applying the first event leaves what the events say as a whole.
LEMMA TailWord ==
  ASSUME NEW q \in Seq(Event), q # << >>, NEW row \in Row \cup {None}, NEW u \in Ids,
         NEW f \in Fields, NEW x, LastWord(q, row, u, f, x),
         row = None /\ Head(q).id = u => Head(q).kind = "created",
         Head(q).kind = "created" => Head(q).dto \in Row
  PROVE  LastWord(Tail(q), AppliedRow(row, Head(q), u), u, f, x)
<1> DEFINE e == Head(q)
           p == Tail(q)
<1>1. /\ 1 \in 1..Len(q) /\ q[1] = e
      /\ \A i \in 1..Len(p) : i + 1 \in 1..Len(q) /\ p[i] = q[i + 1]
      /\ \A i \in 1..Len(q) : i # 1 => i - 1 \in 1..Len(p) /\ p[i - 1] = q[i]
  BY TailIndices
<1>2. e \in Event /\ Len(p) \in Nat /\ Len(q) \in Nat
  OBVIOUS
<1> HIDE DEF e, p
<1>3. e.dto \in Dto
  BY <1>2 DEF Event
<1>4. CASE \E i \in 1..Len(q) : /\ Sets(q[i], u, f) /\ q[i].dto[f] = x
                                /\ \A j \in 1..Len(q) : j > i => ~Sets(q[j], u, f)
  <2>1. PICK i \in 1..Len(q) : /\ Sets(q[i], u, f) /\ q[i].dto[f] = x
                               /\ \A j \in 1..Len(q) : j > i => ~Sets(q[j], u, f)
    BY <1>4
  <2>2. CASE i = 1
    <3>1. \A j \in 1..Len(p) : ~Sets(p[j], u, f)
      <4> SUFFICES ASSUME NEW j \in 1..Len(p) PROVE ~Sets(q[j + 1], u, f)
        BY <1>1
      <4>1. j + 1 > 1 /\ j + 1 \in 1..Len(q)
        BY <1>1
      <4> QED BY <2>1, <2>2, <4>1
    <3>2. e.id = u /\ e.dto[f] # None /\ e.dto[f] = x
      BY <1>1, <2>1, <2>2 DEF Sets
    <3>3. CASE e.kind = "created"
      <4>1. e.dto # None
        BY <3>3, NoneAssumption DEF e
      <4> QED BY <3>1, <3>2, <3>3, <4>1 DEF LastWord, AppliedRow, e, p
    <3>4. CASE e.kind # "created"
      <4>1. row \in Row
        BY <3>2, <3>4 DEF e
      <4>2. row # None
        BY <4>1, NoneAssumption
      <4>3. Patch(row, e.dto)[f] = x /\ Patch(row, e.dto) # None
        BY <1>3, <3>2, <4>1, PatchField, PatchTyped, NoneAssumption
      <4> QED BY <3>1, <3>2, <3>4, <4>2, <4>3 DEF LastWord, AppliedRow, e, p
    <3> QED BY <3>3, <3>4
  <2>3. CASE i # 1
    <3>1. i - 1 \in 1..Len(p) /\ p[i - 1] = q[i]
      BY <1>1, <2>3
    <3>2. \A j \in 1..Len(p) : j > i - 1 => ~Sets(p[j], u, f)
      <4> SUFFICES ASSUME NEW j \in 1..Len(p), j > i - 1 PROVE ~Sets(q[j + 1], u, f)
        BY <1>1
      <4>1. j + 1 > i /\ j + 1 \in 1..Len(q)
        BY <1>1
      <4> QED BY <2>1, <4>1
    <3> QED BY <2>1, <3>1, <3>2 DEF LastWord, p
  <2> QED BY <2>2, <2>3
<1>5. CASE (\A j \in 1..Len(q) : ~Sets(q[j], u, f)) /\ row # None /\ row[f] = x
  <2>1. \A j \in 1..Len(p) : ~Sets(p[j], u, f)
    BY <1>1, <1>5
  <2>2. CASE e.id # u
    BY <1>5, <2>1, <2>2 DEF LastWord, AppliedRow, e, p
  <2>3. CASE e.id = u
    <3>1. e.dto[f] = None
      BY <1>1, <1>5, <2>3 DEF Sets
    <3>2. e.kind # "created"
      BY <3>1, RowFields DEF e
    <3>3. row \in Row
      BY <1>5
    <3>4. Patch(row, e.dto)[f] = x /\ Patch(row, e.dto) # None
      BY <1>3, <1>5, <3>1, <3>3, PatchField, PatchTyped, NoneAssumption
    <3> QED BY <1>5, <2>1, <2>3, <3>2, <3>4 DEF LastWord, AppliedRow, e, p
  <2> QED BY <2>2, <2>3
<1> QED BY <1>4, <1>5 DEF LastWord

\* The event that creates u is the first about u, until it is applied.
LEMMA TailIntroduced ==
  ASSUME NEW q \in Seq(Event), q # << >>, NEW u, Introduced(q, u)
  PROVE  /\ Head(q).id = u => Head(q).kind = "created"
         /\ Head(q).id # u => Introduced(Tail(q), u)
<1> DEFINE p == Tail(q)
<1>1. /\ 1 \in 1..Len(q) /\ q[1] = Head(q) /\ Len(q) \in Nat /\ Len(p) \in Nat
      /\ \A i \in 1..Len(p) : i + 1 \in 1..Len(q) /\ p[i] = q[i + 1]
      /\ \A i \in 1..Len(q) : i # 1 => i - 1 \in 1..Len(p) /\ p[i - 1] = q[i]
  BY TailIndices
<1> HIDE DEF p
<1>2. PICK i \in 1..Len(q) : /\ q[i].id = u /\ q[i].kind = "created"
                             /\ \A j \in 1..Len(q) : j < i => q[j].id # u
  BY DEF Introduced
<1>3. ASSUME Head(q).id = u PROVE i = 1
  BY <1>1, <1>2, <1>3
<1>4. ASSUME Head(q).id # u PROVE Introduced(p, u)
  <2>1. i - 1 \in 1..Len(p) /\ p[i - 1] = q[i]
    BY <1>1, <1>2, <1>4
  <2>2. \A j \in 1..Len(p) : j < i - 1 => p[j].id # u
    <3> SUFFICES ASSUME NEW j \in 1..Len(p), j < i - 1 PROVE q[j + 1].id # u
      BY <1>1
    <3>1. j + 1 < i /\ j + 1 \in 1..Len(q)
      BY <1>1
    <3> QED BY <1>2, <3>1
  <2> QED BY <1>2, <2>1, <2>2 DEF Introduced
<1> QED BY <1>1, <1>2, <1>3, <1>4 DEF p

LEMMA TailUnmentioned ==
  ASSUME NEW q \in Seq(Event), q # << >>, NEW u, Unmentioned(q, u)
  PROVE  Head(q).id # u /\ Unmentioned(Tail(q), u)
BY TailIndices DEF Unmentioned

-----------------------------------------------------------------------------
(* One user, one step.                                                     *)

\* A step of one request adds it to the writers of u, or takes it away.
LEMMA WritersAfter ==
  ASSUME NEW r \in Reqs, \A q \in Reqs : q # r => call'[q] = call[q], NEW u
  PROVE  Writers(u)' = IF call'[r].id = u /\ call'[r].at \in {"written", "read"}
                       THEN Writers(u) \cup {r} ELSE Writers(u) \ {r}
BY DEF Writers

\* A step that touches neither the row of u nor what is said of it.
LEMMA AgreesStays ==
  ASSUME NEW u, Agrees(u), rows'[u] = rows[u], view'[u] = view[u], UNCHANGED outbox,
         Writers(u)' = Writers(u),
         \A r \in Writers(u) : call'[r].op = call[r].op /\ call'[r].dto = call[r].dto
  PROVE  Agrees(u)'
<1>1. OneWriter(u)'
  BY DEF Agrees, OneWriter
<1>2. Announced(u)'
  BY DEF Agrees, Announced
<1>3. \A f \in Fields : FieldAgrees(u, f)'
  BY DEF Agrees, FieldAgrees
<1> QED BY <1>1, <1>2, <1>3 DEF Agrees, Fields

\* An INSERT: the registration is the only one that knows the user.
LEMMA AgreesInsert ==
  ASSUME TypeInv, EventsUsed, NEW r \in Reqs, RegisterInsert(r), NEW u \in Ids \ used,
         rows'[u] = call[r].dto,
         call' = [call EXCEPT ![r].at = "written", ![r].id = u]
  PROVE  Agrees(u)'
<1>1. /\ \A q \in Reqs : q # r => call'[q] = call[q]
      /\ call'[r].at = "written" /\ call'[r].id = u
      /\ call'[r].op = "register" /\ call'[r].dto = call[r].dto
  <2>1. call \in [Reqs -> Call] /\ call[r].op = "register"
    BY DEF TypeInv, TypeOK, RegisterInsert, Await
  <2> QED BY <2>1 DEF Call
<1>2. call[r].dto \in Row
  BY DEF TypeInv, CallsWellFormed, CallWellFormed, RegisterInsert, Await
<1>3. Writers(u) = {}
  BY DEF Writers, TypeInv, CallsWellFormed, CallWellFormed
<1>4. Writers(u)' = {r}
  BY <1>1, <1>3, WritersAfter
<1>5. UNCHANGED outbox /\ Unmentioned(outbox, u)
  BY DEF RegisterInsert, EventsUsed, Unmentioned
<1>6. OneWriter(u)'
  BY <1>4 DEF OneWriter
<1>7. Announced(u)'
  BY <1>1, <1>4, <1>5 DEF Announced
<1>8. \A f \in Fields : FieldAgrees(u, f)'
  BY <1>1, <1>2, <1>4, RowFields DEF FieldAgrees
<1> QED BY <1>6, <1>7, <1>8 DEF Agrees, Fields

\* An UPDATE while nobody else writes the user.
LEMMA AgreesWrite ==
  ASSUME TypeInv, NEW r \in Reqs, NEW u \in Ids, NEW dto \in Dto, Exists(u), Agrees(u),
         Writers(u) = {}, Start(r, "update", "written", u, dto),
         rows'[u] = Patch(rows[u], dto), UNCHANGED << outbox, view >>
  PROVE  Agrees(u)'
<1>1. /\ \A q \in Reqs : q # r => call'[q] = call[q]
      /\ call'[r].at = "written" /\ call'[r].id = u /\ call'[r].dto = dto
  <2> DEFINE gone == u \in used /\ ~Exists(u)
  <2>1. /\ \A q \in Reqs : q # r => call'[q] = call[q]
        /\ call'[r] = [op |-> "update", at |-> "written", id |-> u, dto |-> dto, late |-> gone]
    BY StartEffect DEF TypeInv, TypeOK, Ops, InFlight
  <2> HIDE DEF gone
  <2> QED BY <2>1
<1>2. Writers(u)' = {r}
  BY <1>1, WritersAfter
<1>3. OneWriter(u)'
  BY <1>2 DEF OneWriter
<1>4. Announced(u)'
  BY DEF Agrees, Announced
<1>5. ASSUME NEW f \in Fields PROVE FieldAgrees(u, f)'
  <2>1. rows[u] \in Row
    BY DEF TypeInv, TypeOK, Exists
  <2>2. rows'[u][f] = IF dto[f] = None THEN rows[u][f] ELSE dto[f]
    BY <2>1, PatchField
  <2>3. LastWord(outbox, view[u], u, f, rows[u][f])
    BY DEF Agrees, FieldAgrees
  <2> QED BY <1>1, <1>2, <2>2, <2>3 DEF FieldAgrees
<1> QED BY <1>3, <1>4, <1>5 DEF Agrees, Fields

\* A request that has written announces it and ends.
LEMMA AgreesEmit ==
  ASSUME TypeInv, NEW r \in Reqs, NEW kind \in {"created", "updated"}, NEW u \in Ids, Agrees(u),
         call[r].at \in {"written", "read"}, Goto(r, "ok"), call[r].id \in Ids,
         call[r].op = "register" => kind = "created",
         Emit(kind, call[r].id, call[r].dto), UNCHANGED << rows, view >>
  PROVE  Agrees(u)'
<1> DEFINE e == [kind |-> kind, id |-> call[r].id, dto |-> call[r].dto]
<1>1. e.kind = kind /\ e.id = call[r].id /\ e.dto = call[r].dto
  OBVIOUS
<1>2. outbox \in Seq(Event) /\ e \in Event /\ outbox' = Append(outbox, e)
  BY DEF TypeInv, TypeOK, Call, Emit, Event
<1> HIDE DEF e
<1>3. /\ \A q \in Reqs : q # r => call'[q] = call[q]
      /\ call'[r].at = "ok"
  BY GotoEffect DEF TypeInv, TypeOK, Answered
<1>4. Writers(u)' = Writers(u) \ {r}
  BY <1>3, WritersAfter
<1>5. \A s \in Writers(u)' : s # r /\ call'[s] = call[s]
  BY <1>3, <1>4 DEF Writers
<1>6. OneWriter(u)'
  BY <1>4 DEF Agrees, OneWriter
<1>7. CASE call[r].id = u
  <2>1. Writers(u) = {r} /\ Writers(u)' = {}
    <3>1. r \in Writers(u)
      BY <1>7 DEF Writers
    <3> QED BY <1>4, <3>1 DEF Agrees, OneWriter
  <2>2. Announced(u)'
    <3> SUFFICES ASSUME view[u] = None PROVE Introduced(outbox', u)
      BY DEF Announced
    <3>1. CASE Introduced(outbox, u)
      BY <1>2, <3>1, AppendIntroduced
    <3>2. CASE (\E s \in Writers(u) : call[s].op = "register") /\ Unmentioned(outbox, u)
      <4>1. e.kind = "created" /\ e.id = u
        BY <1>1, <1>7, <2>1, <3>2
      <4> QED BY <1>2, <3>2, <4>1, AppendIntroduced
    <3> QED BY <3>1, <3>2 DEF Agrees, Announced
  <2>3. ASSUME NEW f \in Fields PROVE FieldAgrees(u, f)'
    <3>1. FieldAgrees(u, f)
      BY DEF Agrees
    <3>2. LastWord(outbox', view[u], u, f, rows[u][f])
      <4>1. CASE call[r].dto[f] = None
        <5>1. ~Sets(e, u, f) /\ LastWord(outbox, view[u], u, f, rows[u][f])
          BY <1>1, <2>1, <3>1, <4>1 DEF FieldAgrees, Sets
        <5> QED BY <1>2, <5>1, AppendWord
      <4>2. CASE call[r].dto[f] # None
        <5>1. Sets(e, u, f) /\ e.dto[f] = rows[u][f]
          BY <1>1, <1>7, <2>1, <3>1, <4>2 DEF FieldAgrees, Sets
        <5> QED BY <1>2, <5>1, AppendWord
      <4> QED BY <4>1, <4>2
    <3> QED BY <2>1, <3>2 DEF FieldAgrees
  <2> QED BY <1>6, <2>2, <2>3 DEF Agrees, Fields
<1>8. CASE call[r].id # u
  <2>1. Writers(u)' = Writers(u)
    BY <1>4, <1>8 DEF Writers
  <2>2. Announced(u)'
    <3> SUFFICES ASSUME view[u] = None
                 PROVE  \/ (\E s \in Writers(u) : call[s].op = "register") /\ Unmentioned(outbox', u)
                        \/ Introduced(outbox', u)
      BY <1>5, <2>1 DEF Announced
    <3> QED BY <1>1, <1>2, <1>8, AppendIntroduced DEF Agrees, Announced
  <2>3. ASSUME NEW f \in Fields PROVE FieldAgrees(u, f)'
    <3>1. FieldAgrees(u, f) /\ ~Sets(e, u, f)
      BY <1>1, <1>8 DEF Agrees, Sets
    <3>2. LastWord(outbox, view[u], u, f, rows[u][f]) => LastWord(outbox', view[u], u, f, rows[u][f])
      BY <1>2, <3>1, AppendWord
    <3> QED BY <1>5, <2>1, <3>1, <3>2 DEF FieldAgrees
  <2> QED BY <1>6, <2>2, <2>3 DEF Agrees, Fields
<1> QED BY <1>7, <1>8

\* The first event leaves the outbox, and the subscriber applies it if it is about u.
LEMMA AgreesTail ==
  ASSUME TypeInv, NEW u \in Ids, Agrees(u), outbox # << >>, outbox' = Tail(outbox),
         view'[u] = AppliedRow(view[u], Head(outbox), u), UNCHANGED << rows, call >>
  PROVE  Agrees(u)'
<1> DEFINE e == Head(outbox)
<1>1. /\ outbox \in Seq(Event) /\ view[u] \in Row \cup {None}
      /\ e \in Event /\ (e.kind = "created" => e.dto \in Row)
  BY TailEffect DEF TypeInv, TypeOK
<1>2. Writers(u)' = Writers(u)
  BY DEF Writers
<1>3. view[u] = None /\ e.id = u => e.kind = "created"
  BY <1>1, TailIntroduced, TailUnmentioned DEF Agrees, Announced
<1>4. OneWriter(u)'
  BY <1>2 DEF Agrees, OneWriter
<1>5. Announced(u)'
  <2> SUFFICES ASSUME view'[u] = None
               PROVE  \/ (\E s \in Writers(u) : call[s].op = "register") /\ Unmentioned(outbox', u)
                      \/ Introduced(outbox', u)
    BY <1>2 DEF Announced
  <2>1. e.id # u /\ view[u] = None
    <3>1. e.dto \in Dto
      BY <1>1 DEF Event
    <3>2. view[u] \in Row => Patch(view[u], e.dto) \in Row
      BY <3>1, PatchTyped
    <3> QED BY <1>1, <1>3, <3>2, NoneAssumption DEF AppliedRow
  <2> QED BY <1>1, <2>1, TailIntroduced, TailUnmentioned DEF Agrees, Announced
<1>6. ASSUME NEW f \in Fields PROVE FieldAgrees(u, f)'
  <2>1. LastWord(outbox, view[u], u, f, rows[u][f]) => LastWord(outbox', view'[u], u, f, rows[u][f])
    BY <1>1, <1>3, TailWord
  <2>2. FieldAgrees(u, f)
    BY DEF Agrees
  <2> QED BY <1>2, <2>1, <2>2 DEF FieldAgrees
<1> QED BY <1>4, <1>5, <1>6 DEF Agrees, Fields

-----------------------------------------------------------------------------
(* Every step.                                                             *)

\* Events are emitted for users that have been there.
LEMMA EventsUsedStep == TypeInv /\ EventsUsed /\ [Next]_vars => EventsUsed'
<1> SUFFICES ASSUME TypeInv, EventsUsed, [Next]_vars PROVE EventsUsed'
  OBVIOUS
<1> USE DEF TypeInv
<1>1. used \subseteq used'
  BY StaysDead
<1>2. ASSUME NEW r \in Reqs, NEW kind \in {"created", "updated"},
             Emit(kind, call[r].id, call[r].dto), call[r].at \in {"written", "read"}
      PROVE  EventsUsed'
  <2> DEFINE e == [kind |-> kind, id |-> call[r].id, dto |-> call[r].dto]
  <2>1. call[r].id \in used /\ e.id = call[r].id
    BY <1>2 DEF CallsWellFormed, CallWellFormed
  <2>2. outbox \in Seq(Event) /\ e \in Event /\ outbox' = Append(outbox, e)
    BY <1>2, <2>1 DEF TypeOK, Call, Emit, Event
  <2> HIDE DEF e
  <2>3. \A i \in 1..Len(outbox') : outbox'[i] = e \/ (i \in 1..Len(outbox) /\ outbox'[i] = outbox[i])
    BY <2>2
  <2> QED BY <1>1, <2>1, <2>3 DEF EventsUsed
<1>3. ASSUME outbox # << >>, outbox' = Tail(outbox) PROVE EventsUsed'
  <2>1. outbox \in Seq(Event)
    BY DEF TypeOK
  <2> QED BY <1>1, <1>3, <2>1, TailIndices DEF EventsUsed
<1>4. ASSUME outbox' = << >> PROVE EventsUsed'
  BY <1>4 DEF EventsUsed
<1>5. ASSUME UNCHANGED outbox PROVE EventsUsed'
  BY <1>1, <1>5 DEF EventsUsed
<1> QED
  BY <1>2, <1>3, <1>4, <1>5
     DEF Next, vars, Await, RegisterFind, RegisterInsert, RegisterReply, LoginFind, LoginReply,
         UpdateWrite, UpdateRead, UpdateReply, Delete, Lookup, LookupReply, DatabaseFails,
         Dispatch, EmitFails, Crash

\* A request that arrives without writing u, or moves on without having written it, says
\* nothing of u.
LEMMA AgreesGoto ==
  ASSUME TypeInv, NEW r \in Reqs, NEW to \in InFlight \cup Answered, NEW u \in Ids, Agrees(u),
         Goto(r, to), rows'[u] = rows[u], UNCHANGED << outbox, view >>,
         call[r].id = u => (call[r].at \in {"written", "read"} <=> to \in {"written", "read"})
  PROVE  Agrees(u)'
<1>1. /\ \A q \in Reqs : q # r => call'[q] = call[q]
      /\ call'[r].at = to /\ call'[r].op = call[r].op
      /\ call'[r].id = call[r].id /\ call'[r].dto = call[r].dto
  BY GotoEffect DEF TypeInv, TypeOK
<1>2. Writers(u)' = Writers(u)
  BY <1>1, WritersAfter DEF Writers
<1>3. \A q \in Writers(u) : call'[q].op = call[q].op /\ call'[q].dto = call[q].dto
  BY <1>1 DEF Writers
<1> QED BY <1>2, <1>3, AgreesStays

LEMMA AgreesStart ==
  ASSUME TypeInv, NEW r \in Reqs, NEW op \in Ops, NEW at \in InFlight \cup Answered,
         NEW v \in Ids \cup {None}, NEW dto \in Dto, Start(r, op, at, v, dto),
         NEW u \in Ids, Agrees(u), rows'[u] = rows[u], UNCHANGED << outbox, view >>,
         v = u => at \notin {"written", "read"}
  PROVE  Agrees(u)'
<1> DEFINE gone == v \in used /\ ~Exists(v)
<1>1. /\ \A q \in Reqs : q # r => call'[q] = call[q]
      /\ call'[r] = [op |-> op, at |-> at, id |-> v, dto |-> dto, late |-> gone]
  BY StartEffect DEF TypeInv, TypeOK
<1> HIDE DEF gone
<1>2. call'[r].at = at /\ call'[r].id = v
  BY <1>1
<1>3. r \notin Writers(u)
  BY DEF Writers, Start
<1>4. Writers(u)' = Writers(u)
  <2>1. \A q \in Reqs : q # r => call'[q] = call[q]
    BY <1>1
  <2>2. Writers(u)' = Writers(u) \ {r}
    BY <1>2, <2>1, WritersAfter
  <2> QED BY <1>3, <2>2
<1>5. \A q \in Writers(u) : call'[q] = call[q]
  BY <1>1, <1>3 DEF Writers
<1> QED BY <1>4, <1>5, AgreesStays

LEMMA AgreementStep == SubscriberInv /\ [Next]_vars => Agreement'
<1> SUFFICES ASSUME TypeInv, Agreement, [Next]_vars PROVE Agreement'
  BY DEF SubscriberInv
<1>1. EventsUsed /\ EventsUsed'
  BY EventsUsedStep DEF Agreement
<1> SUFFICES ASSUME NEW u \in Ids, Exists(u)', u \notin disturbed' PROVE Agrees(u)'
  BY <1>1 DEF Agreement
<1>2. disturbed \subseteq disturbed'
  BY DEF Next, vars, RegisterFind, RegisterInsert, RegisterReply, LoginFind, LoginReply,
         UpdateWrite, UpdateRead, UpdateReply, Delete, Lookup, LookupReply, DatabaseFails,
         Dispatch, EmitFails, Crash
<1>3. Exists(u) => Agrees(u)
  BY <1>2 DEF Agreement
<1>4. rows'[u] # None /\ (UNCHANGED rows => Exists(u))
  BY DEF Exists
<1>5. rows \in [Ids -> Row \cup {None}] /\ known \subseteq Ids /\ NoDto \in Dto
  BY DEF TypeInv, TypeOK, NoDto, Dto
<1>6. ASSUME NEW r \in Reqs, NEW e \in Emails, NEW n \in Names, RegisterFind(r, e, n)
      PROVE  Agrees(u)'
  <2>1. {[email |-> e, name |-> n], NoDto} \subseteq Dto /\ None # u
    BY UserAccountsAssumption DEF Dto, NoDto
  <2>2. PICK at \in {"refused", "found", "failed"}, dto \in {[email |-> e, name |-> n], NoDto} :
          Start(r, "register", at, None, dto)
    BY <1>6 DEF RegisterFind
  <2>3. dto \in Dto
    BY <2>1, <2>2
  <2>4. UNCHANGED << rows, outbox, view >> /\ rows'[u] = rows[u] /\ Agrees(u)
    BY <1>3, <1>4, <1>6 DEF RegisterFind
  <2>5. "register" \in Ops /\ at \in InFlight \cup Answered /\ at \notin {"written", "read"}
    BY DEF Ops, InFlight, Answered
  <2> QED BY <2>1, <2>2, <2>3, <2>4, <2>5, AgreesStart
<1>7. ASSUME NEW r \in Reqs, RegisterInsert(r) PROVE Agrees(u)'
  <2>1. UNCHANGED << outbox, view >> /\ call[r].at = "found" /\ call[r].op = "register"
    BY <1>7 DEF RegisterInsert, Await
  <2>2. CASE Goto(r, "failed") /\ UNCHANGED << rows, used >>
    BY <1>3, <1>4, <2>1, <2>2, AgreesGoto DEF Answered
  <2>3. ASSUME NEW v \in Ids \ used, rows' = [rows EXCEPT ![v] = call[r].dto],
               call' = [call EXCEPT ![r].at = "written", ![r].id = v]
        PROVE  Agrees(u)'
    <3>1. CASE v = u
      <4>1. rows'[u] = call[r].dto
        BY <1>5, <2>3, <3>1
      <4> QED BY <1>1, <1>7, <2>3, <3>1, <4>1, AgreesInsert
    <3>2. CASE v # u
      <4>1. rows'[u] = rows[u]
        BY <1>5, <2>3, <3>2
      <4>2. \A q \in Reqs : q # r => call'[q] = call[q]
        BY <2>3 DEF TypeInv, TypeOK
      <4>3. call'[r].id = v
        BY <2>3 DEF TypeInv, TypeOK, Call
      <4>4. r \notin Writers(u)
        BY <2>1 DEF Writers
      <4>5. Writers(u)' = Writers(u)
        BY <3>2, <4>2, <4>3, <4>4, WritersAfter
      <4>6. \A q \in Writers(u) : call'[q] = call[q]
        BY <4>2, <4>4 DEF Writers
      <4> QED BY <1>3, <1>4, <2>1, <4>1, <4>5, <4>6, AgreesStays DEF Exists
    <3> QED BY <3>1, <3>2
  <2> QED BY <1>7, <2>2, <2>3 DEF RegisterInsert
<1>8. ASSUME NEW r \in Reqs, RegisterReply(r) PROVE Agrees(u)'
  <2>1. /\ call[r].at = "written" /\ Goto(r, "ok") /\ Emit("created", call[r].id, call[r].dto)
        /\ UNCHANGED << rows, view >>
    BY <1>8 DEF RegisterReply, Await
  <2>2. call[r].id \in Ids
    BY <2>1 DEF TypeInv, TypeOK, CallsWellFormed, CallWellFormed
  <2> QED BY <1>3, <1>4, <2>1, <2>2, AgreesEmit
<1>9. ASSUME NEW r \in Reqs, NEW e \in Emails, LoginFind(r, e) PROVE Agrees(u)'
  <2>1. UNCHANGED << rows, outbox, view >>
    BY <1>9 DEF LoginFind
  <2>2. CASE \E v \in WithEmail(e) : Start(r, "login", "found", v, NoDto)
    BY <1>3, <1>4, <1>5, <2>1, <2>2, AgreesStart DEF WithEmail, Ops, InFlight
  <2>3. CASE \E at \in {"refused", "failed"} : Start(r, "login", at, None, NoDto)
    BY <1>3, <1>4, <1>5, <2>1, <2>3, AgreesStart DEF Ops, Answered
  <2> QED BY <1>9, <2>2, <2>3 DEF LoginFind
<1>10. ASSUME NEW r \in Reqs, LoginReply(r) PROVE Agrees(u)'
  <2>1. PICK to \in {"ok", "refused"} : Goto(r, to)
    BY <1>10 DEF LoginReply
  <2>2. UNCHANGED << rows, outbox, view >> /\ call[r].at = "found"
    BY <1>10 DEF LoginReply, Await
  <2> QED BY <1>3, <1>4, <2>1, <2>2, AgreesGoto DEF Answered
<1>11. ASSUME NEW r \in Reqs, NEW v \in known, NEW dto \in Dto, UpdateWrite(r, v, dto)
       PROVE  Agrees(u)'
  <2>1. UNCHANGED << outbox, view >> /\ v \in Ids
    BY <1>5, <1>11 DEF UpdateWrite
  <2>2. CASE Start(r, "update", "failed", v, NoDto) /\ UNCHANGED rows
    BY <1>3, <1>4, <1>5, <2>1, <2>2, AgreesStart DEF Ops, Answered
  <2>3. CASE ~Exists(v) /\ Start(r, "update", "written", v, dto) /\ UNCHANGED rows
    <3>1. v # u
      BY <1>4, <2>3
    <3> QED BY <1>3, <1>4, <2>1, <2>3, <3>1, AgreesStart DEF Ops, InFlight
  <2>4. CASE /\ Exists(v) /\ Start(r, "update", "written", v, dto)
             /\ rows' = [rows EXCEPT ![v] = Patch(rows[v], dto)]
             /\ disturbed' = IF Writers(v) # {} THEN disturbed \cup {v} ELSE disturbed
    <3>1. CASE v = u
      <4>1. rows'[u] = Patch(rows[u], dto) /\ Writers(u) = {}
        BY <1>5, <2>4, <3>1
      <4> QED BY <1>3, <2>1, <2>4, <3>1, <4>1, AgreesWrite
    <3>2. CASE v # u
      <4>1. rows'[u] = rows[u] /\ Exists(u)
        BY <1>4, <1>5, <2>4, <3>2 DEF Exists
      <4> QED BY <1>3, <2>1, <2>4, <3>2, <4>1, AgreesStart DEF Ops, InFlight
    <3> QED BY <3>1, <3>2
  <2> QED BY <1>11, <2>2, <2>3, <2>4 DEF UpdateWrite
<1>12. ASSUME NEW r \in Reqs, UpdateRead(r) PROVE Agrees(u)'
  <2>1. /\ UNCHANGED << rows, outbox, view >> /\ call[r].at = "written"
        /\ Goto(r, IF Exists(call[r].id) THEN "read" ELSE "failed")
    BY <1>12 DEF UpdateRead, Await
  <2>2. CASE Exists(call[r].id)
    BY <1>3, <1>4, <2>1, <2>2, AgreesGoto DEF InFlight
  <2>3. CASE ~Exists(call[r].id)
    BY <1>3, <1>4, <2>1, <2>3, AgreesGoto DEF Answered
  <2> QED BY <2>2, <2>3
<1>13. ASSUME NEW r \in Reqs, UpdateReply(r) PROVE Agrees(u)'
  <2>1. /\ call[r].at = "read" /\ call[r].op = "update" /\ Goto(r, "ok")
        /\ Emit("updated", call[r].id, call[r].dto) /\ UNCHANGED << rows, view >>
    BY <1>13 DEF UpdateReply, Await
  <2>2. call[r].id \in Ids
    BY <2>1 DEF TypeInv, TypeOK, CallsWellFormed, CallWellFormed
  <2> QED BY <1>3, <1>4, <2>1, <2>2, AgreesEmit
<1>14. ASSUME NEW r \in Reqs, NEW v \in known, Delete(r, v) PROVE Agrees(u)'
  <2>1. /\ \E at \in {"ok", "failed"} : Start(r, "delete", at, v, NoDto)
        /\ rows' = [rows EXCEPT ![v] = None] \/ rows' = rows
        /\ UNCHANGED << outbox, view >> /\ v \in Ids
    BY <1>5, <1>14 DEF Delete
  <2>2. rows'[u] = rows[u] /\ Exists(u)
    BY <1>4, <1>5, <2>1 DEF Exists
  <2> QED BY <1>3, <1>5, <2>1, <2>2, AgreesStart DEF Ops, Answered
<1>15. ASSUME NEW r \in Reqs, NEW v \in known, NEW op \in {"find", "validate", "refresh"},
              Lookup(r, op, v)
       PROVE  Agrees(u)'
  <2>1. PICK at \in {"begun", "refused"} : Start(r, op, at, v, NoDto)
    BY <1>15 DEF Lookup
  <2>2. UNCHANGED << rows, outbox, view >> /\ v \in Ids
    BY <1>5, <1>15 DEF Lookup
  <2> QED BY <1>3, <1>4, <1>5, <2>1, <2>2, AgreesStart DEF Ops, InFlight, Answered
<1>16. ASSUME NEW r \in Reqs, LookupReply(r) PROVE Agrees(u)'
  <2>1. PICK to \in {"ok", "failed", "refused"} : Goto(r, to)
    BY <1>16 DEF LookupReply
  <2>2. UNCHANGED << rows, outbox, view >> /\ call[r].at = "begun"
    BY <1>16 DEF LookupReply
  <2> QED BY <1>3, <1>4, <2>1, <2>2, AgreesGoto DEF Answered
<1>17. CASE Dispatch
  <2>1. /\ outbox # << >> /\ outbox' = Tail(outbox) /\ UNCHANGED << rows, call >>
        /\ view' = Applied(view, Head(outbox))
    BY <1>17 DEF Dispatch
  <2>2. view \in [Ids -> Row \cup {None}] /\ Head(outbox) \in Event
    BY <2>1, TailEffect DEF TypeInv, TypeOK
  <2>3. view'[u] = AppliedRow(view[u], Head(outbox), u)
    BY <2>1, <2>2, AppliedIsRow
  <2> QED BY <1>3, <1>4, <2>1, <2>3, AgreesTail
<1>18. CASE EmitFails
  <2>1. /\ outbox # << >> /\ outbox' = Tail(outbox) /\ UNCHANGED << rows, call, view >>
        /\ Head(outbox).id # u
    BY <1>18 DEF EmitFails
  <2>2. view'[u] = AppliedRow(view[u], Head(outbox), u)
    BY <2>1 DEF AppliedRow
  <2> QED BY <1>3, <1>4, <2>1, <2>2, AgreesTail
<1>19. CASE Crash
  <2>1. /\ Writers(u) = {} /\ Unmentioned(outbox, u) /\ outbox' = << >>
        /\ UNCHANGED << rows, view >>
    BY <1>19 DEF Crash, Unmentioned
  <2>2. Writers(u)' = {}
    <3> SUFFICES ASSUME NEW r \in Reqs PROVE call'[r].at \notin {"written", "read"}
      BY DEF Writers
    <3>1. call[r] \in Call
      BY DEF TypeInv, TypeOK
    <3> QED BY <1>19, <3>1 DEF Crash, Call, InFlight
  <2>3. view[u] # None /\ \A f \in Fields : view[u][f] = rows[u][f]
    <3>1. Agrees(u)
      BY <1>3, <1>4, <2>1
    <3>2. view[u] # None
      BY <2>1, <3>1 DEF Agrees, Announced, Introduced, Unmentioned
    <3> QED BY <2>1, <3>1, <3>2 DEF Agrees, FieldAgrees, LastWord, Sets, Unmentioned
  <2>4. OneWriter(u)' /\ Announced(u)'
    BY <2>1, <2>2, <2>3 DEF OneWriter, Announced
  <2>5. \A f \in Fields : FieldAgrees(u, f)'
    BY <2>1, <2>2, <2>3 DEF FieldAgrees, LastWord
  <2> QED BY <2>4, <2>5 DEF Agrees, Fields
<1>21. ASSUME NEW r \in Reqs, DatabaseFails(r) PROVE Agrees(u)'
  <2>1. /\ UNCHANGED << rows, outbox, view >> /\ call[r].at # "read"
        /\ disturbed' = IF call[r].at = "written" THEN disturbed \cup {call[r].id} ELSE disturbed
    BY <1>21 DEF DatabaseFails
  <2>2. PICK to \in {"failed", "refused"} : Goto(r, to)
    BY <1>21 DEF DatabaseFails
  <2>3. call[r].id = u => call[r].at \notin {"written", "read"}
    BY <2>1
  <2> QED BY <1>3, <1>4, <2>1, <2>2, <2>3, AgreesGoto DEF Answered
<1>20. CASE UNCHANGED vars
  BY <1>3, <1>4, <1>20, AgreesStays DEF vars, Writers
<1> QED
  BY <1>6, <1>7, <1>8, <1>9, <1>10, <1>11, <1>12, <1>13, <1>14, <1>15, <1>16, <1>17, <1>18,
     <1>19, <1>20, <1>21 DEF Next

\* Once the events about an existing user are through, the subscriber has its row, unless
\* its writers overlapped, crashed or failed after writing, or an event was lost: each
\* field is what the last request that set it announced, and its creation came first
\* (UserService.update and AuthService.register, which emit after they have written, and
\* emit the dto, not the row).
THEOREM SubscriberAgreesCorrect == Spec => []SubscriberAgrees
<1>1. Init => Agreement
  BY DEF Init, Agreement, EventsUsed, Exists
<1>2. SubscriberInv => SubscriberAgrees
  <2> SUFFICES ASSUME TypeInv, Agreement, NEW u \in Ids, Exists(u), u \notin disturbed, Quiet(u)
               PROVE  view[u] = rows[u]
    BY DEF SubscriberInv, SubscriberAgrees
  <2>1. Agrees(u) /\ Writers(u) = {} /\ Unmentioned(outbox, u)
    BY DEF Agreement, Quiet, Unmentioned
  <2>2. view[u] # None
    BY <2>1 DEF Agrees, Announced, Introduced, Unmentioned
  <2>3. \A f \in Fields : view[u][f] = rows[u][f]
    BY <2>1, <2>2 DEF Agrees, FieldAgrees, LastWord, Sets, Unmentioned
  <2>4. view[u] \in Row /\ rows[u] \in Row
    BY <2>2 DEF TypeInv, TypeOK, Exists
  <2> QED BY <2>3, <2>4, RowFields
<1> QED BY <1>1, <1>2, AgreementStep, TypeInvCorrect, PTL DEF Spec, SubscriberInv

=============================================================================
