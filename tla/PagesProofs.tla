----------------------------- MODULE PagesProofs -----------------------------
(***************************************************************************)
(* Proofs about what visitors and accounts meet at the web server, for any *)
(* number of accounts, administrators, versions, rows and requests: the    *)
(* queue of data-subject requests (Requests), the releases of the legal    *)
(* texts with their acknowledgements (Terms), favourites (Favourites), the *)
(* tabs of a browser (Browser), a request through the layers of the server *)
(* (Web) and the rate limiter (Limiter).                                   *)
(***************************************************************************)
EXTENDS Requests, Terms, Favourites, Browser, Web, Limiter, SequenceTheorems,
        FiniteSetTheorems, WellFoundedInduction, TLAPS

(***************************************************************************)
(* Requests.                                                               *)
(***************************************************************************)

NewRow(u, kind) ==
  [who |-> u, kind |-> kind, state |-> "OPEN", by |-> NoName,
   asker |-> u, closer |-> "nobody", late |-> Gone(u)]

\* The queue is a sequence of rows.
LEMMA QueueFacts ==
  ASSUME RequestsTypeOK
  PROVE  /\ request \in Seq(RequestRow) /\ Len(request) \in Nat
         /\ DOMAIN request = 1..Len(request)
         /\ \A i \in DOMAIN request : request[i] \in RequestRow
<1>1. request \in Seq(RequestRow) BY DEF RequestsTypeOK
<1>2. Len(request) \in Nat /\ DOMAIN request = 1..Len(request) BY <1>1, LenProperties
<1> QED BY <1>1, <1>2, ElementOfSeq

\* What a new row leaves of the queue: everything, and one open row more.
LEMMA RowAdded ==
  ASSUME RequestsTypeOK, NEW u \in Subjects, NEW kind \in RequestKinds,
         Len(request) < MaxRequests, request' = Opened(u, kind)
  PROVE  /\ request' \in Seq(RequestRow) /\ Len(request') <= MaxRequests
         /\ DOMAIN request' = 1..(Len(request) + 1)
         /\ \A i \in DOMAIN request : i \in DOMAIN request' /\ request'[i] = request[i]
         /\ \A i \in DOMAIN request' : i \in DOMAIN request \/ i = Len(request) + 1
         /\ request'[Len(request) + 1] = NewRow(u, kind)
<1>1. request \in Seq(RequestRow) /\ NewRow(u, kind) \in RequestRow
  BY DEF RequestsTypeOK, RequestRow, NewRow, Gone
<1>2. request' = Append(request, NewRow(u, kind)) BY DEF Opened, NewRow
<1>3. /\ request' \in Seq(RequestRow) /\ Len(request') = Len(request) + 1
      /\ \A i \in 1..Len(request) : request'[i] = request[i]
      /\ request'[Len(request) + 1] = NewRow(u, kind)
  BY <1>1, <1>2, AppendProperties
<1>4. /\ DOMAIN request = 1..Len(request) /\ DOMAIN request' = 1..Len(request')
      /\ Len(request) \in Nat
  BY <1>1, <1>3, LenProperties
<1>5. MaxRequests \in Nat BY RequestConstantsOK
<1>6. Len(request') <= MaxRequests BY <1>3, <1>4, <1>5
<1> QED BY <1>3, <1>4, <1>6

\* What closing a row leaves of the queue: who asked for what, and the others.
LEMMA RowClosed ==
  ASSUME RequestsTypeOK, NEW i \in DOMAIN request, NEW by \in Subjects \cup {NoName},
         NEW closer \in {"desk", "program"}, NEW late \in SUBSET Subjects,
         request' = Fulfilled(i, by, closer, late)
  PROVE  /\ request' \in Seq(RequestRow) /\ Len(request') = Len(request)
         /\ DOMAIN request' = DOMAIN request
         /\ \A j \in DOMAIN request : j # i => request'[j] = request[j]
         /\ \A j \in DOMAIN request : /\ request'[j].who = request[j].who
                                      /\ request'[j].kind = request[j].kind
                                      /\ request'[j].asker = request[j].asker
                                      /\ request[j].late \subseteq request'[j].late
         /\ request'[i].by = by /\ request'[i].closer = closer /\ late \subseteq request'[i].late
<1>1. request \in Seq(RequestRow) /\ request[i] \in RequestRow BY QueueFacts
<1> DEFINE r == [request[i] EXCEPT !.state = "COMPLETED", !.by = by, !.closer = closer,
                                   !.late = request[i].late \cup late]
<1>2. /\ r \in RequestRow /\ r.who = request[i].who /\ r.kind = request[i].kind
      /\ r.asker = request[i].asker /\ r.by = by /\ r.closer = closer
      /\ r.late = request[i].late \cup late
  BY <1>1 DEF RequestRow
<1>3. request' = [request EXCEPT ![i] = r] BY DEF Fulfilled
<1> HIDE DEF r
<1>4. request' \in Seq(RequestRow) /\ Len(request') = Len(request)
  BY <1>1, <1>2, <1>3, ExceptSeq, LenProperties
<1>5. DOMAIN request' = DOMAIN request BY <1>1, <1>3, LenProperties
<1>6. \A j \in DOMAIN request : request'[j] = IF j = i THEN r ELSE request[j] BY <1>3
<1> QED BY <1>2, <1>4, <1>5, <1>6

\* What an erasure leaves of the queue: the rows that name the account lose
\* their names, and nothing else happens.
LEMMA RowsUnnamed ==
  ASSUME RequestsTypeOK, NEW u \in Subjects, request' = Anonymized(u)
  PROVE  /\ request' \in Seq(RequestRow) /\ Len(request') = Len(request)
         /\ DOMAIN request' = DOMAIN request
         /\ \A i \in DOMAIN request :
              /\ request'[i].kind = request[i].kind /\ request'[i].asker = request[i].asker
              /\ request'[i].closer = request[i].closer
              /\ ~Names(request'[i], u)
              /\ \/ ~Names(request[i], u) /\ request'[i] = request[i]
                 \/ /\ Names(request[i], u) /\ request'[i] = Unnamed(request[i])
                    /\ request'[i].who = NoName /\ request'[i].by = NoName
<1>1. /\ request \in Seq(RequestRow) /\ Len(request) \in Nat
      /\ DOMAIN request = 1..Len(request)
      /\ \A i \in DOMAIN request : request[i] \in RequestRow
  BY QueueFacts
<1>2. u # NoName BY RequestConstantsOK
<1>3. DOMAIN request' = DOMAIN request BY DEF Anonymized
<1>4. ASSUME NEW i \in DOMAIN request
      PROVE  /\ request'[i] \in RequestRow
             /\ request'[i].kind = request[i].kind /\ request'[i].asker = request[i].asker
             /\ request'[i].closer = request[i].closer
             /\ ~Names(request'[i], u)
             /\ \/ ~Names(request[i], u) /\ request'[i] = request[i]
                \/ /\ Names(request[i], u) /\ request'[i] = Unnamed(request[i])
                   /\ request'[i].who = NoName /\ request'[i].by = NoName
  <2>1. PICK r \in RequestRow : r = request[i] BY <1>1
  <2>2. /\ Unnamed(r) \in RequestRow /\ Unnamed(r).kind = r.kind /\ Unnamed(r).asker = r.asker
        /\ Unnamed(r).closer = r.closer /\ Unnamed(r).who = NoName /\ Unnamed(r).by = NoName
    BY <2>1 DEF RequestRow, Unnamed
  <2>3. request'[i] = IF Names(r, u) THEN Unnamed(r) ELSE r BY <2>1 DEF Anonymized
  <2>4. CASE Names(r, u)
    <3>1. request'[i] = Unnamed(r) BY <2>3, <2>4
    <3>2. ~Names(Unnamed(r), u) BY <1>2, <2>2 DEF Names
    <3> QED BY <2>1, <2>2, <2>4, <3>1, <3>2
  <2>5. CASE ~Names(r, u)
    <3>1. request'[i] = r BY <2>3, <2>5
    <3> QED BY <2>1, <2>5, <3>1
  <2> QED BY <2>4, <2>5
<1>5. request' \in [1..Len(request) -> RequestRow]
  <2>1. request' = [i \in DOMAIN request |-> request'[i]] BY DEF Anonymized
  <2> QED BY <1>1, <1>4, <2>1
<1>6. request' \in Seq(RequestRow) BY <1>1, <1>5, SeqDef
<1>7. Len(request') = Len(request)
  <2>1. DOMAIN request' = 1..Len(request') /\ Len(request') \in Nat BY <1>6, LenProperties
  <2> QED BY <1>1, <1>3, <2>1
<1> QED BY <1>3, <1>4, <1>6, <1>7

Leavings ==
  {Resting} \cup [pc : {"entered"}, who : Subjects] \cup
    [pc : {"anonymize", "fulfill"}, who : Subjects, id : 1..MaxRequests]

\* What the type of a request under way says of its fields.
LEMMA LeavingFields ==
  ASSUME NEW x \in Leavings
  PROVE  /\ x.pc = "entered" => x.who \in Subjects
         /\ x # Resting => x.who \in Subjects
         /\ x.pc \in {"anonymize", "fulfill"} =>
              /\ x.who \in Subjects /\ x.id \in 1..MaxRequests /\ x # Resting
              /\ [x EXCEPT !.pc = "fulfill"] = [pc |-> "fulfill", who |-> x.who, id |-> x.id]
<1>1. CASE x = Resting BY <1>1 DEF Resting
<1>2. CASE x \in [pc : {"entered"}, who : Subjects] BY <1>2
<1>3. CASE x \in [pc : {"anonymize", "fulfill"}, who : Subjects, id : 1..MaxRequests]
  BY <1>3 DEF Resting
<1> QED BY <1>1, <1>2, <1>3 DEF Leavings

\* One door moves: its new contents are typed, so all of them are.
LEMMA DoorTyped ==
  ASSUME RequestsTypeOK, NEW d \in Doors, NEW x \in Leavings,
         leaving' = [leaving EXCEPT ![d] = x]
  PROVE  /\ leaving' \in [Doors -> Leavings]
         /\ leaving'[d] = x
         /\ \A e \in Doors : e # d => leaving'[e] = leaving[e]
<1>1. leaving \in [Doors -> Leavings] BY DEF RequestsTypeOK, Leavings
<1> QED BY <1>1

\* What one request under way has on file.
OnFile(d) ==
  /\ leaving[d] # Resting => subject[leaving[d].who] # "retired"
  /\ leaving[d].pc \in {"anonymize", "fulfill"} =>
       LET row == request[leaving[d].id] IN
       /\ leaving[d].id \in DOMAIN request
       /\ row.asker = leaving[d].who /\ row.kind = "deletion"
       /\ row.who \in {row.asker, NoName}
       /\ leaving[d].pc = "fulfill" => row.who = NoName /\ subject[leaving[d].who] = "left"

LEMMA RequestsStart == RequestsInit => RequestsInv
<1> SUFFICES ASSUME RequestsInit PROVE RequestsInv OBVIOUS
<1>1. /\ request \in Seq(RequestRow) /\ Len(request) = 0 /\ DOMAIN request = {}
  BY EmptySeq DEF RequestsInit
<1>2. RequestsTypeOK BY <1>1, RequestConstantsOK DEF RequestsInit, RequestsTypeOK
<1>3. DeletionIsEvidenced BY <1>1 DEF RequestsInit, DeletionIsEvidenced
<1>4. LeavingIsOnFile BY DEF RequestsInit, LeavingIsOnFile, Resting
<1>5. QueueForgets BY <1>1 DEF QueueForgets
<1> QED BY <1>2, <1>3, <1>4, <1>5 DEF RequestsInv

\* A step leaves a row that was fulfilled, or takes the names out of it.
FulfilledStand ==
  \A i \in DOMAIN request : request[i].state = "COMPLETED" =>
    \/ request'[i] = request[i]
    \/ /\ request'[i] = Unnamed(request[i])
       /\ \E u \in Subjects : Names(request[i], u) /\ subject'[u] # "live"

\* A new row: it is open, of its asker, and late if that account is gone.
LEMMA OpenedKeeps ==
  ASSUME RequestsInv, NEW u \in Subjects, NEW kind \in RequestKinds,
         Len(request) < MaxRequests, request' = Opened(u, kind), subject' = subject
  PROVE  DeletionIsEvidenced' /\ QueueForgets' /\ FulfilledStand
<1> USE DEF RequestsInv
<1>1. /\ \A i \in DOMAIN request : i \in DOMAIN request' /\ request'[i] = request[i]
      /\ \A i \in DOMAIN request' : i \in DOMAIN request \/ i = Len(request) + 1
      /\ request'[Len(request) + 1] = NewRow(u, kind)
  BY RowAdded
<1>2. PICK r : r = NewRow(u, kind) OBVIOUS
<1>3. /\ r.closer = "nobody" /\ r.late = Gone(u) /\ r.who = u /\ r.by = NoName
  BY <1>2 DEF NewRow
<1>4. \A i \in DOMAIN request' : (i \in DOMAIN request /\ request'[i] = request[i]) \/ request'[i] = r
  BY <1>1, <1>2
<1>5. DeletionIsEvidenced'
  <2>1. ASSUME NEW i \in DOMAIN request', request'[i].closer = "program"
        PROVE  /\ request'[i].kind = "deletion" /\ subject[request'[i].asker] = "left"
               /\ request'[i].who = NoName /\ request'[i].by = NoName
    <3>1. i \in DOMAIN request /\ request'[i] = request[i] BY <1>3, <1>4, <2>1
    <3> QED BY <2>1, <3>1 DEF DeletionIsEvidenced
  <2>2. ASSUME NEW v \in Subjects, subject[v] = "left"
        PROVE  \E i \in DOMAIN request' : request'[i].asker = v /\ request'[i].kind = "deletion"
    <3>1. PICK i \in DOMAIN request : request[i].asker = v /\ request[i].kind = "deletion"
      BY <2>2 DEF DeletionIsEvidenced
    <3> QED BY <1>1, <3>1
  <2> QED BY <2>1, <2>2 DEF DeletionIsEvidenced
<1>6. QueueForgets'
  <2> SUFFICES ASSUME NEW i \in DOMAIN request', NEW v \in Subjects,
                      subject[v] # "live", Names(request'[i], v)
               PROVE  v \in request'[i].late
    BY DEF QueueForgets, Names
  <2>1. CASE i \in DOMAIN request /\ request'[i] = request[i] BY <2>1 DEF QueueForgets, Names
  <2>2. CASE request'[i] = r
    <3>1. v = u BY <1>3, <2>2, RequestConstantsOK DEF Names
    <3> QED BY <1>3, <2>2, <3>1 DEF Gone
  <2> QED BY <1>4, <2>1, <2>2
<1>7. FulfilledStand BY <1>1 DEF FulfilledStand
<1> QED BY <1>5, <1>6, <1>7

\* The session admits a request, or one fails: nothing but its own door moves.
LEMMA AdmitKeeps ==
  ASSUME RequestsInv, NEW d \in Doors,
         \/ \E u \in Subjects : Enter(d, u)
         \/ LeavingFails(d)
  PROVE  RequestsInv' /\ FulfilledStand
<1> USE DEF RequestsInv
<1>1. PICK x \in Leavings : /\ x = Resting \/ (x.pc = "entered" /\ subject[x.who] = "live")
                            /\ leaving' = [leaving EXCEPT ![d] = x]
  <2>1. CASE LeavingFails(d) BY <2>1 DEF LeavingFails, Leavings
  <2>2. CASE \E u \in Subjects : Enter(d, u)
    <3>1. PICK u \in Subjects : Enter(d, u) BY <2>2
    <3>2. [pc |-> "entered", who |-> u] \in Leavings BY DEF Leavings
    <3> QED BY <3>1, <3>2 DEF Enter
  <2> QED BY <2>1, <2>2
<1>2. UNCHANGED <<request, subject>> BY DEF Enter, LeavingFails
<1>3. /\ leaving' \in [Doors -> Leavings] /\ leaving'[d] = x
      /\ \A e \in Doors : e # d => leaving'[e] = leaving[e]
  BY <1>1, DoorTyped
<1>4. RequestsTypeOK' BY <1>2, <1>3 DEF RequestsTypeOK, Leavings
<1>5. DeletionIsEvidenced' /\ QueueForgets' BY <1>2 DEF DeletionIsEvidenced, QueueForgets, Names
<1>6. LeavingIsOnFile'
  <2>1. \A e \in Doors : OnFile(e) BY DEF LeavingIsOnFile, OnFile
  <2>2. OnFile(d)' BY <1>1, <1>2, <1>3 DEF OnFile, Resting
  <2>3. \A e \in Doors : e # d => OnFile(e)' BY <1>2, <1>3, <2>1 DEF OnFile
  <2> QED BY <2>2, <2>3 DEF LeavingIsOnFile, OnFile
<1>7. FulfilledStand BY <1>2 DEF FulfilledStand
<1> QED BY <1>4, <1>5, <1>6, <1>7

\* submit_request opens a row of a kind that is handled by hand.
LEMMA SubmitKeeps ==
  ASSUME RequestsInv, NEW d \in Doors, NEW kind, SubmitRequest(d, kind)
  PROVE  RequestsInv' /\ FulfilledStand
<1> USE DEF RequestsInv
<1>1. kind \in RequestKinds BY DEF SubmitRequest, RequestKinds
<1>2. leaving[d] \in Leavings /\ leaving[d].pc = "entered"
  BY DEF RequestsTypeOK, Leavings, SubmitRequest
<1>3. PICK u \in Subjects : u = leaving[d].who BY <1>2, LeavingFields
<1>4. request' = Opened(u, kind) /\ Len(request) < MaxRequests /\ subject' = subject
  BY <1>3 DEF SubmitRequest
<1>5. Resting \in Leavings /\ leaving' = [leaving EXCEPT ![d] = Resting]
  BY DEF Leavings, SubmitRequest
<1>6. /\ leaving' \in [Doors -> Leavings] /\ leaving'[d] = Resting
      /\ \A e \in Doors : e # d => leaving'[e] = leaving[e]
  BY <1>5, DoorTyped
<1>7. /\ request' \in Seq(RequestRow) /\ Len(request') <= MaxRequests
      /\ \A i \in DOMAIN request : i \in DOMAIN request' /\ request'[i] = request[i]
  BY <1>1, <1>4, RowAdded
<1>8. RequestsTypeOK' BY <1>4, <1>6, <1>7 DEF RequestsTypeOK, Leavings
<1>9. DeletionIsEvidenced' /\ QueueForgets' /\ FulfilledStand BY <1>1, <1>4, OpenedKeeps
<1>10. LeavingIsOnFile'
  <2>1. \A e \in Doors : OnFile(e) BY DEF LeavingIsOnFile, OnFile
  <2>2. OnFile(d)' BY <1>6 DEF OnFile, Resting
  <2>3. \A e \in Doors : e # d => OnFile(e)' BY <1>4, <1>6, <1>7, <2>1 DEF OnFile
  <2> QED BY <2>2, <2>3 DEF LeavingIsOnFile, OnFile
<1> QED BY <1>8, <1>9, <1>10

\* The deletion is on file before the erasure.
LEMMA RecordKeeps ==
  ASSUME RequestsInv, NEW d \in Doors, RecordRequest(d)
  PROVE  RequestsInv' /\ FulfilledStand
<1> USE DEF RequestsInv
<1>1. leaving[d] \in Leavings /\ leaving[d].pc = "entered"
  BY DEF RequestsTypeOK, Leavings, RecordRequest
<1>2. PICK u \in Subjects : u = leaving[d].who BY <1>1, LeavingFields
<1>3. "deletion" \in RequestKinds BY DEF RequestKinds
<1>4. request' = Opened(u, "deletion") /\ Len(request) < MaxRequests /\ subject' = subject
  BY <1>2 DEF RecordRequest
<1>5. /\ request' \in Seq(RequestRow) /\ Len(request') <= MaxRequests
      /\ DOMAIN request' = 1..(Len(request) + 1)
      /\ \A i \in DOMAIN request : i \in DOMAIN request' /\ request'[i] = request[i]
      /\ request'[Len(request) + 1] = NewRow(u, "deletion")
  BY <1>3, <1>4, RowAdded
<1>6. PICK n \in Nat : n = Len(request) BY LenProperties DEF RequestsTypeOK
<1> DEFINE x == [pc |-> "anonymize", who |-> u, id |-> n + 1]
<1>7. leaving' = [leaving EXCEPT ![d] = x] BY <1>2, <1>6 DEF RecordRequest, AfterRecord
<1>8. x \in Leavings BY <1>4, <1>6, RequestConstantsOK DEF Leavings
<1>9. /\ leaving' \in [Doors -> Leavings] /\ leaving'[d] = x
      /\ \A e \in Doors : e # d => leaving'[e] = leaving[e]
  <2> HIDE DEF x
  <2> QED BY <1>7, <1>8, DoorTyped
<1>10. RequestsTypeOK' BY <1>4, <1>5, <1>9 DEF RequestsTypeOK, Leavings
<1>11. DeletionIsEvidenced' /\ QueueForgets' /\ FulfilledStand BY <1>3, <1>4, OpenedKeeps
<1>12. LeavingIsOnFile'
  <2>1. \A e \in Doors : OnFile(e) BY DEF LeavingIsOnFile, OnFile
  <2>2. OnFile(d)'
    <3>1. subject[u] # "retired" BY <1>1, <1>2, <2>1 DEF OnFile, Resting
    <3>2. n + 1 \in DOMAIN request' BY <1>5, <1>6
    <3>3. PICK r : r = request'[n + 1] OBVIOUS
    <3>4. r.asker = u /\ r.kind = "deletion" /\ r.who = u BY <1>5, <1>6, <3>3 DEF NewRow
    <3> QED BY <1>4, <1>9, <3>1, <3>2, <3>3, <3>4 DEF OnFile
  <2>3. \A e \in Doors : e # d => OnFile(e)' BY <1>4, <1>5, <1>9, <2>1 DEF OnFile
  <2> QED BY <2>2, <2>3 DEF LeavingIsOnFile, OnFile
<1> QED BY <1>10, <1>11, <1>12

\* A row is closed, in the name of an administrator or, by the deletion it
\* belongs to, in nobody's.
LEMMA ClosedKeeps ==
  ASSUME RequestsInv, NEW d \in Doors, NEW i \in DOMAIN request,
         NEW by \in Subjects \cup {NoName}, NEW closer \in {"desk", "program"},
         NEW late \in SUBSET Subjects, Fulfillable(i),
         request' = Fulfilled(i, by, closer, late), subject' = subject,
         leaving' = [leaving EXCEPT ![d] = Resting],
         by \in Subjects /\ subject[by] # "live" => by \in late,
         closer = "program" => /\ request[i].kind = "deletion" /\ request[i].who = NoName
                               /\ subject[request[i].asker] = "left" /\ by = NoName
  PROVE  RequestsInv' /\ FulfilledStand
<1> USE DEF RequestsInv
<1>1. /\ request' \in Seq(RequestRow) /\ Len(request') = Len(request)
      /\ DOMAIN request' = DOMAIN request
      /\ \A j \in DOMAIN request : j # i => request'[j] = request[j]
      /\ \A j \in DOMAIN request : /\ request'[j].who = request[j].who
                                   /\ request'[j].kind = request[j].kind
                                   /\ request'[j].asker = request[j].asker
                                   /\ request[j].late \subseteq request'[j].late
      /\ request'[i].by = by /\ request'[i].closer = closer /\ late \subseteq request'[i].late
  BY RowClosed
<1>2. Resting \in Leavings BY DEF Leavings
<1>3. /\ leaving' \in [Doors -> Leavings] /\ leaving'[d] = Resting
      /\ \A e \in Doors : e # d => leaving'[e] = leaving[e]
  BY <1>2, DoorTyped
<1>4. RequestsTypeOK' BY <1>1, <1>3 DEF RequestsTypeOK, Leavings
<1>5. DeletionIsEvidenced'
  <2>1. ASSUME NEW j \in DOMAIN request, request'[j].closer = "program"
        PROVE  /\ request'[j].kind = "deletion" /\ subject[request'[j].asker] = "left"
               /\ request'[j].who = NoName /\ request'[j].by = NoName
    <3>1. CASE j = i BY <1>1, <2>1, <3>1
    <3>2. CASE j # i BY <1>1, <2>1, <3>2 DEF DeletionIsEvidenced
    <3> QED BY <3>1, <3>2
  <2>2. ASSUME NEW v \in Subjects, subject[v] = "left"
        PROVE  \E j \in DOMAIN request : request'[j].asker = v /\ request'[j].kind = "deletion"
    BY <1>1, <2>2 DEF DeletionIsEvidenced
  <2> QED BY <1>1, <2>1, <2>2 DEF DeletionIsEvidenced
<1>6. QueueForgets'
  <2> SUFFICES ASSUME NEW j \in DOMAIN request, NEW v \in Subjects,
                      subject[v] # "live", Names(request'[j], v)
               PROVE  v \in request'[j].late
    BY <1>1 DEF QueueForgets, Names
  <2>1. CASE j # i BY <1>1, <2>1 DEF QueueForgets, Names
  <2>2. CASE j = i /\ v = by BY <1>1, <2>2
  <2>3. CASE j = i /\ v # by
    <3>1. request[i].who = v BY <1>1, <2>3 DEF Names
    <3>2. v \in request[i].late BY <3>1 DEF QueueForgets, Names
    <3> QED BY <1>1, <2>3, <3>2
  <2> QED BY <2>1, <2>2, <2>3
<1>7. LeavingIsOnFile'
  <2>1. \A e \in Doors : OnFile(e) BY DEF LeavingIsOnFile, OnFile
  <2>2. OnFile(d)' BY <1>3 DEF OnFile, Resting
  <2>3. \A e \in Doors : e # d => OnFile(e)' BY <1>1, <1>3, <2>1 DEF OnFile
  <2> QED BY <2>2, <2>3 DEF LeavingIsOnFile, OnFile
<1>8. FulfilledStand BY <1>1 DEF FulfilledStand, Fulfillable
<1> QED BY <1>4, <1>5, <1>6, <1>7, <1>8

\* fulfill_request closes a row in the name of an administrator.
LEMMA HandKeeps ==
  ASSUME RequestsInv, NEW d \in Doors, NEW i \in DOMAIN request, FulfillByHand(d, i)
  PROVE  RequestsInv' /\ FulfilledStand
<1>1. PICK a \in Subjects : a = leaving[d].who BY RequestConstantsOK DEF FulfillByHand
<1>2. /\ Fulfillable(i) /\ request' = Fulfilled(i, a, "desk", Gone(a)) /\ subject' = subject
      /\ leaving' = [leaving EXCEPT ![d] = Resting]
  BY <1>1 DEF FulfillByHand
<1>3. Gone(a) \in SUBSET Subjects /\ (subject[a] # "live" => a \in Gone(a)) BY DEF Gone
<1> QED BY <1>2, <1>3, ClosedKeeps

\* The request is closed by whoever carried it out.
LEMMA CloseKeeps ==
  ASSUME RequestsInv, NEW d \in Doors, FulfillDeletion(d)
  PROVE  RequestsInv' /\ FulfilledStand
<1> USE DEF RequestsInv
<1>1. PICK i : i = leaving[d].id OBVIOUS
<1>2. leaving[d].pc = "fulfill" /\ leaving' = [leaving EXCEPT ![d] = Resting] /\ subject' = subject
  BY DEF FulfillDeletion
<1>3. /\ i \in DOMAIN request /\ request[i].kind = "deletion" /\ request[i].who = NoName
      /\ subject[request[i].asker] = "left"
  BY <1>1, <1>2 DEF LeavingIsOnFile
<1>4. CASE Fulfillable(i)
  <2>1. request' = Fulfilled(i, NoName, "program", {}) BY <1>1, <1>4 DEF FulfillDeletion
  <2>2. {} \in SUBSET Subjects /\ NoName \in Subjects \cup {NoName} /\ NoName \notin Subjects
    BY RequestConstantsOK
  <2> QED BY <1>2, <1>3, <1>4, <2>1, <2>2, ClosedKeeps
<1>5. CASE ~Fulfillable(i)
  <2>1. leaving[d] # Resting BY <1>2 DEF Resting
  <2>2. request' = request BY <1>1, <1>5 DEF FulfillDeletion
  <2>3. LeavingFails(d) BY <1>2, <2>1, <2>2 DEF LeavingFails
  <2> QED BY <2>3, AdmitKeeps
<1> QED BY <1>4, <1>5

\* An erasure, by the account's own request or by retention.
LEMMA ErasedKeeps ==
  ASSUME RequestsInv, NEW u \in Subjects, NEW state \in {"left", "retired"},
         request' = Anonymized(u), subject' = [subject EXCEPT ![u] = state],
         state = "left" => \E i \in DOMAIN request : request[i].asker = u /\ request[i].kind = "deletion",
         state = "retired" => subject[u] = "live"
  PROVE  DeletionIsEvidenced' /\ QueueForgets' /\ FulfilledStand
<1> USE DEF RequestsInv
<1>1. /\ DOMAIN request' = DOMAIN request
      /\ \A i \in DOMAIN request :
              /\ request'[i].kind = request[i].kind /\ request'[i].asker = request[i].asker
              /\ request'[i].closer = request[i].closer
              /\ ~Names(request'[i], u)
              /\ \/ ~Names(request[i], u) /\ request'[i] = request[i]
                 \/ /\ Names(request[i], u) /\ request'[i] = Unnamed(request[i])
                    /\ request'[i].who = NoName /\ request'[i].by = NoName
  BY RowsUnnamed
<1>2. /\ subject'[u] = state /\ subject'[u] # "live"
      /\ \A v \in Subjects : v # u => subject'[v] = subject[v]
  BY DEF RequestsTypeOK
<1>3. \A i \in DOMAIN request : request[i].asker \in Subjects
  <2>1. \A i \in DOMAIN request : request[i] \in RequestRow BY QueueFacts
  <2> QED BY <2>1 DEF RequestRow
<1>4. DeletionIsEvidenced'
  <2>1. ASSUME NEW i \in DOMAIN request, request'[i].closer = "program"
        PROVE  /\ request'[i].kind = "deletion" /\ subject'[request'[i].asker] = "left"
               /\ request'[i].who = NoName /\ request'[i].by = NoName
    <3>1. /\ request[i].kind = "deletion" /\ subject[request[i].asker] = "left"
          /\ request[i].who = NoName /\ request[i].by = NoName
      BY <1>1, <2>1 DEF DeletionIsEvidenced
    <3>2. subject'[request[i].asker] = "left" BY <1>2, <1>3, <3>1
    <3> QED BY <1>1, <3>1, <3>2
  <2>2. ASSUME NEW v \in Subjects, subject'[v] = "left"
        PROVE  \E i \in DOMAIN request : request'[i].asker = v /\ request'[i].kind = "deletion"
    <3>1. \E i \in DOMAIN request : request[i].asker = v /\ request[i].kind = "deletion"
      BY <1>2, <2>2 DEF DeletionIsEvidenced
    <3> QED BY <1>1, <3>1
  <2> QED BY <1>1, <2>1, <2>2 DEF DeletionIsEvidenced
<1>5. QueueForgets'
  <2> SUFFICES ASSUME NEW i \in DOMAIN request, NEW v \in Subjects,
                      subject'[v] # "live", Names(request'[i], v)
               PROVE  v \in request'[i].late
    BY <1>1 DEF QueueForgets, Names
  <2>1. v # u /\ v # NoName BY <1>1, RequestConstantsOK
  <2>2. request'[i] = request[i] BY <1>1, <2>1 DEF Names
  <2> QED BY <1>2, <2>1, <2>2 DEF QueueForgets
<1>6. FulfilledStand BY <1>1, <1>2 DEF FulfilledStand
<1> QED BY <1>4, <1>5, <1>6

\* The erasure an account asked for: its request is on file.
LEMMA AnonymizeKeeps ==
  ASSUME RequestsInv, NEW d \in Doors, AnonymizeSubject(d)
  PROVE  RequestsInv' /\ FulfilledStand
<1> USE DEF RequestsInv
<1>1. leaving[d] \in Leavings /\ leaving[d].pc = "anonymize"
  BY DEF RequestsTypeOK, Leavings, AnonymizeSubject
<1>2. PICK u \in Subjects, id \in 1..MaxRequests : u = leaving[d].who /\ id = leaving[d].id
  BY <1>1, LeavingFields
<1> DEFINE x == [pc |-> "fulfill", who |-> u, id |-> id]
<1>3. leaving' = [leaving EXCEPT ![d] = x] BY <1>1, <1>2, LeavingFields DEF AnonymizeSubject
<1>4. x \in Leavings BY DEF Leavings
<1>5. /\ leaving' \in [Doors -> Leavings] /\ leaving'[d] = x
      /\ \A e \in Doors : e # d => leaving'[e] = leaving[e]
  <2> HIDE DEF x
  <2> QED BY <1>3, <1>4, DoorTyped
<1>6. request' = Anonymized(u) /\ subject' = [subject EXCEPT ![u] = "left"]
  BY <1>2 DEF AnonymizeSubject
<1>7. /\ request' \in Seq(RequestRow) /\ Len(request') = Len(request)
      /\ DOMAIN request' = DOMAIN request
      /\ \A i \in DOMAIN request :
              /\ request'[i].kind = request[i].kind /\ request'[i].asker = request[i].asker
              /\ request'[i].closer = request[i].closer
              /\ ~Names(request'[i], u)
              /\ \/ ~Names(request[i], u) /\ request'[i] = request[i]
                 \/ /\ Names(request[i], u) /\ request'[i] = Unnamed(request[i])
                    /\ request'[i].who = NoName /\ request'[i].by = NoName
  BY <1>6, RowsUnnamed
<1>8. /\ subject' \in [Subjects -> {"live", "left", "retired"}] /\ subject'[u] = "left"
      /\ \A v \in Subjects : v # u => subject'[v] = subject[v]
  BY <1>6 DEF RequestsTypeOK
<1>9. RequestsTypeOK' BY <1>5, <1>7, <1>8 DEF RequestsTypeOK, Leavings
<1>10. /\ id \in DOMAIN request /\ request[id].asker = u /\ request[id].kind = "deletion"
       /\ request[id].who \in {u, NoName}
  BY <1>1, <1>2 DEF LeavingIsOnFile
<1>11. DeletionIsEvidenced' /\ QueueForgets' /\ FulfilledStand
  BY <1>6, <1>10, ErasedKeeps
<1>12. LeavingIsOnFile'
  <2>1. \A e \in Doors : OnFile(e) BY DEF LeavingIsOnFile, OnFile
  <2>2. \A i \in DOMAIN request : request'[i].who = request[i].who \/ request'[i].who = NoName
    BY <1>7
  <2>3. request'[id].who = NoName
    <3>1. CASE request[id].who = u BY <3>1, <1>7, <1>10 DEF Names
    <3>2. CASE request[id].who = NoName BY <3>2, <2>2, <1>10
    <3> QED BY <3>1, <3>2, <1>10
  <2>4. OnFile(d)' BY <1>5, <1>7, <1>8, <1>10, <2>3 DEF OnFile
  <2>5. ASSUME NEW e \in Doors, e # d PROVE OnFile(e)'
    <3>1. leaving'[e] = leaving[e] /\ leaving[e] \in Leavings
      BY <2>5, <1>5 DEF RequestsTypeOK, Leavings
    <3>2. leaving[e] # Resting => leaving[e].who \in Subjects BY <3>1, LeavingFields
    <3>3. leaving[e].pc \in {"anonymize", "fulfill"} => leaving[e] # Resting BY DEF Resting
    <3>4. leaving[e] # Resting => subject'[leaving[e].who] # "retired" BY <1>8, <2>1, <3>2 DEF OnFile
    <3>5. leaving[e].pc \in {"anonymize", "fulfill"} =>
            /\ leaving[e].id \in DOMAIN request
            /\ request[leaving[e].id].asker = leaving[e].who
            /\ request[leaving[e].id].kind = "deletion"
            /\ request[leaving[e].id].who \in {request[leaving[e].id].asker, NoName}
            /\ leaving[e].pc = "fulfill" =>
                 request[leaving[e].id].who = NoName /\ subject[leaving[e].who] = "left"
      BY <2>1 DEF OnFile
    <3>6. leaving[e].pc = "fulfill" => subject'[leaving[e].who] = "left"
      BY <1>8, <3>2, <3>3, <3>5
    <3> QED BY <3>1, <3>4, <3>5, <3>6, <2>2, <1>7 DEF OnFile
  <2> QED BY <2>4, <2>5 DEF LeavingIsOnFile, OnFile
<1> QED BY <1>9, <1>11, <1>12

\* The erasure nobody asked for: the account has no request under way.
LEMMA RetireKeeps ==
  ASSUME RequestsInv, NEW u \in Subjects, RetireSubject(u)
  PROVE  RequestsInv' /\ FulfilledStand
<1> USE DEF RequestsInv
<1>1. /\ subject[u] = "live" /\ \A d \in Doors : leaving[d] # Resting => leaving[d].who # u
      /\ request' = Anonymized(u) /\ subject' = [subject EXCEPT ![u] = "retired"]
      /\ leaving' = leaving
  BY DEF RetireSubject
<1>2. /\ request' \in Seq(RequestRow) /\ Len(request') = Len(request)
      /\ DOMAIN request' = DOMAIN request
      /\ \A i \in DOMAIN request :
              /\ request'[i].kind = request[i].kind /\ request'[i].asker = request[i].asker
              /\ request'[i].closer = request[i].closer
              /\ ~Names(request'[i], u)
              /\ \/ ~Names(request[i], u) /\ request'[i] = request[i]
                 \/ /\ Names(request[i], u) /\ request'[i] = Unnamed(request[i])
                    /\ request'[i].who = NoName /\ request'[i].by = NoName
  BY <1>1, RowsUnnamed
<1>3. /\ subject' \in [Subjects -> {"live", "left", "retired"}]
      /\ \A v \in Subjects : v # u => subject'[v] = subject[v]
  BY <1>1 DEF RequestsTypeOK
<1>4. RequestsTypeOK' BY <1>1, <1>2, <1>3 DEF RequestsTypeOK
<1>5. DeletionIsEvidenced' /\ QueueForgets' /\ FulfilledStand BY <1>1, ErasedKeeps
<1>6. LeavingIsOnFile'
  <2>1. \A e \in Doors : OnFile(e) BY DEF LeavingIsOnFile, OnFile
  <2>2. \A i \in DOMAIN request : request'[i].who = request[i].who \/ request'[i].who = NoName
    BY <1>2
  <2>3. ASSUME NEW e \in Doors PROVE OnFile(e)'
    <3>1. leaving'[e] = leaving[e] /\ leaving[e] \in Leavings
      BY <1>1 DEF RequestsTypeOK, Leavings
    <3>2. leaving[e] # Resting => subject'[leaving[e].who] = subject[leaving[e].who]
      BY <1>1, <1>3, <3>1, LeavingFields
    <3>3. leaving[e].pc \in {"anonymize", "fulfill"} => leaving[e] # Resting BY DEF Resting
    <3>4. leaving[e] # Resting => subject'[leaving[e].who] # "retired" BY <2>1, <3>2 DEF OnFile
    <3>5. leaving[e].pc \in {"anonymize", "fulfill"} =>
            /\ leaving[e].id \in DOMAIN request
            /\ request[leaving[e].id].asker = leaving[e].who
            /\ request[leaving[e].id].kind = "deletion"
            /\ request[leaving[e].id].who \in {request[leaving[e].id].asker, NoName}
            /\ leaving[e].pc = "fulfill" =>
                 request[leaving[e].id].who = NoName /\ subject[leaving[e].who] = "left"
      BY <2>1 DEF OnFile
    <3>6. leaving[e].pc = "fulfill" => subject'[leaving[e].who] = "left" BY <3>2, <3>3, <3>5
    <3> QED BY <3>1, <3>4, <3>5, <3>6, <2>2, <1>2 DEF OnFile
  <2> QED BY <2>3 DEF LeavingIsOnFile, OnFile
<1> QED BY <1>4, <1>5, <1>6

\* Every step of the queue keeps the invariant and the fulfilled rows.
LEMMA RequestsStep ==
  ASSUME RequestsInv, [RequestsNext]_requestVars
  PROVE  RequestsInv' /\ FulfilledStand
<1>1. CASE UNCHANGED requestVars
  BY <1>1 DEF requestVars, RequestsInv, RequestsTypeOK, DeletionIsEvidenced, LeavingIsOnFile,
              QueueForgets, Names, FulfilledStand
<1>2. CASE RequestsNext
  BY <1>2, SubmitKeeps, HandKeeps, AdmitKeeps, RecordKeeps, AnonymizeKeeps, CloseKeeps, RetireKeeps
    DEF RequestsNext
<1> QED BY <1>1, <1>2

\* The queue of data-subject requests tells the truth, for any number of
\* accounts, administrators and requests under way: a deletion that the
\* program closed was carried out and names nobody, an account that left has
\* its request on file, a row names an erased account only when it was written
\* by a request that the erasure overtook, and a fulfilled request changes only
\* by losing its names, whatever order the statements of request_deletion, a
\* second tab, an administrator and the retention run come in.
THEOREM RequestsEvidenced == RequestsSpec => RequestsAreEvidenced
<1>1. RequestsInit => RequestsInv BY RequestsStart
<1>2. RequestsInv /\ [RequestsNext]_requestVars => RequestsInv' BY RequestsStep
<1>3. RequestsInv /\ [RequestsNext]_requestVars =>
        [\A i \in DOMAIN request : request[i].state = "COMPLETED" =>
           \/ request'[i] = request[i]
           \/ /\ request'[i] = Unnamed(request[i])
              /\ \E u \in Subjects : Names(request[i], u) /\ subject'[u] # "live"]_requestVars
  BY RequestsStep DEF FulfilledStand
<1>4. RequestsInv => RequestsTypeOK /\ DeletionIsEvidenced /\ QueueForgets BY DEF RequestsInv
<1> QED BY <1>1, <1>2, <1>3, <1>4, PTL DEF RequestsSpec, RequestsAreEvidenced, FulfilledOnce

(***************************************************************************)
(* Terms.                                                                  *)
(***************************************************************************)

\* A set of positions has a last one.
LEMMA LastPosition ==
  ASSUME NEW n \in Nat, NEW S \in SUBSET (1..n), S # {}
  PROVE  \E m \in S : \A i \in S : i <= m
<1>1. PICK T : T = {n - i : i \in S} OBVIOUS
<1>2. T \subseteq Nat /\ T # {}
  <2>1. \A i \in S : n - i \in Nat OBVIOUS
  <2>2. PICK i \in S : n - i \in T BY <1>1
  <2> QED BY <1>1, <2>1, <2>2
<1>3. PICK R : R = OpToRel(<, Nat) OBVIOUS
<1>4. IsWellFoundedOn(R, Nat) BY <1>3, NatLessThanWellFounded
<1>5. PICK t \in T : \A u \in T : ~(<<u, t>> \in R) BY <1>2, <1>4, WFMin
<1>6. \A u \in T : ~(u < t) BY <1>2, <1>3, <1>5 DEF OpToRel
<1>7. PICK m \in S : t = n - m BY <1>1, <1>5
<1>8. \A i \in S : n - i \in T /\ i \in 1..n BY <1>1
<1>9. \A i \in S : i <= m BY <1>6, <1>7, <1>8
<1> QED BY <1>9

\* The fields of a release and its position.
LEMMA ReleaseFields ==
  ASSUME TermsTypeOK
  PROVE  /\ Len(release) \in Nat /\ DOMAIN release = 1..Len(release)
         /\ \A i \in DOMAIN release : /\ release[i] \in Release
                                      /\ release[i].effective \in 0..MaxNow
                                      /\ release[i].superseded \in 0..Forever
<1>1. release \in Seq(Release) BY DEF TermsTypeOK
<1>2. Len(release) \in Nat /\ DOMAIN release = 1..Len(release) BY <1>1, LenProperties
<1>3. \A i \in DOMAIN release : release[i] \in Release BY <1>1, <1>2, ElementOfSeq
<1> QED BY <1>2, <1>3 DEF Release

\* Releases that follow each other without a gap: one is in force from the
\* first moment on, the last of those that took effect.
LEMMA LineMeansOne ==
  ASSUME TermsTypeOK, ReleasesInLine
  PROVE  OneReleaseInForce
<1>1. SUFFICES ASSUME NEW t \in 0..MaxNow,
                      \E i \in DOMAIN release : release[i].effective <= t
               PROVE  Cardinality(CurrentAt(t)) = 1
  BY DEF OneReleaseInForce
<1>2. MaxNow \in Nat BY TermsConstantsOK
<1>3. PICK n \in Nat : n = Len(release) BY ReleaseFields
<1>4. /\ DOMAIN release = 1..n
      /\ \A i \in 1..n : release[i].effective \in 0..MaxNow
  BY <1>3, ReleaseFields
<1>5. PICK S : S = {i \in 1..n : release[i].effective <= t} OBVIOUS
<1>6. S \in SUBSET (1..n) /\ S # {} BY <1>1, <1>4, <1>5
<1>7. PICK m \in S : \A i \in S : i <= m BY <1>6, LastPosition
<1>8. m \in 1..n /\ release[m].effective <= t /\ \A i \in 1..n : i > m => release[i].effective > t
  BY <1>4, <1>5, <1>7
<1>9. /\ \A i, j \in 1..n : i < j => release[i].effective < release[j].effective
      /\ \A i \in 1..n : release[i].superseded =
                           IF i = n THEN MaxNow + 1 ELSE release[i + 1].effective
  BY <1>3, <1>4 DEF ReleasesInLine, Forever
<1>10. t < release[m].superseded
  <2>1. CASE m = n BY <2>1, <1>2, <1>8, <1>9
  <2>2. CASE m # n
    <3>1. m + 1 \in 1..n /\ m + 1 > m BY <2>2, <1>8
    <3> QED BY <2>2, <3>1, <1>8, <1>9, <1>4
  <2> QED BY <2>1, <2>2
<1>11. ASSUME NEW i \in 1..n, i < m PROVE ~(t < release[i].superseded)
  <2>1. i # n /\ i + 1 \in 1..n /\ i + 1 <= m BY <1>11, <1>8
  <2>2. release[i].superseded = release[i + 1].effective BY <2>1, <1>9
  <2>3. release[i + 1].effective <= release[m].effective
    <3>1. CASE i + 1 = m BY <3>1, <1>4, <1>8
    <3>2. CASE i + 1 < m
      <4>1. release[i + 1].effective < release[m].effective BY <3>2, <2>1, <1>8, <1>9
      <4> QED BY <4>1, <2>1, <1>4, <1>8
    <3> QED BY <3>1, <3>2, <2>1, <1>8
  <2> QED BY <2>1, <2>2, <2>3, <1>8, <1>4
<1>12. ASSUME NEW i \in 1..n PROVE InForce(release[i], t) <=> i = m
  <2>1. CASE i = m BY <2>1, <1>8, <1>10 DEF InForce
  <2>2. CASE i < m BY <2>2, <1>8, <1>11 DEF InForce
  <2>3. CASE i > m
    <3>1. release[i].effective > t BY <2>3, <1>8
    <3>2. ~(release[i].effective <= t) BY <3>1, <1>4
    <3> QED BY <2>3, <3>2, <1>8 DEF InForce
  <2> QED BY <2>1, <2>2, <2>3, <1>8
<1>13. CurrentAt(t) = {m} BY <1>4, <1>8, <1>12 DEF CurrentAt
<1> QED BY <1>13, FS_Singleton

\* The record of a request under way, and of the one that is not.
LEMMA SigningFields ==
  ASSUME RequestsTyped, NEW u \in Signers, signing[u].pc # "none"
  PROVE  /\ signing[u] \in Signature /\ signing[u] # NotSigning
         /\ signing[u].what \in {"signup", "acknowledged", "shown"}
         /\ signing[u].row \in DOMAIN release /\ signing[u].row \in Nat
         /\ signing[u].at \in 0..MaxNow
<1>1. signing[u] \in Signature \cup {NotSigning} BY DEF RequestsTyped
<1>2. signing[u] # NotSigning BY DEF NotSigning
<1>3. signing[u] \in Signature BY <1>1, <1>2
<1> QED BY <1>2, <1>3 DEF RequestsTyped, Signature

LEMMA TermsStart == TermsInit => TermsInv
<1> SUFFICES ASSUME TermsInit PROVE TermsInv OBVIOUS
<1>1. release \in Seq(Release) /\ Len(release) = 0 /\ DOMAIN release = {}
  BY EmptySeq DEF TermsInit
<1>2. TermsTypeOK BY <1>1, TermsConstantsOK DEF TermsInit, TermsTypeOK, NotSigning
<1>3. RequestsTyped BY DEF TermsInit, RequestsTyped, NotSigning
<1>4. ReleasesInLine BY <1>1 DEF ReleasesInLine
<1>5. DecisionsHold BY DEF TermsInit, DecisionsHold, Deciding, NotSigning
<1>6. ErasedLeavesNoProof BY DEF TermsInit, ErasedLeavesNoProof
<1> QED BY <1>2, <1>3, <1>4, <1>5, <1>6 DEF TermsInv

\* What is new in the evidence was in force.
NewProofsTrue ==
  \A p \in proof' \ proof : p.what = "acknowledged" => InForce(release'[p.row], p.at)

\* What publishing does to the rows: the last one ends where the new begins.
LEMMA Published ==
  ASSUME TermsTypeOK, ReleasesInLine, NEW n \in Nat, n = Len(release),
         NEW v \in Versions, NEW from \in 0..MaxNow, NEW m \in BOOLEAN,
         release' = Append(SupersededBy(from), [version |-> v, effective |-> from,
                                                superseded |-> Forever, material |-> m])
  PROVE  /\ release' \in Seq(Release) /\ Len(release') = n + 1 /\ DOMAIN release' = 1..(n + 1)
         /\ \A i \in 1..n : /\ release'[i].effective = release[i].effective
                            /\ release'[i].superseded =
                                 IF i = n THEN from ELSE release[i].superseded
         /\ release'[n + 1].effective = from /\ release'[n + 1].superseded = Forever
<1> DEFINE r == [version |-> v, effective |-> from, superseded |-> Forever, material |-> m]
           old == SupersededBy(from)
<1>1. MaxNow \in Nat /\ Forever = MaxNow + 1 BY TermsConstantsOK DEF Forever
<1>2. DOMAIN release = 1..n /\ \A i \in 1..n : release[i] \in Release BY ReleaseFields
<1>3. r \in Release BY <1>1 DEF Release
<1>4. \A i \in 1..n : release[i].superseded = Forever <=> i = n
  <2> SUFFICES ASSUME NEW i \in 1..n PROVE release[i].superseded = Forever <=> i = n OBVIOUS
  <2>1. CASE i = n BY <2>1, <1>2 DEF ReleasesInLine
  <2>2. CASE i # n
    <3>1. i + 1 \in 1..n BY <2>2
    <3>2. release[i].superseded = release[i + 1].effective BY <2>2, <1>2 DEF ReleasesInLine
    <3>3. release[i + 1].effective \in 0..MaxNow BY <3>1, <1>2 DEF Release
    <3> QED BY <2>2, <3>2, <3>3, <1>1
  <2> QED BY <2>1, <2>2
<1>5. DOMAIN old = 1..n /\ \A i \in 1..n :
        old[i] = IF i = n THEN [release[i] EXCEPT !.superseded = from] ELSE release[i]
  BY <1>2, <1>4 DEF SupersededBy
<1>6. \A i \in 1..n : [release[i] EXCEPT !.superseded = from] \in Release
  BY <1>1, <1>2 DEF Release
<1>7. \A i \in 1..n : /\ [release[i] EXCEPT !.superseded = from].effective = release[i].effective
                      /\ [release[i] EXCEPT !.superseded = from].superseded = from
  BY <1>2 DEF Release
<1>8. old \in [1..n -> Release]
  <2>1. \A i \in 1..n : old[i] \in Release BY <1>2, <1>5, <1>6
  <2>2. old = [i \in 1..n |-> old[i]] BY <1>2 DEF SupersededBy
  <2> HIDE DEF old
  <2> QED BY <2>1, <2>2
<1>9. old \in Seq(Release) /\ Len(old) = n
  <2> HIDE DEF old
  <2>1. old \in Seq(Release) BY <1>8, SeqDef
  <2>2. Len(old) \in Nat /\ DOMAIN old = 1..Len(old) BY <2>1, LenProperties
  <2> QED BY <2>1, <2>2, <1>5
<1>10. /\ release' \in Seq(Release) /\ Len(release') = n + 1
       /\ \A i \in 1..n : release'[i] = old[i]
       /\ release'[n + 1] = r
  <2>1. release' = Append(old, r) OBVIOUS
  <2> HIDE DEF old, r
  <2>2. PICK o \in Seq(Release), e \in Release : o = old /\ e = r BY <1>3, <1>9
  <2>3. /\ Append(o, e) \in Seq(Release) /\ Len(Append(o, e)) = Len(o) + 1
        /\ \A i \in 1..Len(o) : Append(o, e)[i] = o[i]
        /\ Append(o, e)[Len(o) + 1] = e
    BY AppendProperties
  <2> QED BY <2>1, <2>2, <2>3, <1>9
<1>11. DOMAIN release' = 1..(n + 1) BY <1>10, LenProperties
<1>12. release'[n + 1].effective = from /\ release'[n + 1].superseded = Forever BY <1>10
<1>13. \A i \in 1..n : /\ release'[i].effective = release[i].effective
                       /\ release'[i].superseded =
                            IF i = n THEN from ELSE release[i].superseded
  <2> SUFFICES ASSUME NEW i \in 1..n
               PROVE  /\ release'[i].effective = release[i].effective
                      /\ release'[i].superseded = IF i = n THEN from ELSE release[i].superseded
    OBVIOUS
  <2> HIDE DEF old
  <2>1. release'[i] = IF i = n THEN [release[i] EXCEPT !.superseded = from] ELSE release[i]
    BY <1>5, <1>10
  <2>2. CASE i = n BY <2>1, <2>2, <1>7
  <2>3. CASE i # n BY <2>1, <2>3
  <2> QED BY <2>2, <2>3
<1> HIDE DEF r, old
<1> QED BY <1>10, <1>11, <1>12, <1>13

\* seed_policy_release, under the advisory lock: nobody has decided meanwhile.
LEMMA PublishKeeps ==
  ASSUME TermsInv, NEW v \in Versions, NEW from \in 0..MaxNow, NEW m \in BOOLEAN,
         Publish(v, from, m)
  PROVE  TermsInv' /\ NewProofsTrue
<1>1. TermsTypeOK /\ ReleasesInLine BY DEF TermsInv
<1>2. PICK n \in Nat : n = Len(release) BY <1>1, ReleaseFields
<1>3. /\ release' \in Seq(Release) /\ Len(release') = n + 1 /\ DOMAIN release' = 1..(n + 1)
      /\ \A i \in 1..n : /\ release'[i].effective = release[i].effective
                         /\ release'[i].superseded =
                              IF i = n THEN from ELSE release[i].superseded
      /\ release'[n + 1].effective = from /\ release'[n + 1].superseded = Forever
  BY <1>1, <1>2, Published DEF Publish
<1>4. DOMAIN release = 1..n /\ \A i \in 1..n : release[i].effective \in 0..MaxNow
  BY <1>1, <1>2, ReleaseFields
<1>5. UNCHANGED <<signer, proof, form, signing, latch, now>> /\ latch = Free
  BY DEF Publish, LatchFree
<1>6. TermsTypeOK'
  <2>1. 0..n \subseteq 0..(n + 1) /\ 1..n \subseteq 1..(n + 1) OBVIOUS
  <2> QED BY <1>1, <1>2, <1>3, <1>4, <1>5, <2>1 DEF TermsTypeOK
<1>7. RequestsTyped'
  <2>1. 1..n \subseteq 1..(n + 1) OBVIOUS
  <2> QED BY <1>3, <1>4, <1>5, <2>1 DEF TermsInv, RequestsTyped
<1>8. ReleasesInLine'
  <2>1. \A i \in 1..n : release[i].effective < from BY <1>4 DEF Publish, InOrder
  <2>2. ASSUME NEW i \in 1..(n + 1), NEW j \in 1..(n + 1), i < j
        PROVE  release'[i].effective < release'[j].effective
    <3>1. CASE j = n + 1
      <4>1. i \in 1..n BY <3>1, <2>2
      <4> QED BY <3>1, <4>1, <2>1, <1>3
    <3>2. CASE j # n + 1
      <4>1. i \in 1..n /\ j \in 1..n BY <3>2, <2>2
      <4>2. release[i].effective < release[j].effective BY <4>1, <2>2, <1>1, <1>4 DEF ReleasesInLine
      <4> QED BY <4>1, <4>2, <1>3
    <3> QED BY <3>1, <3>2
  <2>3. ASSUME NEW i \in 1..(n + 1)
        PROVE  release'[i].superseded =
                 IF i = n + 1 THEN Forever ELSE release'[i + 1].effective
    <3>1. CASE i = n + 1 BY <3>1, <1>3
    <3>2. CASE i = n
      <4>1. i \in 1..n /\ i + 1 = n + 1 /\ i # n + 1 BY <3>2, <2>3
      <4> QED BY <3>2, <4>1, <1>3
    <3>3. CASE i # n + 1 /\ i # n
      <4>1. i \in 1..n /\ i + 1 \in 1..n BY <3>3, <2>3
      <4>2. release[i].superseded = release[i + 1].effective
        BY <3>3, <4>1, <1>1, <1>2, <1>4 DEF ReleasesInLine
      <4> QED BY <3>3, <4>1, <4>2, <1>3
    <3> QED BY <3>1, <3>2, <3>3
  <2>4. Forever' = Forever BY DEF Forever
  <2> QED BY <2>2, <2>3, <2>4, <1>3 DEF ReleasesInLine
<1>9. DecisionsHold'
  <2>1. \A u \in Signers : ~Deciding(u)
    BY <1>5, TermsConstantsOK DEF TermsInv, DecisionsHold
  <2> QED BY <1>5, <2>1 DEF DecisionsHold, Deciding
<1>10. ErasedLeavesNoProof' BY <1>5 DEF TermsInv, ErasedLeavesNoProof
<1>11. NewProofsTrue BY <1>5 DEF NewProofsTrue
<1> QED BY <1>6, <1>7, <1>8, <1>9, <1>10, <1>11 DEF TermsInv

\* The request of one account moves on and the releases stand.  Whoever
\* decides afterwards holds the advisory lock and an account that is not
\* erased, and nobody else has decided if the lock changes hands.
LEMMA SignerMoves ==
  ASSUME TermsInv, NEW u \in Signers, NEW x \in Signature \cup {NotSigning},
         signing' = [signing EXCEPT ![u] = x], UNCHANGED <<release, form, now>>,
         x # NotSigning => x.row \in DOMAIN release,
         signer' \in [Signers -> {"absent", "live", "erased"}],
         \A v \in Signers : v # u => signer'[v] = signer[v],
         \A p \in proof' : p \in Proof /\ p.row \in DOMAIN release,
         latch' \in Signers \cup {Free},
         x.pc \in {"decide", "commit"} => latch' = u /\ signer'[u] # "erased",
         x.pc = "commit" /\ x.what # "shown" => InForce(release[x.row], x.at),
         \A v \in Signers : v # u /\ Deciding(v) => latch' = latch,
         ErasedLeavesNoProof'
  PROVE  TermsInv'
<1>1. TermsTypeOK /\ RequestsTyped /\ ReleasesInLine /\ DecisionsHold BY DEF TermsInv
<1>2. /\ signing' \in [Signers -> Signature \cup {NotSigning}] /\ signing'[u] = x
      /\ \A v \in Signers : v # u => signing'[v] = signing[v]
  BY <1>1 DEF RequestsTyped
<1>3. x.pc \in {"none", "lock", "decide", "commit"} /\ (x.pc # "none" => x # NotSigning)
  BY DEF Signature, NotSigning
<1>4. TermsTypeOK' BY <1>1, <1>2, <1>3 DEF TermsTypeOK
<1>5. RequestsTyped' BY <1>1, <1>2, <1>3 DEF RequestsTyped
<1>6. ReleasesInLine' BY <1>1 DEF ReleasesInLine, Forever
<1>7. DecisionsHold'
  <2> SUFFICES ASSUME NEW v \in Signers
               PROVE  /\ signing'[v].pc \in {"decide", "commit"} => latch' = v /\ signer'[v] # "erased"
                      /\ signing'[v].pc = "commit" /\ signing'[v].what # "shown" =>
                           InForce(release'[signing'[v].row], signing'[v].at)
    BY DEF DecisionsHold, Deciding
  <2>1. CASE v = u BY <2>1, <1>2
  <2>2. CASE v # u
    <3>1. signing'[v] = signing[v] /\ signer'[v] = signer[v] /\ release' = release BY <2>2, <1>2
    <3>2. signing[v].pc \in {"decide", "commit"} => latch' = latch BY <2>2 DEF Deciding
    <3> QED BY <1>1, <3>1, <3>2 DEF DecisionsHold, Deciding
  <2> QED BY <2>1, <2>2
<1> QED BY <1>4, <1>5, <1>6, <1>7 DEF TermsInv

\* The page is opened: its release is there.
LEMMA OpenKeeps ==
  ASSUME TermsInv, NEW u \in Signers, NEW i \in DOMAIN release, OpenForm(u, i)
  PROVE  TermsInv' /\ NewProofsTrue
<1>1. TermsTypeOK /\ RequestsTyped /\ ReleasesInLine /\ DecisionsHold BY DEF TermsInv
<1>2. /\ form' = [form EXCEPT ![u] = i] /\ UNCHANGED <<release, signer, proof, signing, latch, now>>
  BY DEF OpenForm
<1>3. i \in Nat /\ i \in 0..Len(release) BY <1>1, ReleaseFields
<1>4. form' \in [Signers -> Nat] /\ \A v \in Signers : form'[v] = IF v = u THEN i ELSE form[v]
  BY <1>1, <1>2, <1>3 DEF RequestsTyped
<1>5. TermsTypeOK' BY <1>1, <1>2, <1>3, <1>4 DEF TermsTypeOK
<1>6. RequestsTyped' BY <1>1, <1>2, <1>4 DEF RequestsTyped
<1>7. ReleasesInLine' /\ DecisionsHold' /\ ErasedLeavesNoProof' /\ NewProofsTrue
  BY <1>1, <1>2 DEF TermsInv, ReleasesInLine, Forever, DecisionsHold, Deciding,
                    ErasedLeavesNoProof, NewProofsTrue
<1> QED BY <1>5, <1>6, <1>7 DEF TermsInv

\* register, acknowledge_current and present begin.
LEMMA BeginsKeeps ==
  ASSUME TermsInv, NEW u \in Signers, NEW what \in {"signup", "acknowledged", "shown"},
         Begins(u, what)
  PROVE  TermsInv' /\ NewProofsTrue
<1>1. TermsTypeOK /\ RequestsTyped BY DEF TermsInv
<1>2. PICK i : i = form[u] OBVIOUS
<1>3. i \in Nat /\ i \in DOMAIN release
  <2>1. i \in 0..Len(release) /\ i # 0 BY <1>1, <1>2 DEF TermsTypeOK, Begins
  <2> QED BY <2>1, <1>1, ReleaseFields
<1>4. PICK x : x = [pc |-> "lock", what |-> what, row |-> i, at |-> 0] OBVIOUS
<1>5. /\ signing' = [signing EXCEPT ![u] = x]
      /\ UNCHANGED <<release, signer, proof, form, latch, now>>
  BY <1>2, <1>4 DEF Begins
<1>6. x \in Signature \cup {NotSigning} /\ x.pc = "lock" /\ x.row = i
  BY <1>3, <1>4, TermsConstantsOK DEF Signature
<1>7. TermsInv'
  <2>1. ErasedLeavesNoProof' BY <1>5 DEF TermsInv, ErasedLeavesNoProof
  <2> QED BY <1>1, <1>3, <1>5, <1>6, <2>1, SignerMoves DEF TermsTypeOK
<1> QED BY <1>5, <1>7 DEF NewProofsTrue

\* The account is locked and looked at again, then the advisory lock taken.
LEMMA LatchKeeps ==
  ASSUME TermsInv, NEW u \in Signers, TakeLatch(u)
  PROVE  TermsInv' /\ NewProofsTrue
<1>1. TermsTypeOK /\ RequestsTyped /\ DecisionsHold BY DEF TermsInv
<1>2. signing[u].pc = "lock" /\ UNCHANGED <<release, signer, proof, form, now>> BY DEF TakeLatch
<1>3. signing[u] \in Signature /\ signing[u].row \in DOMAIN release BY <1>1, <1>2, SigningFields
<1>4. ErasedLeavesNoProof' BY <1>2 DEF TermsInv, ErasedLeavesNoProof
<1>5. CASE Eligible(u)
  <2>1. PICK x : x = [signing[u] EXCEPT !.pc = "decide"] OBVIOUS
  <2>2. x \in Signature /\ x.pc = "decide" /\ x.row = signing[u].row
    BY <1>3, <2>1 DEF Signature
  <2>3. signing' = [signing EXCEPT ![u] = x] /\ latch' = u /\ latch = Free
    BY <1>5, <2>1 DEF TakeLatch, LatchFree
  <2>4. \A v \in Signers : ~Deciding(v)
    BY <1>1, <2>3, TermsConstantsOK DEF DecisionsHold
  <2>5. signer'[u] # "erased" BY <1>2, <1>5 DEF Eligible
  <2>6. TermsInv' BY <1>1, <1>2, <1>3, <1>4, <2>2, <2>3, <2>4, <2>5, SignerMoves DEF TermsTypeOK
  <2> QED BY <1>2, <2>6 DEF NewProofsTrue
<1>6. CASE ~Eligible(u)
  <2>1. signing' = [signing EXCEPT ![u] = NotSigning] /\ latch' = latch BY <1>6 DEF TakeLatch
  <2>2. NotSigning.pc = "none" BY DEF NotSigning
  <2>3. TermsInv' BY <1>1, <1>2, <1>4, <2>1, <2>2, SignerMoves DEF TermsTypeOK
  <2> QED BY <1>2, <2>3 DEF NewProofsTrue
<1> QED BY <1>5, <1>6

\* Whoever has decided holds the lock, so no other request has.
LEMMA OneDecides ==
  ASSUME TermsInv, NEW u \in Signers, Deciding(u)
  PROVE  \A v \in Signers : v # u => ~Deciding(v)
BY DEF TermsInv, DecisionsHold

\* The decision, at the clock read under both locks.
LEMMA DecideKeeps ==
  ASSUME TermsInv, NEW u \in Signers, Decide(u)
  PROVE  TermsInv' /\ NewProofsTrue
<1>1. TermsTypeOK /\ RequestsTyped /\ DecisionsHold BY DEF TermsInv
<1>2. signing[u].pc = "decide" /\ UNCHANGED <<release, signer, proof, form, now>> BY DEF Decide
<1>3. /\ signing[u] \in Signature /\ signing[u].row \in DOMAIN release
      /\ signing[u].what \in {"signup", "acknowledged", "shown"}
  BY <1>1, <1>2, SigningFields
<1>4. ErasedLeavesNoProof' BY <1>2 DEF TermsInv, ErasedLeavesNoProof
<1>5. Deciding(u) BY <1>2 DEF Deciding
<1>6. latch = u /\ signer[u] # "erased" /\ \A v \in Signers : v # u => ~Deciding(v)
  BY <1>1, <1>5, OneDecides DEF DecisionsHold
<1>7. CASE Signable(signing[u], now)
  <2>1. PICK x : x = [signing[u] EXCEPT !.pc = "commit", !.at = now] OBVIOUS
  <2>2. /\ x \in Signature /\ x.pc = "commit" /\ x.row = signing[u].row
        /\ x.what = signing[u].what /\ x.at = now
    BY <1>1, <1>3, <2>1 DEF Signature, TermsTypeOK
  <2>3. signing' = [signing EXCEPT ![u] = x] /\ latch' = latch BY <1>7, <2>1 DEF Decide
  <2>4. x.what # "shown" => InForce(release[x.row], x.at)
    BY <1>3, <1>7, <2>2 DEF Signable
  <2>5. TermsInv'
    BY <1>1, <1>2, <1>3, <1>4, <1>6, <2>2, <2>3, <2>4, SignerMoves DEF TermsTypeOK
  <2> QED BY <1>2, <2>5 DEF NewProofsTrue
<1>8. CASE ~Signable(signing[u], now)
  <2>1. signing' = [signing EXCEPT ![u] = NotSigning] /\ latch' = Free BY <1>8 DEF Decide
  <2>2. NotSigning.pc = "none" BY DEF NotSigning
  <2>3. TermsInv' BY <1>1, <1>2, <1>4, <1>6, <2>1, <2>2, SignerMoves DEF TermsTypeOK
  <2> QED BY <1>2, <2>3 DEF NewProofsTrue
<1> QED BY <1>7, <1>8

\* The evidence is written: the release it names was in force at its time.
LEMMA SignKeeps ==
  ASSUME TermsInv, NEW u \in Signers, Sign(u)
  PROVE  TermsInv' /\ NewProofsTrue
<1>1. TermsTypeOK /\ RequestsTyped /\ DecisionsHold BY DEF TermsInv
<1>2. PICK x : x = signing[u] OBVIOUS
<1>3. /\ signing[u].pc = "commit" /\ proof' = Signed(u, x) /\ latch' = Free
      /\ signer' = [signer EXCEPT ![u] = IF x.what = "signup" THEN "live" ELSE @]
      /\ signing' = [signing EXCEPT ![u] = NotSigning] /\ UNCHANGED <<release, form, now>>
  BY <1>2 DEF Sign
<1>4. /\ x.row \in DOMAIN release /\ x.row \in Nat /\ x.at \in 0..MaxNow
      /\ x.what \in {"signup", "acknowledged", "shown"}
  BY <1>1, <1>2, <1>3, SigningFields
<1>5. Deciding(u) BY <1>3 DEF Deciding
<1>6. latch = u /\ signer[u] # "erased" /\ \A v \in Signers : v # u => ~Deciding(v)
  BY <1>1, <1>5, OneDecides DEF DecisionsHold
<1>7. x.what # "shown" => InForce(release[x.row], x.at) BY <1>1, <1>2, <1>3 DEF DecisionsHold
<1>8. PICK what \in {"shown", "acknowledged"} :
        /\ what = "acknowledged" => x.what # "shown"
        /\ \A p \in proof' : p \in proof \/ p = [who |-> u, what |-> what, row |-> x.row, at |-> x.at]
  <2>1. CASE x.what = "signup" BY <2>1, <1>3 DEF Signed
  <2>2. CASE x.what # "signup" BY <2>2, <1>3, <1>4 DEF Signed
  <2> QED BY <2>1, <2>2
<1>9. /\ signer' \in [Signers -> {"absent", "live", "erased"}] /\ signer'[u] # "erased"
      /\ \A v \in Signers : v # u => signer'[v] = signer[v]
  BY <1>1, <1>3, <1>6 DEF TermsTypeOK
<1>10. \A p \in proof' : p \in Proof /\ p.row \in DOMAIN release
  BY <1>1, <1>4, <1>8 DEF TermsTypeOK, Proof
<1>11. ErasedLeavesNoProof'
  <2> SUFFICES ASSUME NEW p \in proof' PROVE signer'[p.who] # "erased" BY DEF ErasedLeavesNoProof
  <2>1. p.who \in Signers BY <1>10 DEF Proof
  <2>2. CASE p.who = u BY <2>2, <1>9
  <2>3. CASE p.who # u
    <3>1. p \in proof BY <2>3, <1>8
    <3> QED BY <2>1, <2>3, <3>1, <1>9 DEF TermsInv, ErasedLeavesNoProof
  <2> QED BY <2>2, <2>3
<1>12. NotSigning.pc = "none" BY DEF NotSigning
<1>13. TermsInv' BY <1>3, <1>6, <1>9, <1>10, <1>11, <1>12, SignerMoves
<1>14. NewProofsTrue
  <2> SUFFICES ASSUME NEW p \in proof', p \notin proof, p.what = "acknowledged"
               PROVE  InForce(release'[p.row], p.at)
    BY DEF NewProofsTrue
  <2>1. p = [who |-> u, what |-> what, row |-> x.row, at |-> x.at] BY <1>8
  <2>2. p.what = what /\ p.row = x.row /\ p.at = x.at BY <2>1
  <2> QED BY <2>2, <1>3, <1>7, <1>8
<1> QED BY <1>13, <1>14

\* The erasure waits for whoever holds the account's row, and takes the
\* evidence with it.
LEMMA EraseKeeps ==
  ASSUME TermsInv, NEW u \in Signers, Erase(u)
  PROVE  TermsInv' /\ NewProofsTrue
<1>1. TermsTypeOK /\ RequestsTyped /\ ReleasesInLine /\ DecisionsHold BY DEF TermsInv
<1>2. /\ signing[u].pc \in {"none", "lock"} /\ signer' = [signer EXCEPT ![u] = "erased"]
      /\ proof' = {p \in proof : p.who # u} /\ UNCHANGED <<release, form, signing, latch, now>>
  BY DEF Erase
<1>3. /\ signer' \in [Signers -> {"absent", "live", "erased"}]
      /\ \A v \in Signers : v # u => signer'[v] = signer[v]
  BY <1>1, <1>2 DEF TermsTypeOK
<1>4. TermsTypeOK' BY <1>1, <1>2, <1>3 DEF TermsTypeOK
<1>5. RequestsTyped' /\ ReleasesInLine' /\ NewProofsTrue
  BY <1>1, <1>2 DEF RequestsTyped, ReleasesInLine, Forever, NewProofsTrue
<1>6. DecisionsHold' BY <1>1, <1>2, <1>3 DEF DecisionsHold, Deciding
<1>7. ErasedLeavesNoProof'
  <2>1. \A p \in proof : p.who \in Signers BY <1>1 DEF TermsTypeOK, Proof
  <2> QED BY <1>2, <1>3, <2>1 DEF TermsInv, ErasedLeavesNoProof
<1> QED BY <1>4, <1>5, <1>6, <1>7 DEF TermsInv

LEMMA TermsStep ==
  ASSUME TermsInv, [TermsNext]_termsVars
  PROVE  TermsInv' /\ NewProofsTrue
<1>1. CASE UNCHANGED termsVars
  BY <1>1 DEF termsVars, TermsInv, TermsTypeOK, RequestsTyped, ReleasesInLine, Forever,
              DecisionsHold, Deciding, ErasedLeavesNoProof, NewProofsTrue
<1>2. CASE TimePasses
  <2>1. now' \in 0..MaxNow BY <1>2, TermsConstantsOK DEF TimePasses, TermsInv, TermsTypeOK
  <2>2. TermsTypeOK' BY <1>2, <2>1 DEF TimePasses, TermsInv, TermsTypeOK
  <2> QED BY <1>2, <2>2 DEF TimePasses, TermsInv, RequestsTyped, ReleasesInLine, Forever,
              DecisionsHold, Deciding, ErasedLeavesNoProof, NewProofsTrue
<1>3. CASE TermsNext
  BY <1>2, <1>3, PublishKeeps, OpenKeeps, BeginsKeeps, LatchKeeps, DecideKeeps, SignKeeps,
     EraseKeeps DEF TermsNext
<1> QED BY <1>1, <1>3

\* The legal texts and their evidence, for any number of accounts, versions
\* and releases and any horizon: from the first moment on exactly one release
\* is in force, what was acknowledged was in force at the time that the row
\* states, although releases are published and time passes while requests are
\* under way, and an erased account leaves nothing behind.
THEOREM TermsEvidenced == TermsSpec => TermsAreEvidenced
<1>1. TermsInit => TermsInv BY TermsStart
<1>2. TermsInv /\ [TermsNext]_termsVars => TermsInv' BY TermsStep
<1>3. TermsInv /\ [TermsNext]_termsVars =>
        [\A p \in proof' \ proof :
           p.what = "acknowledged" => InForce(release'[p.row], p.at)]_termsVars
  BY TermsStep DEF NewProofsTrue
<1>4. TermsInv => TermsTypeOK /\ OneReleaseInForce /\ ErasedLeavesNoProof
  BY LineMeansOne DEF TermsInv
<1> QED BY <1>1, <1>2, <1>3, <1>4, PTL DEF TermsSpec, TermsAreEvidenced, AcknowledgedWasInForce

(***************************************************************************)
(* Favourites.                                                             *)
(***************************************************************************)

Togglings ==
  {NotToggling} \cup [pc : {"admitted"}, who : Lovers] \cup
    [pc : {"reads"}, who : Lovers, saw : FavouriteRows] \cup
    [pc : {"answered"}, who : Lovers, answer : Answers]

\* The answer of one request is what its statement did to the row.
TurnIsTold(c) ==
  toggling[c].pc = "reads" /\ toggling'[c].pc = "answered" =>
    LET u == toggling[c].who  saw == toggling[c].saw IN
    CASE toggling'[c].answer = "added"    -> favourite[u] = NoTuple /\ favourite'[u] # NoTuple
      [] toggling'[c].answer = "removed"  ->
           saw # NoTuple /\ favourite[u] = saw /\ favourite'[u] = NoTuple
      [] toggling'[c].answer = "Conflict" ->
           /\ favourite[u] # NoTuple /\ favourite[u] # saw
           /\ favourite'[u] = favourite[u]

\* A request that moves on without an answer leaves the row alone.
LEMMA ClickMoves ==
  ASSUME FavouritesTypeOK, NEW c \in Clicks, NEW x \in Togglings, x.pc # "answered",
         toggling' = [toggling EXCEPT ![c] = x], UNCHANGED <<favourite, left>>
  PROVE  FavouritesTypeOK' /\ \A d \in Clicks : TurnIsTold(d)
<1>1. toggling \in [Clicks -> Togglings] BY DEF FavouritesTypeOK, Togglings
<1>2. /\ toggling' \in [Clicks -> Togglings] /\ toggling'[c] = x
      /\ \A d \in Clicks : d # c => toggling'[d] = toggling[d]
  BY <1>1
<1>3. FavouritesTypeOK' BY <1>2 DEF FavouritesTypeOK, Togglings
<1>4. \A d \in Clicks : TurnIsTold(d) BY <1>2 DEF TurnIsTold
<1> QED BY <1>3, <1>4

LEMMA FavouritesStep ==
  ASSUME FavouritesTypeOK, [FavouritesNext]_favouriteVars
  PROVE  FavouritesTypeOK' /\ \A c \in Clicks : TurnIsTold(c)
<1>1. /\ favourite \in [Lovers -> FavouriteRows] /\ left \subseteq Lovers
      /\ toggling \in [Clicks -> Togglings]
  BY DEF FavouritesTypeOK, Togglings
<1>2. CASE UNCHANGED favouriteVars
  BY <1>1, <1>2 DEF favouriteVars, FavouritesTypeOK, TurnIsTold
<1>3. ASSUME NEW u \in Lovers, EraseLover(u) PROVE FavouritesTypeOK' /\ \A c \in Clicks : TurnIsTold(c)
  BY <1>1, <1>3 DEF EraseLover, FavouritesTypeOK, TurnIsTold, FavouriteRows
<1>4. ASSUME NEW c \in Clicks, NEW u \in Lovers, ArriveToToggle(c, u)
      PROVE  FavouritesTypeOK' /\ \A d \in Clicks : TurnIsTold(d)
  <2>1. PICK x : x = [pc |-> "admitted", who |-> u] OBVIOUS
  <2>2. x \in Togglings /\ x.pc = "admitted" BY <2>1 DEF Togglings
  <2> QED BY <1>4, <2>1, <2>2, ClickMoves DEF ArriveToToggle
<1>5. ASSUME NEW c \in Clicks, BeginToggle(c)
      PROVE  FavouritesTypeOK' /\ \A d \in Clicks : TurnIsTold(d)
  <2>1. toggling[c] \in Togglings /\ toggling[c].pc = "admitted" BY <1>1, <1>5 DEF BeginToggle
  <2>2. toggling[c].who \in Lovers BY <2>1 DEF Togglings, NotToggling
  <2>3. PICK u \in Lovers : u = toggling[c].who BY <2>2
  <2>4. PICK x : x = [pc |-> "reads", who |-> u, saw |-> favourite[u]] OBVIOUS
  <2>5. x \in Togglings /\ x.pc = "reads" BY <1>1, <2>4 DEF Togglings
  <2> QED BY <1>5, <2>3, <2>4, <2>5, ClickMoves DEF BeginToggle
<1>6. ASSUME NEW c \in Clicks, Toggle(c)
      PROVE  FavouritesTypeOK' /\ \A d \in Clicks : TurnIsTold(d)
  <2>1. PICK x : x = toggling[c] OBVIOUS
  <2>2. x \in Togglings /\ x.pc = "reads" BY <1>1, <1>6, <2>1 DEF Toggle
  <2>3. x \in [pc : {"reads"}, who : Lovers, saw : FavouriteRows]
    BY <2>2 DEF Togglings, NotToggling
  <2>4. PICK u \in Lovers : u = x.who BY <2>3
  <2>5. PICK answer \in Answers, row \in FavouriteRows :
          /\ CASE Deletes(x) -> answer = "removed" /\ row = NoTuple
               [] ~Deletes(x) /\ favourite[u] # NoTuple -> answer = "Conflict" /\ row = favourite[u]
               [] ~Deletes(x) /\ favourite[u] = NoTuple -> answer = "added" /\ row \in FreshTuples(u)
          /\ toggling' = [toggling EXCEPT ![c] = [pc |-> "answered", who |-> u, answer |-> answer]]
          /\ favourite' = [favourite EXCEPT ![u] = row]
          /\ left' = left
    BY <1>6, <2>1, <2>4 DEF Toggle
  <2>6. PICK y : y = [pc |-> "answered", who |-> u, answer |-> answer] OBVIOUS
  <2>7. y \in Togglings /\ y.answer = answer BY <2>6 DEF Togglings
  <2>8. /\ toggling' \in [Clicks -> Togglings] /\ toggling'[c] = y
        /\ \A d \in Clicks : d # c => toggling'[d] = toggling[d]
    BY <1>1, <2>5, <2>6, <2>7
  <2>9. favourite' \in [Lovers -> FavouriteRows] /\ favourite'[u] = row BY <1>1, <2>5
  <2>10. FavouritesTypeOK' BY <1>1, <2>5, <2>8, <2>9 DEF FavouritesTypeOK, Togglings
  <2>11. Deletes(x) <=> x.saw # NoTuple /\ favourite[u] = x.saw BY <2>4 DEF Deletes
  <2>12. TurnIsTold(c)
    <3>1. CASE Deletes(x)
      <4>1. y.answer = "removed" /\ favourite'[u] = NoTuple BY <3>1, <2>5, <2>7, <2>9
      <4> QED BY <3>1, <4>1, <2>1, <2>4, <2>8, <2>11 DEF TurnIsTold
    <3>2. CASE ~Deletes(x) /\ favourite[u] # NoTuple
      <4>1. y.answer = "Conflict" /\ favourite'[u] = favourite[u] BY <3>2, <2>5, <2>7, <2>9
      <4> QED BY <3>2, <4>1, <2>1, <2>4, <2>8, <2>11 DEF TurnIsTold
    <3>3. CASE ~Deletes(x) /\ favourite[u] = NoTuple
      <4>1. y.answer = "added" /\ favourite'[u] # NoTuple
        BY <3>3, <2>5, <2>7, <2>9, TuplesOK DEF FreshTuples
      <4> QED BY <3>3, <4>1, <2>1, <2>4, <2>8 DEF TurnIsTold
    <3> QED BY <3>1, <3>2, <3>3
  <2>13. \A d \in Clicks : TurnIsTold(d)
    <3> SUFFICES ASSUME NEW d \in Clicks, d # c PROVE TurnIsTold(d) BY <2>12
    <3>1. toggling'[d] = toggling[d] BY <2>8
    <3> QED BY <3>1 DEF TurnIsTold
  <2> QED BY <2>10, <2>13
<1> QED BY <1>2, <1>3, <1>4, <1>5, <1>6 DEF FavouritesNext

\* The heart on a listing, for any number of accounts, crossing requests and
\* row versions: a toggle answers added or removed only when it was the one
\* that turned the row over, it removes the row it saw and no other, and it
\* fails only on a row that came after its snapshot.
THEOREM FavouritesSound == FavouritesSpec => FavouritesAreSound
<1>1. FavouritesInit => FavouritesTypeOK BY DEF FavouritesInit, FavouritesTypeOK, FavouriteRows
<1>2. FavouritesTypeOK /\ [FavouritesNext]_favouriteVars => FavouritesTypeOK'
  BY FavouritesStep
<1>3. FavouritesTypeOK /\ [FavouritesNext]_favouriteVars =>
        [\A c \in Clicks :
           toggling[c].pc = "reads" /\ toggling'[c].pc = "answered" =>
             LET u == toggling[c].who  saw == toggling[c].saw IN
             CASE toggling'[c].answer = "added"    ->
                    favourite[u] = NoTuple /\ favourite'[u] # NoTuple
               [] toggling'[c].answer = "removed"  ->
                    saw # NoTuple /\ favourite[u] = saw /\ favourite'[u] = NoTuple
               [] toggling'[c].answer = "Conflict" ->
                    /\ favourite[u] # NoTuple /\ favourite[u] # saw
                    /\ favourite'[u] = favourite[u]]_favouriteVars
  BY FavouritesStep, Zenon DEF TurnIsTold
<1> QED BY <1>1, <1>2, <1>3, PTL DEF FavouritesSpec, FavouritesAreSound, AnswerIsTheTurn

(***************************************************************************)
(* Browser.                                                                *)
(***************************************************************************)

LEMMA BrowserFacts ==
  ASSUME BrowserInv
  PROVE  /\ session \in 0..minted /\ anon \in 0..minted
         /\ minted \in Nat /\ minted <= MaxTokens /\ flips \in Nat /\ flips <= MaxFlips
         /\ MaxTokens \in Nat /\ MaxFlips \in Nat
         /\ \A s \in DOMAIN server : s \in 1..minted /\ server[s] \in Users /\ ~OfVisitors(s)
<1>1. BrowserTypeOK /\ TabsTyped /\ TokensTellReaders BY DEF BrowserInv, TabsAreSafe
<1>2. MaxTokens \in Nat /\ MaxFlips \in Nat BY BrowserAssumption
<1>3. /\ minted \in 0..MaxTokens /\ flips \in 0..MaxFlips
      /\ session \in 0..minted /\ anon \in 0..minted /\ DOMAIN server \subseteq 0..minted
  BY <1>1 DEF BrowserTypeOK
<1>4. \A s \in DOMAIN server : s # 0 /\ ~OfVisitors(s) /\ server[s] \in Users
  BY <1>1 DEF TokensTellReaders, TabsTyped
<1> QED BY <1>2, <1>3, <1>4

LEMMA ScreenFacts ==
  ASSUME BrowserInv, NEW t \in Tabs
  PROVE  /\ screen[t] \in Screen /\ TellsReader(screen[t])
         /\ screen[t].token \in 0..minted /\ screen[t].since \in 0..flips
BY DEF BrowserInv, TabsAreSafe, BrowserTypeOK, TabsTyped, TokensTellReaders

LEMMA AnswerFacts ==
  ASSUME BrowserInv, NEW t \in Tabs, OnItsWay(t)
  PROVE  /\ awaited[t] \in PageAnswer /\ TellsReader(awaited[t])
         /\ awaited[t].token \in 0..minted /\ awaited[t].since \in 0..flips
<1>1. TabsTyped /\ TokensTellReaders BY DEF BrowserInv
<1>2. awaited[t] \in PageAnswer BY <1>1 DEF TabsTyped, OnItsWay
<1>3. awaited[t].token \in Nat /\ awaited[t].since \in Nat BY <1>2 DEF PageAnswer
<1>4. awaited[t].token <= minted /\ awaited[t].since <= flips /\ minted \in Nat /\ flips \in Nat
  BY <1>1 DEF TabsTyped
<1> QED BY <1>1, <1>2, <1>3, <1>4 DEF TokensTellReaders

\* What was minted before a step: no step gives a session, or visitors, a
\* token that was somebody else's.
OldTokensStay ==
  /\ \A k \in 0..minted : k \in DOMAIN server' => k \in DOMAIN server /\ server'[k] = server[k]
  /\ \A k \in 1..minted : OfVisitors(k)' => OfVisitors(k)

\* So a page that was rendered before still tells who it was for.
LEMMA OldPages ==
  ASSUME OldTokensStay, minted \in Nat, NEW page, page.token \in 0..minted, TellsReader(page)
  PROVE  TellsReader(page)'
<1>1. PICK k \in 0..minted : k = page.token OBVIOUS
<1>2. k \in DOMAIN server' => page.shown = server'[k] BY <1>1 DEF OldTokensStay, TellsReader
<1>3. k # 0 => k \in 1..minted OBVIOUS
<1>4. k # 0 /\ OfVisitors(k)' => page.shown = Nobody
  BY <1>1, <1>3 DEF OldTokensStay, TellsReader
<1> QED BY <1>1, <1>2, <1>4 DEF TellsReader

\* Whose form it is: the token is that of the principal, or of visitors.
LEMMA SubmitsForReader ==
  ASSUME BrowserInv, NEW t \in Tabs, Submits(t)
  PROVE  FormActsAsItsReader'
<1>1. PICK k, who : k = screen[t].token /\ who = screen[t].shown OBVIOUS
<1>2. /\ k \in DOMAIN server => who = server[k]
      /\ k # 0 /\ OfVisitors(k) => who = Nobody
  BY <1>1, ScreenFacts DEF TellsReader
<1>3. k = Expected /\ k # 0 /\ ~Mints BY <1>1 DEF Submits, Accepted
<1>4. who = Principal
  <2>1. CASE SignedIn BY <2>1, <1>2, <1>3 DEF Expected, Principal, SignedIn
  <2>2. CASE ~SignedIn
    <3>1. k = anon BY <2>2, <1>3 DEF Expected, Mints
    <3>2. OfVisitors(k) BY <3>1 DEF OfVisitors
    <3> QED BY <2>2, <3>2, <1>2, <1>3 DEF Principal
  <2> QED BY <2>1, <2>2
<1>5. lastAct' = [by |-> Principal, shown |-> who] BY <1>1 DEF Submits
<1> QED BY <1>4, <1>5 DEF FormActsAsItsReader

\* A cookie or a session changes: no page and no answer is of this moment.
LEMMA FlipKeeps ==
  ASSUME BrowserInv, flips < MaxFlips, flips' = flips + 1, UNCHANGED <<screen, awaited>>,
         minted' \in Nat, minted <= minted', minted' <= MaxTokens,
         session' \in 0..minted', anon' \in 0..minted',
         \A s \in DOMAIN server' : s \in 1..minted' /\ server'[s] \in Users /\ ~OfVisitors(s)',
         OldTokensStay, FormActsAsItsReader'
  PROVE  BrowserInv'
<1>1. /\ minted \in Nat /\ flips \in Nat /\ MaxTokens \in Nat /\ MaxFlips \in Nat BY BrowserFacts
<1>2. \A t \in Tabs : /\ screen[t] \in Screen /\ TellsReader(screen[t])
                      /\ screen[t].token \in 0..minted /\ screen[t].since \in 0..flips
  BY ScreenFacts
<1>3. \A t \in Tabs : OnItsWay(t) =>
        /\ awaited[t] \in PageAnswer /\ TellsReader(awaited[t])
        /\ awaited[t].token \in 0..minted /\ awaited[t].since \in 0..flips
  BY AnswerFacts
<1>4. \A t \in Tabs : /\ screen'[t].token \in 0..minted' /\ screen'[t].since \in 0..flips'
                      /\ screen'[t].since # flips'
  <2> SUFFICES ASSUME NEW t \in Tabs
               PROVE  /\ screen[t].token \in 0..minted' /\ screen[t].since \in 0..(flips + 1)
                      /\ screen[t].since # flips + 1
    OBVIOUS
  <2>1. PICK k \in 0..minted, n \in 0..flips : k = screen[t].token /\ n = screen[t].since BY <1>2
  <2> QED BY <2>1, <1>1
<1>5. \A t \in Tabs : OnItsWay(t)' => /\ awaited'[t].token <= minted' /\ awaited'[t].since <= flips'
                                      /\ awaited'[t].since # flips'
  <2> SUFFICES ASSUME NEW t \in Tabs, OnItsWay(t)
               PROVE  /\ awaited[t].token <= minted' /\ awaited[t].since <= flips + 1
                      /\ awaited[t].since # flips + 1
    BY DEF OnItsWay
  <2>1. PICK k \in 0..minted, n \in 0..flips : k = awaited[t].token /\ n = awaited[t].since
    BY <1>3
  <2> QED BY <2>1, <1>1
<1>6. BrowserTypeOK'
  <2>1. minted' \in 0..MaxTokens /\ flips' \in 0..MaxFlips BY <1>1
  <2>2. {session, anon}' \cup DOMAIN server' \subseteq 0..minted' OBVIOUS
  <2>3. \A t \in Tabs : screen'[t].content \in Pages \cup {"blank"}
                     /\ screen'[t].shown \in Users \cup {Nobody}
    BY <1>2 DEF Screen
  <2> QED BY <2>1, <2>2, <2>3, <1>4 DEF BrowserTypeOK
<1>7. TabsTyped'
  <2>1. {session, anon, minted, flips}' \cup DOMAIN server' \subseteq Nat BY <1>1
  <2> QED BY <1>5, <2>1 DEF BrowserInv, TabsTyped
<1>8. ReloadedFormWorks' BY <1>4 DEF ReloadedFormWorks
<1>9. AnswersAreCurrent' BY <1>5 DEF AnswersAreCurrent
<1>10. MapHasItsPolicy' /\ MapsAreLoaded'
  BY DEF BrowserInv, TabsAreSafe, MapHasItsPolicy, MapsAreLoaded, OnItsWay
<1>11. TokensTellReaders'
  <2>1. \A s \in DOMAIN server' : s # 0 /\ ~OfVisitors(s)' BY <1>1
  <2>2. ASSUME NEW t \in Tabs PROVE TellsReader(screen[t])'
    <3>1. PICK page : page = screen[t] OBVIOUS
    <3>2. TellsReader(page)' BY <3>1, <1>1, <1>2, OldPages
    <3>3. screen'[t] = page BY <3>1
    <3> QED BY <3>2, <3>3 DEF TellsReader
  <2>3. ASSUME NEW t \in Tabs, OnItsWay(t)' PROVE TellsReader(awaited[t])'
    <3>1. PICK page : page = awaited[t] OBVIOUS
    <3>2. OnItsWay(t) BY <2>3 DEF OnItsWay
    <3>3. TellsReader(page)' BY <3>1, <3>2, <1>1, <1>3, OldPages
    <3>4. awaited'[t] = page BY <3>1
    <3> QED BY <3>3, <3>4 DEF TellsReader
  <2> QED BY <2>1, <2>2, <2>3 DEF TokensTellReaders
<1> QED BY <1>6, <1>7, <1>8, <1>9, <1>10, <1>11 DEF BrowserInv, TabsAreSafe

\* A session begins under a token that nobody has.
LEMMA SignInKeeps ==
  ASSUME BrowserInv, NEW t \in Tabs, NEW user \in Users, SignIn(t, user)
  PROVE  BrowserInv'
<1>1. PICK m \in Nat : m = minted BY BrowserFacts
<1>2. /\ m < MaxTokens /\ flips < MaxFlips /\ minted' = m + 1 /\ session' = m + 1
      /\ flips' = flips + 1 /\ anon' = anon /\ UNCHANGED <<screen, awaited>>
      /\ DOMAIN server' = DOMAIN server \cup {m + 1}
      /\ server'[m + 1] = user
      /\ \A s \in DOMAIN server : s # m + 1 => server'[s] = server[s]
  BY <1>1 DEF SignIn
<1>3. /\ anon \in 0..m /\ MaxTokens \in Nat
      /\ \A s \in DOMAIN server : s \in 1..m /\ server[s] \in Users /\ ~OfVisitors(s)
  BY <1>1, BrowserFacts
<1>4. \A k : OfVisitors(k)' <=> OfVisitors(k) BY <1>2 DEF OfVisitors, OnItsWay
<1>5. ~OfVisitors(m + 1)
  <2>1. \A d \in Tabs : OnItsWay(d) => awaited[d].token \in 0..m BY <1>1, AnswerFacts
  <2>2. ~(m + 1 \in 0..m) OBVIOUS
  <2> QED BY <2>1, <2>2, <1>3 DEF OfVisitors
<1>6. \A s \in DOMAIN server' : s \in 1..minted' /\ server'[s] \in Users /\ ~OfVisitors(s)'
  <2> SUFFICES ASSUME NEW s \in DOMAIN server'
               PROVE  s \in 1..(m + 1) /\ server'[s] \in Users /\ ~OfVisitors(s)
    BY <1>2, <1>4
  <2>1. CASE s = m + 1 BY <2>1, <1>2, <1>5
  <2>2. CASE s \in DOMAIN server /\ s # m + 1 BY <2>2, <1>2, <1>3
  <2> QED BY <2>1, <2>2, <1>2
<1>7. OldTokensStay
  <2>1. \A k \in 0..m : k # m + 1 OBVIOUS
  <2> QED BY <2>1, <1>1, <1>2, <1>4 DEF OldTokensStay
<1>8. FormActsAsItsReader' BY SubmitsForReader DEF SignIn
<1>9. /\ minted' \in Nat /\ minted <= minted' /\ minted' <= MaxTokens
      /\ session' \in 0..minted' /\ anon' \in 0..minted'
  BY <1>1, <1>2, <1>3
<1> QED BY <1>2, <1>6, <1>7, <1>8, <1>9, FlipKeeps

\* A session ends, here or elsewhere, and the cookie goes or stays behind.
LEMMA SessionGoes ==
  ASSUME BrowserInv, flips < MaxFlips, flips' = flips + 1,
         server' = [s \in DOMAIN server \ {session} |-> server[s]],
         session' \in {0, session}, UNCHANGED <<anon, minted, screen, awaited>>,
         FormActsAsItsReader'
  PROVE  BrowserInv'
<1>1. PICK m \in Nat : m = minted BY BrowserFacts
<1>2. /\ anon \in 0..m /\ session \in 0..m /\ MaxTokens \in Nat /\ m <= MaxTokens
      /\ \A s \in DOMAIN server : s \in 1..m /\ server[s] \in Users /\ ~OfVisitors(s)
  BY <1>1, BrowserFacts
<1>3. /\ DOMAIN server' \subseteq DOMAIN server
      /\ \A s \in DOMAIN server' : server'[s] = server[s]
  OBVIOUS
<1>4. \A k : OfVisitors(k)' <=> OfVisitors(k) BY DEF OfVisitors, OnItsWay
<1>5. \A s \in DOMAIN server' : s \in 1..minted' /\ server'[s] \in Users /\ ~OfVisitors(s)'
  BY <1>1, <1>2, <1>3, <1>4
<1>6. OldTokensStay BY <1>3, <1>4 DEF OldTokensStay
<1>7. /\ minted' \in Nat /\ minted <= minted' /\ minted' <= MaxTokens
      /\ session' \in 0..minted' /\ anon' \in 0..minted'
  BY <1>1, <1>2
<1> QED BY <1>5, <1>6, <1>7, FlipKeeps

LEMMA SessionsKeep ==
  ASSUME BrowserInv, SessionEnds \/ (\E t \in Tabs : SignOut(t))
  PROVE  BrowserInv'
<1>1. CASE SessionEnds
  <2>1. FormActsAsItsReader' BY <1>1 DEF SessionEnds, BrowserInv, TabsAreSafe, FormActsAsItsReader
  <2>2. session' \in {0, session} BY <1>1 DEF SessionEnds
  <2> QED BY <1>1, <2>1, <2>2, SessionGoes DEF SessionEnds
<1>2. ASSUME NEW t \in Tabs, SignOut(t) PROVE BrowserInv'
  <2>1. FormActsAsItsReader' BY <1>2, SubmitsForReader DEF SignOut
  <2>2. session' \in {0, session} BY <1>2 DEF SignOut
  <2> QED BY <1>2, <2>1, <2>2, SessionGoes DEF SignOut
<1> QED BY <1>1, <1>2

\* The cookie of visitors expires.
LEMMA AnonExpires ==
  ASSUME BrowserInv, AnonCookieExpires
  PROVE  BrowserInv'
<1>1. PICK m \in Nat : m = minted BY BrowserFacts
<1>2. /\ session \in 0..m /\ MaxTokens \in Nat /\ m <= MaxTokens
      /\ \A s \in DOMAIN server : s \in 1..m /\ server[s] \in Users /\ ~OfVisitors(s)
  BY <1>1, BrowserFacts
<1>3. /\ flips < MaxFlips /\ anon' = 0 /\ flips' = flips + 1
      /\ UNCHANGED <<session, server, minted, screen, awaited, lastAct>>
  BY DEF AnonCookieExpires
<1>4. \A k : k # 0 /\ OfVisitors(k)' => OfVisitors(k) BY <1>3 DEF OfVisitors, OnItsWay
<1>5. \A s \in DOMAIN server' : s \in 1..minted' /\ server'[s] \in Users /\ ~OfVisitors(s)'
  <2>1. \A s \in 1..m : s # 0 OBVIOUS
  <2> QED BY <2>1, <1>1, <1>2, <1>3, <1>4
<1>6. OldTokensStay
  <2>1. \A k \in 1..minted : k # 0 OBVIOUS
  <2> QED BY <2>1, <1>3, <1>4 DEF OldTokensStay
<1>7. /\ minted' \in Nat /\ minted <= minted' /\ minted' <= MaxTokens
      /\ session' \in 0..minted' /\ anon' \in 0..minted'
  BY <1>1, <1>2, <1>3
<1>8. FormActsAsItsReader' BY <1>3 DEF BrowserInv, TabsAreSafe, FormActsAsItsReader
<1> QED BY <1>3, <1>5, <1>6, <1>7, <1>8, FlipKeeps

\* A form that leaves cookies and sessions alone.
LEMMA SubmitKeepsTabs ==
  ASSUME BrowserInv, NEW t \in Tabs, SubmitForm(t)
  PROVE  BrowserInv'
<1>1. FormActsAsItsReader' BY SubmitsForReader DEF SubmitForm
<1>2. UNCHANGED <<session, anon, server, minted, screen, awaited, flips>> BY DEF SubmitForm
<1>3. BrowserTypeOK' /\ MapHasItsPolicy' /\ TabsTyped' /\ MapsAreLoaded'
  BY <1>2 DEF BrowserInv, TabsAreSafe, BrowserTypeOK, MapHasItsPolicy, TabsTyped, MapsAreLoaded,
              OnItsWay
<1>4. ReloadedFormWorks' /\ AnswersAreCurrent'
  BY <1>2 DEF BrowserInv, TabsAreSafe, ReloadedFormWorks, AnswersAreCurrent, OnItsWay, Mints,
              Accepted, Expected, SignedIn
<1>5. TokensTellReaders'
  BY <1>2 DEF BrowserInv, TokensTellReaders, TellsReader, OfVisitors, OnItsWay
<1> QED BY <1>1, <1>3, <1>4, <1>5 DEF BrowserInv, TabsAreSafe

\* What is accepted depends on the cookies and the sessions alone.
LEMMA AcceptedStays ==
  ASSUME UNCHANGED <<session, anon, server>>
  PROVE  (Mints' <=> Mints) /\ \A k : Accepted(k)' <=> Accepted(k)
<1>1. (Mints' <=> Mints) /\ (SignedIn' <=> SignedIn) BY DEF Mints, SignedIn
<1>2. ~Mints => Expected' = Expected BY DEF Mints, Expected, SignedIn
<1> QED BY <1>1, <1>2 DEF Accepted

\* The page that is rendered for the cookies a request came with.
LEMMA RenderedFacts ==
  ASSUME BrowserInv, NEW m \in Nat, m = minted
  PROVE  /\ Expected \in 0..(m + 1) /\ Expected # 0
         /\ Mints => Expected = m + 1 /\ Principal = Nobody
         /\ ~Mints => Expected \in 0..m
         /\ Expected \in DOMAIN server => Principal = server[Expected]
         /\ OfVisitors(Expected) => Principal = Nobody
         /\ Principal \in Users \cup {Nobody}
<1>1. /\ session \in 0..m /\ anon \in 0..m
      /\ \A s \in DOMAIN server : s \in 1..m /\ server[s] \in Users /\ ~OfVisitors(s)
  BY BrowserFacts
<1>2. \A s \in 1..m : s # 0 /\ s # m + 1 OBVIOUS
<1>3. CASE SignedIn
  <2>1. Expected = session /\ Principal = server[session] /\ ~Mints /\ session \in DOMAIN server
    BY <1>3 DEF Expected, Principal, Mints, SignedIn
  <2> QED BY <2>1, <1>1, <1>2
<1>4. CASE ~SignedIn /\ anon # 0
  <2>1. Expected = anon /\ Principal = Nobody /\ ~Mints /\ OfVisitors(anon)
    BY <1>4 DEF Expected, Principal, Mints, OfVisitors
  <2> QED BY <2>1, <1>1, <1>4
<1>5. CASE ~SignedIn /\ anon = 0
  <2>1. Expected = m + 1 /\ Principal = Nobody /\ Mints
    BY <1>5 DEF Expected, Principal, Mints
  <2> QED BY <2>1, <1>1, <1>2
<1> QED BY <1>3, <1>4, <1>5

\* A page is asked for, with the cookies of the moment.
LEMMA NavigateKeeps ==
  ASSUME BrowserInv, NEW t \in Tabs, NEW page \in Pages, NEW how \in {"load", "boost"},
         NEW ok \in BOOLEAN, Navigate(t, page, how, ok)
  PROVE  BrowserInv'
<1>1. PICK m \in Nat : m = minted BY BrowserFacts
<1>2. PICK b \in BOOLEAN : b = Mints BY DEF Mints
<1>3. PICK k, who : k = Expected /\ who = Principal OBVIOUS
<1>4. PICK how2 : how2 = IF full_navigation(page, how) THEN "load" ELSE how OBVIOUS
<1>5. PICK y : y = [content |-> page, how |-> how2, token |-> k, shown |-> who, ok |-> ok,
                    mints |-> b, since |-> flips]
  OBVIOUS
<1>6. /\ k \in 0..(m + 1) /\ k # 0 /\ who \in Users \cup {Nobody}
      /\ b => k = m + 1 /\ who = Nobody
      /\ ~b => k \in 0..m
      /\ k \in DOMAIN server => who = server[k]
      /\ OfVisitors(k) => who = Nobody
  BY <1>1, <1>2, <1>3, RenderedFacts
<1>7. /\ awaited[t] = NoPage /\ (b => m < MaxTokens) /\ minted' = IF b THEN m + 1 ELSE m
      /\ awaited' = [awaited EXCEPT ![t] = y]
      /\ UNCHANGED <<session, anon, server, screen, lastAct, flips>>
  BY <1>1, <1>2, <1>3, <1>4, <1>5 DEF Navigate
<1>8. /\ flips \in Nat /\ MaxTokens \in Nat /\ m <= MaxTokens
      /\ session \in 0..m /\ anon \in 0..m
      /\ \A s \in DOMAIN server : s \in 1..m /\ ~OfVisitors(s)
  BY <1>1, BrowserFacts
<1>9. y \in PageAnswer
  <2>1. how2 \in {"load", "boost"} BY <1>4
  <2> QED BY <2>1, <1>5, <1>6, <1>8 DEF PageAnswer
<1>10. /\ y.token = k /\ y.shown = who /\ y.mints = b /\ y.since = flips
       /\ y.content = page /\ y.how = how2
  BY <1>5
<1>11. /\ awaited' \in [Tabs -> PageAnswer \cup {NoPage}] /\ awaited'[t] = y
       /\ \A d \in Tabs : d # t => awaited'[d] = awaited[d]
  BY <1>7, <1>9 DEF BrowserInv, TabsTyped
<1>12. /\ minted' \in 0..MaxTokens /\ minted' \in Nat /\ 0..m \subseteq 0..minted'
       /\ k <= minted' /\ m <= minted'
  <2>1. CASE b BY <2>1, <1>6, <1>7, <1>8
  <2>2. CASE ~b BY <2>2, <1>6, <1>7, <1>8
  <2> QED BY <2>1, <2>2
<1>13. \A j : OfVisitors(j)' => OfVisitors(j) \/ (b /\ j = m + 1)
  <2> SUFFICES ASSUME NEW j, OfVisitors(j)' PROVE OfVisitors(j) \/ (b /\ j = m + 1) OBVIOUS
  <2>1. CASE j = anon' BY <2>1, <1>7 DEF OfVisitors
  <2>2. CASE j # anon'
    <3>1. PICK d \in Tabs : awaited'[d] # NoPage /\ awaited'[d].mints /\ awaited'[d].token = j
      BY <2>2 DEF OfVisitors, OnItsWay
    <3>2. CASE d = t BY <3>1, <3>2, <1>6, <1>10, <1>11
    <3>3. CASE d # t BY <3>1, <3>3, <1>11 DEF OfVisitors, OnItsWay
    <3> QED BY <3>2, <3>3
  <2> QED BY <2>1, <2>2
<1>14. OldTokensStay
  <2>1. \A j \in 1..m : j # m + 1 OBVIOUS
  <2> QED BY <2>1, <1>1, <1>7, <1>13 DEF OldTokensStay
<1>15. BrowserTypeOK'
  <2>1. {session, anon}' \cup DOMAIN server' \subseteq 0..minted' BY <1>7, <1>8, <1>12
  <2>2. \A d \in Tabs : screen'[d].token \in 0..minted' BY <1>1, <1>7, <1>12, ScreenFacts
  <2> QED BY <2>1, <2>2, <1>7, <1>12 DEF BrowserInv, TabsAreSafe, BrowserTypeOK
<1>16. TabsTyped'
  <2>1. {session, anon, minted, flips}' \cup DOMAIN server' \subseteq Nat BY <1>7, <1>8, <1>12
  <2>2. ASSUME NEW d \in Tabs, OnItsWay(d)'
        PROVE  awaited'[d].token <= minted' /\ awaited'[d].since <= flips'
    <3>1. CASE d = t BY <3>1, <1>7, <1>8, <1>10, <1>11, <1>12
    <3>2. CASE d # t
      <4>1. OnItsWay(d) BY <2>2, <3>2, <1>11 DEF OnItsWay
      <4>2. PICK j \in 0..m, n \in 0..flips : j = awaited[d].token /\ n = awaited[d].since
        BY <4>1, <1>1, AnswerFacts
      <4> QED BY <3>2, <4>2, <1>7, <1>8, <1>11, <1>12
    <3> QED BY <3>1, <3>2
  <2> QED BY <2>1, <2>2, <1>7, <1>11 DEF BrowserInv, TabsTyped
<1>17. (Mints' <=> Mints) /\ \A j : Accepted(j)' <=> Accepted(j) BY <1>7, AcceptedStays
<1>18. ReloadedFormWorks'
  <2> SUFFICES ASSUME NEW d \in Tabs, screen'[d].ok, screen'[d].since = flips'
               PROVE  Accepted(screen[d].token)'
    BY DEF ReloadedFormWorks
  <2>1. PICK j : j = screen[d].token OBVIOUS
  <2>2. Accepted(j) BY <2>1, <1>7 DEF BrowserInv, TabsAreSafe, ReloadedFormWorks
  <2>3. Accepted(j)' /\ screen'[d].token = j BY <2>1, <2>2, <1>7, <1>17
  <2> QED BY <2>3 DEF Accepted
<1>19. AnswersAreCurrent'
  <2> SUFFICES ASSUME NEW d \in Tabs, OnItsWay(d)', awaited'[d].since = flips'
               PROVE  IF awaited'[d].mints THEN Mints' /\ awaited'[d].token # 0
                                           ELSE Accepted(awaited[d].token)'
    BY DEF AnswersAreCurrent
  <2>1. CASE d = t
    <3>1. CASE b
      <4>1. Mints' BY <3>1, <1>2, <1>17
      <4>2. awaited'[d].mints = b /\ awaited'[d].token = k BY <2>1, <1>10, <1>11
      <4>3. awaited'[d].mints /\ awaited'[d].token # 0 BY <3>1, <4>2, <1>6
      <4> QED BY <4>1, <4>3
    <3>2. CASE ~b
      <4>1. Accepted(k) BY <3>2, <1>2, <1>3, <1>6 DEF Accepted
      <4>2. Accepted(k)' /\ awaited'[d].token = k /\ ~awaited'[d].mints
        BY <2>1, <3>2, <4>1, <1>10, <1>11, <1>17
      <4> QED BY <4>2 DEF Accepted
    <3> QED BY <3>1, <3>2
  <2>2. CASE d # t
    <3>1. PICK x : x = awaited[d] OBVIOUS
    <3>2. awaited'[d] = x /\ OnItsWay(d) /\ x.since = flips
      BY <2>2, <3>1, <1>7, <1>11 DEF OnItsWay
    <3>3. IF x.mints THEN Mints /\ x.token # 0 ELSE Accepted(x.token)
      BY <3>1, <3>2 DEF BrowserInv, AnswersAreCurrent
    <3>4. IF x.mints THEN Mints' /\ x.token # 0 ELSE Accepted(x.token)' BY <3>3, <1>17
    <3> QED BY <3>2, <3>4 DEF Accepted
  <2> QED BY <2>1, <2>2
<1>20. MapsAreLoaded'
  <2>1. GoogleMaps /\ y.content = "map" => y.how = "load"
    BY <1>4, <1>10 DEF full_navigation
  <2> QED BY <2>1, <1>11 DEF BrowserInv, MapsAreLoaded, OnItsWay
<1>21. MapHasItsPolicy' /\ FormActsAsItsReader'
  BY <1>7 DEF BrowserInv, TabsAreSafe, MapHasItsPolicy, FormActsAsItsReader
<1>22. TokensTellReaders'
  <2>1. \A s \in DOMAIN server' : s # 0 /\ ~OfVisitors(s)'
    <3>1. \A s \in 1..m : s # 0 /\ s # m + 1 OBVIOUS
    <3> QED BY <3>1, <1>7, <1>8, <1>13
  <2>2. ASSUME NEW d \in Tabs PROVE TellsReader(screen[d])'
    <3>1. PICK x : x = screen[d] OBVIOUS
    <3>2. TellsReader(x)' BY <3>1, <1>1, <1>14, ScreenFacts, OldPages
    <3>3. screen'[d] = x BY <3>1, <1>7
    <3> QED BY <3>2, <3>3 DEF TellsReader
  <2>3. ASSUME NEW d \in Tabs, OnItsWay(d)' PROVE TellsReader(awaited[d])'
    <3>1. CASE d # t
      <4>1. PICK x : x = awaited[d] OBVIOUS
      <4>2. OnItsWay(d) /\ awaited'[d] = x BY <2>3, <3>1, <4>1, <1>11 DEF OnItsWay
      <4>3. TellsReader(x)' BY <4>1, <4>2, <1>1, <1>14, AnswerFacts, OldPages
      <4> QED BY <4>2, <4>3 DEF TellsReader
    <3>2. CASE d = t
      <4>1. k \in DOMAIN server' => who = server'[k] BY <1>6, <1>7
      <4>2. OfVisitors(k)' => who = Nobody BY <1>6, <1>13
      <4>3. TellsReader(y)' BY <4>1, <4>2, <1>10 DEF TellsReader
      <4>4. awaited'[d] = y BY <3>2, <1>11
      <4> QED BY <4>3, <4>4 DEF TellsReader
    <3> QED BY <3>1, <3>2
  <2> QED BY <2>1, <2>2, <2>3 DEF TokensTellReaders
<1> QED BY <1>15, <1>16, <1>18, <1>19, <1>20, <1>21, <1>22 DEF BrowserInv, TabsAreSafe

\* The answer arrives, among the cookies it finds; the token of a visitor is
\* kept when the page succeeded.
LEMMA ReceiveKeeps ==
  ASSUME BrowserInv, NEW t \in Tabs, Receive(t)
  PROVE  BrowserInv'
<1>1. PICK m \in Nat, n \in Nat : m = minted /\ n = flips BY BrowserFacts
<1>2. PICK x : x = awaited[t] OBVIOUS
<1>3. OnItsWay(t) BY DEF Receive, OnItsWay
<1>4. /\ x \in PageAnswer /\ x.token \in 0..m /\ x.since \in 0..n /\ TellsReader(x)
  BY <1>1, <1>2, <1>3, AnswerFacts
<1>5. /\ x.content \in Pages /\ x.how \in {"load", "boost"} /\ x.shown \in Users \cup {Nobody}
      /\ x.ok \in BOOLEAN /\ x.mints \in BOOLEAN
  BY <1>4 DEF PageAnswer
<1>6. PICK keeps \in BOOLEAN : keeps <=> x.mints /\ x.ok BY <1>5
<1>7. PICK pol : pol = IF x.how = "load" THEN policy(x.content) ELSE screen[t].policy OBVIOUS
<1>8. PICK since : since = IF keeps /\ x.since = n THEN n + 1 ELSE x.since OBVIOUS
<1>9. PICK z : z = [content |-> x.content, policy |-> pol, token |-> x.token, shown |-> x.shown,
                    ok |-> x.ok, since |-> since]
  OBVIOUS
<1>10. /\ keeps => n < MaxFlips
       /\ anon' = IF keeps THEN x.token ELSE anon
       /\ flips' = IF keeps THEN n + 1 ELSE n
       /\ screen' = [screen EXCEPT ![t] = z]
       /\ awaited' = [awaited EXCEPT ![t] = NoPage]
       /\ UNCHANGED <<session, server, minted, lastAct>>
  <2>1. keeps <=> set_anon_cookie(x.mints, x.ok) BY <1>6 DEF set_anon_cookie
  <2> QED BY <2>1, <1>1, <1>2, <1>7, <1>8, <1>9 DEF Receive
<1>11. /\ MaxFlips \in Nat /\ n <= MaxFlips /\ session \in 0..m /\ anon \in 0..m
       /\ \A s \in DOMAIN server : s \in 1..m /\ ~OfVisitors(s)
  BY <1>1, BrowserFacts
<1>12. flips' \in 0..MaxFlips /\ flips' \in Nat /\ n <= flips' /\ since \in 0..flips'
  <2>1. CASE keeps BY <2>1, <1>4, <1>8, <1>10, <1>11
  <2>2. CASE ~keeps BY <2>2, <1>4, <1>8, <1>10, <1>11
  <2> QED BY <2>1, <2>2
<1>13. pol \in Pages \cup {"none"}
  BY <1>5, <1>7, ScreenFacts DEF policy, Pages, Screen
<1>14. z \in Screen
  <2>1. since \in Nat /\ x.token \in Nat BY <1>4, <1>12
  <2> QED BY <2>1, <1>5, <1>9, <1>13 DEF Screen
<1>15. /\ z.content = x.content /\ z.policy = pol /\ z.token = x.token /\ z.shown = x.shown
       /\ z.ok = x.ok /\ z.since = since
  BY <1>9
<1>16. /\ screen' \in [Tabs -> Screen] /\ screen'[t] = z
       /\ \A d \in Tabs : d # t => screen'[d] = screen[d]
       /\ awaited' \in [Tabs -> PageAnswer \cup {NoPage}] /\ awaited'[t] = NoPage
       /\ \A d \in Tabs : d # t => awaited'[d] = awaited[d]
  BY <1>10, <1>14 DEF BrowserInv, TabsTyped
<1>17. \A d \in Tabs : OnItsWay(d)' => d # t /\ OnItsWay(d) /\ awaited'[d] = awaited[d]
  BY <1>16 DEF OnItsWay
<1>18. \A k : OfVisitors(k)' => OfVisitors(k)
  <2> SUFFICES ASSUME NEW k, OfVisitors(k)' PROVE OfVisitors(k) OBVIOUS
  <2>1. CASE k = anon'
    <3>1. CASE keeps
      <4>1. k = awaited[t].token /\ awaited[t].mints BY <2>1, <3>1, <1>2, <1>6, <1>10
      <4> QED BY <4>1, <1>3 DEF OfVisitors
    <3>2. CASE ~keeps BY <2>1, <3>2, <1>10 DEF OfVisitors
    <3> QED BY <3>1, <3>2
  <2>2. CASE k # anon'
    <3>1. PICK d \in Tabs : OnItsWay(d)' /\ awaited'[d].mints /\ awaited'[d].token = k
      BY <2>2 DEF OfVisitors
    <3> QED BY <3>1, <1>17 DEF OfVisitors
  <2> QED BY <2>1, <2>2
<1>19. OldTokensStay BY <1>10, <1>18 DEF OldTokensStay
<1>20. anon' \in 0..m BY <1>4, <1>10, <1>11
<1>21. BrowserTypeOK'
  <2>1. {session, anon}' \cup DOMAIN server' \subseteq 0..minted'
    BY <1>1, <1>10, <1>11, <1>20
  <2>2. ASSUME NEW d \in Tabs
        PROVE  /\ screen'[d].content \in Pages \cup {"blank"} /\ screen'[d].token \in 0..m
               /\ screen'[d].shown \in Users \cup {Nobody} /\ screen'[d].since \in 0..flips'
    <3>1. CASE d = t BY <3>1, <1>4, <1>5, <1>12, <1>15, <1>16
    <3>2. CASE d # t
      <4>1. screen[d] \in Screen /\ screen[d].token \in 0..m BY <1>1, ScreenFacts
      <4>2. PICK j \in 0..n : j = screen[d].since BY <1>1, ScreenFacts
      <4>3. j \in 0..flips' BY <1>12
      <4> QED BY <3>2, <4>1, <4>2, <4>3, <1>16 DEF Screen
    <3> QED BY <3>1, <3>2
  <2>3. minted' \in 0..MaxTokens
    BY <1>10 DEF BrowserInv, TabsAreSafe, BrowserTypeOK
  <2> QED BY <2>1, <2>2, <2>3, <1>1, <1>10, <1>12 DEF BrowserTypeOK
<1>22. TabsTyped'
  <2>1. {session, anon, minted, flips}' \cup DOMAIN server' \subseteq Nat
    BY <1>1, <1>10, <1>11, <1>12, <1>20
  <2>2. ASSUME NEW d \in Tabs, OnItsWay(d)'
        PROVE  awaited'[d].token <= minted' /\ awaited'[d].since <= flips'
    <3>1. PICK j \in 0..m, i \in 0..n : j = awaited[d].token /\ i = awaited[d].since
      BY <2>2, <1>1, <1>17, AnswerFacts
    <3> QED BY <2>2, <3>1, <1>1, <1>10, <1>12, <1>17
  <2> QED BY <2>1, <2>2, <1>10, <1>16 DEF BrowserInv, TabsTyped
<1>23. ~keeps => (Mints' <=> Mints) /\ \A k : Accepted(k)' <=> Accepted(k)
  BY <1>10, AcceptedStays
<1>24. x.since = n => IF x.mints THEN Mints /\ x.token # 0 ELSE Accepted(x.token)
  BY <1>1, <1>2, <1>3 DEF BrowserInv, AnswersAreCurrent
<1>25. ReloadedFormWorks'
  <2> SUFFICES ASSUME NEW d \in Tabs, screen'[d].ok, screen'[d].since = flips'
               PROVE  Accepted(screen[d].token)'
    BY DEF ReloadedFormWorks
  <2>1. CASE keeps
    <3>1. PICK j \in 0..n : j = screen[d].since BY <1>1, ScreenFacts
    <3>2. d = t /\ since = n + 1
      <4>1. flips' = n + 1 /\ j # n + 1 BY <2>1, <1>10
      <4>2. d = t BY <3>1, <4>1, <1>16
      <4> QED BY <4>1, <4>2, <1>15, <1>16
    <3>3. x.since = n /\ x.mints /\ x.since # n + 1
      BY <2>1, <3>2, <1>4, <1>6, <1>8
    <3>4. Mints /\ x.token # 0 BY <3>3, <1>24
    <3>5. ~SignedIn' BY <3>4, <1>10 DEF Mints, SignedIn
    <3>6. anon' = x.token BY <2>1, <1>10
    <3>7. Expected' = x.token /\ ~Mints' BY <3>4, <3>5, <3>6 DEF Expected, Mints
    <3>8. screen'[d].token = x.token BY <3>2, <1>15, <1>16
    <3> QED BY <3>4, <3>7, <3>8 DEF Accepted
  <2>2. CASE ~keeps
    <3>1. flips' = n BY <2>2, <1>10
    <3>2. CASE d = t
      <4>1. x.ok /\ x.since = n BY <2>2, <3>1, <3>2, <1>8, <1>15, <1>16
      <4>2. ~x.mints BY <2>2, <4>1, <1>6
      <4>3. PICK k : k = x.token OBVIOUS
      <4>4. Accepted(k) BY <4>1, <4>2, <4>3, <1>24
      <4>5. Accepted(k)' /\ screen'[d].token = k BY <2>2, <3>2, <4>3, <4>4, <1>15, <1>16, <1>23
      <4> QED BY <4>5 DEF Accepted
    <3>3. CASE d # t
      <4>1. PICK k : k = screen[d].token OBVIOUS
      <4>2. Accepted(k)
        BY <3>1, <3>3, <4>1, <1>1, <1>16 DEF BrowserInv, TabsAreSafe, ReloadedFormWorks
      <4>3. Accepted(k)' /\ screen'[d].token = k BY <2>2, <3>3, <4>1, <4>2, <1>16, <1>23
      <4> QED BY <4>3 DEF Accepted
    <3> QED BY <3>2, <3>3
  <2> QED BY <2>1, <2>2
<1>26. AnswersAreCurrent'
  <2> SUFFICES ASSUME NEW d \in Tabs, OnItsWay(d)', awaited'[d].since = flips'
               PROVE  IF awaited'[d].mints THEN Mints' /\ awaited'[d].token # 0
                                           ELSE Accepted(awaited[d].token)'
    BY DEF AnswersAreCurrent
  <2>1. PICK y : y = awaited[d] OBVIOUS
  <2>2. OnItsWay(d) /\ awaited'[d] = y BY <2>1, <1>17
  <2>3. PICK i \in 0..n : i = y.since BY <2>1, <2>2, <1>1, AnswerFacts
  <2>4. ~keeps /\ y.since = n
    <3>1. flips' = i BY <2>2, <2>3
    <3>2. ~keeps BY <3>1, <2>3, <1>10
    <3> QED BY <2>3, <3>1, <3>2, <1>10
  <2>5. IF y.mints THEN Mints /\ y.token # 0 ELSE Accepted(y.token)
    BY <2>1, <2>2, <2>4, <1>1 DEF BrowserInv, AnswersAreCurrent
  <2>6. IF y.mints THEN Mints' /\ y.token # 0 ELSE Accepted(y.token)' BY <2>4, <2>5, <1>23
  <2> QED BY <2>2, <2>6 DEF Accepted
<1>27. MapsAreLoaded' /\ FormActsAsItsReader'
  BY <1>10, <1>17 DEF BrowserInv, TabsAreSafe, MapsAreLoaded, FormActsAsItsReader
<1>28. MapHasItsPolicy'
  <2> SUFFICES ASSUME GoogleMaps, NEW d \in Tabs, screen'[d].content = "map"
               PROVE  screen'[d].policy = "map"
    BY DEF MapHasItsPolicy
  <2>1. CASE d = t
    <3>1. x.content = "map" BY <2>1, <1>15, <1>16
    <3>2. x.how = "load" BY <3>1, <1>2, <1>3 DEF BrowserInv, MapsAreLoaded
    <3>3. pol = "map" BY <3>1, <3>2, <1>7 DEF policy
    <3> QED BY <2>1, <3>3, <1>15, <1>16
  <2>2. CASE d # t BY <2>2, <1>16 DEF BrowserInv, TabsAreSafe, MapHasItsPolicy
  <2> QED BY <2>1, <2>2
<1>29. TokensTellReaders'
  <2>1. \A s \in DOMAIN server' : s # 0 /\ ~OfVisitors(s)'
    <3>1. \A s \in 1..m : s # 0 OBVIOUS
    <3> QED BY <3>1, <1>10, <1>11, <1>18
  <2>2. ASSUME NEW d \in Tabs PROVE TellsReader(screen[d])'
    <3>1. CASE d # t
      <4>1. PICK y : y = screen[d] OBVIOUS
      <4>2. TellsReader(y)' BY <4>1, <1>1, <1>19, ScreenFacts, OldPages
      <4>3. screen'[d] = y BY <3>1, <4>1, <1>16
      <4> QED BY <4>2, <4>3 DEF TellsReader
    <3>2. CASE d = t
      <4>1. TellsReader(x)' BY <1>1, <1>4, <1>19, OldPages
      <4>2. screen'[d].token = x.token /\ screen'[d].shown = x.shown BY <3>2, <1>15, <1>16
      <4> QED BY <4>1, <4>2 DEF TellsReader
    <3> QED BY <3>1, <3>2
  <2>3. ASSUME NEW d \in Tabs, OnItsWay(d)' PROVE TellsReader(awaited[d])'
    <3>1. PICK y : y = awaited[d] OBVIOUS
    <3>2. OnItsWay(d) /\ awaited'[d] = y BY <2>3, <3>1, <1>17
    <3>3. TellsReader(y)' BY <3>1, <3>2, <1>1, <1>19, AnswerFacts, OldPages
    <3> QED BY <3>2, <3>3 DEF TellsReader
  <2> QED BY <2>1, <2>2, <2>3 DEF TokensTellReaders
<1> QED BY <1>21, <1>22, <1>25, <1>26, <1>27, <1>28, <1>29 DEF BrowserInv, TabsAreSafe

\* Tabs that share their cookies, for any number of tabs, accounts, tokens and
\* changes of a session: a form acts for whoever its page was shown to, a page
\* that was loaded after the last change carries the token that is expected,
\* and a map is never shown under the policy of another page.
THEOREM TabsSafe == browserSpec => []TabsAreSafe
<1>1. browserInit => BrowserInv
  <2> SUFFICES ASSUME browserInit PROVE BrowserInv OBVIOUS
  <2>1. /\ MaxTokens \in Nat /\ MaxFlips \in Nat BY BrowserAssumption
  <2>2. /\ session = 0 /\ anon = 0 /\ minted = 0 /\ flips = 0 /\ DOMAIN server = {}
        /\ lastAct = NoAct
        /\ \A t \in Tabs : screen[t] = BlankTab /\ ~OnItsWay(t)
    BY DEF browserInit, OnItsWay
  <2>3. /\ BlankTab.content = "blank" /\ BlankTab.token = 0 /\ BlankTab.shown = Nobody
        /\ BlankTab.ok = FALSE /\ BlankTab.since = 0
    BY DEF BlankTab
  <2>4. BrowserTypeOK BY <2>1, <2>2, <2>3 DEF BrowserTypeOK
  <2>5. FormActsAsItsReader /\ ReloadedFormWorks /\ MapHasItsPolicy
    BY <2>2, <2>3 DEF FormActsAsItsReader, NoAct, ReloadedFormWorks, MapHasItsPolicy
  <2>6. TabsTyped
    <3>1. BlankTab \in Screen BY DEF BlankTab, Screen
    <3>2. screen \in [Tabs -> Screen] /\ awaited \in [Tabs -> PageAnswer \cup {NoPage}]
      BY <3>1 DEF browserInit
    <3> QED BY <2>2, <3>2 DEF TabsTyped
  <2>7. TokensTellReaders BY <2>2, <2>3 DEF TokensTellReaders, TellsReader
  <2>8. AnswersAreCurrent /\ MapsAreLoaded BY <2>2 DEF AnswersAreCurrent, MapsAreLoaded
  <2> QED BY <2>4, <2>5, <2>6, <2>7, <2>8 DEF BrowserInv, TabsAreSafe
<1>2. BrowserInv /\ [browserNext]_browserVars => BrowserInv'
  <2> SUFFICES ASSUME BrowserInv, [browserNext]_browserVars PROVE BrowserInv' OBVIOUS
  <2>1. CASE UNCHANGED browserVars
    <3>1. UNCHANGED <<session, anon, server, minted, screen, awaited, lastAct, flips>>
      BY <2>1 DEF browserVars
    <3>2. TabsAreSafe' /\ TabsTyped' /\ MapsAreLoaded'
      BY <3>1 DEF BrowserInv, TabsAreSafe, BrowserTypeOK, FormActsAsItsReader, ReloadedFormWorks,
                  MapHasItsPolicy, TabsTyped, MapsAreLoaded, OnItsWay, Accepted, Expected, Mints,
                  SignedIn
    <3>3. TokensTellReaders' /\ AnswersAreCurrent'
      BY <3>1 DEF BrowserInv, TokensTellReaders, TellsReader, OfVisitors, AnswersAreCurrent,
                  OnItsWay, Accepted, Expected, Mints, SignedIn
    <3> QED BY <3>2, <3>3 DEF BrowserInv
  <2>2. CASE browserNext
    BY <2>2, NavigateKeeps, ReceiveKeeps, SubmitKeepsTabs, SignInKeeps, SessionsKeep, AnonExpires
      DEF browserNext
  <2> QED BY <2>1, <2>2
<1>3. BrowserInv => TabsAreSafe BY DEF BrowserInv
<1> QED BY <1>1, <1>2, <1>3, PTL DEF browserSpec

(***************************************************************************)
(* Web.                                                                    *)
(***************************************************************************)
\* The answer of a reply: a redirect or its status, and a fragment only where one
\* was asked for or the reply is a partial.
LEMMA ShownFacts ==
  ASSUME NEW r \in ReplyForm, NEW fr \in BOOLEAN, NEW a, a = Shown(r, fr)
  PROVE  /\ a \in AnswerForm /\ a.status \in 200 .. 599
         /\ a.body \in {"fragment", "document", "data", "redirect"}
         /\ a.status \in {303, r.status} /\ a.says = r.says
         /\ a.body = "fragment" => fr \/ r.shape = "partial"
<1>1. PICK st, sh, sa : st = r.status /\ sh = r.shape /\ sa = r.says
  OBVIOUS
<1>2. st \in 200 .. 599 /\ sh \in Shapes /\ sa \in {"done", "refused", "elsewhere"}
  BY <1>1 DEF ReplyForm
<1>3. \/ a = Sent(303, "redirect", sa)
      \/ a = Sent(st, "document", sa) \/ a = Sent(st, "data", sa)
      \/ a = Sent(st, "fragment", sa) /\ (fr \/ sh = "partial")
  <2>1. CASE sh = "toast"
    BY <1>1, <2>1 DEF Shown, fragment_answer, fragment_or_redirect
  <2>2. CASE sh = "either"
    BY <1>1, <2>2 DEF Shown, fragment_or_redirect
  <2>3. CASE sh = "page"
    BY <1>1, <2>3 DEF Shown
  <2>4. CASE sh = "partial"
    BY <1>1, <2>4 DEF Shown
  <2>5. CASE sh = "view"
    BY <1>1, <2>5 DEF Shown, FragmentOrDocument
  <2>6. CASE sh = "data"
    BY <1>1, <2>6 DEF Shown
  <2>7. CASE sh = "redirect"
    BY <1>1, <2>7 DEF Shown
  <2> QED BY <1>2, <2>1, <2>2, <2>3, <2>4, <2>5, <2>6, <2>7 DEF Shapes
<1>4. PICK s2, b2 : /\ a = Sent(s2, b2, sa) /\ s2 \in {303, st}
                    /\ b2 \in {"fragment", "document", "data", "redirect"}
                    /\ b2 = "fragment" => fr \/ sh = "partial"
  BY <1>3
<1>5. a.status = s2 /\ a.body = b2 /\ a.says = sa /\ a = [status |-> s2, body |-> b2, says |-> sa]
  BY <1>4 DEF Sent
<1>6. s2 \in 200 .. 599 /\ s2 \in 0 .. 599
  BY <1>2, <1>4
<1> QED BY <1>1, <1>2, <1>4, <1>5, <1>6 DEF AnswerForm

\* Only a swap into a part of a page is a fragment request.
LEMMA FragmentKind ==
  ASSUME NEW kind \in DOMAIN Headers
  PROVE  /\ is_fragment_request(kind) \in BOOLEAN
         /\ is_fragment_request(kind) => kind = "partial"
<1>1. kind \in {"plain", "partial", "boosted", "history", "full"}
  BY DEF Headers
<1>2. is_fragment_request(kind) \in BOOLEAN
  BY DEF is_fragment_request
<1>3. kind = "plain" => Headers[kind] = {}
  BY DEF Headers
<1>4. kind = "boosted" => "hx-boosted" \in Headers[kind]
  BY DEF Headers
<1>5. kind = "history" => "hx-history-restore-request" \in Headers[kind]
  BY DEF Headers
<1>6. kind = "full" => "hx-request-type: full" \in Headers[kind]
  BY DEF Headers
<1> QED BY <1>1, <1>2, <1>3, <1>4, <1>5, <1>6 DEF is_fragment_request

\* The request in hand, field by field.
LEMMA RequestFacts ==
  ASSUME WebInv
  PROVE  /\ inhand.phase \in Phases /\ inhand.handler \in DOMAIN routes
         /\ inhand.kind \in DOMAIN Headers /\ inhand.token \in Tokens
         /\ inhand.who \in Principals /\ inhand.pc \in Nat
         /\ inhand.wrote \subseteq DOMAIN acts /\ inhand.answer \in AnswerForm
         /\ HandlerInOrder(TheHandler)
         /\ Fragment \in BOOLEAN /\ (Fragment => inhand.kind = "partial")
<1>1. inhand \in RequestForm
  BY DEF WebInv
<1>2. /\ inhand.phase \in Phases /\ inhand.handler \in DOMAIN routes
      /\ inhand.kind \in DOMAIN Headers /\ inhand.token \in Tokens
      /\ inhand.who \in Principals /\ inhand.pc \in Nat
      /\ inhand.wrote \subseteq DOMAIN acts /\ inhand.answer \in AnswerForm
  BY <1>1 DEF RequestForm
<1> QED BY <1>2, HandlersInOrder, FragmentKind DEF TheHandler, Fragment

LEMMA OrderFacts ==
  ASSUME NEW h, HandlerInOrder(h)
  PROVE  /\ Len(h.steps) \in Nat /\ DOMAIN h.steps = 1 .. Len(h.steps)
         /\ \A i \in DOMAIN h.steps : StepInOrder(h, i, h.steps[i])
         /\ \A i \in DOMAIN h.steps : \A e \in h.steps[i].errors : ErrorFits(h, i, e)
         /\ Fits(h, Len(h.steps) + 1, h.done)
  BY DEF HandlerInOrder, StepInOrder

\* The parts of the invariant that a step has to see to, said of the request's
\* handler h, the step it is at and its fields afterwards.
LEMMA Frame ==
  ASSUME WebInv, NEW h, h = TheHandler,
         inhand' \in RequestForm', inhand'.handler = inhand.handler,
         inhand'.kind = inhand.kind, inhand'.token = inhand.token, inhand'.who = inhand.who,
         inhand'.pc \in 1 .. Len(h.steps) + 1,
         inhand'.phase = "answered" =>
           /\ inhand'.answer.status \in 200 .. 599
           /\ inhand'.answer.body \in {"fragment", "document", "data", "redirect"},
         retries' = retries,
         TurnedAwayDidNothing', PartialOnlyToFragments', WritesAreEntitled',
         LogTellsTheTruth', SuccessIsAudited', NothingYet', RunsInOrder',
         acts' \in [DOMAIN acts' -> Nat]
  PROVE  WebInv'
<1>1. TheHandler' = h
  BY DEF TheHandler
<1>2. inhand'.phase \in Phases /\ inhand'.wrote \subseteq DOMAIN acts'
  BY DEF RequestForm
<1>3. /\ \A i \in DOMAIN h.steps : h.steps[i].errors \subseteq DOMAIN h.fail \cup {"Rejected"}
      /\ retries \in 0 .. MaxRetries
  BY DEF WebInv, AnswersAreHonest, WebTypeOK
<1>4. WebTypeOK'
  BY <1>1, <1>2, <1>3 DEF WebTypeOK
<1> QED BY <1>4 DEF WebInv, AnswersAreHonest

Moved(p, n, w, a) == [inhand EXCEPT !.phase = p, !.pc = n, !.wrote = w, !.answer = a]

\* The fields of a request that goes on, or is answered.
LEMMA MovedFields ==
  ASSUME WebInv, NEW p \in Phases, NEW n \in Nat, NEW w, NEW a \in AnswerForm,
         inhand' = Moved(p, n, w, a),
         w \subseteq DOMAIN acts'
  PROVE  /\ inhand' \in RequestForm' /\ inhand'.handler = inhand.handler
         /\ inhand'.kind = inhand.kind /\ inhand'.token = inhand.token
         /\ inhand'.who = inhand.who /\ inhand'.phase = p /\ inhand'.pc = n
         /\ inhand'.wrote = w /\ inhand'.answer = a
         /\ TheHandler' = TheHandler /\ Fragment' = Fragment /\ Exempt' = Exempt
<1>1. inhand \in RequestForm
  BY DEF WebInv
<1>2. inhand' \in RequestForm'
  BY <1>1 DEF RequestForm, Moved
<1>3. /\ inhand'.handler = inhand.handler
      /\ inhand'.kind = inhand.kind /\ inhand'.token = inhand.token
      /\ inhand'.who = inhand.who /\ inhand'.phase = p /\ inhand'.pc = n
      /\ inhand'.wrote = w /\ inhand'.answer = a
  BY <1>1 DEF RequestForm, Moved
<1> QED BY <1>2, <1>3 DEF TheHandler, Fragment, Exempt

LEMMA SameFields ==
  ASSUME WebInv
  PROVE  /\ \A n : [inhand EXCEPT !.pc = n] =
              Moved(inhand.phase, n, inhand.wrote, inhand.answer)
         /\ \A n, w : [inhand EXCEPT !.pc = n, !.wrote = w] =
              Moved(inhand.phase, n, w, inhand.answer)
         /\ \A p, a : [inhand EXCEPT !.phase = p, !.answer = a] =
              Moved(p, inhand.pc, inhand.wrote, a)
         /\ \A p, w, a : [inhand EXCEPT !.phase = p, !.wrote = w, !.answer = a] =
              Moved(p, inhand.pc, w, a)
         /\ \A p : [inhand EXCEPT !.phase = p] =
              Moved(p, inhand.pc, inhand.wrote, inhand.answer)
<1>1. inhand \in RequestForm
  BY DEF WebInv
<1> QED BY <1>1 DEF RequestForm, Moved

\* What is known of a handler at a step.
LEMMA AtStep ==
  ASSUME WebInv, inhand.phase = "running", NEW h, NEW i, h = TheHandler, i = inhand.pc
  PROVE  /\ HandlerInOrder(h) /\ i \in Nat /\ i \in 1 .. Len(h.steps) + 1
         /\ \A j \in DOMAIN h.steps : j < i => Holds(h.steps[j])
         /\ NothingWritten(h, i) => inhand.wrote = {}
         /\ ForHtmxOnly(h, i) => inhand.kind = "partial"
         /\ inhand.answer = NoAnswer
         /\ Exempt \/ inhand.token = "right"
         /\ \A act \in inhand.wrote : IsBefore(h, i, WriteKinds, {act})
         /\ i \in DOMAIN h.steps => /\ StepInOrder(h, i, h.steps[i]) /\ i + 1 \in 1 .. Len(h.steps) + 1
                                    /\ \A e \in h.steps[i].errors : ErrorFits(h, i, e)
         /\ i \notin DOMAIN h.steps => i = Len(h.steps) + 1
<1>1. HandlerInOrder(h) /\ i \in Nat /\ (Fragment => inhand.kind = "partial")
  BY RequestFacts
<1>2. i \in 1 .. Len(h.steps) + 1
  BY DEF WebInv, AnswersAreHonest, WebTypeOK
<1>3. /\ \A j \in DOMAIN h.steps : j < i => Holds(h.steps[j])
      /\ Exempt \/ inhand.token = "right"
      /\ \A act \in inhand.wrote : IsBefore(h, i, WriteKinds, {act})
  BY DEF WebInv, RunsInOrder
<1>4. NothingWritten(h, i) => inhand.wrote = {}
  BY <1>3 DEF NothingWritten, IsBefore
<1>5. ForHtmxOnly(h, i) => inhand.kind = "partial"
  BY <1>1, <1>3 DEF ForHtmxOnly, Holds
<1>6. inhand.answer = NoAnswer
  BY DEF WebInv, NothingYet
<1>7. Len(h.steps) \in Nat /\ DOMAIN h.steps = 1 .. Len(h.steps)
  BY <1>1, OrderFacts
<1>8. i \notin DOMAIN h.steps => i = Len(h.steps) + 1
  BY <1>2, <1>7
<1>9. i \in DOMAIN h.steps => /\ StepInOrder(h, i, h.steps[i]) /\ i + 1 \in 1 .. Len(h.steps) + 1
                              /\ \A e \in h.steps[i].errors : ErrorFits(h, i, e)
  BY <1>1, <1>7, OrderFacts
<1> QED BY <1>1, <1>2, <1>3, <1>4, <1>5, <1>6, <1>8, <1>9

\* Where the rows of a handler were seen to, a success may be told.
LEMMA RowsFacts ==
  ASSUME WebInv, inhand.phase = "running", RowsDone(TheHandler, inhand.pc)
  PROVE  AuditedActs(TheHandler) \cap (inhand.wrote \cup (DOMAIN acts \ AnsweredEarly)) \subseteq log
<1>1. PICK h, i : h = TheHandler /\ i = inhand.pc
  OBVIOUS
<1>2. SUFFICES ASSUME NEW j \in DOMAIN h.steps, h.steps[j].kind = "audit", h.steps[j].name \notin log
               PROVE  h.steps[j].name \in AnsweredEarly /\ h.steps[j].name \notin inhand.wrote
  BY <1>1 DEF AuditedActs
<1>3. ~(j < i)
  BY <1>1, <1>2, AtStep DEF Holds
<1>4. h.steps[j].name \in AnsweredEarly /\ ~IsBefore(h, i, WriteKinds, {h.steps[j].name})
  BY <1>1, <1>2, <1>3 DEF RowsDone
<1> QED BY <1>1, <1>4, AtStep

\* An answer keeps the invariant if it turns nobody away who has written, and
\* sends a fragment only to a swap.
LEMMA ReplyKeeps ==
  ASSUME WebInv, inhand.phase \in {"arrived", "running"}, NEW a \in AnswerForm,
         a.status \in 200 .. 599, a.body \in {"fragment", "document", "data", "redirect"},
         a.status \in Away => inhand.wrote = {}, a.body = "fragment" => inhand.kind = "partial",
         a.says = "done" =>
           AuditedActs(TheHandler) \cap (inhand.wrote \cup (DOMAIN acts \ AnsweredEarly)) \subseteq log,
         log \subseteq log', AnswerSent(a), acts' = acts, retries' = retries, log' \subseteq log \cup Unproven
  PROVE  WebInv'
<1>1. PICK h : h = TheHandler
  OBVIOUS
<1>2. inhand' = Moved("answered", inhand.pc, inhand.wrote, a)
  BY SameFields DEF AnswerSent
<1>3. /\ inhand' \in RequestForm' /\ inhand'.handler = inhand.handler
      /\ inhand'.kind = inhand.kind /\ inhand'.token = inhand.token
      /\ inhand'.who = inhand.who /\ inhand'.phase = "answered" /\ inhand'.pc = inhand.pc
      /\ inhand'.wrote = inhand.wrote /\ inhand'.answer = a
      /\ TheHandler' = TheHandler
  <2>1. "answered" \in Phases /\ inhand.pc \in Nat /\ inhand.wrote \subseteq DOMAIN acts'
    BY RequestFacts DEF Phases
  <2> QED BY <1>2, <2>1, MovedFields
<1>4. inhand'.pc \in 1 .. Len(h.steps) + 1
  BY <1>1, <1>3 DEF WebInv, AnswersAreHonest, WebTypeOK
<1>5. TurnedAwayDidNothing' /\ PartialOnlyToFragments'
  BY <1>3 DEF TurnedAwayDidNothing, PartialOnlyToFragments
<1>6. WritesAreEntitled'
  BY <1>3 DEF WebInv, AnswersAreHonest, WritesAreEntitled
<1>7. LogTellsTheTruth'
  BY DEF WebInv, AnswersAreHonest, LogTellsTheTruth, Unproven
<1>71. SuccessIsAudited'
  BY <1>3 DEF SuccessIsAudited
<1>8. NothingYet' /\ RunsInOrder'
  BY <1>3 DEF NothingYet, RunsInOrder
<1>9. acts' \in [DOMAIN acts' -> Nat]
  BY DEF WebInv
<1> QED BY <1>1, <1>3, <1>4, <1>5, <1>6, <1>7, <1>71, <1>8, <1>9, Frame

\* A reply that fits the step keeps the invariant.
LEMMA FitKeeps ==
  ASSUME WebInv, inhand.phase = "running", NEW r, Fits(TheHandler, inhand.pc, r), Answer(r),
         acts' = acts, retries' = retries, log \subseteq log', log' \subseteq log \cup Unproven
  PROVE  WebInv'
<1>1. PICK h, i, fr, a : h = TheHandler /\ i = inhand.pc /\ fr = Fragment /\ a = Shown(r, fr)
  OBVIOUS
<1>2. /\ r \in ReplyForm
      /\ r.status \in Away => NothingWritten(h, i)
      /\ r.shape = "partial" => ForHtmxOnly(h, i)
      /\ r.says = "done" => RowsDone(h, i)
  BY <1>1 DEF Fits
<1>3. fr \in BOOLEAN /\ (fr => inhand.kind = "partial")
  BY <1>1, RequestFacts
<1>4. /\ a \in AnswerForm /\ a.status \in 200 .. 599
      /\ a.body \in {"fragment", "document", "data", "redirect"}
      /\ a.status \in {303, r.status} /\ a.says = r.says
      /\ a.body = "fragment" => fr \/ r.shape = "partial"
  <2>1. a = Shown(r, fr)
    BY <1>1
  <2> QED BY ONLY <1>2, <1>3, <2>1, ShownFacts
<1>5. /\ NothingWritten(h, i) => inhand.wrote = {}
      /\ ForHtmxOnly(h, i) => inhand.kind = "partial"
  BY <1>1, AtStep
<1>6. a.status \in Away => inhand.wrote = {}
  <2>1. a.status = 303 \/ a.status = r.status
    BY <1>4
  <2>2. 303 \notin Away
    BY DEF Away
  <2> QED BY <1>2, <1>5, <2>1, <2>2
<1>7. a.body = "fragment" => inhand.kind = "partial"
  BY <1>2, <1>3, <1>4, <1>5
<1>8. AnswerSent(a)
  BY <1>1 DEF Answer
<1>9. a.says = "done" =>
        AuditedActs(TheHandler) \cap (inhand.wrote \cup (DOMAIN acts \ AnsweredEarly)) \subseteq log
  BY <1>1, <1>2, <1>4, RowsFacts
<1> QED BY <1>4, <1>6, <1>7, <1>8, <1>9, ReplyKeeps

LEMMA EndKeeps ==
  ASSUME WebInv, Running, NEW e, ErrorFits(TheHandler, inhand.pc, e), EndWith(e),
         acts' = acts, retries' = retries, log \subseteq log', log' \subseteq log \cup Unproven
  PROVE  WebInv'
<1>1. PICK r \in RepliesOf(TheHandler, e) : Answer(r)
  BY DEF EndWith, Replies
<1>2. Fits(TheHandler, inhand.pc, r) /\ inhand.phase = "running"
  BY DEF ErrorFits, Running
<1> QED BY <1>1, <1>2, FitKeeps

\* A right that was checked on the way is a right of the sender.
LEMMA Checked ==
  ASSUME WebInv, inhand.phase = "running", NEW i \in Nat, i <= inhand.pc, NEW names,
         IsBefore(TheHandler, i, {"gate", "may"}, names)
  PROVE  \E name \in names : HasRight(inhand.who, name)
<1>1. PICK h : h = TheHandler
  OBVIOUS
<1>2. PICK j \in DOMAIN h.steps : /\ j < i /\ h.steps[j].kind \in {"gate", "may"}
                                  /\ h.steps[j].name \in names
  BY <1>1 DEF IsBefore
<1>3. inhand.pc \in Nat /\ Len(h.steps) \in Nat /\ DOMAIN h.steps = 1 .. Len(h.steps)
  BY <1>1, RequestFacts, OrderFacts
<1>4. j < inhand.pc
  BY <1>2, <1>3
<1>5. Holds(h.steps[j])
  BY <1>1, <1>4, AtStep
<1> QED BY <1>2, <1>5 DEF Holds

\* An act that a write step is about to commit, or has, is one its sender may do.
MayDo(act) ==
  /\ act \in AdminActs => "Admin" \in inhand.who.roles
  /\ act \in ModeratorActs => inhand.who.roles \cap {"Moderator", "Admin"} # {}
  /\ act \in VerifiedActs => inhand.who.verified

LEMMA EntitledFacts ==
  ASSUME WebInv, inhand.phase = "running", NEW i \in DOMAIN TheHandler.steps, i <= inhand.pc,
         TheHandler.steps[i].kind \in WriteKinds
  PROVE  /\ MayDo(TheHandler.steps[i].name)
         /\ ~TheHandler.safe => inhand.token = "right"
<1>1. PICK h, act : h = TheHandler /\ act = h.steps[i].name
  OBVIOUS
<1>2. /\ HandlerInOrder(h) /\ Len(h.steps) \in Nat /\ DOMAIN h.steps = 1 .. Len(h.steps)
      /\ StepInOrder(h, i, h.steps[i])
  BY <1>1, RequestFacts, OrderFacts
<1>3. Entitled(h, i, act) /\ i \in Nat
  BY <1>1, <1>2 DEF StepInOrder
<1>4. ASSUME act \in AdminActs PROVE "Admin" \in inhand.who.roles
  <2>1. \E name \in {"admin"} : HasRight(inhand.who, name)
    BY <1>1, <1>3, <1>4, Checked DEF Entitled
  <2> QED BY <2>1 DEF HasRight
<1>5. ASSUME act \in ModeratorActs PROVE inhand.who.roles \cap {"Moderator", "Admin"} # {}
  <2>1. \E name \in {"moderator", "admin"} : HasRight(inhand.who, name)
    BY <1>1, <1>3, <1>5, Checked DEF Entitled
  <2>2. HasRight(inhand.who, "moderator") => inhand.who.roles \cap {"Moderator", "Admin"} # {}
    BY DEF HasRight
  <2>3. HasRight(inhand.who, "admin") => "Admin" \in inhand.who.roles
    BY DEF HasRight
  <2> QED BY <2>1, <2>2, <2>3
<1>6. ASSUME act \in VerifiedActs PROVE inhand.who.verified
  <2>1. \E name \in {"verified"} : HasRight(inhand.who, name)
    BY <1>1, <1>3, <1>6, Checked DEF Entitled
  <2> QED BY <2>1 DEF HasRight
<1>7. ~TheHandler.safe => inhand.token = "right"
  <2>1. inhand.handler # "csp_report"
    BY HandlersInOrder DEF TheHandler
  <2>2. Exempt \/ inhand.token = "right"
    BY DEF WebInv, RunsInOrder
  <2> QED BY <2>1, <2>2 DEF Exempt
<1> QED BY <1>1, <1>4, <1>5, <1>6, <1>7 DEF MayDo

\* The acts of a request after a write step, all of them its sender may do.
LEMMA WroteFacts ==
  ASSUME WebInv, Running, TheStep.kind \in WriteKinds, NEW w, w = inhand.wrote \cup {TheStep.name}
  PROVE  /\ w \cap AdminActs # {} => "Admin" \in inhand.who.roles
         /\ w \cap ModeratorActs # {} => inhand.who.roles \cap {"Moderator", "Admin"} # {}
         /\ w \cap VerifiedActs # {} => inhand.who.verified
         /\ ~TheHandler.safe => inhand.token = "right"
<1>1. PICK h, i : h = TheHandler /\ i = inhand.pc
  OBVIOUS
<1>2. i \in DOMAIN h.steps /\ TheStep = h.steps[i] /\ inhand.phase = "running"
  BY <1>1 DEF Running, TheStep
<1>3. /\ Len(h.steps) \in Nat /\ DOMAIN h.steps = 1 .. Len(h.steps) /\ i \in Nat
  BY <1>1, RequestFacts, OrderFacts
<1>4. MayDo(TheStep.name) /\ (~TheHandler.safe => inhand.token = "right")
  BY <1>1, <1>2, <1>3, EntitledFacts
<1>5. ASSUME NEW act \in inhand.wrote PROVE MayDo(act)
  <2>1. IsBefore(h, i, WriteKinds, {act})
    BY <1>1, <1>2, AtStep
  <2>2. PICK j \in DOMAIN h.steps : j < i /\ h.steps[j].kind \in WriteKinds /\ h.steps[j].name = act
    BY <2>1 DEF IsBefore
  <2>3. j <= i
    BY <1>3, <2>2
  <2> QED BY <1>1, <1>2, <2>2, <2>3, EntitledFacts
<1>6. \A act \in w : MayDo(act)
  BY <1>4, <1>5
<1> QED BY <1>4, <1>6 DEF MayDo

\* One more commit.
LEMMA CommittedFacts ==
  ASSUME WebInv, NEW act, Committed(act), log' = log
  PROVE  /\ DOMAIN acts' = DOMAIN acts \cup {act} /\ acts' \in [DOMAIN acts' -> Nat]
         /\ LogTellsTheTruth'
<1>1. acts \in [DOMAIN acts -> Nat] /\ LogTellsTheTruth
  BY DEF WebInv, AnswersAreHonest
<1>2. PICK n : n = Count(act) + 1 /\ n \in Nat
  BY <1>1 DEF Count, Done
<1>3. acts' = [a \in DOMAIN acts \cup {act} |-> IF a = act THEN n ELSE acts[a]]
  BY <1>2 DEF Committed
<1>4. DOMAIN acts' = DOMAIN acts \cup {act} /\ acts'[act] = n
      /\ \A a \in DOMAIN acts : a # act => acts'[a] = acts[a]
  BY <1>3
<1>5. acts' \in [DOMAIN acts' -> Nat]
  BY <1>1, <1>2, <1>3
<1>6. LogTellsTheTruth'
  BY <1>1, <1>4 DEF LogTellsTheTruth
<1> QED BY <1>4, <1>5, <1>6

\* A step that is passed, or done, keeps the invariant.
LEMMA PassKeeps ==
  ASSUME WebInv, Running, NEW w, w \subseteq DOMAIN acts',
         w = inhand.wrote \/ (TheStep.kind \in WriteKinds /\ w = inhand.wrote \cup {TheStep.name}),
         inhand' = Moved(inhand.phase, inhand.pc + 1, w, inhand.answer),
         DOMAIN acts \subseteq DOMAIN acts', acts' \in [DOMAIN acts' -> Nat],
         LogTellsTheTruth', log \subseteq log', retries' = retries,
         TheStep.kind \in {"gate", "may"} => HasRight(inhand.who, TheStep.name),
         TheStep.kind = "fragment" => Fragment,
         TheStep.kind \in SureKinds => TheStep.name \in DOMAIN acts',
         TheStep.kind = "audit" => TheStep.name \in log'
  PROVE  WebInv'
<1>1. PICK h, i, s : h = TheHandler /\ i = inhand.pc /\ s = TheStep
  OBVIOUS
<1>2. /\ i \in DOMAIN h.steps /\ s = h.steps[i] /\ inhand.phase = "running"
  BY <1>1 DEF Running, TheStep
<1>3. /\ HandlerInOrder(h) /\ Len(h.steps) \in Nat /\ DOMAIN h.steps = 1 .. Len(h.steps) /\ i \in Nat
      /\ i + 1 \in 1 .. Len(h.steps) + 1 /\ i + 1 \in Nat
      /\ inhand.answer = NoAnswer /\ inhand.answer \in AnswerForm
      /\ Exempt \/ inhand.token = "right"
  BY <1>1, <1>2, RequestFacts, OrderFacts, AtStep
<1>4. /\ inhand' \in RequestForm' /\ inhand'.handler = inhand.handler
      /\ inhand'.kind = inhand.kind /\ inhand'.token = inhand.token
      /\ inhand'.who = inhand.who /\ inhand'.phase = "running" /\ inhand'.pc = i + 1
      /\ inhand'.wrote = w /\ inhand'.answer = NoAnswer
      /\ TheHandler' = h /\ Fragment' = Fragment /\ Exempt' = Exempt
  <2>1. "running" \in Phases
    BY DEF Phases
  <2>2. inhand' = Moved("running", i + 1, w, inhand.answer)
    BY <1>1, <1>2
  <2> QED BY <1>1, <1>3, <2>1, <2>2, MovedFields
<1>5. TurnedAwayDidNothing' /\ PartialOnlyToFragments'
  <2>1. NoAnswer.status = 0 /\ NoAnswer.body = "none" /\ 0 \notin Away
    BY DEF NoAnswer, Sent, Away
  <2> QED BY <1>4, <2>1 DEF TurnedAwayDidNothing, PartialOnlyToFragments
<1>6. WritesAreEntitled'
  <2>1. CASE w = inhand.wrote
    BY <1>1, <1>4, <2>1 DEF WebInv, AnswersAreHonest, WritesAreEntitled
  <2>2. CASE s.kind \in WriteKinds /\ w = inhand.wrote \cup {s.name}
    <3>1. /\ w \cap AdminActs # {} => "Admin" \in inhand.who.roles
          /\ w \cap ModeratorActs # {} => inhand.who.roles \cap {"Moderator", "Admin"} # {}
          /\ w \cap VerifiedActs # {} => inhand.who.verified
          /\ ~h.safe => inhand.token = "right"
      BY <1>1, <2>2, WroteFacts
    <3> QED BY <1>4, <3>1 DEF WritesAreEntitled
  <2> QED BY <1>1, <2>1, <2>2
<1>7. NothingYet'
  BY <1>4 DEF NothingYet
<1>8. ASSUME NEW j \in DOMAIN h.steps, j < i + 1 PROVE Holds(h.steps[j])'
  <2>1. CASE j = i
    <3>1. /\ s.kind \in {"gate", "may"} => HasRight(inhand'.who, s.name)
          /\ s.kind = "fragment" => Fragment'
          /\ s.kind \in SureKinds => Done(s.name)'
          /\ s.kind = "audit" => s.name \in log'
      BY <1>1, <1>4 DEF Done
    <3> QED BY <1>2, <2>1, <3>1 DEF Holds
  <2>2. CASE j # i
    <3>1. j < i
      BY <1>3, <1>8, <2>2
    <3>2. Holds(h.steps[j])
      BY <1>1, <1>2, <3>1, AtStep
    <3>3. /\ h.steps[j].kind \in {"gate", "may"} => HasRight(inhand'.who, h.steps[j].name)
          /\ h.steps[j].kind = "fragment" => Fragment'
          /\ h.steps[j].kind \in SureKinds => Done(h.steps[j].name)'
          /\ h.steps[j].kind = "audit" => h.steps[j].name \in log'
      BY <1>4, <3>2 DEF Holds, Done
    <3> QED BY <3>3 DEF Holds
  <2> QED BY <2>1, <2>2
<1>9. ASSUME NEW act \in w PROVE IsBefore(h, i + 1, WriteKinds, {act})
  <2>1. CASE act \in inhand.wrote
    <3>1. IsBefore(h, i, WriteKinds, {act})
      BY <1>1, <1>2, <2>1, AtStep
    <3>2. \A j \in DOMAIN h.steps : j < i => j < i + 1
      BY <1>3
    <3> QED BY <3>1, <3>2 DEF IsBefore
  <2>2. CASE act \notin inhand.wrote
    <3>1. s.kind \in WriteKinds /\ act = s.name
      BY <1>1, <1>9, <2>2
    <3>2. i < i + 1
      BY <1>3
    <3> QED BY <1>2, <3>1, <3>2 DEF IsBefore
  <2> QED BY <2>1, <2>2
<1>10. RunsInOrder'
  BY <1>3, <1>4, <1>8, <1>9 DEF RunsInOrder
<1>11. inhand'.phase # "answered" /\ inhand'.pc \in 1 .. Len(h.steps) + 1
  BY <1>3, <1>4
<1>12. SuccessIsAudited'
  BY <1>11 DEF SuccessIsAudited
<1> QED BY <1>1, <1>4, <1>5, <1>6, <1>7, <1>10, <1>11, <1>12, Frame

\* Steps that are passed without a write.
LEMMA ProceedKeeps ==
  ASSUME WebInv, Running, Proceed, acts' = acts, retries' = retries,
         LogTellsTheTruth', log \subseteq log',
         TheStep.kind \in {"gate", "may"} => HasRight(inhand.who, TheStep.name),
         TheStep.kind = "fragment" => Fragment,
         TheStep.kind \in SureKinds => Done(TheStep.name),
         TheStep.kind = "audit" => TheStep.name \in log'
  PROVE  WebInv'
<1>1. inhand' = Moved(inhand.phase, inhand.pc + 1, inhand.wrote, inhand.answer)
  BY SameFields DEF Proceed
<1>2. inhand.wrote \subseteq DOMAIN acts' /\ DOMAIN acts \subseteq DOMAIN acts'
  BY RequestFacts
<1>3. acts' \in [DOMAIN acts' -> Nat]
  BY DEF WebInv
<1>4. TheStep.kind \in SureKinds => TheStep.name \in DOMAIN acts'
  BY DEF Done
<1> QED BY <1>1, <1>2, <1>3, <1>4, PassKeeps

LEMMA LogStays ==
  ASSUME WebInv, acts' = acts, log' = log
  PROVE  LogTellsTheTruth'
  BY DEF WebInv, AnswersAreHonest, LogTellsTheTruth

LEMMA PassingKeeps ==
  ASSUME WebInv, PassGate \/ PassCheck \/ LetIn \/ FindDone \/ NotYet \/ AttemptFails
  PROVE  WebInv'
<1>1. Running /\ Proceed /\ acts' = acts /\ log' = log /\ retries' = retries
  BY DEF PassGate, PassCheck, LetIn, FindDone, NotYet, AttemptFails, At
<1>2. LogTellsTheTruth'
  BY <1>1, LogStays
<1>3. /\ TheStep.kind \in {"gate", "may"} => HasRight(inhand.who, TheStep.name)
      /\ TheStep.kind = "fragment" => Fragment
      /\ TheStep.kind \in SureKinds => Done(TheStep.name)
      /\ TheStep.kind # "audit"
  <2>1. CASE PassGate
    BY <2>1 DEF PassGate, At, SureKinds
  <2>2. CASE PassCheck
    BY <2>2 DEF PassCheck, At, SureKinds
  <2>3. CASE LetIn
    BY <2>3 DEF LetIn, At, SureKinds
  <2>4. CASE FindDone
    BY <2>4 DEF FindDone, At, SureKinds
  <2>5. CASE NotYet
    BY <2>5 DEF NotYet, At, SureKinds
  <2>6. CASE AttemptFails
    BY <2>6 DEF AttemptFails, At, SureKinds
  <2> QED BY <2>1, <2>2, <2>3, <2>4, <2>5, <2>6
<1> QED BY <1>1, <1>2, <1>3, ProceedKeeps

\* The row of an act in the log.
LEMMA AuditKeeps ==
  ASSUME WebInv, RecordAudit
  PROVE  WebInv'
<1>1. PICK h, i, s : h = TheHandler /\ i = inhand.pc /\ s = TheStep
  OBVIOUS
<1>2. /\ i \in DOMAIN h.steps /\ s = h.steps[i] /\ inhand.phase = "running" /\ s.kind = "audit"
      /\ Running /\ Proceed /\ acts' = acts /\ retries' = retries /\ log' = log \cup {s.name}
  BY <1>1 DEF RecordAudit, At, Running, TheStep
<1>3. s.name \in Unproven \/ IsBefore(h, i, SureKinds, {s.name})
  BY <1>1, <1>2, AtStep DEF StepInOrder
<1>4. s.name \in Unproven \/ s.name \in DOMAIN acts
  <2>1. ASSUME IsBefore(h, i, SureKinds, {s.name}) PROVE s.name \in DOMAIN acts
    <3>1. PICK j \in DOMAIN h.steps : j < i /\ h.steps[j].kind \in SureKinds /\ h.steps[j].name = s.name
      BY <2>1 DEF IsBefore
    <3>2. Holds(h.steps[j])
      BY <1>1, <1>2, <3>1, AtStep
    <3> QED BY <3>1, <3>2 DEF Holds, Done
  <2> QED BY <1>3, <2>1
<1>5. LogTellsTheTruth'
  BY <1>2, <1>4 DEF WebInv, AnswersAreHonest, LogTellsTheTruth, Unproven
<1>6. /\ TheStep.kind \notin {"gate", "may"} /\ TheStep.kind # "fragment" /\ TheStep.kind \notin SureKinds
  BY <1>1, <1>2 DEF SureKinds
<1>7. log \subseteq log' /\ TheStep.name \in log'
  BY <1>1, <1>2
<1> QED BY <1>2, <1>5, <1>6, <1>7, ProceedKeeps

\* Steps that end with an error or with the handler's success.
LEMMA EndingKeeps ==
  ASSUME WebInv, RefuseInService \/ FailStep \/ RefuseTwice \/ RefuseCredential \/ EndEarly \/ Finish
  PROVE  WebInv'
<1>1. PICK h, i, s : h = TheHandler /\ i = inhand.pc /\ s = TheStep
  OBVIOUS
<1>2. ASSUME Running
      PROVE  /\ i \in DOMAIN h.steps /\ s = h.steps[i] /\ inhand.phase = "running"
             /\ StepInOrder(h, i, s) /\ \A e \in s.errors : ErrorFits(h, i, e)
  <2>1. i \in DOMAIN h.steps /\ s = h.steps[i] /\ inhand.phase = "running"
    BY <1>1, <1>2 DEF Running, TheStep
  <2> QED BY <1>1, <2>1, AtStep
<1>3. CASE RefuseInService \/ FailStep
  <2>1. PICK e \in s.errors : EndWith(e)
    BY <1>1, <1>3 DEF RefuseInService, FailStep
  <2>2. Running /\ acts' = acts /\ log' = log /\ retries' = retries
    BY <1>3 DEF RefuseInService, FailStep, At
  <2>3. ErrorFits(h, i, e) /\ log \subseteq log' /\ log' \subseteq log \cup Unproven
    BY <1>2, <2>2
  <2> QED BY <1>1, <2>1, <2>2, <2>3, EndKeeps
<1>4. CASE RefuseTwice
  <2>1. Running /\ s.kind = "once" /\ EndWith(s.again) /\ acts' = acts /\ log' = log /\ retries' = retries
    BY <1>1, <1>4 DEF RefuseTwice, At
  <2>2. ErrorFits(h, i, s.again) /\ log \subseteq log' /\ log' \subseteq log \cup Unproven
    BY <1>2, <2>1 DEF StepInOrder
  <2> QED BY <1>1, <2>1, <2>2, EndKeeps
<1>5. CASE RefuseCredential
  <2>1. Running /\ s.kind = "refuse" /\ acts' = acts /\ retries' = retries
    BY <1>1, <1>5 DEF RefuseCredential, At
  <2>2. "Internal" \in s.errors /\ s.name \in Unproven
    BY <1>2, <2>1 DEF StepInOrder
  <2>3. PICK e \in s.errors : EndWith(e)
    BY <1>1, <1>5, <2>2 DEF RefuseCredential
  <2>4. log \subseteq log' /\ log' \subseteq log \cup Unproven
    BY <1>1, <1>5, <2>2 DEF RefuseCredential
  <2>5. ErrorFits(h, i, e)
    BY <1>2, <2>1
  <2> QED BY <1>1, <2>1, <2>3, <2>4, <2>5, EndKeeps
<1>6. CASE EndEarly
  <2>1. Running /\ s.kind \in {"already", "stop"} /\ Answer(h.done)
        /\ acts' = acts /\ log' = log /\ retries' = retries
    BY <1>1, <1>6 DEF EndEarly, At
  <2>2. Fits(h, i, h.done) /\ log \subseteq log' /\ log' \subseteq log \cup Unproven
    BY <1>2, <2>1 DEF StepInOrder
  <2>3. inhand.phase = "running"
    BY <2>1 DEF Running
  <2> QED BY <1>1, <2>1, <2>2, <2>3, FitKeeps
<1>7. CASE Finish
  <2>1. /\ inhand.phase = "running" /\ i \notin DOMAIN h.steps /\ Answer(h.done)
        /\ acts' = acts /\ log' = log /\ retries' = retries
    BY <1>1, <1>7 DEF Finish
  <2>2. i = Len(h.steps) + 1 /\ HandlerInOrder(h)
    BY <1>1, <2>1, AtStep
  <2>3. Fits(h, i, h.done) /\ log \subseteq log' /\ log' \subseteq log \cup Unproven
    BY <2>1, <2>2, OrderFacts
  <2> QED BY <1>1, <2>1, <2>3, FitKeeps
<1> QED BY <1>3, <1>4, <1>5, <1>6, <1>7

\* Visitors, and those without the right, who are turned away at the door.
LEMMA DoorKeeps ==
  ASSUME WebInv, RefuseAtGate \/ SendAway
  PROVE  WebInv'
<1>1. PICK h, i, s, fr : h = TheHandler /\ i = inhand.pc /\ s = TheStep /\ fr = Fragment
  OBVIOUS
<1>2. /\ i \in DOMAIN h.steps /\ s = h.steps[i] /\ inhand.phase = "running"
      /\ acts' = acts /\ log' = log /\ retries' = retries
  BY <1>1 DEF RefuseAtGate, SendAway, At, Running, TheStep
<1>3. fr \in BOOLEAN /\ (fr => inhand.kind = "partial")
  BY <1>1, RequestFacts
<1>4. CASE SendAway
  <2>1. Elsewhere \in ReplyForm /\ Elsewhere.status = 303 /\ Elsewhere.shape = "redirect"
        /\ Elsewhere.says = "elsewhere"
    BY DEF Elsewhere, Reply, ReplyForm, Shapes
  <2>2. Fits(h, i, Elsewhere)
    BY <2>1 DEF Fits, Away
  <2>3. Answer(Elsewhere)
    BY <1>4 DEF SendAway
  <2> QED BY <1>1, <1>2, <2>2, <2>3, FitKeeps
<1>5. CASE RefuseAtGate
  <2>1. s.kind = "gate" /\ AnswerSent(deny(inhand.who, fr))
    BY <1>1, <1>5 DEF RefuseAtGate, At
  <2>2. inhand.wrote = {}
    BY <1>1, <1>2, <2>1, AtStep DEF StepInOrder
  <2>3. PICK a : a = deny(inhand.who, fr)
    OBVIOUS
  <2>4. CASE inhand.who.signed
    <3>1. PICK r : r = Error(403) /\ a = Shown(r, fr)
      BY <2>3, <2>4 DEF deny
    <3>2. r \in ReplyForm /\ r.shape = "view" /\ r.says = "refused"
      BY <3>1 DEF Error, Reply, ReplyForm, Shapes
    <3>3. /\ a \in AnswerForm /\ a.status \in 200 .. 599
          /\ a.body \in {"fragment", "document", "data", "redirect"}
          /\ a.body = "fragment" => fr \/ r.shape = "partial"
          /\ a.says = r.says
      BY ONLY <1>3, <3>1, <3>2, ShownFacts
    <3> QED BY <1>2, <1>3, <2>1, <2>2, <2>3, <3>2, <3>3, ReplyKeeps
  <2>5. CASE ~inhand.who.signed
    <3>1. \/ a = Sent(401, "fragment", "refused") /\ fr
          \/ a = Sent(303, "redirect", "refused")
      BY <2>3, <2>5 DEF deny
    <3>2. /\ a \in AnswerForm /\ a.status \in 200 .. 599
          /\ a.body \in {"fragment", "document", "data", "redirect"}
          /\ a.body = "fragment" => fr
          /\ a.says = "refused"
      BY <3>1 DEF Sent, AnswerForm
    <3> QED BY <1>2, <1>3, <2>1, <2>2, <2>3, <3>2, ReplyKeeps
  <2> QED BY <2>4, <2>5
<1> QED BY <1>4, <1>5

\* A write step is at an act that is committed.
LEMMA WriteFacts ==
  ASSUME WebInv, CommitWrite \/ AttemptWrite \/ CommitUnacknowledged
  PROVE  /\ Running /\ TheStep.kind \in WriteKinds /\ Committed(TheStep.name)
         /\ log' = log /\ retries' = retries
BY DEF CommitWrite, AttemptWrite, CommitUnacknowledged, Due, At, WriteKinds

LEMMA CommitKeeps ==
  ASSUME WebInv, CommitWrite \/ AttemptWrite
  PROVE  WebInv'
<1>1. PICK w : w = inhand.wrote \cup {TheStep.name}
  OBVIOUS
<1>2. /\ Running /\ TheStep.kind \in WriteKinds /\ Committed(TheStep.name)
      /\ log' = log /\ retries' = retries
  BY WriteFacts
<1>3. /\ DOMAIN acts' = DOMAIN acts \cup {TheStep.name} /\ acts' \in [DOMAIN acts' -> Nat]
      /\ LogTellsTheTruth'
  BY <1>2, CommittedFacts
<1>4. inhand' = Moved(inhand.phase, inhand.pc + 1, w, inhand.answer)
  <2>1. inhand' = [inhand EXCEPT !.pc = inhand.pc + 1, !.wrote = w]
    BY <1>1 DEF CommitWrite, AttemptWrite
  <2> QED BY <2>1, SameFields
<1>5. w \subseteq DOMAIN acts' /\ DOMAIN acts \subseteq DOMAIN acts' /\ TheStep.name \in DOMAIN acts'
  BY <1>1, <1>3, RequestFacts
<1>6. TheStep.kind \notin {"gate", "may"} /\ TheStep.kind # "fragment" /\ TheStep.kind # "audit"
  BY <1>2 DEF WriteKinds
<1> QED BY <1>1, <1>2, <1>3, <1>4, <1>5, <1>6, PassKeeps

\* The commit whose acknowledgement is lost.
LEMMA UnacknowledgedKeeps ==
  ASSUME WebInv, CommitUnacknowledged
  PROVE  WebInv'
<1>1. PICK h, i, s, fr, w : /\ h = TheHandler /\ i = inhand.pc /\ s = TheStep /\ fr = Fragment
                            /\ w = inhand.wrote \cup {s.name}
  OBVIOUS
<1>2. /\ Running /\ s.kind \in WriteKinds /\ Committed(s.name)
      /\ log' = log /\ retries' = retries
  BY <1>1, WriteFacts
<1>3. /\ i \in DOMAIN h.steps /\ s = h.steps[i] /\ inhand.phase = "running"
  BY <1>1, <1>2 DEF Running, TheStep
<1>4. "Unavailable" \in s.errors /\ s.kind \in SureKinds
  BY <1>1 DEF CommitUnacknowledged, Due, At, SureKinds
<1>5. PICK r \in RepliesOf(h, "Unavailable") :
        inhand' = [inhand EXCEPT !.phase = "answered", !.wrote = w, !.answer = Shown(r, fr)]
  BY <1>1 DEF CommitUnacknowledged, Replies
<1>6. PICK a : a = Shown(r, fr)
  OBVIOUS
<1>7. Fits(h, i, r) /\ r.status \notin Away /\ r.says # "done"
  BY <1>1, <1>3, <1>4, AtStep DEF ErrorFits, StepInOrder
<1>8. fr \in BOOLEAN /\ (fr => inhand.kind = "partial")
  BY <1>1, RequestFacts
<1>9. r \in ReplyForm /\ (r.shape = "partial" => inhand.kind = "partial")
  BY <1>1, <1>3, <1>7, AtStep DEF Fits
<1>10. /\ a \in AnswerForm /\ a.status \in 200 .. 599
       /\ a.body \in {"fragment", "document", "data", "redirect"}
       /\ a.status \in {303, r.status} /\ a.says = r.says
       /\ a.body = "fragment" => fr \/ r.shape = "partial"
  BY ONLY <1>6, <1>8, <1>9, ShownFacts
<1>11. /\ DOMAIN acts' = DOMAIN acts \cup {s.name} /\ acts' \in [DOMAIN acts' -> Nat]
       /\ LogTellsTheTruth'
  BY <1>2, CommittedFacts
<1>12. w \subseteq DOMAIN acts'
  BY <1>1, <1>11, RequestFacts
<1>13. inhand' = Moved("answered", inhand.pc, w, a)
  <2>1. \A p, x, y : [inhand EXCEPT !.phase = p, !.wrote = x, !.answer = y] =
                      Moved(p, inhand.pc, x, y)
    BY SameFields
  <2>2. inhand' = [inhand EXCEPT !.phase = "answered", !.wrote = w, !.answer = a]
    BY <1>5, <1>6, Zenon
  <2> QED BY ONLY <2>1, <2>2, Zenon
<1>14. /\ inhand' \in RequestForm' /\ inhand'.handler = inhand.handler
       /\ inhand'.kind = inhand.kind /\ inhand'.token = inhand.token
       /\ inhand'.who = inhand.who /\ inhand'.phase = "answered" /\ inhand'.pc = inhand.pc
       /\ inhand'.wrote = w /\ inhand'.answer = a /\ TheHandler' = h
  <2>1. "answered" \in Phases /\ inhand.pc \in Nat
    BY RequestFacts DEF Phases
  <2>2. a \in AnswerForm
    BY <1>10
  <2>3. /\ inhand' \in RequestForm' /\ inhand'.handler = inhand.handler
        /\ inhand'.kind = inhand.kind /\ inhand'.token = inhand.token
        /\ inhand'.who = inhand.who /\ inhand'.phase = "answered" /\ inhand'.pc = inhand.pc
        /\ inhand'.wrote = w /\ inhand'.answer = a /\ TheHandler' = TheHandler
    BY ONLY WebInv, <1>12, <1>13, <2>1, <2>2, MovedFields
  <2> QED BY <1>1, <2>3
<1>15. inhand'.pc \in 1 .. Len(h.steps) + 1
  BY <1>1, <1>14 DEF WebInv, AnswersAreHonest, WebTypeOK
<1>16. TurnedAwayDidNothing'
  <2>1. a.status = 303 \/ a.status = r.status
    BY <1>10
  <2>2. 303 \notin Away
    BY DEF Away
  <2> QED BY <1>7, <1>14, <2>1, <2>2 DEF TurnedAwayDidNothing
<1>17. PartialOnlyToFragments'
  BY <1>8, <1>9, <1>10, <1>14 DEF PartialOnlyToFragments
<1>18. WritesAreEntitled'
  <2>1. /\ w \cap AdminActs # {} => "Admin" \in inhand.who.roles
        /\ w \cap ModeratorActs # {} => inhand.who.roles \cap {"Moderator", "Admin"} # {}
        /\ w \cap VerifiedActs # {} => inhand.who.verified
        /\ ~h.safe => inhand.token = "right"
    BY <1>1, <1>2, WroteFacts
  <2> QED BY <1>14, <2>1 DEF WritesAreEntitled
<1>19. NothingYet' /\ RunsInOrder' /\ SuccessIsAudited'
  BY <1>7, <1>10, <1>14 DEF NothingYet, RunsInOrder, SuccessIsAudited
<1> QED BY <1>1, <1>2, <1>10, <1>11, <1>14, <1>15, <1>16, <1>17, <1>18, <1>19, Frame

\* A request that begins, for the first time or once more.
LEMMA FreshKeeps ==
  ASSUME WebInv, NEW n \in DOMAIN routes, NEW kind \in DOMAIN Headers, NEW token \in Tokens,
         NEW who \in Principals, inhand' = Fresh(n, kind, token, who),
         acts' = acts, log' = log, retries' \in 0 .. MaxRetries
  PROVE  WebInv'
<1>1. /\ inhand'.phase = "arrived" /\ inhand'.handler = n /\ inhand'.kind = kind
      /\ inhand'.token = token /\ inhand'.who = who /\ inhand'.pc = 1
      /\ inhand'.wrote = {} /\ inhand'.answer = NoAnswer
  BY DEF Fresh
<1>2. NoAnswer \in AnswerForm /\ NoAnswer.status = 0 /\ NoAnswer.body = "none" /\ 0 \notin Away
  BY DEF NoAnswer, Sent, AnswerForm, Away
<1>3. inhand' \in RequestForm'
  BY <1>2 DEF Fresh, RequestForm, Phases
<1>4. PICK h : h = routes[n]
  OBVIOUS
<1>5. TheHandler' = h
  BY <1>1, <1>4 DEF TheHandler
<1>6. /\ HandlerInOrder(h) /\ Len(h.steps) \in Nat
      /\ \A i \in DOMAIN h.steps : \A e \in h.steps[i].errors : ErrorFits(h, i, e)
  BY <1>4, HandlersInOrder, OrderFacts
<1>7. WebTypeOK'
  <2>1. inhand'.pc \in 1 .. Len(h.steps) + 1
    BY <1>1, <1>6
  <2>2. \A i \in DOMAIN h.steps : h.steps[i].errors \subseteq DOMAIN h.fail \cup {"Rejected"}
    BY <1>6 DEF ErrorFits
  <2>3. inhand'.phase \in Phases /\ inhand'.wrote \subseteq DOMAIN acts'
    BY <1>1 DEF Phases
  <2> QED BY <1>1, <1>5, <2>1, <2>2, <2>3 DEF WebTypeOK
<1>8. TurnedAwayDidNothing' /\ PartialOnlyToFragments' /\ WritesAreEntitled'
  BY <1>1, <1>2 DEF TurnedAwayDidNothing, PartialOnlyToFragments, WritesAreEntitled
<1>9. SuccessIsAudited' /\ LogTellsTheTruth' /\ acts' \in [DOMAIN acts' -> Nat]
  BY <1>1 DEF WebInv, AnswersAreHonest, SuccessIsAudited, LogTellsTheTruth
<1>10. NothingYet' /\ RunsInOrder'
  BY <1>1 DEF NothingYet, RunsInOrder
<1> QED BY <1>3, <1>7, <1>8, <1>9, <1>10 DEF WebInv, AnswersAreHonest

LEMMA SendingKeeps ==
  ASSUME WebInv, Arrive \/ Retry
  PROVE  WebInv'
<1>1. retries \in 0 .. MaxRetries /\ MaxRetries \in Nat
  BY WebConstantsOK DEF WebInv, AnswersAreHonest, WebTypeOK
<1>2. CASE Arrive
  <2>1. PICK n \in Handled, kind \in DOMAIN Headers, token \in Tokens, who \in Principals :
          inhand' = Fresh(n, kind, token, who)
    BY <1>2 DEF Arrive
  <2>2. n \in DOMAIN routes /\ acts' = acts /\ log' = log /\ retries' = retries
    BY <1>2, WebConstantsOK DEF Arrive
  <2> QED BY <1>1, <2>1, <2>2, FreshKeeps
<1>3. CASE Retry
  <2>1. /\ inhand' = Fresh(inhand.handler, inhand.kind, inhand.token, inhand.who)
        /\ acts' = acts /\ log' = log /\ retries' = retries + 1 /\ retries < MaxRetries
    BY <1>3 DEF Retry
  <2>2. retries' \in 0 .. MaxRetries
    BY <1>1, <2>1
  <2> QED BY <2>1, <2>2, RequestFacts, FreshKeeps
<1> QED BY <1>2, <1>3

\* The middleware: what it refuses, and what it lets in.
LEMMA MiddlewareKeeps ==
  ASSUME WebInv, SessionUnresolved \/ TokenRefused \/ Dispatched
  PROVE  WebInv'
<1>1. /\ inhand.phase = "arrived" /\ acts' = acts /\ log' = log /\ retries' = retries
  BY DEF SessionUnresolved, TokenRefused, Dispatched
<1>2. inhand.wrote = {} /\ inhand.pc = 1 /\ inhand.answer = NoAnswer
  BY <1>1 DEF WebInv, NothingYet
<1>3. CASE SessionUnresolved \/ TokenRefused
  <2>1. PICK fr : fr = Fragment /\ fr \in BOOLEAN /\ (fr => inhand.kind = "partial")
    BY RequestFacts
  <2>2. PICK st \in {503, 413, 403} : Answer(Error(st))
    <3>1. CASE SessionUnresolved
      BY <3>1 DEF SessionUnresolved
    <3>2. CASE TokenRefused
      <4>1. PICK st : st = (IF inhand.token = "too long" THEN 413 ELSE 403)
        OBVIOUS
      <4>2. st \in {503, 413, 403}
        BY <4>1
      <4>3. Answer(Error(st))
        BY <3>2, <4>1, Zenon DEF TokenRefused
      <4> QED BY <4>2, <4>3
    <3> QED BY <1>3, <3>1, <3>2
  <2>3. PICK r, a : r = Error(st) /\ a = Shown(r, fr)
    OBVIOUS
  <2>4. r \in ReplyForm /\ r.shape = "view" /\ r.says = "refused"
    BY <2>2, <2>3 DEF Error, Reply, ReplyForm, Shapes
  <2>5. /\ a \in AnswerForm /\ a.status \in 200 .. 599
        /\ a.body \in {"fragment", "document", "data", "redirect"}
        /\ a.body = "fragment" => fr \/ r.shape = "partial"
        /\ a.says = r.says
    BY ONLY <2>1, <2>3, <2>4, ShownFacts
  <2>6. AnswerSent(a)
    BY <2>1, <2>2, <2>3 DEF Answer
  <2>7. a.body = "fragment" => inhand.kind = "partial"
    BY <2>1, <2>4, <2>5
  <2> QED BY <1>1, <1>2, <2>4, <2>5, <2>6, <2>7, ReplyKeeps
<1>4. CASE Dispatched
  <2>1. PICK h : h = TheHandler
    OBVIOUS
  <2>2. (Exempt \/ inhand.token = "right") /\ inhand' = [inhand EXCEPT !.phase = "running"]
    BY <1>4 DEF Dispatched, TokenAccepted
  <2>3. inhand' = Moved("running", inhand.pc, inhand.wrote, inhand.answer)
    BY <2>2, SameFields
  <2>4. /\ inhand' \in RequestForm' /\ inhand'.handler = inhand.handler
        /\ inhand'.kind = inhand.kind /\ inhand'.token = inhand.token
        /\ inhand'.who = inhand.who /\ inhand'.phase = "running" /\ inhand'.pc = 1
        /\ inhand'.wrote = {} /\ inhand'.answer = NoAnswer
        /\ TheHandler' = h /\ Exempt' = Exempt
    <3>1. "running" \in Phases /\ inhand.pc \in Nat /\ inhand.wrote \subseteq DOMAIN acts'
          /\ inhand.answer \in AnswerForm
      BY <1>1, RequestFacts DEF Phases
    <3> QED BY <1>2, <2>1, <2>3, <3>1, MovedFields
  <2>5. NoAnswer.status = 0 /\ NoAnswer.body = "none" /\ 0 \notin Away
    BY DEF NoAnswer, Sent, Away
  <2>6. TurnedAwayDidNothing' /\ PartialOnlyToFragments' /\ WritesAreEntitled'
    BY <2>4, <2>5 DEF TurnedAwayDidNothing, PartialOnlyToFragments, WritesAreEntitled
  <2>7. SuccessIsAudited' /\ LogTellsTheTruth' /\ acts' \in [DOMAIN acts' -> Nat]
    BY <1>1, <2>4 DEF WebInv, AnswersAreHonest, SuccessIsAudited, LogTellsTheTruth
  <2>8. /\ Len(h.steps) \in Nat /\ DOMAIN h.steps = 1 .. Len(h.steps)
    BY <2>1, RequestFacts, OrderFacts
  <2>9. \A j \in DOMAIN h.steps : ~(j < 1)
    BY <2>8
  <2>10. NothingYet' /\ RunsInOrder'
    BY <2>2, <2>4, <2>9 DEF NothingYet, RunsInOrder
  <2>11. inhand'.pc \in 1 .. Len(h.steps) + 1 /\ inhand'.phase # "answered"
    BY <2>4, <2>8
  <2> QED BY <1>1, <2>1, <2>4, <2>6, <2>7, <2>10, <2>11, Frame
<1> QED BY <1>3, <1>4

LEMMA WebStart == webInit => WebInv
<1> SUFFICES ASSUME webInit PROVE WebInv
  OBVIOUS
<1>1. PICK who : who = (CHOOSE p \in Principals : ~p.signed) /\ who \in Principals
  BY WebConstantsOK
<1>2. PICK h : h = routes["healthz"] /\ HandlerInOrder(h) /\ "healthz" \in DOMAIN routes
  BY HandlersInOrder, WebConstantsOK
<1>3. /\ inhand = [phase |-> "none", handler |-> "healthz", kind |-> "plain", token |-> "right",
                   who |-> who, pc |-> 1, wrote |-> {}, answer |-> NoAnswer]
      /\ acts = [a \in {} |-> 0] /\ log = {} /\ retries = 0
  BY <1>1 DEF webInit
<1>4. /\ inhand.phase = "none" /\ inhand.handler = "healthz" /\ inhand.kind = "plain"
      /\ inhand.token = "right" /\ inhand.pc = 1 /\ inhand.wrote = {} /\ inhand.answer = NoAnswer
      /\ DOMAIN acts = {}
  BY <1>3
<1>5. NoAnswer \in AnswerForm /\ NoAnswer.status = 0 /\ NoAnswer.body = "none" /\ 0 \notin Away
  BY DEF NoAnswer, Sent, AnswerForm, Away
<1>6. inhand \in RequestForm
  <2>1. "plain" \in DOMAIN Headers /\ "right" \in Tokens /\ "none" \in Phases
    BY DEF Headers, Tokens, Phases
  <2> QED BY <1>1, <1>2, <1>3, <1>5, <2>1 DEF RequestForm
<1>7. TheHandler = h
  BY <1>2, <1>4 DEF TheHandler
<1>8. WebTypeOK
  <2>1. /\ Len(h.steps) \in Nat
        /\ \A i \in DOMAIN h.steps : \A e \in h.steps[i].errors : ErrorFits(h, i, e)
    BY <1>2, OrderFacts
  <2>2. inhand.pc \in 1 .. Len(h.steps) + 1
    BY <1>4, <2>1
  <2>3. \A i \in DOMAIN h.steps : h.steps[i].errors \subseteq DOMAIN h.fail \cup {"Rejected"}
    BY <2>1 DEF ErrorFits
  <2>4. retries \in 0 .. MaxRetries
    BY <1>3, WebConstantsOK
  <2> QED BY <1>4, <1>7, <2>2, <2>3, <2>4 DEF WebTypeOK, Phases
<1>9. TurnedAwayDidNothing /\ PartialOnlyToFragments /\ WritesAreEntitled
  BY <1>4, <1>5 DEF TurnedAwayDidNothing, PartialOnlyToFragments, WritesAreEntitled
<1>10. SuccessIsAudited /\ LogTellsTheTruth /\ acts \in [DOMAIN acts -> Nat]
  BY <1>3, <1>4 DEF SuccessIsAudited, LogTellsTheTruth
<1>11. NothingYet /\ RunsInOrder
  BY <1>4 DEF NothingYet, RunsInOrder
<1> QED BY <1>6, <1>8, <1>9, <1>10, <1>11 DEF WebInv, AnswersAreHonest

LEMMA WebStep == WebInv /\ [webNext]_webVars => WebInv'
<1> SUFFICES ASSUME WebInv, [webNext]_webVars PROVE WebInv'
  OBVIOUS
<1>1. CASE UNCHANGED webVars
  BY <1>1 DEF webVars, WebInv, AnswersAreHonest, WebTypeOK, TurnedAwayDidNothing,
              PartialOnlyToFragments, WritesAreEntitled, SuccessIsAudited, LogTellsTheTruth,
              NothingYet, RunsInOrder, RequestForm, TheHandler, Exempt, Holds, Fragment, Done
<1>2. CASE Arrive \/ Retry
  BY <1>2, SendingKeeps
<1>3. CASE SessionUnresolved \/ TokenRefused \/ Dispatched
  BY <1>3, MiddlewareKeeps
<1>4. CASE PassGate \/ PassCheck \/ LetIn \/ FindDone \/ NotYet \/ AttemptFails
  BY <1>4, PassingKeeps
<1>5. CASE RefuseAtGate \/ SendAway
  BY <1>5, DoorKeeps
<1>6. CASE RefuseInService \/ FailStep \/ RefuseTwice \/ RefuseCredential \/ EndEarly \/ Finish
  BY <1>6, EndingKeeps
<1>7. CASE CommitWrite \/ AttemptWrite
  BY <1>7, CommitKeeps
<1>8. CASE CommitUnacknowledged
  BY <1>8, UnacknowledgedKeeps
<1>9. CASE RecordAudit
  BY <1>9, AuditKeeps
<1> QED BY <1>1, <1>2, <1>3, <1>4, <1>5, <1>6, <1>7, <1>8, <1>9 DEF webNext

\* Whichever step of a request fails, whichever acknowledgement is lost and however
\* often the request is sent again: refusals did nothing, writes were entitled,
\* fragments go where they fit, the log does not lie, and a success is in it.
THEOREM WebHonest == webSpec => []AnswersAreHonest
<1>1. WebInv => AnswersAreHonest
  BY DEF WebInv
<1> QED BY <1>1, WebStart, WebStep, PTL DEF webSpec

(***************************************************************************)
(* Limiter.                                                                *)
(***************************************************************************)
CheckRecord ==
  {NoCheck} \cup [pc : {"sent", "late"}, key : Keys, at : 0..MaxTick]
  \cup [pc : {"ran"}, key : Keys, at : 0..MaxTick, allow : BOOLEAN]

\* The constants and the types of the state, one by one.
LEMMA LimiterFacts ==
  ASSUME LimiterTypeOK
  PROVE  /\ Limit \in Nat /\ MaxTick \in Nat /\ tick \in Nat /\ tick \in 0..MaxTick
         /\ checking \in [Checks -> CheckRecord]
         /\ \A k \in Keys : /\ events[k] \subseteq Entry /\ seen[k] \in Int /\ seen[k] <= MaxTick
                            /\ Window(k) \in {1, 2} /\ Window(k) \in Int
         /\ \A k \in Keys, u \in 0..MaxTick : passed[k][u] \in 0..(Limit + 1) /\ passed[k][u] \in Nat
<1>1. Limit \in Nat /\ MaxTick \in Nat
  BY LimiterConstantsOK
<1>2. tick \in 0..MaxTick /\ tick \in Nat
  BY <1>1 DEF LimiterTypeOK
<1>3. checking \in [Checks -> CheckRecord]
  BY DEF LimiterTypeOK, CheckRecord
<1>4. \A k \in Keys : events[k] \subseteq Entry
  BY DEF LimiterTypeOK
<1>5. \A k \in Keys : seen[k] \in Int /\ seen[k] <= MaxTick
  BY <1>1 DEF LimiterTypeOK, Never
<1>6. \A k \in Keys : Window(k) \in {1, 2} /\ Window(k) \in Int
  BY DEF Window
<1>7. \A k \in Keys : passed[k] \in [0..MaxTick -> 0..Limit + 1]
  BY DEF LimiterTypeOK
<1>8. ASSUME NEW k \in Keys, NEW u \in 0..MaxTick
      PROVE  passed[k][u] \in 0..(Limit + 1) /\ passed[k][u] \in Nat
  BY <1>1, <1>7
<1> QED BY <1>1, <1>2, <1>3, <1>4, <1>5, <1>6, <1>8

\* Where fewer than Limit are recorded there is a name left for one more.
LEMMA NewEntryFacts ==
  ASSUME NEW t \in 0..MaxTick, NEW tr, IsFiniteSet(tr), Cardinality(tr) < Limit
  PROVE  NewEntry(t, tr) \in Entry /\ NewEntry(t, tr) \notin tr /\ NewEntry(t, tr).at = t
<1>1. Limit \in Nat /\ Cardinality(tr) \in Nat
  BY LimiterConstantsOK, FS_CardinalityType
<1>2. \E i \in 1..Limit : [at |-> t, n |-> i] \notin tr
  <2>1. SUFFICES ASSUME \A i \in 1..Limit : [at |-> t, n |-> i] \in tr PROVE FALSE
    OBVIOUS
  <2>2. PICK a, b, I : a = 1 /\ b = Limit /\ I = a..b /\ a \in Int /\ b \in Int
    BY <1>1
  <2>3. IsFiniteSet(I) /\ Cardinality(I) = Limit
    BY <1>1, <2>2, FS_Interval
  <2>4. PICK g : g = [i \in I |-> [at |-> t, n |-> i]]
    OBVIOUS
  <2>5. g \in [I -> tr]
    BY <2>1, <2>2, <2>4
  <2>6. \A i, j \in I : g[i] = g[j] => i = j
    BY <2>4
  <2>7. g \in Injection(I, tr)
    BY <2>5, <2>6 DEF Injection, IsInjective
  <2>8. Cardinality(I) <= Cardinality(tr)
    BY <2>7, FS_Injection
  <2> QED BY <1>1, <2>3, <2>8
<1>3. PICK i : i = CHOOSE j \in 1..Limit : [at |-> t, n |-> j] \notin tr
  OBVIOUS
<1>4. i \in 1..Limit /\ [at |-> t, n |-> i] \notin tr
  BY <1>2, <1>3
<1>5. NewEntry(t, tr) = [at |-> t, n |-> i]
  BY <1>3 DEF NewEntry
<1> QED BY <1>4, <1>5 DEF Entry

\* The window after a request at t: still no more than Limit in any window, and
\* what is younger than the window of t stays, with one more if there was room.
LEMMA RecordedFacts ==
  ASSUME NEW k, NEW t \in 0..MaxTick, NEW es \in SUBSET Entry, IsFiniteSet(es),
         \A u \in 0..MaxTick : Cardinality(During(es, u - Window(k), u)) <= Limit,
         NEW ns, ns = Recorded(k, t, es)
  PROVE  /\ ns \subseteq Entry /\ IsFiniteSet(ns)
         /\ \A u \in 0..MaxTick : Cardinality(During(ns, u - Window(k), u)) <= Limit
         /\ \A u \in 0..MaxTick : u > t - Window(k) =>
              Cardinality(During(ns, u - 1, u)) =
                Cardinality(During(es, u - 1, u)) + IF HasRoom(k, t, es) /\ u = t THEN 1 ELSE 0
         /\ \A e \in ns : e \in es \/ e.at = t
<1>1. PICK W, tr : W = Window(k) /\ tr = Trimmed(k, t, es)
  OBVIOUS
<1>2. W \in {1, 2} /\ W \in Int /\ Limit \in Nat /\ MaxTick \in Nat /\ t \in Int
  BY <1>1, LimiterConstantsOK DEF Window
<1>3. \A e \in Entry : e.at \in Int /\ e.at \in 0..MaxTick
  BY <1>2 DEF Entry
<1>4. tr \subseteq es /\ \A e \in es : e \in tr <=> e.at > t - W
  BY <1>1 DEF Trimmed
<1>5. IsFiniteSet(tr) /\ Cardinality(tr) \in Nat
  BY <1>4, FS_Subset, FS_CardinalityType
<1>6. \A S, lo, hi : S \subseteq es => During(S, lo, hi) \subseteq During(es, lo, hi)
  BY DEF During
<1>7. \A lo, hi : IsFiniteSet(During(es, lo, hi)) /\ Cardinality(During(es, lo, hi)) \in Nat
  <2> TAKE lo, hi
  <2>1. During(es, lo, hi) \subseteq es
    BY DEF During
  <2> QED BY <2>1, FS_Subset, FS_CardinalityType
<1>8. \A u \in 0..MaxTick : Cardinality(During(tr, u - W, u)) <= Limit
  <2> TAKE u \in 0..MaxTick
  <2>1. PICK A, B : A = During(tr, u - W, u) /\ B = During(es, u - W, u)
    OBVIOUS
  <2>2. A \subseteq B /\ IsFiniteSet(B) /\ Cardinality(B) \in Nat /\ Cardinality(B) <= Limit
    BY <1>1, <1>4, <1>6, <1>7, <2>1
  <2>3. Cardinality(A) <= Cardinality(B) /\ IsFiniteSet(A)
    BY <2>2, FS_Subset
  <2>4. Cardinality(A) \in Nat
    BY <2>3, FS_CardinalityType
  <2> QED BY <1>2, <2>1, <2>2, <2>3, <2>4
<1>9. \A u \in 0..MaxTick : u > t - W => During(tr, u - 1, u) = During(es, u - 1, u)
  <2> TAKE u \in 0..MaxTick
  <2>1. HAVE u > t - W
  <2>2. ASSUME NEW e \in es, u - 1 < e.at, e.at <= u PROVE e \in tr
    <3>1. e.at \in Int /\ u \in Int
      BY <1>3
    <3>2. e.at = u
      BY <2>2, <3>1
    <3> QED BY <1>4, <2>1, <3>2
  <2> QED BY <1>4, <2>2 DEF During
<1>10. CASE ~HasRoom(k, t, es)
  <2>1. ns = tr
    BY <1>1, <1>10 DEF Recorded
  <2>2. \A u \in 0..MaxTick : u > t - W =>
          Cardinality(During(ns, u - 1, u)) = Cardinality(During(es, u - 1, u)) + 0
    BY <1>7, <1>9, <2>1
  <2> QED BY <1>1, <1>4, <1>5, <1>8, <1>10, <2>1, <2>2
<1>11. CASE HasRoom(k, t, es)
  <2>1. PICK x : x = NewEntry(t, tr)
    OBVIOUS
  <2>2. Cardinality(tr) < Limit
    BY <1>1, <1>11 DEF HasRoom
  <2>3. x \in Entry /\ x \notin tr /\ x.at = t
    BY <1>5, <2>1, <2>2, NewEntryFacts
  <2>4. ns = tr \cup {x}
    BY <1>1, <1>11, <2>1 DEF Recorded
  <2>5. IsFiniteSet(ns) /\ Cardinality(ns) = Cardinality(tr) + 1
    BY <1>5, <2>3, <2>4, FS_AddElement
  <2>6. ASSUME NEW u \in 0..MaxTick PROVE Cardinality(During(ns, u - W, u)) <= Limit
    <3>1. PICK A : A = During(ns, u - W, u)
      OBVIOUS
    <3>2. A \subseteq ns
      BY <3>1 DEF During
    <3>3. Cardinality(A) <= Cardinality(ns) /\ IsFiniteSet(A)
      BY <2>5, <3>2, FS_Subset
    <3>4. Cardinality(A) \in Nat
      BY <3>3, FS_CardinalityType
    <3> QED BY <1>2, <1>5, <2>2, <2>5, <3>1, <3>3, <3>4
  <2>7. ASSUME NEW u \in 0..MaxTick, u > t - W, u # t
        PROVE  Cardinality(During(ns, u - 1, u)) = Cardinality(During(es, u - 1, u)) + 0
    <3>1. u \in Int /\ ~(u - 1 < t /\ t <= u)
      BY <1>2, <2>7
    <3>2. During(ns, u - 1, u) = During(tr, u - 1, u)
      BY <2>3, <2>4, <3>1 DEF During
    <3> QED BY <1>7, <1>9, <2>7, <3>2
  <2>8. Cardinality(During(ns, t - 1, t)) = Cardinality(During(es, t - 1, t)) + 1
    <3>1. t > t - W /\ t - 1 < t /\ t <= t
      BY <1>2
    <3>2. PICK D : D = During(es, t - 1, t)
      OBVIOUS
    <3>3. D = During(tr, t - 1, t)
      BY <1>9, <3>1, <3>2
    <3>4. During(ns, t - 1, t) = D \cup {x}
      BY <2>3, <2>4, <3>1, <3>3 DEF During
    <3>5. x \notin D
      BY <2>3, <3>3 DEF During
    <3> QED BY <1>7, <3>2, <3>4, <3>5, FS_AddElement
  <2>9. \A u \in 0..MaxTick : u > t - W =>
          Cardinality(During(ns, u - 1, u)) =
            Cardinality(During(es, u - 1, u)) + IF HasRoom(k, t, es) /\ u = t THEN 1 ELSE 0
    BY <1>11, <2>7, <2>8
  <2>10. ns \subseteq Entry /\ \A e \in ns : e \in es \/ e.at = t
    BY <1>4, <2>3, <2>4
  <2> QED BY <1>1, <2>5, <2>6, <2>9, <2>10
<1> QED BY <1>10, <1>11

\* What was let through in a window that is still open has its records, and of
\* those there are no more than Limit.
LEMMA LimitNow ==
  ASSUME LimiterTypeOK, RecordsAreFew, PassedIsRecorded,
         NEW k \in Keys, Kept(k), NEW t \in 0..MaxTick, t >= tick
  PROVE  InWindow(k, t) <= Limit
<1>1. PICK W, E : W = Window(k) /\ E = events[k]
  OBVIOUS
<1>2. W \in {1, 2} /\ Limit \in Nat /\ MaxTick \in Nat /\ tick \in Nat /\ t \in Nat /\ E \subseteq Entry
  BY <1>1, LimiterFacts
<1>3. IsFiniteSet(E) /\ Cardinality(During(E, t - W, t)) <= Limit
  BY <1>1 DEF RecordsAreFew
<1>4. \A lo, hi : IsFiniteSet(During(E, lo, hi)) /\ Cardinality(During(E, lo, hi)) \in Nat
  <2> TAKE lo, hi
  <2>1. During(E, lo, hi) \subseteq E
    BY DEF During
  <2> QED BY <1>3, <2>1, FS_Subset, FS_CardinalityType
<1>5. ASSUME NEW u \in 0..MaxTick, u > tick - W
      PROVE  passed[k][u] <= Cardinality(During(E, u - 1, u)) /\ passed[k][u] \in Nat
  <2>1. PICK p, q, d : /\ p = passed[k][u] /\ q = Cardinality(Pending(checking, k, u))
                       /\ d = Cardinality(During(E, u - 1, u))
    OBVIOUS
  <2>2. p + q <= d
    BY <1>1, <1>5, <2>1 DEF PassedIsRecorded
  <2>3. IsFiniteSet(Pending(checking, k, u))
    <3>1. Pending(checking, k, u) \subseteq Checks
      BY DEF Pending
    <3> QED BY <3>1, LimiterConstantsOK, FS_Subset
  <2>4. p \in Nat /\ q \in Nat /\ d \in Nat
    BY <1>4, <2>1, <2>3, FS_CardinalityType, LimiterFacts
  <2> QED BY <2>1, <2>2, <2>4
<1>6. CASE W = 1 \/ t = 0
  <2>1. InWindow(k, t) = passed[k][t] + 0
    BY <1>1, <1>2, <1>6 DEF InWindow
  <2>2. t > tick - W
    BY <1>2
  <2>3. PICK p : p \in Nat /\ p = passed[k][t] /\ p <= Cardinality(During(E, t - 1, t))
    BY <1>5, <2>2
  <2>4. During(E, t - 1, t) = During(E, t - W, t)
    <3>1. CASE W = 1
      BY <3>1
    <3>2. CASE t = 0
      <4>1. \A e \in E : e.at \in Nat
        BY <1>2 DEF Entry
      <4>2. \A e \in E : (t - 1 < e.at) <=> (t - W < e.at)
        BY <1>2, <3>2, <4>1
      <4> QED BY <4>2 DEF During
    <3> QED BY <1>6, <3>1, <3>2
  <2> QED BY <1>2, <1>3, <1>4, <2>1, <2>3, <2>4
<1>7. CASE W = 2 /\ t > 0
  <2>1. InWindow(k, t) = passed[k][t] + passed[k][t - 1]
    BY <1>1, <1>7 DEF InWindow
  <2>2. t > tick - W /\ t - 1 > tick - W /\ t - 1 \in 0..MaxTick
    BY <1>2, <1>7
  <2>3. PICK s : s \in 0..MaxTick /\ s = t - 1
    BY <2>2
  <2>4. PICK A, B, C : A = During(E, t - 1, t) /\ B = During(E, s - 1, s) /\ C = During(E, t - W, t)
    OBVIOUS
  <2>5. PICK p, q : /\ p \in Nat /\ p = passed[k][t] /\ p <= Cardinality(A)
                    /\ q \in Nat /\ q = passed[k][s] /\ q <= Cardinality(B)
    BY <1>5, <2>2, <2>3, <2>4
  <2>6. C = A \cup B /\ A \cap B = {}
    <3>1. \A e \in E : e.at \in Int
      BY <1>2 DEF Entry
    <3> QED BY <1>2, <1>7, <2>3, <2>4, <3>1 DEF During
  <2>7. /\ IsFiniteSet(A) /\ Cardinality(A) \in Nat /\ IsFiniteSet(B) /\ Cardinality(B) \in Nat
        /\ Cardinality(C) \in Nat /\ Cardinality(C) <= Limit
    BY <1>3, <1>4, <2>4
  <2>8. Cardinality(C) = Cardinality(A) + Cardinality(B)
    <3>1. Cardinality(A \cup B) = Cardinality(A) + Cardinality(B) - Cardinality(A \cap B)
      BY <2>7, FS_Union
    <3>2. PICK z : z = Cardinality(A \cap B) /\ z = 0
      BY <2>6, FS_EmptySet
    <3> QED BY <2>6, <2>7, <3>1, <3>2
  <2> QED BY <1>2, <2>1, <2>3, <2>5, <2>7, <2>8
<1> QED BY <1>2, <1>6, <1>7

OpenWindowsHold ==
  \A k \in Keys, t \in 0..MaxTick : Kept(k) /\ t >= tick => InWindow(k, t) <= Limit

LEMMA LimitsNow == LimiterTypeOK /\ RecordsAreFew /\ PassedIsRecorded => OpenWindowsHold
  BY LimitNow DEF OpenWindowsHold

LEMMA PendingFinite ==
  ASSUME NEW k, NEW u
  PROVE  IsFiniteSet(Pending(checking, k, u)) /\ Cardinality(Pending(checking, k, u)) \in Nat
<1>1. Pending(checking, k, u) \subseteq Checks
  BY DEF Pending
<1> QED BY <1>1, LimiterConstantsOK, FS_Subset, FS_CardinalityType

\* A step keeps the invariant if it keeps the parts below and changes no count
\* of an earlier tick.
LEMMA LimiterAfter ==
  ASSUME LimiterInv, LimiterTypeOK', RecordsAreFew', PassedIsRecorded', CallsAreRecent',
         MapIsCurrent', BucketsAreBounded',
         failOpen' = failOpen, forgotten \subseteq forgotten', tick' >= tick,
         \A k \in Keys, u \in 0..MaxTick : u < tick' => passed'[k][u] = passed[k][u]
  PROVE  LimiterInv'
<1>1. \A k \in Keys, t \in 0..MaxTick : Kept(k)' /\ t >= tick' => InWindow(k, t)' <= Limit
  <2>1. (LimiterTypeOK /\ RecordsAreFew /\ PassedIsRecorded => OpenWindowsHold)'
    BY LimitsNow, PTL
  <2> QED BY <2>1 DEF OpenWindowsHold
<1>2. ASSUME NEW k \in Keys, NEW t \in 0..MaxTick, Kept(k)', t < tick'
      PROVE  InWindow(k, t)' <= Limit
  <2>1. InWindow(k, t) <= Limit
    BY <1>2 DEF Kept, LimiterInv, LimiterIsSound, LimitHolds
  <2>2. passed'[k][t] = passed[k][t]
    BY <1>2
  <2>3. t \in Int /\ tick' \in Int
    BY <1>2, LimiterConstantsOK DEF LimiterTypeOK
  <2>4. t > 0 => passed'[k][t - 1] = passed[k][t - 1]
    <3>1. t > 0 => t - 1 \in 0..MaxTick /\ t - 1 < tick'
      BY <1>2, <2>3, LimiterConstantsOK
    <3> QED BY <3>1
  <2>5. InWindow(k, t)' = InWindow(k, t)
    BY <2>2, <2>4 DEF InWindow, Window
  <2> QED BY <2>1, <2>5
<1>3. LimitHolds'
  <2> SUFFICES ASSUME NEW k \in Keys \ forgotten', NEW t \in 0..MaxTick,
                      failOpen' => k \in SensitiveKeys
               PROVE  InWindow(k, t)' <= Limit
    BY DEF LimitHolds
  <2>1. Kept(k)' /\ k \in Keys
    BY DEF Kept
  <2>2. t \in Int /\ tick' \in Int
    BY LimiterConstantsOK DEF LimiterTypeOK
  <2> QED BY <1>1, <1>2, <2>1, <2>2
<1> QED BY <1>3 DEF LimiterInv, LimiterIsSound

LEMMA LimiterStart == LimiterInit => LimiterInv
<1> SUFFICES ASSUME LimiterInit PROVE LimiterInv
  OBVIOUS
<1>1. /\ backend \in {"memory", "valkey"} /\ failOpen \in BOOLEAN
      /\ events = [k \in Keys |-> {}] /\ seen = [k \in Keys |-> Never] /\ sinceSweep = 0
      /\ checking = [c \in Checks |-> NoCheck]
      /\ passed = [k \in Keys |-> [t \in 0..MaxTick |-> 0]]
      /\ forgotten = {} /\ tick = 0
  BY DEF LimiterInit
<1>2. Limit \in Nat /\ MaxTick \in Nat /\ MaxBuckets \in Nat /\ SweepEvery \in Nat
  BY LimiterConstantsOK
<1>3. LimiterTypeOK
  <2>1. seen \in [Keys -> Never..MaxTick]
    BY <1>1, <1>2 DEF Never
  <2>2. [t \in 0..MaxTick |-> 0] \in [0..MaxTick -> 0..Limit + 1]
    BY <1>2
  <2>3. passed \in [Keys -> [0..MaxTick -> 0..Limit + 1]]
    BY <1>1, <2>2
  <2>4. events \in [Keys -> SUBSET Entry]
    BY <1>1
  <2>5. checking \in [Checks -> {NoCheck} \cup
          [pc : {"sent", "late"}, key : Keys, at : 0..MaxTick] \cup
          [pc : {"ran"}, key : Keys, at : 0..MaxTick, allow : BOOLEAN]]
    BY <1>1
  <2> QED BY <1>1, <1>2, <2>1, <2>3, <2>4, <2>5 DEF LimiterTypeOK
<1>4. \A k \in Keys : events[k] = {} /\ seen[k] = Never
  BY <1>1
<1>5. \A c \in Checks : checking[c] = NoCheck
  BY <1>1
<1>6. \A k \in Keys, u \in 0..MaxTick : passed[k][u] = 0
  BY <1>1
<1>7. Held = {} /\ IsFiniteSet(Held) /\ Cardinality(Held) = 0
  <2>1. Held = {}
    BY <1>4 DEF Held
  <2> QED BY <2>1, FS_EmptySet
<1>8. \A lo, hi : During({}, lo, hi) = {}
  BY DEF During
<1>9. RecordsAreFew
  <2>1. ASSUME NEW k \in Keys, NEW t \in 0..MaxTick
        PROVE  Cardinality(During(events[k], t - Window(k), t)) <= Limit
    <3>1. Cardinality(During(events[k], t - Window(k), t)) = 0
      BY <1>4, <1>8, FS_EmptySet
    <3> QED BY <1>2, <3>1
  <2> QED BY <1>4, <2>1, FS_EmptySet DEF RecordsAreFew
<1>10. \A k, u : Pending(checking, k, u) = {}
  BY <1>5 DEF Pending, Allows, NoCheck
<1>11. PassedIsRecorded
  <2>1. ASSUME NEW k \in Keys, NEW u \in 0..MaxTick
        PROVE  passed[k][u] + Cardinality(Pending(checking, k, u)) <= Cardinality(During(events[k], u - 1, u))
    <3>1. PICK a, b, c : a = passed[k][u] /\ b = Cardinality(Pending(checking, k, u))
                         /\ c = Cardinality(During(events[k], u - 1, u)) /\ a = 0 /\ b = 0 /\ c = 0
      BY <1>4, <1>6, <1>8, <1>10, FS_EmptySet
    <3> QED BY <3>1
  <2> QED BY <2>1 DEF PassedIsRecorded
<1>12. CallsAreRecent /\ MapIsCurrent
  BY <1>4, <1>5, <1>6, <1>7 DEF CallsAreRecent, MapIsCurrent
<1>13. BucketsAreBounded
  BY <1>2, <1>7 DEF BucketsAreBounded
<1>14. LimitHolds
  <2> SUFFICES ASSUME NEW k \in Keys, NEW t \in 0..MaxTick PROVE InWindow(k, t) <= Limit
    BY DEF LimitHolds
  <2>1. passed[k][t] = 0
    BY <1>6
  <2>2. t > 0 => passed[k][t - 1] = 0
    <3>1. t > 0 => t - 1 \in 0..MaxTick
      BY <1>2
    <3> QED BY <1>6, <3>1
  <2>3. InWindow(k, t) = 0
    BY <2>1, <2>2 DEF InWindow
  <2> QED BY <1>2, <2>3
<1> QED BY <1>3, <1>9, <1>11, <1>12, <1>13, <1>14 DEF LimiterInv, LimiterIsSound

LEMMA TickKeeps ==
  ASSUME LimiterInv, Tick \/ UNCHANGED limiterVars
  PROVE  LimiterInv'
<1>1. /\ UNCHANGED <<backend, failOpen, events, seen, sinceSweep, checking, passed, forgotten>>
      /\ tick' = tick \/ (tick < MaxTick /\ tick' = tick + 1 /\
                           \A c \in Checks : checking[c].pc \notin {"sent", "ran"})
  BY DEF Tick, limiterVars
<1>2. LimiterTypeOK
  BY DEF LimiterInv, LimiterIsSound
<1>3. tick \in Nat /\ MaxTick \in Nat /\ tick \in 0..MaxTick /\ checking \in [Checks -> CheckRecord]
  BY <1>2, LimiterFacts
<1>4. tick' \in 0..MaxTick /\ tick' \in Nat /\ tick' >= tick
  BY <1>1, <1>3
<1>5. LimiterTypeOK'
  BY <1>1, <1>2, <1>4 DEF LimiterTypeOK
<1>6. RecordsAreFew'
  BY <1>1 DEF LimiterInv, RecordsAreFew
<1>7. PassedIsRecorded'
  <2>1. \A k, u : Pending(checking', k, u) = Pending(checking, k, u)
    BY <1>1 DEF Pending
  <2>2. \A k \in Keys, u \in 0..MaxTick : u > tick' - Window(k) => u > tick - Window(k)
    BY <1>2, <1>3, <1>4, LimiterFacts
  <2> QED BY <1>1, <2>1, <2>2 DEF LimiterInv, PassedIsRecorded, Kept
<1>8. CallsAreRecent'
  <2>1. ASSUME NEW c \in Checks, checking[c] # NoCheck
        PROVE  checking[c].at <= tick' /\ (checking[c].pc # "late" => checking[c].at = tick')
    <3>1. checking[c].at <= tick /\ (checking[c].pc # "late" => checking[c].at = tick)
      BY <2>1 DEF LimiterInv, CallsAreRecent
    <3>2. checking[c].at \in Nat /\ checking[c].pc \in {"sent", "late", "ran"}
      BY <1>3, <2>1 DEF CheckRecord
    <3> QED BY <1>1, <1>3, <3>1, <3>2
  <2>2. ASSUME NEW k \in Keys, NEW u \in 0..MaxTick, u > tick' PROVE passed[k][u] = 0
    <3>1. u > tick
      BY <1>3, <1>4, <2>2
    <3> QED BY <3>1 DEF LimiterInv, CallsAreRecent
  <2> QED BY <1>1, <2>1, <2>2 DEF CallsAreRecent
<1>9. Held' = Held
  BY <1>1 DEF Held
<1>10. BucketsAreBounded'
  BY <1>1, <1>9 DEF LimiterInv, LimiterIsSound, BucketsAreBounded
<1>11. MapIsCurrent'
  <2>1. \A k \in Keys : seen[k] \in Int /\ (seen[k] <= tick => seen[k] <= tick')
    BY <1>2, <1>3, <1>4, LimiterFacts
  <2> QED BY <1>1, <1>9, <2>1 DEF LimiterInv, MapIsCurrent
<1> QED BY <1>11, <1>1, <1>4, <1>5, <1>6, <1>7, <1>8, <1>10, LimiterAfter

\* One more request is counted, at one key and one tick.
LEMMA CountedFacts ==
  ASSUME LimiterTypeOK, NEW k \in Keys, NEW t \in 0..MaxTick, Counted(k, t)
  PROVE  /\ passed' \in [Keys -> [0..MaxTick -> 0..Limit + 1]]
         /\ \A b \in Keys, u \in 0..MaxTick : b # k \/ u # t => passed'[b][u] = passed[b][u]
         /\ passed'[k][t] <= passed[k][t] + 1 /\ passed'[k][t] \in Nat
<1>1. PICK p : p \in 0..(Limit + 1) /\ p = passed[k][t] /\ p \in Nat /\ Limit \in Nat
  BY LimiterFacts
<1>2. PICK q : q = IF p > Limit THEN p ELSE p + 1
  OBVIOUS
<1>3. q \in 0..(Limit + 1) /\ q <= p + 1 /\ q \in Nat
  BY <1>1, <1>2
<1>4. passed' = [passed EXCEPT ![k] = [passed[k] EXCEPT ![t] = q]]
  BY <1>1, <1>2 DEF Counted
<1>5. passed \in [Keys -> [0..MaxTick -> 0..Limit + 1]] /\ passed[k] \in [0..MaxTick -> 0..Limit + 1]
  BY DEF LimiterTypeOK
<1>6. passed' \in [Keys -> [0..MaxTick -> 0..Limit + 1]]
  BY <1>3, <1>4, <1>5
<1>7. passed'[k][t] = q
  BY <1>4, <1>5
<1>8. \A b \in Keys, u \in 0..MaxTick : b # k \/ u # t => passed'[b][u] = passed[b][u]
  BY <1>4, <1>5
<1> QED BY <1>1, <1>3, <1>6, <1>7, <1>8

\* What a sweep leaves in the map: buckets that were there, with room for one
\* more; what it took had lapsed, or is forgotten.
LEMMA SweepFacts ==
  ASSUME LimiterInv, NEW k \in Keys, NEW kept,
         kept \in (IF Sweeps(k) THEN Survivors(k) ELSE {Held})
  PROVE  /\ kept \subseteq Held /\ IsFiniteSet(kept \cup {k})
         /\ Cardinality(kept \cup {k}) <= MaxBuckets
         /\ k \in Held => kept = Held
         /\ \A b \in Held \ kept : \/ Lapsed(b, k)
                                   \/ Sweeps(k) /\ Cardinality({x \in Held : ~Lapsed(x, k)}) >= MaxBuckets
<1>1. PICK H, O, m : H = Held /\ O = {b \in Held : ~Lapsed(b, k)} /\ m = Cardinality(O)
  OBVIOUS
<1>2. IsFiniteSet(H) /\ Cardinality(H) \in Nat /\ Cardinality(H) <= MaxBuckets
  BY <1>1, FS_CardinalityType DEF LimiterInv, LimiterIsSound, BucketsAreBounded, MapIsCurrent
<1>3. O \subseteq H /\ IsFiniteSet(O) /\ m \in Nat
  BY <1>1, <1>2, FS_Subset, FS_CardinalityType
<1>4. MaxBuckets \in Nat /\ MaxBuckets # 0 /\ Headroom \in Nat /\ Headroom >= 1 /\ Headroom <= MaxBuckets
  BY LimiterConstantsOK
<1>5. \A S : IsFiniteSet(S) /\ Cardinality(S) < MaxBuckets =>
              IsFiniteSet(S \cup {k}) /\ Cardinality(S \cup {k}) <= MaxBuckets
  <2> TAKE S
  <2>1. HAVE IsFiniteSet(S) /\ Cardinality(S) < MaxBuckets
  <2>2. PICK n : n = Cardinality(S) /\ n \in Nat
    BY <2>1, FS_CardinalityType
  <2>3. CASE k \in S
    <3>1. S \cup {k} = S
      BY <2>3
    <3> QED BY <1>4, <2>1, <2>2, <3>1
  <2>4. CASE k \notin S
    <3>1. IsFiniteSet(S \cup {k}) /\ Cardinality(S \cup {k}) = n + 1
      BY <2>1, <2>2, <2>4, FS_AddElement
    <3> QED BY <1>4, <2>1, <2>2, <3>1
  <2> QED BY <2>3, <2>4
<1>6. CASE ~Sweeps(k)
  <2>1. kept = H
    BY <1>1, <1>6
  <2>2. CASE k \in Held
    <3>1. kept \cup {k} = H
      BY <1>1, <2>1, <2>2
    <3> QED BY <1>1, <1>2, <2>1, <3>1
  <2>3. CASE k \notin Held
    <3>1. Cardinality(H) < MaxBuckets
      BY <1>1, <1>2, <1>4, <1>6, <2>3 DEF Sweeps
    <3>2. IsFiniteSet(kept \cup {k}) /\ Cardinality(kept \cup {k}) <= MaxBuckets
      BY <1>2, <1>5, <2>1, <3>1
    <3> QED BY <1>1, <2>1, <2>3, <3>2
  <2> QED BY <2>2, <2>3
<1>7. CASE Sweeps(k) /\ m < MaxBuckets
  <2>1. kept = O
    BY <1>1, <1>7 DEF Survivors
  <2>2. k \notin Held
    BY <1>7 DEF Sweeps
  <2>3. \A b \in Held \ kept : Lapsed(b, k)
    BY <1>1, <2>1
  <2>4. IsFiniteSet(kept \cup {k}) /\ Cardinality(kept \cup {k}) <= MaxBuckets
    BY <1>1, <1>3, <1>5, <1>7, <2>1
  <2> QED BY <1>1, <1>3, <2>1, <2>2, <2>3, <2>4
<1>8. CASE Sweeps(k) /\ ~(m < MaxBuckets)
  <2>1. PICK x : x = m - (MaxBuckets - Headroom)
    OBVIOUS
  <2>2. PICK g : g \in kSubset(x, O) /\ kept = O \ g
    BY <1>1, <1>8, <2>1 DEF Survivors
  <2>3. g \subseteq O /\ Cardinality(g) = x
    BY <2>2 DEF kSubset
  <2>4. IsFiniteSet(g) /\ IsFiniteSet(kept) /\ Cardinality(kept) = m - x
    <3>1. IsFiniteSet(g) /\ IsFiniteSet(kept)
      BY <1>3, <2>2, <2>3, FS_Subset
    <3>2. Cardinality(O \ g) = Cardinality(O) - Cardinality(O \cap g)
      BY <1>3, FS_Difference
    <3>3. O \cap g = g
      BY <2>3
    <3> QED BY <1>1, <2>2, <2>3, <3>1, <3>2, <3>3
  <2>5. Cardinality(kept) < MaxBuckets
    BY <1>3, <1>4, <2>1, <2>4
  <2>6. k \notin Held
    BY <1>8 DEF Sweeps
  <2>7. Cardinality({z \in Held : ~Lapsed(z, k)}) >= MaxBuckets
    BY <1>1, <1>3, <1>4, <1>8
  <2>8. IsFiniteSet(kept \cup {k}) /\ Cardinality(kept \cup {k}) <= MaxBuckets
    BY <1>5, <2>4, <2>5
  <2>9. kept \subseteq Held
    BY <1>1, <1>3, <2>2
  <2> QED BY <1>8, <2>6, <2>7, <2>8, <2>9
<1> QED BY <1>6, <1>7, <1>8

\* The check in memory.
LEMMA MemoryKeeps ==
  ASSUME LimiterInv, NEW k \in Keys, CheckInMemory(k)
  PROVE  LimiterInv'
<1>1. PICK kept, es :
        /\ kept \in (IF Sweeps(k) THEN Survivors(k) ELSE {Held})
        /\ es = IF k \in kept THEN events[k] ELSE {}
        /\ events' = [b \in Keys |-> IF b = k THEN Recorded(k, tick, es)
                                     ELSE IF b \in kept THEN events[b] ELSE {}]
        /\ seen' = [b \in Keys |-> IF b = k THEN tick
                                   ELSE IF b \in kept THEN seen[b] ELSE Never]
        /\ forgotten' = forgotten \cup
             (IF Sweeps(k) /\ Cardinality({b \in Held : ~Lapsed(b, k)}) >= MaxBuckets
              THEN Held \ kept ELSE {})
        /\ IF HasRoom(k, tick, es) THEN Counted(k, tick) ELSE UNCHANGED passed
  BY DEF CheckInMemory
<1>2. /\ backend = "memory" /\ UNCHANGED <<backend, failOpen, checking, tick>>
      /\ sinceSweep' = IF k \in Held THEN sinceSweep ELSE IF Sweeps(k) THEN 0 ELSE sinceSweep + 1
  BY DEF CheckInMemory
<1>3. LimiterTypeOK
  BY DEF LimiterInv, LimiterIsSound
<1>4. /\ Limit \in Nat /\ MaxTick \in Nat /\ tick \in Nat /\ tick \in 0..MaxTick
      /\ \A b \in Keys : /\ events[b] \subseteq Entry /\ seen[b] \in Int
                         /\ Window(b) \in {1, 2} /\ Window(b) \in Int
      /\ \A b \in Keys, u \in 0..MaxTick : passed[b][u] \in Nat
  BY <1>3, LimiterFacts
<1>5. /\ kept \subseteq Held /\ IsFiniteSet(kept \cup {k})
      /\ Cardinality(kept \cup {k}) <= MaxBuckets
      /\ k \in Held => kept = Held
      /\ \A b \in Held \ kept : \/ Lapsed(b, k)
                                \/ Sweeps(k) /\ Cardinality({x \in Held : ~Lapsed(x, k)}) >= MaxBuckets
  BY <1>1, SweepFacts
<1>6. Held \subseteq Keys /\ \A b \in Keys : b \notin Held => events[b] = {}
  BY <1>2 DEF LimiterInv, MapIsCurrent, Held
<1>7. es = events[k]
  BY <1>1, <1>5, <1>6
<1>8. \A b \in Keys : IsFiniteSet(events[b])
  BY DEF LimiterInv, RecordsAreFew
<1>9. \A b \in Keys, u \in 0..MaxTick : Cardinality(During(events[b], u - Window(b), u)) <= Limit
  BY DEF LimiterInv, RecordsAreFew
<1>10. PICK ns : ns = Recorded(k, tick, es)
  OBVIOUS
<1>11. /\ ns \subseteq Entry /\ IsFiniteSet(ns)
       /\ \A u \in 0..MaxTick : Cardinality(During(ns, u - Window(k), u)) <= Limit
       /\ \A u \in 0..MaxTick : u > tick - Window(k) =>
            Cardinality(During(ns, u - 1, u)) =
              Cardinality(During(es, u - 1, u)) + IF HasRoom(k, tick, es) /\ u = tick THEN 1 ELSE 0
       /\ \A e \in ns : e \in es \/ e.at = tick
  <2>1. es \in SUBSET Entry /\ IsFiniteSet(es)
    BY <1>4, <1>7, <1>8
  <2>2. \A u \in 0..MaxTick : Cardinality(During(es, u - Window(k), u)) <= Limit
    BY <1>7, <1>9
  <2> QED BY <1>4, <1>10, <2>1, <2>2, RecordedFacts
<1>12. /\ events'[k] = ns
       /\ \A b \in Keys : b # k => events'[b] = IF b \in kept THEN events[b] ELSE {}
  BY <1>1, <1>10
<1>13. /\ seen'[k] = tick
       /\ \A b \in Keys : b # k => seen'[b] = IF b \in kept THEN seen[b] ELSE Never
  BY <1>1
<1>14. /\ passed' \in [Keys -> [0..MaxTick -> 0..Limit + 1]]
       /\ \A b \in Keys, u \in 0..MaxTick : b # k \/ u # tick => passed'[b][u] = passed[b][u]
       /\ passed'[k][tick] \in Nat
       /\ passed'[k][tick] <= passed[k][tick] + IF HasRoom(k, tick, es) THEN 1 ELSE 0
  <2>1. CASE HasRoom(k, tick, es)
    BY <1>1, <1>3, <1>4, <2>1, CountedFacts
  <2>2. CASE ~HasRoom(k, tick, es)
    <3>1. passed' = passed
      BY <1>1, <2>2
    <3>2. passed[k][tick] \in Nat
      BY <1>4
    <3> QED BY <1>3, <2>2, <3>1, <3>2 DEF LimiterTypeOK
  <2> QED BY <2>1, <2>2
<1>15. Held' = kept \cup {k}
  <2>1. tick # Never
    BY <1>4 DEF Never
  <2>2. \A b \in Keys : b \in kept => seen[b] # Never
    BY <1>5 DEF Held
  <2> QED BY <1>5, <1>6, <1>13, <2>1, <2>2 DEF Held
<1>16. LimiterTypeOK'
  <2>1. events' \in [Keys -> SUBSET Entry]
    <3>1. \A b \in Keys : events'[b] \subseteq Entry
      BY <1>4, <1>11, <1>12
    <3> QED BY <1>1, <3>1
  <2>2. seen' \in [Keys -> Never..MaxTick]
    <3>1. tick \in Never..MaxTick /\ Never \in Never..MaxTick
      BY <1>4 DEF Never
    <3>2. \A b \in Keys : seen'[b] \in Never..MaxTick
      BY <1>3, <1>13, <3>1 DEF LimiterTypeOK
    <3> QED BY <1>1, <3>2
  <2>3. sinceSweep' \in 0..SweepEvery
    BY <1>2, <1>3, LimiterConstantsOK DEF LimiterTypeOK, Sweeps
  <2>4. forgotten' \subseteq Keys
    BY <1>1, <1>3, <1>6 DEF LimiterTypeOK
  <2> QED BY <1>2, <1>3, <1>14, <2>1, <2>2, <2>3, <2>4 DEF LimiterTypeOK
<1>17. RecordsAreFew'
  <2>1. Cardinality({}) = 0 /\ IsFiniteSet({}) /\ \A lo, hi : During({}, lo, hi) = {}
    BY FS_EmptySet DEF During
  <2>2. ASSUME NEW b \in Keys, NEW u \in 0..MaxTick
        PROVE  IsFiniteSet(events'[b]) /\ Cardinality(During(events'[b], u - Window(b), u)) <= Limit
    <3>1. CASE b = k
      BY <1>11, <1>12, <3>1
    <3>2. CASE b # k /\ b \in kept
      BY <1>8, <1>9, <1>12, <3>2
    <3>3. CASE b # k /\ b \notin kept
      BY <1>4, <1>12, <2>1, <3>3
    <3> QED BY <3>1, <3>2, <3>3
  <2>3. tick \in 0..MaxTick
    BY <1>4
  <2> QED BY <2>2, <2>3 DEF RecordsAreFew, Window
<1>18. forgotten \subseteq forgotten' /\ failOpen' = failOpen
  BY <1>1, <1>2
<1>19. \A b, u : Pending(checking', b, u) = Pending(checking, b, u)
  BY <1>2 DEF Pending
<1>20. ASSUME NEW b \in Keys, NEW u \in 0..MaxTick, Kept(b)', u > tick - Window(b)
       PROVE  passed'[b][u] + Cardinality(Pending(checking, b, u)) <= Cardinality(During(events'[b], u - 1, u))
  <2>1. Kept(b)
    BY <1>18, <1>20 DEF Kept
  <2>2. PICK p, q, d : /\ p = passed[b][u] /\ q = Cardinality(Pending(checking, b, u))
                       /\ d = Cardinality(During(events[b], u - 1, u))
    OBVIOUS
  <2>3. p + q <= d
    BY <1>20, <2>1, <2>2 DEF LimiterInv, PassedIsRecorded
  <2>4. p \in Nat /\ q \in Nat /\ d \in Nat
    <3>1. During(events[b], u - 1, u) \subseteq events[b]
      BY DEF During
    <3>2. IsFiniteSet(During(events[b], u - 1, u))
      BY <1>8, <3>1, FS_Subset
    <3> QED BY <1>4, <2>2, <3>2, FS_CardinalityType, PendingFinite
  <2>5. CASE b = k /\ u = tick
    <3>1. PICK r : r = passed'[k][tick] /\ r \in Nat
      BY <1>14
    <3>2. CASE HasRoom(k, tick, es)
      <4>1. r <= p + 1
        BY <1>14, <2>2, <2>5, <3>1, <3>2
      <4>2. Cardinality(During(events'[b], u - 1, u)) = d + 1
        BY <1>7, <1>11, <1>12, <1>20, <2>2, <2>5, <3>2
      <4> QED BY <2>2, <2>3, <2>4, <2>5, <3>1, <4>1, <4>2
    <3>3. CASE ~HasRoom(k, tick, es)
      <4>1. r <= p + 0
        BY <1>14, <2>2, <2>5, <3>1, <3>3
      <4>2. Cardinality(During(events'[b], u - 1, u)) = d + 0
        BY <1>7, <1>11, <1>12, <1>20, <2>2, <2>5, <3>3
      <4> QED BY <2>2, <2>3, <2>4, <2>5, <3>1, <4>1, <4>2
    <3> QED BY <3>2, <3>3
  <2>6. CASE b = k /\ u # tick
    <3>1. Cardinality(During(events'[b], u - 1, u)) = d + 0
      BY <1>7, <1>11, <1>12, <1>20, <2>2, <2>6
    <3> QED BY <1>14, <2>2, <2>3, <2>4, <2>6, <3>1
  <2>7. CASE b # k /\ b \in kept
    <3>1. Cardinality(During(events'[b], u - 1, u)) = d
      BY <1>12, <2>2, <2>7
    <3> QED BY <1>14, <2>2, <2>3, <2>7, <3>1
  <2>8. CASE b # k /\ b \notin kept
    <3>1. events'[b] = {}
      BY <1>12, <2>8
    <3>2. During(events'[b], u - 1, u) = {} /\ Cardinality({}) = 0
      BY <3>1, FS_EmptySet DEF During
    <3>3. During(events[b], u - 1, u) = {}
      <4>1. CASE b \notin Held
        BY <1>6, <4>1 DEF During
      <4>2. CASE b \in Held
        <5>1. b \notin forgotten'
          BY <1>20 DEF Kept
        <5>2. ~(Sweeps(k) /\ Cardinality({x \in Held : ~Lapsed(x, k)}) >= MaxBuckets)
          BY <1>1, <2>8, <4>2, <5>1
        <5>3. Lapsed(b, k)
          BY <1>5, <2>8, <4>2, <5>2
        <5>4. tick - seen[b] >= Window(b)
          BY <5>3 DEF Lapsed
        <5>5. \A e \in events[b] : e.at <= seen[b] /\ e.at \in Int
          BY <1>2, <1>4, <4>2 DEF LimiterInv, MapIsCurrent, Entry
        <5>6. \A e \in events[b] : ~(u - 1 < e.at)
          BY <1>4, <1>20, <5>4, <5>5
        <5> QED BY <5>6 DEF During
      <4> QED BY <4>1, <4>2
    <3>4. d = 0
      BY <2>2, <3>2, <3>3
    <3>5. passed'[b][u] = p
      BY <1>14, <2>2, <2>8
    <3> QED BY <2>2, <2>3, <3>2, <3>4, <3>5
  <2> QED BY <2>5, <2>6, <2>7, <2>8
<1>21. PassedIsRecorded'
  BY <1>2, <1>19, <1>20 DEF PassedIsRecorded, Window
<1>22. CallsAreRecent'
  <2>1. ASSUME NEW b \in Keys, NEW u \in 0..MaxTick, u > tick PROVE passed'[b][u] = 0
    <3>1. u # tick
      BY <1>4, <2>1
    <3>2. passed[b][u] = 0
      BY <2>1 DEF LimiterInv, CallsAreRecent
    <3> QED BY <1>14, <3>1, <3>2
  <2>2. \A c \in Checks : checking[c] # NoCheck =>
          checking[c].at <= tick /\ (checking[c].pc # "late" => checking[c].at = tick)
    BY DEF LimiterInv, CallsAreRecent
  <2> QED BY <1>2, <2>1, <2>2 DEF CallsAreRecent
<1>23. MapIsCurrent'
  <2>1. \A e \in ns : e.at <= tick
    <3>1. \A e \in es : e.at <= tick
      <4>1. CASE k \in Held
        <5>1. \A e \in es : e.at <= seen[k] /\ e.at \in Int
          BY <1>2, <1>4, <1>7, <4>1 DEF LimiterInv, MapIsCurrent, Entry
        <5>2. \A e \in es : e.at \in 0..MaxTick
          BY <1>4, <1>7 DEF Entry
        <5>3. seen[k] <= tick
          BY <1>2, <1>4, <4>1 DEF LimiterInv, MapIsCurrent
        <5> QED BY <1>4, <5>1, <5>3
      <4>2. CASE k \notin Held
        BY <1>6, <1>7, <4>2
      <4> QED BY <4>1, <4>2
    <3>2. tick <= tick
      BY <1>4
    <3> QED BY <1>11, <3>1, <3>2
  <2>2. ASSUME NEW b \in Keys
        PROVE  IF b \in Held' THEN seen'[b] <= tick /\ \A e \in events'[b] : e.at <= seen'[b]
               ELSE events'[b] = {}
    <3>1. CASE b = k
      BY <1>4, <1>12, <1>13, <1>15, <2>1, <3>1
    <3>2. CASE b # k /\ b \in kept
      <4>1. seen[b] <= tick /\ \A e \in events[b] : e.at <= seen[b]
        BY <1>2, <1>5, <3>2 DEF LimiterInv, MapIsCurrent
      <4> QED BY <1>12, <1>13, <1>15, <3>2, <4>1
    <3>3. CASE b # k /\ b \notin kept
      BY <1>12, <1>15, <3>3
    <3> QED BY <3>1, <3>2, <3>3
  <2>3. IsFiniteSet(Held')
    BY <1>5, <1>15
  <2>4. \A c \in Checks : checking'[c] = NoCheck
    BY <1>2 DEF LimiterInv, MapIsCurrent
  <2> QED BY <1>2, <2>2, <2>3, <2>4 DEF MapIsCurrent
<1>24. BucketsAreBounded'
  BY <1>5, <1>15 DEF BucketsAreBounded
<1>25. tick' >= tick /\ \A b \in Keys, u \in 0..MaxTick : u < tick' => passed'[b][u] = passed[b][u]
  <2>1. \A u \in 0..MaxTick : u < tick => u # tick
    BY <1>4
  <2> QED BY <1>2, <1>4, <1>14, <2>1
<1> QED BY <1>16, <1>17, <1>18, <1>21, <1>22, <1>23, <1>24, <1>25, LimiterAfter

\* One call moves on: what it adds to the answers that are due, and takes.
LEMMA PendingMoves ==
  ASSUME NEW c \in Checks, NEW y, checking'[c] = y,
         \A d \in Checks : d # c => checking'[d] = checking[d],
         NEW k, NEW u
  PROVE  /\ ~Allows(checking[c], k, u) /\ ~Allows(y, k, u) =>
              Cardinality(Pending(checking', k, u)) = Cardinality(Pending(checking, k, u))
         /\ ~Allows(checking[c], k, u) /\ Allows(y, k, u) =>
              Cardinality(Pending(checking', k, u)) = Cardinality(Pending(checking, k, u)) + 1
         /\ Allows(checking[c], k, u) /\ ~Allows(y, k, u) =>
              Cardinality(Pending(checking, k, u)) = Cardinality(Pending(checking', k, u)) + 1
         /\ Cardinality(Pending(checking', k, u)) \in Nat
<1>2. PICK A, B : A = Pending(checking, k, u) /\ B = Pending(checking', k, u)
  OBVIOUS
<1>3. /\ \A d \in Checks : d # c => (d \in A <=> d \in B)
      /\ c \in A <=> Allows(checking[c], k, u)
      /\ c \in B <=> Allows(y, k, u)
      /\ A \subseteq Checks /\ B \subseteq Checks
  BY <1>2 DEF Pending
<1>4. /\ IsFiniteSet(A) /\ IsFiniteSet(B) /\ Cardinality(A) \in Nat /\ Cardinality(B) \in Nat
  BY <1>3, LimiterConstantsOK, FS_Subset, FS_CardinalityType
<1>5. c \notin A /\ c \notin B => A = B
  BY <1>3
<1>6. ASSUME c \notin A, c \in B PROVE Cardinality(B) = Cardinality(A) + 1
  <2>1. B = A \cup {c}
    BY <1>3, <1>6
  <2> QED BY <1>4, <1>6, <2>1, FS_AddElement
<1>7. ASSUME c \in A, c \notin B PROVE Cardinality(A) = Cardinality(B) + 1
  <2>1. A = B \cup {c}
    BY <1>3, <1>7
  <2> QED BY <1>4, <1>7, <2>1, FS_AddElement
<1> QED BY <1>2, <1>3, <1>4, <1>5, <1>6, <1>7

\* A step of a call to the store keeps the invariant if the counts still have
\* their records afterwards.
LEMMA StoreMoves ==
  ASSUME LimiterInv, NEW c \in Checks, NEW y \in CheckRecord, backend # "memory",
         checking' = [checking EXCEPT ![c] = y],
         UNCHANGED <<backend, failOpen, seen, sinceSweep, forgotten, tick>>,
         y # NoCheck => y.at <= tick /\ (y.pc # "late" => y.at = tick),
         events' \in [Keys -> SUBSET Entry], RecordsAreFew',
         passed' \in [Keys -> [0..MaxTick -> 0..Limit + 1]],
         \A k \in Keys, u \in 0..MaxTick : u # tick => passed'[k][u] = passed[k][u],
         \A k \in Keys, u \in 0..MaxTick :
           Kept(k) /\ u > tick - Window(k) =>
             passed'[k][u] + Cardinality(Pending(checking', k, u)) <= Cardinality(During(events'[k], u - 1, u))
  PROVE  LimiterInv'
<1>1. LimiterTypeOK
  BY DEF LimiterInv, LimiterIsSound
<1>2. tick \in Nat /\ MaxTick \in Nat /\ checking \in [Checks -> CheckRecord]
  BY <1>1, LimiterFacts
<1>3. checking'[c] = y /\ \A d \in Checks : d # c => checking'[d] = checking[d]
  BY <1>2
<1>4. LimiterTypeOK'
  <2>1. checking' \in [Checks -> CheckRecord]
    BY <1>2
  <2> QED BY <1>1, <2>1 DEF LimiterTypeOK, CheckRecord
<1>5. PassedIsRecorded'
  BY DEF PassedIsRecorded, Kept, Window
<1>10. \A k \in Keys, u \in 0..MaxTick : u > tick \/ u < tick => passed'[k][u] = passed[k][u]
  <2>1. \A u \in 0..MaxTick : u > tick \/ u < tick => u # tick
    BY <1>2
  <2> QED BY <2>1
<1>6. CallsAreRecent'
  <2>1. \A d \in Checks : checking'[d] # NoCheck =>
          checking'[d].at <= tick /\ (checking'[d].pc # "late" => checking'[d].at = tick)
    BY <1>3 DEF LimiterInv, CallsAreRecent
  <2>2. \A k \in Keys, u \in 0..MaxTick : u > tick => passed'[k][u] = 0
    BY <1>10 DEF LimiterInv, CallsAreRecent
  <2> QED BY <2>1, <2>2 DEF CallsAreRecent
<1>7. Held' = Held
  BY DEF Held
<1>8. MapIsCurrent' /\ BucketsAreBounded'
  BY <1>7 DEF LimiterInv, LimiterIsSound, MapIsCurrent, BucketsAreBounded
<1>9. tick' >= tick /\ \A k \in Keys, u \in 0..MaxTick : u < tick' => passed'[k][u] = passed[k][u]
  BY <1>2, <1>10
<1> QED BY <1>4, <1>5, <1>6, <1>8, <1>9, LimiterAfter

\* The counts as they are, for a key that the limit is promised for.
LEMMA BalanceNow ==
  ASSUME LimiterInv, NEW k \in Keys, NEW u \in 0..MaxTick, Kept(k), u > tick - Window(k)
  PROVE  /\ passed[k][u] + Cardinality(Pending(checking, k, u)) <= Cardinality(During(events[k], u - 1, u))
         /\ passed[k][u] \in Nat /\ Cardinality(Pending(checking, k, u)) \in Nat
         /\ Cardinality(During(events[k], u - 1, u)) \in Nat
<1>1. LimiterTypeOK
  BY DEF LimiterInv, LimiterIsSound
<1>2. During(events[k], u - 1, u) \subseteq events[k] /\ IsFiniteSet(events[k])
  BY DEF During, LimiterInv, RecordsAreFew
<1>3. Cardinality(During(events[k], u - 1, u)) \in Nat
  BY <1>2, FS_Subset, FS_CardinalityType
<1> QED BY <1>1, <1>3, LimiterFacts, PendingFinite DEF LimiterInv, PassedIsRecorded

\* A call that is under way is one to the store, and has a key and a time.
LEMMA CallFacts ==
  ASSUME LimiterInv, NEW c \in Checks, NEW x, x = checking[c], x.pc # "none"
  PROVE  /\ backend # "memory" /\ x # NoCheck /\ x \in CheckRecord
         /\ x.pc \in {"sent", "late", "ran"}
         /\ x.pc \in {"sent", "late"} => x = [pc |-> x.pc, key |-> x.key, at |-> x.at]
         /\ x.key \in Keys /\ x.at \in 0..MaxTick /\ x.at <= tick
         /\ x.pc # "late" => x.at = tick
<1>1. LimiterTypeOK
  BY DEF LimiterInv, LimiterIsSound
<1>2. x \in CheckRecord
  BY <1>1, LimiterFacts
<1>3. x # NoCheck
  BY DEF NoCheck
<1>4. backend # "memory"
  BY <1>3 DEF LimiterInv, MapIsCurrent
<1>5. x.at <= tick /\ (x.pc # "late" => x.at = tick)
  BY <1>3 DEF LimiterInv, CallsAreRecent
<1> QED BY <1>2, <1>3, <1>4, <1>5 DEF CheckRecord

LEMMA StoreFacts ==
  ASSUME LimiterInv
  PROVE  /\ LimiterTypeOK /\ events \in [Keys -> SUBSET Entry]
         /\ passed \in [Keys -> [0..MaxTick -> 0..Limit + 1]]
         /\ tick \in Nat /\ MaxTick \in Nat /\ tick \in 0..MaxTick
         /\ \A k \in Keys : Window(k) \in {1, 2} /\ Window(k) \in Int
         /\ NoCheck \in CheckRecord /\ \A k, u : ~Allows(NoCheck, k, u)
<1>1. LimiterTypeOK
  BY DEF LimiterInv, LimiterIsSound
<1> QED BY <1>1, LimiterFacts DEF LimiterTypeOK, CheckRecord, Allows, NoCheck

LEMMA StartCheckKeeps ==
  ASSUME LimiterInv, NEW c \in Checks, NEW k \in StoreKeys, StartCheck(c, k)
  PROVE  LimiterInv'
<1>1. PICK y : y = [pc |-> "sent", key |-> k, at |-> tick]
  OBVIOUS
<1>2. /\ backend = "valkey" /\ checking[c] = NoCheck /\ checking' = [checking EXCEPT ![c] = y]
      /\ UNCHANGED <<backend, failOpen, events, seen, sinceSweep, passed, forgotten, tick>>
  BY <1>1 DEF StartCheck
<1>3. tick \in 0..MaxTick /\ LimiterTypeOK /\ tick <= tick
  BY StoreFacts
<1>4. y \in CheckRecord /\ y.at = tick /\ y.pc = "sent"
  BY <1>1, <1>3, LimiterConstantsOK DEF CheckRecord
<1>5. \A b, u : ~Allows(checking[c], b, u) /\ ~Allows(y, b, u)
  BY <1>2, <1>4 DEF Allows, NoCheck
<1>6. \A b, u : Cardinality(Pending(checking', b, u)) = Cardinality(Pending(checking, b, u))
  <2>1. checking'[c] = y /\ \A d \in Checks : d # c => checking'[d] = checking[d]
    BY <1>2, <1>3 DEF LimiterTypeOK
  <2> QED BY <1>5, <2>1, PendingMoves
<1>7. RecordsAreFew'
  BY <1>2 DEF LimiterInv, RecordsAreFew, Window
<1>8. ASSUME NEW b \in Keys, NEW u \in 0..MaxTick, Kept(b), u > tick - Window(b)
      PROVE  passed'[b][u] + Cardinality(Pending(checking', b, u)) <= Cardinality(During(events'[b], u - 1, u))
  BY <1>2, <1>6, <1>8, BalanceNow
<1>9. events' \in [Keys -> SUBSET Entry] /\ passed' \in [Keys -> [0..MaxTick -> 0..Limit + 1]]
  BY <1>2, StoreFacts
<1> QED BY <1>2, <1>3, <1>4, <1>7, <1>8, <1>9, StoreMoves

LEMMA RunScriptKeeps ==
  ASSUME LimiterInv, NEW c \in Checks, RunScript(c)
  PROVE  LimiterInv'
<1>1. PICK x : x = checking[c]
  OBVIOUS
<1>2. x.pc \in {"sent", "late"}
  BY <1>1 DEF RunScript
<1>3. PICK k, t : k = x.key /\ t = x.at
  OBVIOUS
<1>4. PICK es, ns : es = events[k] /\ ns = Recorded(k, t, es)
  OBVIOUS
<1>5. PICK y : y = IF x.pc = "late" THEN NoCheck
                   ELSE [pc |-> "ran", key |-> k, at |-> t, allow |-> HasRoom(k, t, es)]
  OBVIOUS
<1>6. /\ events' = [events EXCEPT ![k] = ns] /\ checking' = [checking EXCEPT ![c] = y]
      /\ UNCHANGED <<backend, failOpen, seen, sinceSweep, passed, forgotten, tick>>
  BY <1>1, <1>3, <1>4, <1>5 DEF RunScript
<1>7. /\ backend # "memory" /\ k \in Keys /\ t \in 0..MaxTick /\ t <= tick
      /\ x.pc = "sent" => t = tick
  BY <1>1, <1>2, <1>3, CallFacts
<1>8. /\ LimiterTypeOK /\ events \in [Keys -> SUBSET Entry] /\ tick \in Nat /\ MaxTick \in Nat
      /\ \A b \in Keys : Window(b) \in {1, 2} /\ Window(b) \in Int
      /\ passed \in [Keys -> [0..MaxTick -> 0..Limit + 1]]
  BY StoreFacts
<1>9. /\ ns \subseteq Entry /\ IsFiniteSet(ns)
      /\ \A u \in 0..MaxTick : Cardinality(During(ns, u - Window(k), u)) <= Limit
      /\ \A u \in 0..MaxTick : u > t - Window(k) =>
           Cardinality(During(ns, u - 1, u)) =
             Cardinality(During(es, u - 1, u)) + IF HasRoom(k, t, es) /\ u = t THEN 1 ELSE 0
  <2>1. es \in SUBSET Entry /\ IsFiniteSet(es)
    BY <1>4, <1>7, <1>8 DEF LimiterInv, RecordsAreFew
  <2>2. \A u \in 0..MaxTick : Cardinality(During(es, u - Window(k), u)) <= Limit
    BY <1>4, <1>7 DEF LimiterInv, RecordsAreFew
  <2> QED BY <1>4, <1>7, <2>1, <2>2, RecordedFacts
<1>10. events' \in [Keys -> SUBSET Entry] /\ events'[k] = ns /\ \A b \in Keys : b # k => events'[b] = events[b]
  BY <1>6, <1>7, <1>8, <1>9
<1>11. RecordsAreFew'
  <2>1. \A b \in Keys : IsFiniteSet(events[b]) /\
          \A u \in 0..MaxTick : Cardinality(During(events[b], u - Window(b), u)) <= Limit
    BY DEF LimiterInv, RecordsAreFew
  <2>2. ASSUME NEW b \in Keys
        PROVE  /\ IsFiniteSet(events'[b])
               /\ \A u \in 0..MaxTick : Cardinality(During(events'[b], u - Window(b), u)) <= Limit
    BY <1>9, <1>10, <2>1
  <2> QED BY <2>2 DEF RecordsAreFew, Window
<1>12. y \in CheckRecord
  <2>1. HasRoom(k, t, es) \in BOOLEAN
    BY DEF HasRoom
  <2> QED BY <1>5, <1>7, <2>1 DEF CheckRecord
<1>13. y # NoCheck => x.pc = "sent" /\ y.at = t
  BY <1>2, <1>5
<1>14. \A b, u : ~Allows(x, b, u)
  BY <1>2 DEF Allows
<1>15. \A b, u : Allows(y, b, u) => b = k /\ u = t /\ HasRoom(k, t, es)
  <2> TAKE b, u
  <2>1. CASE x.pc = "late"
    BY <1>5, <2>1, StoreFacts
  <2>2. CASE x.pc # "late"
    BY <1>5, <2>2, Zenon DEF Allows
  <2> QED BY <2>1, <2>2
<1>16. ASSUME NEW b \in Keys, NEW u \in 0..MaxTick, Kept(b), u > tick - Window(b)
       PROVE  passed'[b][u] + Cardinality(Pending(checking', b, u)) <= Cardinality(During(events'[b], u - 1, u))
  <2>1. PICK p, q, r, d : /\ p = passed[b][u] /\ q = Cardinality(Pending(checking, b, u))
                          /\ r = Cardinality(Pending(checking', b, u))
                          /\ d = Cardinality(During(events[b], u - 1, u))
    OBVIOUS
  <2>2. p + q <= d /\ p \in Nat /\ q \in Nat /\ d \in Nat /\ passed'[b][u] = p
    BY <1>6, <1>16, <2>1, BalanceNow
  <2>3. /\ ~Allows(y, b, u) => r = q
        /\ Allows(y, b, u) => r = q + 1
    <3>1. checking'[c] = y /\ \A z \in Checks : z # c => checking'[z] = checking[z]
      BY <1>6, <1>8 DEF LimiterTypeOK
    <3> QED BY <1>1, <1>14, <2>1, <3>1, PendingMoves
  <2>4. b = k => u > t - Window(k)
    BY <1>7, <1>8, <1>16
  <2>5. CASE Allows(y, b, u)
    <3>1. b = k /\ u = t /\ HasRoom(k, t, es)
      BY <1>15, <2>5
    <3>2. Cardinality(During(events'[b], u - 1, u)) = d + 1
      BY <1>4, <1>9, <1>10, <2>1, <2>4, <3>1
    <3> QED BY <2>1, <2>2, <2>3, <2>5, <3>2
  <2>6. CASE ~Allows(y, b, u)
    <3>1. Cardinality(During(events'[b], u - 1, u)) >= d
      <4>1. CASE b # k
        BY <1>10, <2>1, <2>2, <4>1
      <4>2. CASE b = k
        <5>1. PICK z : z = (IF HasRoom(k, t, es) /\ u = t THEN 1 ELSE 0) /\ z \in Nat
          OBVIOUS
        <5>2. Cardinality(During(events'[b], u - 1, u)) = d + z
          BY <1>4, <1>9, <1>10, <2>1, <2>4, <4>2, <5>1
        <5> QED BY <2>2, <5>1, <5>2
      <4> QED BY <4>1, <4>2
    <3>2. Cardinality(During(events'[b], u - 1, u)) \in Nat
      <4>1. During(events'[b], u - 1, u) \subseteq events'[b]
        BY DEF During
      <4>2. IsFiniteSet(events'[b])
        BY <1>11 DEF RecordsAreFew
      <4> QED BY <4>1, <4>2, FS_Subset, FS_CardinalityType
    <3> QED BY <2>1, <2>2, <2>3, <2>6, <3>1, <3>2
  <2> QED BY <2>5, <2>6
<1>17. y # NoCheck => y.at <= tick /\ (y.pc # "late" => y.at = tick)
  BY <1>7, <1>8, <1>13
<1>18. passed' \in [Keys -> [0..MaxTick -> 0..Limit + 1]] /\ passed' = passed
  BY <1>6, <1>8
<1> QED BY <1>6, <1>7, <1>10, <1>11, <1>12, <1>16, <1>17, <1>18, StoreMoves

\* An answer, or the lack of one: a request passes that has its record, or whose
\* key the limit is not promised for.
LEMMA AnswerKeeps ==
  ASSUME LimiterInv, NEW c \in Checks, NEW x, x = checking[c], x.pc \in {"sent", "ran", "late"},
         NEW y \in CheckRecord, checking' = [checking EXCEPT ![c] = y],
         y = NoCheck \/ y = [pc |-> "late", key |-> x.key, at |-> x.at],
         UNCHANGED <<backend, failOpen, events, seen, sinceSweep, forgotten, tick>>,
         \/ passed' = passed
         \/ /\ x.pc # "late" /\ Counted(x.key, x.at)
            /\ (x.pc = "ran" /\ x.allow) \/ ~Kept(x.key)
  PROVE  LimiterInv'
<1>1. /\ backend # "memory" /\ x.key \in Keys /\ x.at \in 0..MaxTick /\ x.at <= tick
      /\ x.pc # "late" => x.at = tick
  BY CallFacts
<1>2. /\ LimiterTypeOK /\ events \in [Keys -> SUBSET Entry] /\ tick \in Nat
      /\ passed \in [Keys -> [0..MaxTick -> 0..Limit + 1]]
  BY StoreFacts
<1>3. /\ y # NoCheck => y.at <= tick /\ (y.pc # "late" => y.at = tick)
      /\ \A b, u : ~Allows(y, b, u)
  BY <1>1, StoreFacts DEF Allows
<1>4. RecordsAreFew'
  BY DEF LimiterInv, RecordsAreFew, Window
<1>5. /\ passed' \in [Keys -> [0..MaxTick -> 0..Limit + 1]]
      /\ \A b \in Keys, u \in 0..MaxTick : u # tick => passed'[b][u] = passed[b][u]
  BY <1>1, <1>2, CountedFacts
<1>6. ASSUME NEW b \in Keys, NEW u \in 0..MaxTick, Kept(b), u > tick - Window(b)
      PROVE  passed'[b][u] + Cardinality(Pending(checking', b, u)) <= Cardinality(During(events'[b], u - 1, u))
  <2>1. PICK p, q, r, d : /\ p = passed[b][u] /\ q = Cardinality(Pending(checking, b, u))
                          /\ r = Cardinality(Pending(checking', b, u))
                          /\ d = Cardinality(During(events[b], u - 1, u))
    OBVIOUS
  <2>2. p + q <= d /\ p \in Nat /\ q \in Nat /\ d \in Nat
    BY <1>6, <2>1, BalanceNow
  <2>3. /\ ~Allows(x, b, u) => r = q
        /\ Allows(x, b, u) => q = r + 1
        /\ r \in Nat
    <3>1. checking'[c] = y /\ \A z \in Checks : z # c => checking'[z] = checking[z]
      BY <1>2 DEF LimiterTypeOK
    <3>2. x = checking[c] /\ ~Allows(y, b, u)
      BY <1>3
    <3>3. /\ ~Allows(x, b, u) => Cardinality(Pending(checking', b, u)) = Cardinality(Pending(checking, b, u))
          /\ Allows(x, b, u) => Cardinality(Pending(checking, b, u)) = Cardinality(Pending(checking', b, u)) + 1
          /\ Cardinality(Pending(checking', b, u)) \in Nat
      BY ONLY c \in Checks, <3>1, <3>2, PendingMoves
    <3> QED BY <2>1, <3>3
  <2>4. CASE passed'[b][u] = p
    BY <2>1, <2>2, <2>3, <2>4
  <2>5. CASE passed'[b][u] # p
    <3>1. passed' # passed /\ x.pc # "late" /\ Counted(x.key, x.at) /\
          ((x.pc = "ran" /\ x.allow) \/ ~Kept(x.key))
      BY <2>1, <2>5
    <3>2. /\ \A z \in Keys, w \in 0..MaxTick : z # x.key \/ w # x.at => passed'[z][w] = passed[z][w]
          /\ passed'[x.key][x.at] <= passed[x.key][x.at] + 1 /\ passed'[x.key][x.at] \in Nat
      BY <1>1, <1>2, <3>1, CountedFacts
    <3>3. b = x.key /\ u = x.at
      BY <2>1, <2>5, <3>2
    <3>4. Allows(x, b, u)
      BY <1>6, <3>1, <3>3 DEF Allows
    <3>5. PICK s : s = passed'[b][u] /\ s \in Nat /\ s <= p + 1
      BY <2>1, <3>2, <3>3
    <3> QED BY <2>1, <2>2, <2>3, <3>4, <3>5
  <2> QED BY <2>4, <2>5
<1> QED BY <1>1, <1>2, <1>3, <1>4, <1>5, <1>6, StoreMoves

LEMMA AnswersKeep ==
  ASSUME LimiterInv, NEW c \in Checks, Answered(c) \/ Degraded(c) \/ ScriptLost(c)
  PROVE  LimiterInv'
<1>1. PICK x : x = checking[c]
  OBVIOUS
<1>2. NoCheck \in CheckRecord
  BY DEF CheckRecord
<1>3. CASE Answered(c)
  <2>1. /\ x.pc = "ran" /\ checking' = [checking EXCEPT ![c] = NoCheck]
        /\ IF x.allow THEN Counted(x.key, x.at) ELSE UNCHANGED passed
        /\ UNCHANGED <<backend, failOpen, events, seen, sinceSweep, forgotten, tick>>
    BY <1>1, <1>3 DEF Answered
  <2>2. passed' = passed \/ (x.pc # "late" /\ Counted(x.key, x.at) /\ x.pc = "ran" /\ x.allow)
    BY <2>1, Zenon
  <2> QED BY <1>1, <1>2, <2>1, <2>2, AnswerKeeps
<1>4. CASE Degraded(c)
  <2>1. PICK y : y = IF x.pc = "sent" THEN [x EXCEPT !.pc = "late"] ELSE NoCheck
    OBVIOUS
  <2>2. /\ x.pc \in {"sent", "ran"} /\ checking' = [checking EXCEPT ![c] = y]
        /\ IF LetsThrough(x) THEN Counted(x.key, x.at) ELSE UNCHANGED passed
        /\ UNCHANGED <<backend, failOpen, events, seen, sinceSweep, forgotten, tick>>
    BY <1>1, <1>4, <2>1 DEF Degraded
  <2>3. /\ x \in CheckRecord /\ x.key \in Keys /\ x.at \in 0..MaxTick
        /\ x.pc = "sent" => x = [pc |-> x.pc, key |-> x.key, at |-> x.at]
    BY <1>1, <2>2, CallFacts
  <2>4. y = NoCheck \/ y = [pc |-> "late", key |-> x.key, at |-> x.at]
    BY <2>1, <2>3
  <2>5. y \in CheckRecord
    BY <1>2, <2>3, <2>4 DEF CheckRecord
  <2>6. passed' = passed \/ (x.pc # "late" /\ Counted(x.key, x.at) /\ ~Kept(x.key))
    BY <2>2 DEF LetsThrough, Kept
  <2> QED BY <1>1, <2>2, <2>4, <2>5, <2>6, AnswerKeeps
<1>5. CASE ScriptLost(c)
  BY <1>1, <1>2, <1>5, AnswerKeeps DEF ScriptLost
<1> QED BY <1>3, <1>4, <1>5

LEMMA LimiterStep == LimiterInv /\ [LimiterNext]_limiterVars => LimiterInv'
<1> SUFFICES ASSUME LimiterInv, [LimiterNext]_limiterVars PROVE LimiterInv'
  OBVIOUS
<1>1. ASSUME NEW k \in Keys, CheckInMemory(k) PROVE LimiterInv'
  BY <1>1, MemoryKeeps
<1>2. ASSUME NEW c \in Checks, NEW k \in StoreKeys, StartCheck(c, k) PROVE LimiterInv'
  BY <1>2, StartCheckKeeps
<1>3. ASSUME NEW c \in Checks, RunScript(c) PROVE LimiterInv'
  BY <1>3, RunScriptKeeps
<1>4. ASSUME NEW c \in Checks, Answered(c) \/ Degraded(c) \/ ScriptLost(c) PROVE LimiterInv'
  BY <1>4, AnswersKeep
<1>5. CASE Tick \/ UNCHANGED limiterVars
  BY <1>5, TickKeeps
<1> QED BY <1>1, <1>2, <1>3, <1>4, <1>5 DEF LimiterNext

\* Neither limiter lets more than the limit through in any window, for any keys,
\* calls, limits and map sizes: scripts that run after their caller gave up, a
\* store that does not answer and sweeps of the map included.  The exceptions
\* are those the code names: buckets evicted at MAX_BUCKETS, and general buckets
\* that were configured to stay open.  The map never outgrows its bound.
THEOREM LimiterSound == LimiterSpec => []LimiterIsSound
<1>1. LimiterInv => LimiterIsSound
  BY DEF LimiterInv
<1> QED BY LimiterStart, LimiterStep, <1>1, PTL DEF LimiterSpec
=============================================================================
