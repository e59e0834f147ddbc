---------------------------- MODULE TicketsProofs ----------------------------
(***************************************************************************)
(* Proofs about Tickets for any number of bookings and clients that cancel, *)
(* and for failures without a bound.                                       *)
(***************************************************************************)
EXTENDS Tickets, TLAPS

Answered == {"ok", "absent", "error"}

(* The fields of a request. *)
LEMMA Requests ==
  ASSUME NEW op, NEW b, NEW x
  PROVE  /\ Request(op, b, x).op = op
         /\ Request(op, b, x).booking = b
         /\ Request(op, b, x).client = x
BY DEF Request

LEMMA InvInit == ASSUME Init PROVE Inv
<1> USE DEF Init
<1>1. TypeOK
  BY ClientAssumption DEF TypeOK, Clients, Expecting
<1>2. OwnRequests /\ StrayRequests /\ RowsAreSaved /\ CreateKnows
  BY DEF OwnRequests, StrayRequests, RowsAreSaved, CreateKnows, Got, Clients
<1>3. CancelKnows /\ LossIsKnown /\ CancelledIsReleased /\ NoSilentOrphan
  BY DEF CancelKnows, Cleared, LossIsKnown, CancelledIsReleased, NoSilentOrphan
<1> QED BY <1>1, <1>2, <1>3 DEF Inv

-----------------------------------------------------------------------------
(* What a request in flight tells *)

LEMMA RegisterInFlight ==
  ASSUME Inv, NEW m \in flight, m.op = "register"
  PROVE  /\ m.booking \in Bookings /\ row[m.booking] = "none"
         /\ \/ m = Request("register", m.booking, m.booking)
               /\ create[m.booking] = "registering" /\ reply[m.booking] = "none"
            \/ m.client = Nobody /\ create[m.booking] = "failed"
               /\ mishaps[m.booking] \cap {"register", "crash"} # {}
<1>1. m.booking \in Bookings /\ m.client \in Clients \cup {Nobody}
  BY DEF Inv, TypeOK
<1>2. CASE m.client = Nobody
  BY <1>1, <1>2 DEF Inv, StrayRequests
<1>3. CASE m.client # Nobody
  <2>1. m = RequestOf(m.client) /\ Waits(m.client) /\ reply[m.client] = "none"
    BY <1>3 DEF Inv, OwnRequests
  <2>2. m.client \in Bookings /\ m = Request("register", m.client, m.client)
    BY <1>1, <1>3, <2>1 DEF RequestOf, Request
  <2>3. create[m.client] = "registering" /\ m.booking = m.client
    BY <2>1, <2>2 DEF RequestOf, Request, Waits, CreateWaits
  <2> QED BY <1>1, <2>1, <2>2, <2>3 DEF Inv, RowsAreSaved
<1> QED BY <1>2, <1>3

LEMMA CancelInFlight ==
  ASSUME Inv, NEW m \in flight, m.op = "cancel"
  PROVE  /\ m.booking \in Bookings
         /\ create[m.booking] \in {"compensating", "created", "failed"}
         /\ \/ m.client = m.booking /\ create[m.booking] = "compensating"
               /\ reply[m.booking] = "none"
            \/ m.client \in Cancels /\ m.booking = target[m.client]
               /\ cancel[m.client] = "cancelling" /\ reply[m.client] = "none"
               /\ row[m.booking] # "none"
            \/ m.client = Nobody
<1>1. m.booking \in Bookings /\ m.client \in Clients \cup {Nobody}
  BY DEF Inv, TypeOK
<1>2. CASE m.client = Nobody
  BY <1>1, <1>2 DEF Inv, StrayRequests, RowsAreSaved
<1>3. CASE m.client \in Bookings
  <2>1. m = RequestOf(m.client) /\ Waits(m.client) /\ reply[m.client] = "none"
    BY <1>3, ClientAssumption DEF Inv, OwnRequests
  <2>2. m.booking = m.client /\ create[m.client] # "registering"
    BY <1>3, <2>1 DEF RequestOf, Request
  <2> QED BY <1>3, <2>1, <2>2 DEF Waits, CreateWaits
<1>4. CASE m.client \in Cancels
  <2>1. m = RequestOf(m.client) /\ Waits(m.client) /\ reply[m.client] = "none"
    BY <1>4, ClientAssumption DEF Inv, OwnRequests
  <2>2. m.booking = target[m.client] /\ cancel[m.client] = "cancelling"
    BY <1>4, <2>1, ClientAssumption DEF RequestOf, Request, Waits
  <2> QED BY <1>1, <1>4, <2>1, <2>2 DEF Inv, RowsAreSaved
<1> QED BY <1>1, <1>2, <1>3, <1>4 DEF Clients

-----------------------------------------------------------------------------
(* The Provider answers *)

(* An answer takes the only request of its client out of flight. *)
LEMMA AnswerKeepsRequests ==
  ASSUME Inv, NEW m \in flight, NEW answer \in Answered, Answer(m, answer),
         registered' \subseteq Bookings, faults' \in Nat
  PROVE  TypeOK' /\ OwnRequests' /\ StrayRequests' /\ RowsAreSaved'
<1> USE DEF Inv, Answer
<1>1. m.client \in Clients \cup {Nobody}
  BY DEF TypeOK
<1>2. OwnRequests'
  BY <1>1 DEF TypeOK, OwnRequests, RequestOf, Waits, CreateWaits
<1>3. StrayRequests' /\ RowsAreSaved'
  BY DEF StrayRequests, RowsAreSaved
<1>4. TypeOK'
  <2>1. reply' \in [Clients -> {"none", "ok", "absent", "error"}]
    BY DEF TypeOK, Answered
  <2>2. ASSUME NEW x \in Clients, Expecting(x)'
        PROVE  Waits(x)
    <3>1. CASE m.client = x
      BY <3>1, ClientAssumption DEF OwnRequests, Clients
    <3>2. CASE m.client # x
      BY <2>2, <3>2, ClientAssumption DEF TypeOK, Expecting, Waits, Clients
    <3> QED BY <3>1, <3>2
  <2> QED BY <2>1, <2>2, ClientAssumption DEF TypeOK, Waits, CreateWaits, Clients
<1> QED BY <1>2, <1>3, <1>4

LEMMA RegisterAnswered ==
  ASSUME Inv, NEW m \in flight, m.op = "register", NEW answer \in {"ok", "error"},
         Answer(m, answer), faults' \in Nat,
         registered' = IF answer = "ok" THEN registered \cup {m.booking} ELSE registered
  PROVE  Inv'
<1> DEFINE b == m.booking
<1>1. /\ b \in Bookings /\ row[b] = "none"
      /\ \/ m.client = b /\ create[b] = "registering" /\ reply[b] = "none"
         \/ m.client = Nobody /\ create[b] = "failed"
            /\ mishaps[b] \cap {"register", "crash"} # {}
  BY RegisterInFlight, Requests
<1>2. registered' \subseteq Bookings
  BY <1>1 DEF Inv, TypeOK
<1>3. TypeOK' /\ OwnRequests' /\ StrayRequests' /\ RowsAreSaved'
  BY <1>2, AnswerKeepsRequests DEF Answered
<1>4. \A x \in Clients : x # b => reply'[x] = reply[x]
  BY <1>1, ClientAssumption DEF Inv, TypeOK, Answer, Clients
<1>5. m.client = b => reply'[b] = answer
  BY <1>1 DEF Inv, TypeOK, Answer, Clients
<1>6. m.client = Nobody => reply'[b] = reply[b]
  BY ClientAssumption DEF Inv, TypeOK, Answer, Clients
<1> HIDE DEF b
<1> USE DEF Inv
<1>7. CreateKnows'
  BY <1>1, <1>4, <1>5, <1>6 DEF Answer, CreateKnows, Got, Clients, Accepted, b
<1>8. CancelKnows' /\ LossIsKnown'
  BY <1>1, <1>4, ClientAssumption
     DEF Answer, TypeOK, RowsAreSaved, CancelKnows, LossIsKnown, Cleared, Clients, Accepted, b
<1>9. CancelledIsReleased' /\ NoSilentOrphan'
  BY <1>1 DEF Answer, CancelledIsReleased, NoSilentOrphan, b
<1> QED BY <1>3, <1>7, <1>8, <1>9

LEMMA CancelAnswered ==
  ASSUME Inv, NEW m \in flight, m.op = "cancel", NEW answer \in Answered,
         Answer(m, answer), faults' \in Nat,
         registered' = IF answer \in Accepted THEN registered \ {m.booking} ELSE registered
  PROVE  Inv'
<1> DEFINE b == m.booking
<1>1. /\ b \in Bookings
      /\ create[b] \in {"compensating", "created", "failed"}
      /\ \/ m.client = b /\ create[b] = "compensating" /\ reply[b] = "none"
         \/ m.client \in Cancels /\ b = target[m.client]
            /\ cancel[m.client] = "cancelling" /\ reply[m.client] = "none"
            /\ row[b] # "none"
         \/ m.client = Nobody
  BY CancelInFlight
<1>2. registered' \subseteq Bookings
  BY DEF Inv, TypeOK
<1>3. TypeOK' /\ OwnRequests' /\ StrayRequests' /\ RowsAreSaved'
  BY <1>2, AnswerKeepsRequests
<1>4. \A x \in Clients : reply'[x] = IF x = m.client THEN answer ELSE reply[x]
  BY ClientAssumption DEF Inv, TypeOK, Answer, Clients
<1> HIDE DEF b
<1> USE DEF Inv
<1>5. CreateKnows'
  BY <1>1, <1>4, ClientAssumption DEF Answer, CreateKnows, Got, Clients, Accepted, b
<1>6. CancelKnows'
  BY <1>1, <1>4, ClientAssumption DEF Answer, TypeOK, CancelKnows, Cleared, Clients, Accepted, b
<1>7. LossIsKnown'
  <2> SUFFICES ASSUME NEW d \in Bookings, row[d] = "active", d \notin registered'
               PROVE  \/ mishaps[d] \cap {"commit", "cancel"} # {}
                      \/ \E c \in Cancels : target[c] = d /\ Cleared(c)'
    BY DEF Answer, LossIsKnown
  <2>1. \A c \in Cancels : Cleared(c) => Cleared(c)'
    BY <1>1, <1>4, ClientAssumption DEF Answer, Cleared, Clients, Accepted
  <2>2. CASE d \notin registered
    BY <2>1, <2>2 DEF LossIsKnown
  <2>3. CASE d = b /\ answer \in Accepted
    <3>1. CASE m.client \in Cancels
      <4>1. Cleared(m.client)' /\ target[m.client] = d
        BY <1>1, <1>4, <2>3, <3>1, ClientAssumption DEF Answer, Cleared, Clients
      <4> QED BY <3>1, <4>1
    <3>2. CASE m.client = b
      BY <1>1, <2>3, <3>2, ClientAssumption DEF RowsAreSaved
    <3>3. CASE m.client = Nobody
      BY <1>1, <2>3, <3>3 DEF StrayRequests, b
    <3> QED BY <1>1, <3>1, <3>2, <3>3
  <2> QED BY <2>2, <2>3 DEF b
<1>8. CancelledIsReleased' /\ NoSilentOrphan'
  BY <1>1 DEF Answer, CancelledIsReleased, NoSilentOrphan, b
<1> QED BY <1>3, <1>5, <1>6, <1>7, <1>8

LEMMA ProviderInv ==
  ASSUME Inv, NEW m \in flight,
         ServeRegister(m) \/ RejectRegister(m) \/ ServeCancel(m) \/ RefuseCancel(m)
  PROVE  Inv'
<1>0. faults \in Nat /\ faults + 1 \in Nat
  BY DEF Inv, TypeOK
<1>1. CASE ServeRegister(m) \/ RejectRegister(m)
  BY <1>0, <1>1, RegisterAnswered DEF ServeRegister, RejectRegister
<1>2. CASE ServeCancel(m)
  <2>1. PICK answer \in {"ok", "absent"} : Answer(m, answer)
    BY <1>2 DEF ServeCancel
  <2> QED BY <1>0, <1>2, <2>1, CancelAnswered DEF ServeCancel, Answered, Accepted
<1>3. CASE RefuseCancel(m)
  BY <1>0, <1>3, CancelAnswered DEF RefuseCancel, Fault, Answered, Accepted
<1> QED BY <1>1, <1>2, <1>3

-----------------------------------------------------------------------------
(* POST /api/tickets *)

(* A client that waits for nothing, or has its answer, has nothing in flight. *)
LEMMA NothingInFlight ==
  ASSUME Inv, NEW x \in Clients, ~Waits(x) \/ reply[x] # "none"
  PROVE  \A m \in flight : m.client # x
BY ClientAssumption DEF Inv, OwnRequests, Clients

(* A booking that is still to be made, or known to the caller only, is the   *)
(* subject of no request but its own.                                       *)
LEMMA NoneAbout ==
  ASSUME Inv, NEW b \in Bookings, create[b] \in {"new", "registering", "saving"}
  PROVE  /\ row[b] = "none"
         /\ \A m \in flight : m.booking = b => m.client = b
BY RegisterInFlight, CancelInFlight, Requests DEF Inv, TypeOK, RowsAreSaved

(* The answer of the Provider is taken, nothing is sent. *)
LEMMA TakeAnswer ==
  ASSUME Inv, NEW b \in Bookings, NEW place \in {"saving", "failed"},
         CreateWaits(b), reply[b] # "none", Taken(b), CreateAt(b, place),
         place = "saving" => create[b] = "registering" /\ Got(b, "ok"),
         place = "failed" => (create[b] = "registering" => ~Got(b, "ok")),
         \/ UNCHANGED mishaps
            /\ (create[b] = "compensating" => reply[b] \in Accepted)
         \/ Note(b, "compensation") /\ create[b] = "compensating",
         UNCHANGED <<registered, row, cancel, target, flight, faults>>
  PROVE  Inv'
<1> USE DEF Inv, Taken, CreateAt
<1>1. \A m \in flight : m.client # b
  BY NothingInFlight DEF Clients
<1>2. /\ create[b] \in {"registering", "compensating"}
      /\ create' \in [Bookings -> {"new", "registering", "saving", "compensating",
                                   "created", "failed"}]
      /\ reply' \in [Clients -> {"none", "ok", "absent", "error"}]
      /\ reply'[b] = "none" /\ \A x \in Clients : x # b => reply'[x] = reply[x]
      /\ mishaps' \in [Bookings -> SUBSET {"register", "commit", "compensation", "crash",
                                          "cancel"}]
      /\ \A d \in Bookings : mishaps[d] \subseteq mishaps'[d]
      /\ \A d \in Bookings : d # b => mishaps'[d] = mishaps[d]
      /\ \A mishap \in {"register", "commit", "crash", "cancel"} :
           mishap \in mishaps'[b] => mishap \in mishaps[b]
  BY DEF TypeOK, CreateWaits, Note, Clients
<1>3. TypeOK'
  BY <1>1, <1>2, ClientAssumption DEF TypeOK, Expecting, CreateWaits, Clients
<1>4. OwnRequests'
  BY <1>1, <1>2, ClientAssumption DEF TypeOK, OwnRequests, RequestOf, Waits, CreateWaits
<1>5. StrayRequests'
  BY <1>2, NoneAbout, ClientAssumption DEF TypeOK, StrayRequests, RowsAreSaved
<1>6. RowsAreSaved'
  BY <1>2 DEF TypeOK, RowsAreSaved
<1>7. CreateKnows'
  BY <1>2 DEF TypeOK, CreateKnows, Got, Clients
<1>8. CancelKnows'
  BY <1>2, ClientAssumption DEF TypeOK, CancelKnows, Cleared, Clients
<1>9. LossIsKnown'
  BY <1>2, ClientAssumption DEF TypeOK, LossIsKnown, Cleared, Clients
<1>10. CancelledIsReleased'
  BY DEF CancelledIsReleased
<1>11. NoSilentOrphan'
  <2> SUFFICES ASSUME NEW d \in Bookings,
                      create'[d] = "failed" /\ row[d] = "none" /\ d \in registered
               PROVE  mishaps'[d] \cap {"register", "compensation", "crash"} # {}
    BY DEF NoSilentOrphan
  <2>1. CASE d # b
    <3>1. create[d] = "failed" /\ mishaps'[d] = mishaps[d]
      BY <1>2, <2>1 DEF TypeOK
    <3> QED BY <3>1 DEF NoSilentOrphan
  <2>2. CASE d = b
    BY <1>2, <2>2 DEF TypeOK, CreateKnows, Got, Note
  <2> QED BY <2>1, <2>2
<1> QED BY <1>3, <1>4, <1>5, <1>6, <1>7, <1>8, <1>9, <1>10, <1>11

(* The booking of an event that is not there fails before the Provider is asked. *)
LEMMA CheckEventInv ==
  ASSUME Inv, NEW b \in Bookings, NEW bookable \in BOOLEAN, CheckEvent(b, bookable)
  PROVE  Inv'
<1> USE DEF Inv, CheckEvent, CreateAt
<1>1. /\ b \notin registered /\ row[b] = "none"
      /\ \A m \in flight : m.client # b /\ m.booking # b
  BY NoneAbout, NothingInFlight DEF CreateKnows, Waits, CreateWaits, Clients
<1>2. reply[b] = "none"
  BY DEF TypeOK, Expecting, CreateWaits, Clients
<1>3. CASE bookable
  <2> DEFINE m == Request("register", b, b)
  <2>1. /\ flight' = flight \cup {m} /\ create' = [create EXCEPT ![b] = "registering"]
        /\ m.op = "register" /\ m.booking = b /\ m.client = b
        /\ m \in [op: {"register", "cancel"}, booking: Bookings, client: Clients \cup {Nobody}]
    BY <1>3 DEF Request, Clients
  <2> HIDE DEF m
  <2>2. TypeOK'
    BY <1>3, <2>1, ClientAssumption DEF TypeOK, Expecting, CreateWaits, Clients
  <2>3. OwnRequests'
    <3>1. m = RequestOf(b)' /\ Waits(b)'
      BY <2>1 DEF m, RequestOf, Waits, CreateWaits, TypeOK
    <3>2. ASSUME NEW n \in flight, n.client # Nobody
          PROVE  n = RequestOf(n.client)' /\ Waits(n.client)' /\ reply'[n.client] = "none"
      BY <1>1, <2>1, <3>2 DEF TypeOK, OwnRequests, RequestOf, Waits, CreateWaits
    <3> QED BY <1>2, <2>1, <3>1, <3>2 DEF OwnRequests
  <2>4. StrayRequests' /\ RowsAreSaved'
    BY <1>1, <2>1, ClientAssumption DEF TypeOK, StrayRequests, RowsAreSaved
  <2>5. CreateKnows' /\ CancelKnows' /\ LossIsKnown'
    BY <1>1, <1>2, <2>1 DEF TypeOK, CreateKnows, Got, CancelKnows, LossIsKnown, Cleared
  <2>6. CancelledIsReleased' /\ NoSilentOrphan'
    BY <1>1, <2>1 DEF TypeOK, CancelledIsReleased, NoSilentOrphan, Request
  <2> QED BY <2>2, <2>3, <2>4, <2>5, <2>6
<1>4. CASE ~bookable
  <2>1. TypeOK' /\ OwnRequests' /\ StrayRequests' /\ RowsAreSaved'
    BY <1>1, <1>2, <1>4
       DEF TypeOK, Expecting, OwnRequests, RequestOf, Waits, CreateWaits, StrayRequests,
           RowsAreSaved, Clients
  <2>2. CreateKnows' /\ CancelKnows' /\ LossIsKnown' /\ CancelledIsReleased' /\ NoSilentOrphan'
    BY <1>1, <1>4 DEF TypeOK, CreateKnows, Got, CancelKnows, LossIsKnown, Cleared,
                      CancelledIsReleased, NoSilentOrphan
  <2> QED BY <2>1, <2>2
<1> QED BY <1>3, <1>4

(* The row of a booking whose registration is alive. *)
LEMMA SaveInv == ASSUME Inv, NEW b \in Bookings, Save(b) PROVE Inv'
<1> USE DEF Inv, Save, CreateAt
<1>1. b \in registered /\ \A m \in flight : m.client # b /\ m.booking # b
  BY NoneAbout, NothingInFlight DEF CreateKnows, Waits, CreateWaits, Clients
<1>2. TypeOK' /\ OwnRequests'
  BY <1>1 DEF TypeOK, Expecting, OwnRequests, RequestOf, Waits, CreateWaits, Clients
<1>3. StrayRequests' /\ RowsAreSaved'
  BY <1>1 DEF TypeOK, StrayRequests, RowsAreSaved
<1>4. CreateKnows' /\ CancelKnows' /\ LossIsKnown' /\ CancelledIsReleased' /\ NoSilentOrphan'
  BY <1>1 DEF TypeOK, CreateKnows, Got, CancelKnows, LossIsKnown, Cleared, CancelledIsReleased,
              NoSilentOrphan
<1> QED BY <1>2, <1>3, <1>4

(* The registration whose row could not be saved is given back. *)
LEMMA SaveFailsInv == ASSUME Inv, NEW b \in Bookings, SaveFails(b) PROVE Inv'
<1> USE DEF Inv, SaveFails, CreateAt, Compensate, Fault
<1>1. b \in registered /\ \A m \in flight : m.client # b /\ m.booking # b
  BY NoneAbout, NothingInFlight DEF CreateKnows, Waits, CreateWaits, Clients
<1>2. reply[b] = "none" /\ row[b] = "none"
  BY NoneAbout DEF TypeOK, Expecting, CreateWaits, Clients
<1> DEFINE m == Request("cancel", b, b)
<1>3. /\ flight' = flight \cup {m} /\ create' = [create EXCEPT ![b] = "compensating"]
      /\ m.op = "cancel" /\ m.booking = b /\ m.client = b
      /\ m \in [op: {"register", "cancel"}, booking: Bookings, client: Clients \cup {Nobody}]
  BY DEF Request, Clients
<1>4. /\ row' \in {row, [row EXCEPT ![b] = "active"]}
      /\ row' # row => "commit" \in mishaps'[b]
      /\ mishaps' \in {mishaps, [mishaps EXCEPT ![b] = @ \cup {"commit"}]}
  BY DEF TypeOK, Note
<1> HIDE DEF m, SaveFails
<1>5. UNCHANGED <<registered, cancel, target, reply>> /\ create[b] = "saving" /\ faults' \in Nat
  BY DEF SaveFails, TypeOK
<1>6. TypeOK'
  BY <1>3, <1>4, <1>5, ClientAssumption DEF TypeOK, Expecting, CreateWaits, Clients
<1>7. OwnRequests'
  <2>1. m = RequestOf(b)' /\ Waits(b)'
    BY <1>3 DEF m, RequestOf, Waits, CreateWaits, TypeOK
  <2>2. ASSUME NEW n \in flight, n.client # Nobody
        PROVE  n = RequestOf(n.client)' /\ Waits(n.client)' /\ reply'[n.client] = "none"
    BY <1>1, <1>3, <1>5, <2>2 DEF TypeOK, OwnRequests, RequestOf, Waits, CreateWaits
  <2> QED BY <1>2, <1>3, <1>5, <2>1, <2>2 DEF OwnRequests
<1>8. StrayRequests' /\ RowsAreSaved'
  BY <1>1, <1>3, <1>4, <1>5, ClientAssumption DEF TypeOK, StrayRequests, RowsAreSaved
<1>9. CreateKnows' /\ CancelKnows' /\ LossIsKnown'
  BY <1>1, <1>2, <1>3, <1>4, <1>5
     DEF TypeOK, CreateKnows, Got, CancelKnows, LossIsKnown, Cleared, Accepted
<1>10. CancelledIsReleased' /\ NoSilentOrphan'
  BY <1>1, <1>2, <1>3, <1>4, <1>5 DEF TypeOK, CancelledIsReleased, NoSilentOrphan, Request
<1> QED BY <1>6, <1>7, <1>8, <1>9, <1>10

LEMMA CreateInv == ASSUME Inv, NEW b \in Bookings, CreateStep(b) PROVE Inv'
<1>1. CASE Registered(b)
  BY <1>1, TakeAnswer DEF Registered, CreateWaits, Got
<1>2. CASE RegisterRejected(b)
  BY <1>2, TakeAnswer DEF RegisterRejected, CreateWaits, Got
<1>3. CASE Compensated(b)
  <2>1. reply[b] \in Accepted \cup {"error"}
    BY <1>3 DEF Compensated, Inv, TypeOK, Accepted, Clients
  <2> QED BY <1>3, <2>1, TakeAnswer DEF Compensated, CreateWaits, Got
<1> QED BY <1>1, <1>2, <1>3, CheckEventInv, SaveInv DEF CreateStep

-----------------------------------------------------------------------------
(* DELETE /api/tickets/{ticket_id} *)

LEMMA BeginCancelInv ==
  ASSUME Inv, NEW c \in Cancels, NEW b \in Bookings, BeginCancel(c, b)
  PROVE  Inv'
<1> USE DEF Inv, BeginCancel, CancelAt
<1>1. c \notin Bookings /\ c # Nobody /\ reply[c] = "none" /\ \A m \in flight : m.client # c
  BY NothingInFlight, ClientAssumption DEF TypeOK, Expecting, Waits, Clients
<1> DEFINE m == Request("cancel", b, c)
<1>2. /\ flight' = flight \cup {m} /\ cancel' = [cancel EXCEPT ![c] = "cancelling"]
      /\ m.op = "cancel" /\ m.booking = b /\ m.client = c
      /\ m \in [op: {"register", "cancel"}, booking: Bookings, client: Clients \cup {Nobody}]
  BY DEF Request, Clients
<1> HIDE DEF m
<1>3. TypeOK'
  <2>1. \A x \in Clients : Expecting(x)' => x = c \/ Expecting(x)
    BY <1>2 DEF Expecting
  <2>2. /\ flight' \subseteq [op: {"register", "cancel"}, booking: Bookings,
                            client: Clients \cup {Nobody}]
        /\ target' \in [Cancels -> Bookings]
        /\ cancel' \in [Cancels -> {"idle", "cancelling", "marking"}]
    BY <1>2 DEF TypeOK
  <2>3. \A d \in Bookings : Expecting(d)' => CreateWaits(d)'
    BY <1>1, <2>1 DEF TypeOK, CreateWaits, Clients
  <2>4. \A d \in Cancels : Expecting(d)' => cancel'[d] = "cancelling"
    BY <1>2, <2>1 DEF TypeOK, Clients
  <2> QED BY <2>2, <2>3, <2>4 DEF TypeOK
<1>4. OwnRequests'
  <2>1. m = RequestOf(c)' /\ Waits(c)'
    BY <1>1, <1>2 DEF m, RequestOf, Waits, TypeOK
  <2>2. ASSUME NEW n \in flight, n.client # Nobody
        PROVE  n = RequestOf(n.client)' /\ Waits(n.client)' /\ reply'[n.client] = "none"
    BY <1>1, <1>2, <2>2 DEF TypeOK, OwnRequests, RequestOf, Waits, CreateWaits
  <2> QED BY <1>1, <1>2, <2>1, <2>2 DEF OwnRequests
<1>5. StrayRequests' /\ RowsAreSaved' /\ CreateKnows'
  BY <1>1, <1>2 DEF TypeOK, StrayRequests, RowsAreSaved, CreateKnows, Got
<1>6. CancelKnows' /\ LossIsKnown'
  BY <1>1, <1>2 DEF TypeOK, CancelKnows, LossIsKnown, Cleared, Accepted
<1>7. CancelledIsReleased' /\ NoSilentOrphan'
  BY <1>2 DEF TypeOK, CancelledIsReleased, NoSilentOrphan, m, Request
<1> QED BY <1>3, <1>4, <1>5, <1>6, <1>7

(* The answer is taken: it clears the way to the row, or ends the request. *)
LEMMA TakeCancelAnswer ==
  ASSUME Inv, NEW c \in Cancels, Released(c) \/ CancelRefused(c)
  PROVE  Inv'
<1> USE DEF Inv, Released, CancelRefused, Taken, CancelAt, AfterAccepted
<1>1. c \notin Bookings /\ c # Nobody /\ \A m \in flight : m.client # c
  BY NothingInFlight, ClientAssumption DEF Clients, Accepted
<1>2. TypeOK'
  BY <1>1 DEF TypeOK, Expecting, CreateWaits, Clients
<1>3. /\ cancel[c] = "cancelling" /\ cancel'[c] \in {"idle", "marking"}
      /\ cancel'[c] = "marking" <=> reply[c] \in Accepted
      /\ \A d \in Cancels : d # c => cancel'[d] = cancel[d]
      /\ reply'[c] = "none" /\ \A x \in Clients : x # c => reply'[x] = reply[x]
  BY DEF TypeOK, Clients, Accepted
<1>4. OwnRequests'
  <2> SUFFICES ASSUME NEW m \in flight, m.client # Nobody
               PROVE  m = RequestOf(m.client)' /\ Waits(m.client)' /\ reply'[m.client] = "none"
    BY DEF OwnRequests
  <2>1. m.client \in Clients /\ m.client # c
    BY <1>1 DEF TypeOK
  <2>2. m = RequestOf(m.client) /\ Waits(m.client) /\ reply[m.client] = "none"
    BY DEF OwnRequests
  <2> QED BY <1>3, <2>1, <2>2 DEF RequestOf, Waits, CreateWaits, Clients
<1>5. StrayRequests' /\ RowsAreSaved'
  BY <1>1 DEF TypeOK, StrayRequests, RowsAreSaved
<1>6. CreateKnows'
  BY <1>1, <1>3 DEF CreateKnows, Got, Clients
<1>7. \A d \in Cancels : Cleared(d)' <=> Cleared(d)
  BY <1>3 DEF Cleared, Clients, Accepted
<1>8. CancelKnows' /\ LossIsKnown'
  BY <1>7 DEF CancelKnows, LossIsKnown
<1>9. CancelledIsReleased' /\ NoSilentOrphan'
  BY DEF TypeOK, CancelledIsReleased, NoSilentOrphan
<1> QED BY <1>2, <1>4, <1>5, <1>6, <1>8, <1>9

(* The end of a cancellation: the row is marked, or the failure is on record. *)
LEMMA EndCancel ==
  ASSUME Inv, NEW c \in Cancels, cancel[c] \in {"cancelling", "marking"}, CancelAt(c, "idle"),
         \/ UNCHANGED row
         \/ cancel[c] = "marking" /\ row' = [row EXCEPT ![target[c]] = "cancelled"],
         \/ cancel[c] = "marking" /\ UNCHANGED mishaps /\ row'[target[c]] = "cancelled"
         \/ Note(target[c], "cancel"),
         faults' \in Nat, reply' = [reply EXCEPT ![c] = "none"],
         NEW lost \in SUBSET {m \in flight : m.client = c},
         flight' = (flight \ {m \in flight : m.client = c})
                      \cup {[m EXCEPT !.client = Nobody] : m \in lost},
         UNCHANGED <<registered, create, target>>
  PROVE  Inv'
<1> USE DEF Inv, CancelAt
<1> DEFINE b == target[c]
<1>1. c \notin Bookings /\ c # Nobody /\ b \in Bookings /\ row[b] # "none"
  BY ClientAssumption DEF TypeOK, RowsAreSaved
<1>2. /\ row' \in [Bookings -> {"none", "active", "cancelled"}]
      /\ mishaps' \in [Bookings -> SUBSET {"register", "commit", "compensation", "crash",
                                          "cancel"}]
      /\ \A d \in Bookings : mishaps[d] \subseteq mishaps'[d] /\ (row[d] = "none" <=> row'[d] = "none")
      /\ \A d \in Bookings : d # b => row'[d] = row[d] /\ mishaps'[d] = mishaps[d]
      /\ (cancel[c] = "marking" /\ row'[b] = "cancelled") \/ "cancel" \in mishaps'[b]
      /\ row'[b] = row[b] \/ (row'[b] = "cancelled" /\ cancel[c] = "marking")
  BY <1>1 DEF TypeOK, Note
<1>3. /\ cancel' \in [Cancels -> {"idle", "cancelling", "marking"}]
      /\ cancel'[c] = "idle" /\ \A d \in Cancels : d # c => cancel'[d] = cancel[d]
      /\ reply' \in [Clients -> {"none", "ok", "absent", "error"}]
      /\ reply'[c] = "none" /\ \A x \in Clients : x # c => reply'[x] = reply[x]
  BY DEF TypeOK, Clients
<1>4. ASSUME NEW m \in flight'
      PROVE  \/ m \in flight /\ m.client # c
             \/ /\ m = Request("cancel", b, Nobody)
                /\ m.op = "cancel" /\ m.booking = b /\ m.client = Nobody
                /\ cancel[c] = "cancelling" /\ UNCHANGED row
  <2>1. ASSUME NEW n \in flight, n.client = c, m = [n EXCEPT !.client = Nobody]
        PROVE  m = Request("cancel", b, Nobody) /\ cancel[c] = "cancelling"
    <3>1. n = Request("cancel", b, c) /\ cancel[c] = "cancelling"
      BY <1>1, <2>1 DEF OwnRequests, RequestOf, Waits
    <3> QED BY <2>1, <3>1 DEF Request
  <2> QED BY <2>1, Requests
<1> HIDE DEF b, CancelAt
<1>5. TypeOK'
  <2>1. flight' \subseteq [op: {"register", "cancel"}, booking: Bookings,
                         client: Clients \cup {Nobody}]
    BY <1>1, <1>4 DEF TypeOK, Request
  <2>2. \A x \in Clients : Expecting(x)' => x # c /\ Expecting(x)
    BY <1>3, <1>4, ClientAssumption DEF Expecting, Clients
  <2> QED BY <1>1, <1>2, <1>3, <2>1, <2>2 DEF TypeOK, CreateWaits, Clients
<1>6. OwnRequests'
  <2> SUFFICES ASSUME NEW m \in flight', m.client # Nobody
               PROVE  m = RequestOf(m.client)' /\ Waits(m.client)' /\ reply'[m.client] = "none"
    BY DEF OwnRequests
  <2>1. m \in flight /\ m.client \in Clients /\ m.client # c
    BY <1>4 DEF TypeOK
  <2>2. m = RequestOf(m.client) /\ Waits(m.client) /\ reply[m.client] = "none"
    BY <2>1 DEF OwnRequests
  <2> QED BY <1>3, <2>1, <2>2 DEF RequestOf, Waits, CreateWaits, Clients
<1>7. StrayRequests'
  <2> SUFFICES ASSUME NEW m \in flight', m.client = Nobody
               PROVE  LET d == m.booking IN
                      IF m.op = "register"
                        THEN /\ create[d] = "failed" /\ row'[d] = "none"
                             /\ mishaps'[d] \cap {"register", "crash"} # {}
                        ELSE \/ "cancel" \in mishaps'[d] /\ row'[d] # "none"
                             \/ create[d] = "failed"
                                /\ (row'[d] # "none" => "commit" \in mishaps'[d])
    BY DEF StrayRequests
  <2>1. CASE m \in flight
    <3>1. m.booking \in Bookings
      BY <2>1 DEF TypeOK
    <3> QED BY <1>2, <2>1, <3>1 DEF StrayRequests
  <2>2. CASE m \notin flight
    <3>1. m.op = "cancel" /\ m.booking = b /\ UNCHANGED row
      BY <1>4, <2>2
    <3>2. "cancel" \in mishaps'[b]
      BY <1>2, <1>4, <2>2
    <3> QED BY <1>1, <3>1, <3>2
  <2> QED BY <2>1, <2>2
<1>8. RowsAreSaved' /\ CreateKnows'
  BY <1>1, <1>2, <1>3 DEF TypeOK, RowsAreSaved, CreateKnows, Got, Clients
<1>9. CancelKnows' /\ LossIsKnown'
  BY <1>1, <1>2, <1>3 DEF TypeOK, CancelKnows, LossIsKnown, Cleared, Clients, b
<1>10. CancelledIsReleased' /\ NoSilentOrphan'
  <2>1. row'[b] = "cancelled" /\ row'[b] # row[b] => b \notin registered
    BY <1>2 DEF CancelKnows, Cleared, b
  <2>2. \A d \in Bookings : row[d] # "none" => Request("register", d, d) \notin flight
    BY RegisterInFlight, Requests
  <2>3. \A d \in Bookings : row[d] # "none" => Request("register", d, d) \notin flight'
    BY <1>4, <2>2, Requests
  <2> QED BY <1>1, <1>2, <2>1, <2>3 DEF CancelledIsReleased, NoSilentOrphan
<1> QED BY <1>5, <1>6, <1>7, <1>8, <1>9, <1>10

(* What is left in flight of a client that gives up. *)
LEMMA AbandonLeaves ==
  ASSUME NEW x, Abandon(x)
  PROVE  /\ reply' = [reply EXCEPT ![x] = "none"]
         /\ \E lost \in SUBSET {m \in flight : m.client = x} :
              flight' = (flight \ {m \in flight : m.client = x})
                          \cup {[m EXCEPT !.client = Nobody] : m \in lost}
<1> DEFINE mine == {m \in flight : m.client = x}
<1>1. {[m EXCEPT !.client = Nobody] : m \in {}} = {}
  OBVIOUS
<1>2. CASE flight' = flight \ mine
  <2>1. flight' = (flight \ mine) \cup {[m EXCEPT !.client = Nobody] : m \in {}}
    BY <1>1, <1>2
  <2> QED BY <2>1 DEF Abandon, Taken
<1>3. CASE flight' = (flight \ mine) \cup {[m EXCEPT !.client = Nobody] : m \in mine}
  BY <1>3 DEF Abandon, Taken
<1> QED BY <1>2, <1>3 DEF Abandon

LEMMA CancelInv ==
  ASSUME Inv, NEW c \in Cancels, Mark(c) \/ MarkFails(c) \/ CancelLosesReply(c) \/ CancelCrashes(c)
  PROVE  Inv'
<1>1. faults' \in Nat /\ target[c] \in Bookings
  BY DEF Inv, TypeOK, Mark, MarkFails, CancelLosesReply, CancelCrashes, Fault
<1>2. CASE Mark(c) \/ MarkFails(c)
  <2>1. cancel[c] = "marking" /\ UNCHANGED <<registered, create, target, flight, reply>>
    BY <1>2 DEF Mark, MarkFails
  <2>2. reply[c] = "none" /\ {m \in flight : m.client = c} = {}
    BY <2>1, NothingInFlight, ClientAssumption DEF Inv, TypeOK, Expecting, Waits, Clients
  <2>3. reply' = [reply EXCEPT ![c] = "none"]
    BY <2>1, <2>2 DEF Inv, TypeOK, Clients
  <2>4. PICK lost \in SUBSET {m \in flight : m.client = c} :
          flight' = (flight \ {m \in flight : m.client = c})
                       \cup {[m EXCEPT !.client = Nobody] : m \in lost}
    <3>1. flight' = (flight \ {m \in flight : m.client = c})
                       \cup {[m EXCEPT !.client = Nobody] : m \in {}}
      BY <2>1, <2>2
    <3> QED BY <3>1, Zenon
  <2>5. \/ row' = row
        \/ row' = [row EXCEPT ![target[c]] = "cancelled"]
    BY <1>2 DEF Mark, MarkFails
  <2>6. \/ UNCHANGED mishaps /\ row'[target[c]] = "cancelled"
        \/ Note(target[c], "cancel")
    BY <1>1, <1>2 DEF Mark, MarkFails, Inv, TypeOK
  <2>7. CancelAt(c, "idle")
    BY <1>2 DEF Mark, MarkFails
  <2> QED BY <1>1, <2>1, <2>3, <2>4, <2>5, <2>6, <2>7, EndCancel
<1>3. CASE CancelLosesReply(c) \/ CancelCrashes(c)
  <2>1. /\ Abandon(c) /\ CancelAt(c, "idle") /\ Note(target[c], "cancel")
        /\ UNCHANGED <<registered, create, target>>
    BY <1>3 DEF CancelLosesReply, CancelCrashes
  <2>2. /\ cancel[c] \in {"cancelling", "marking"}
        /\ \/ UNCHANGED row
           \/ cancel[c] = "marking" /\ row' = [row EXCEPT ![target[c]] = "cancelled"]
    BY <1>3 DEF CancelLosesReply, CancelCrashes
  <2>3. PICK lost \in SUBSET {m \in flight : m.client = c} :
          flight' = (flight \ {m \in flight : m.client = c})
                       \cup {[m EXCEPT !.client = Nobody] : m \in lost}
    BY <2>1, AbandonLeaves
  <2>4. reply' = [reply EXCEPT ![c] = "none"]
    BY <2>1, AbandonLeaves
  <2> QED BY <1>1, <2>1, <2>2, <2>3, <2>4, EndCancel
<1> QED BY <1>2, <1>3

-----------------------------------------------------------------------------
(* A booking that is given up *)

LEMMA EndCreate ==
  ASSUME Inv, NEW b \in Bookings, create[b] \in {"registering", "saving", "compensating"},
         CreateAt(b, "failed"), NEW mishap \in {"register", "compensation", "crash"},
         Note(b, mishap), create[b] = "registering" => mishap \in {"register", "crash"},
         UNCHANGED row \/ (create[b] = "saving" /\ row' = [row EXCEPT ![b] = "active"]),
         faults' \in Nat, reply' = [reply EXCEPT ![b] = "none"],
         NEW lost \in SUBSET {m \in flight : m.client = b},
         flight' = (flight \ {m \in flight : m.client = b})
                      \cup {[m EXCEPT !.client = Nobody] : m \in lost},
         UNCHANGED <<registered, cancel, target>>
  PROVE  Inv'
<1> USE DEF Inv
<1>1. b # Nobody /\ b \notin Cancels
  BY ClientAssumption
<1>2. /\ row' \in [Bookings -> {"none", "active", "cancelled"}]
      /\ \A d \in Bookings : d # b => row'[d] = row[d]
      /\ row'[b] = row[b] \/ (row'[b] = "active" /\ create[b] = "saving")
      /\ mishaps' \in [Bookings -> SUBSET {"register", "commit", "compensation", "crash",
                                          "cancel"}]
      /\ \A d \in Bookings : mishaps[d] \subseteq mishaps'[d]
      /\ mishap \in mishaps'[b]
  BY DEF TypeOK, Note
<1>3. /\ create' \in [Bookings -> {"new", "registering", "saving", "compensating",
                                   "created", "failed"}]
      /\ create'[b] = "failed" /\ \A d \in Bookings : d # b => create'[d] = create[d]
      /\ reply' \in [Clients -> {"none", "ok", "absent", "error"}]
      /\ reply'[b] = "none" /\ \A x \in Clients : x # b => reply'[x] = reply[x]
  BY DEF TypeOK, Clients, CreateAt
<1>4. ASSUME NEW m \in flight'
      PROVE  \/ m \in flight /\ m.client # b
             \/ /\ m.booking = b /\ m.client = Nobody
                /\ \/ m = Request("register", b, Nobody) /\ m.op = "register"
                      /\ create[b] = "registering"
                   \/ m = Request("cancel", b, Nobody) /\ m.op = "cancel"
                      /\ create[b] = "compensating"
  <2>1. ASSUME NEW n \in flight, n.client = b, m = [n EXCEPT !.client = Nobody]
        PROVE  \/ m = Request("register", b, Nobody) /\ create[b] = "registering"
               \/ m = Request("cancel", b, Nobody) /\ create[b] = "compensating"
    <3>1. n = RequestOf(b) /\ CreateWaits(b)
      BY <1>1, <2>1 DEF OwnRequests, Waits
    <3> QED BY <2>1, <3>1 DEF Request, RequestOf, CreateWaits
  <2> QED BY <2>1, Requests
<1>5. TypeOK'
  <2>1. flight' \subseteq [op: {"register", "cancel"}, booking: Bookings,
                         client: Clients \cup {Nobody}]
    BY <1>4 DEF TypeOK, Request
  <2>2. \A x \in Clients : Expecting(x)' => x # b /\ Expecting(x)
    BY <1>1, <1>3, <1>4, ClientAssumption DEF Expecting, Clients
  <2> QED BY <1>1, <1>2, <1>3, <2>1, <2>2 DEF TypeOK, CreateWaits, Clients
<1>6. OwnRequests'
  <2> SUFFICES ASSUME NEW m \in flight', m.client # Nobody
               PROVE  m = RequestOf(m.client)' /\ Waits(m.client)' /\ reply'[m.client] = "none"
    BY DEF OwnRequests
  <2>1. m \in flight /\ m.client \in Clients /\ m.client # b
    BY <1>4 DEF TypeOK
  <2>2. m = RequestOf(m.client) /\ Waits(m.client) /\ reply[m.client] = "none"
    BY <2>1 DEF OwnRequests
  <2> QED BY <1>3, <2>1, <2>2 DEF RequestOf, Waits, CreateWaits, Clients
<1>7. StrayRequests'
  <2> SUFFICES ASSUME NEW m \in flight', m.client = Nobody
               PROVE  LET d == m.booking IN
                      IF m.op = "register"
                        THEN /\ create'[d] = "failed" /\ row'[d] = "none"
                             /\ mishaps'[d] \cap {"register", "crash"} # {}
                        ELSE \/ "cancel" \in mishaps'[d] /\ row'[d] # "none"
                             \/ create'[d] = "failed"
                                /\ (row'[d] # "none" => "commit" \in mishaps'[d])
    BY DEF StrayRequests
  <2>1. CASE m \in flight
    <3>1. m.booking \in Bookings
      BY <2>1 DEF TypeOK
    <3>2. m.booking = b => create[b] # "saving"
      BY <2>1, <1>1, NoneAbout
    <3> QED BY <1>2, <1>3, <2>1, <3>1, <3>2 DEF StrayRequests
  <2>2. CASE m \notin flight
    BY <1>2, <1>3, <1>4, <2>2 DEF RowsAreSaved
  <2> QED BY <2>1, <2>2
<1>8. RowsAreSaved' /\ CreateKnows'
  BY <1>1, <1>2, <1>3 DEF TypeOK, RowsAreSaved, CreateKnows, Got, Clients
<1>9. CancelKnows' /\ LossIsKnown'
  <2>1. \A c \in Cancels : Cleared(c)' <=> Cleared(c)
    BY <1>1, <1>3 DEF Cleared, Clients
  <2> QED BY <1>2, <2>1 DEF CancelKnows, LossIsKnown, CreateKnows
<1>10. CancelledIsReleased' /\ NoSilentOrphan'
  <2>1. \A d \in Bookings : Request("register", d, d) \in flight'
                              => Request("register", d, d) \in flight
    BY <1>4, Requests, ClientAssumption
  <2> QED BY <1>2, <1>3, <2>1 DEF CancelledIsReleased, NoSilentOrphan
<1> QED BY <1>5, <1>6, <1>7, <1>8, <1>9, <1>10

LEMMA CreateFailsInv ==
  ASSUME Inv, NEW b \in Bookings, CreateLosesReply(b) \/ CreateCrashes(b)
  PROVE  Inv'
<1>1. /\ faults' \in Nat /\ CreateAt(b, "failed") /\ Abandon(b)
      /\ UNCHANGED <<registered, cancel, target>>
      /\ create[b] \in {"registering", "saving", "compensating"}
      /\ UNCHANGED row \/ (create[b] = "saving" /\ row' = [row EXCEPT ![b] = "active"])
  BY DEF Inv, TypeOK, CreateLosesReply, CreateCrashes, CreateWaits, Fault
<1>2. PICK mishap \in {"register", "compensation", "crash"} :
        Note(b, mishap) /\ (create[b] = "registering" => mishap \in {"register", "crash"})
  BY DEF CreateLosesReply, CreateCrashes
<1>3. reply' = [reply EXCEPT ![b] = "none"]
  BY <1>1, AbandonLeaves
<1>4. PICK lost \in SUBSET {m \in flight : m.client = b} :
        flight' = (flight \ {m \in flight : m.client = b})
                     \cup {[m EXCEPT !.client = Nobody] : m \in lost}
  BY <1>1, AbandonLeaves
<1> QED BY <1>1, <1>2, <1>3, <1>4, EndCreate

-----------------------------------------------------------------------------
(* Theorems *)

LEMMA InvNext == ASSUME Inv, [Next]_vars PROVE Inv'
<1>1. CASE Serve
  BY <1>1, ProviderInv DEF Serve
<1>2. CASE \E b \in Bookings : CreateStep(b)
  BY <1>2, CreateInv
<1>3. CASE \E c \in Cancels : CancelStep(c) \/ \E b \in Bookings : BeginCancel(c, b)
  BY <1>3, BeginCancelInv, TakeCancelAnswer, CancelInv DEF CancelStep
<1>4. CASE Failure
  BY <1>4, SaveFailsInv, CreateFailsInv, CancelInv, ProviderInv DEF Failure
<1>5. CASE UNCHANGED vars
  BY <1>5 DEF vars, Inv, TypeOK, Expecting, CreateWaits, OwnRequests, RequestOf, Waits,
              StrayRequests, RowsAreSaved, CreateKnows, Got, CancelKnows, Cleared, LossIsKnown,
              CancelledIsReleased, NoSilentOrphan
<1> QED BY <1>1, <1>2, <1>3, <1>4, <1>5 DEF Next

(* Inv holds in every state, whatever fails and however often. *)
THEOREM Invariance == Spec => []Inv
<1> QED BY InvInit, InvNext, PTL DEF Spec

(* The variables have their types, and only a client that waits is answered. *)
THEOREM TypeCorrect == Spec => []TypeOK
<1>1. Inv => TypeOK
  BY DEF Inv
<1> QED BY <1>1, Invariance, PTL

(* A ticket the service calls cancelled has no registration at the Provider, *)
(* and no request of CreateTicketUseCase that arrives late can bring it back. *)
THEOREM CancelledStaysReleased == Spec => []CancelledIsReleased
<1>1. Inv => CancelledIsReleased
  BY DEF Inv
<1> QED BY <1>1, Invariance, PTL

(* CreateTicketUseCase leaves a registration without a row only when the     *)
(* answer was lost, the compensation failed or the process died.             *)
THEOREM OrphansAreOnRecord == Spec => []NoSilentOrphan
<1>1. Inv => NoSilentOrphan
  BY DEF Inv
<1> QED BY <1>1, Invariance, PTL

(* A row that says active without a registration is being cancelled, or was  *)
(* left by a cancellation cut short or by a COMMIT that raised after all.    *)
THEOREM ActiveTicketIsReal == Spec => []ActiveIsRegistered
<1>1. ASSUME Inv PROVE ActiveIsRegistered
  <2>1. \A c \in Cancels : Cleared(c) => cancel[c] # "idle"
    BY DEF Cleared
  <2> QED BY <1>1, <2>1 DEF Inv, LossIsKnown, ActiveIsRegistered, OnItsWay
<1> QED BY <1>1, Invariance, PTL

=============================================================================
