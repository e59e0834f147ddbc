------------------------------- MODULE Tickets -------------------------------
(***************************************************************************)
(* Registration and its cancellation: CreateTicketUseCase and              *)
(* CancelTicketUseCase (application/tickets.py), each of which changes the  *)
(* Provider and the table tickets with no transaction around the two, over *)
(* EventsProviderClient (provider/client.py).                              *)
(*                                                                         *)
(* A booking is one POST /api/tickets, and the ticket id the Provider gives *)
(* its registration.  A request to the Provider is in flight until it is   *)
(* served, and may be served after its client has given up.                *)
(***************************************************************************)
EXTENDS Integers

CONSTANTS
  Bookings,   \* requests for a ticket
  Cancels,    \* clients that send DELETE /api/tickets/{id}
  Nobody,     \* the client of a request that was given up
  Faults,     \* what may go wrong
  MaxFaults   \* bound: how often, in all

FaultKinds == {"reply", "refusal", "database", "crash"}

ASSUME ClientAssumption ==
  Bookings \cap Cancels = {} /\ Nobody \notin Bookings \cup Cancels
ASSUME FaultAssumption == Faults \subseteq FaultKinds /\ MaxFaults \in Nat

VARIABLES
  registered,  \* registrations alive at the Provider
  row,         \* the row of a booking in table tickets
  create,      \* where CreateTicketUseCase.execute of a booking is
  cancel,      \* where CancelTicketUseCase.execute of a client is
  target,      \* the booking it cancels
  flight,      \* requests the Provider has not served
  reply,       \* what the Provider answered to a client that waits
  mishaps,     \* history: what went wrong for a booking
  faults       \* faults so far

vars == <<registered, row, create, cancel, target, flight, reply, mishaps, faults>>

Clients == Bookings \cup Cancels

Request(op, b, x) == [op |-> op, booking |-> b, client |-> x]

Init ==
  /\ registered = {}
  /\ row = [b \in Bookings |-> "none"]
  /\ create = [b \in Bookings |-> "new"]
  /\ cancel = [c \in Cancels |-> "idle"]
  /\ target \in {t \in [Cancels -> Bookings] : \A c, d \in Cancels : t[c] = t[d]}
  /\ flight = {}
  /\ reply = [x \in Clients |-> "none"]
  /\ mishaps = [b \in Bookings |-> {}]
  /\ faults = 0

Fault(kind) ==
  /\ kind \in Faults
  /\ faults < MaxFaults
  /\ faults' = faults + 1

Note(b, mishap) == mishaps' = [mishaps EXCEPT ![b] = @ \cup {mishap}]

-----------------------------------------------------------------------------
(* The Provider *)

Answer(m, answer) ==
  /\ flight' = flight \ {m}
  /\ reply' = IF m.client \in Clients THEN [reply EXCEPT ![m.client] = answer] ELSE reply
  /\ UNCHANGED <<row, create, cancel, target, mishaps>>

ServeRegister(m) ==
  /\ m \in flight /\ m.op = "register"
  /\ registered' = registered \cup {m.booking}
  /\ Answer(m, "ok")
  /\ UNCHANGED faults

(* The seat is taken, the event is over: 400, 409 or 422. *)
RejectRegister(m) ==
  /\ m \in flight /\ m.op = "register"
  /\ Answer(m, "error")
  /\ UNCHANGED <<registered, faults>>

(* A registration that is not there is answered 404. *)
ServeCancel(m) ==
  /\ m \in flight /\ m.op = "cancel"
  /\ registered' = registered \ {m.booking}
  /\ Answer(m, IF m.booking \in registered THEN "ok" ELSE "absent")
  /\ UNCHANGED faults

(* Any other answer than success or 404. *)
RefuseCancel(m) ==
  /\ m \in flight /\ m.op = "cancel"
  /\ Fault("refusal")
  /\ Answer(m, "error")
  /\ UNCHANGED registered

-----------------------------------------------------------------------------
(* POST /api/tickets *)

Got(x, answer) == reply[x] = answer

CreateWaits(b) == create[b] \in {"registering", "compensating"}

Taken(x) == reply' = [reply EXCEPT ![x] = "none"]

CreateAt(b, place) == create' = [create EXCEPT ![b] = place]

(* The event must be in the catalogue, published, and open for registration. *)
CheckEvent(b, bookable) ==
  /\ create[b] = "new"
  /\ IF bookable
       THEN /\ CreateAt(b, "registering")
            /\ flight' = flight \cup {Request("register", b, b)}
       ELSE CreateAt(b, "failed") /\ UNCHANGED flight
  /\ UNCHANGED <<registered, row, cancel, target, reply, mishaps, faults>>

Registered(b) ==
  /\ create[b] = "registering"
  /\ Got(b, "ok")
  /\ Taken(b)
  /\ CreateAt(b, "saving")
  /\ UNCHANGED <<registered, row, cancel, target, flight, mishaps, faults>>

RegisterRejected(b) ==
  /\ create[b] = "registering"
  /\ Got(b, "error")
  /\ Taken(b)
  /\ CreateAt(b, "failed")
  /\ UNCHANGED <<registered, row, cancel, target, flight, mishaps, faults>>

Save(b) ==
  /\ create[b] = "saving"
  /\ row' = [row EXCEPT ![b] = "active"]
  /\ CreateAt(b, "created")
  /\ UNCHANGED <<registered, cancel, target, flight, reply, mishaps, faults>>

(* Mutation: the failure is passed on, the registration left alone. *)
GiveUp(b) == CreateAt(b, "failed") /\ UNCHANGED flight

Compensate(b) ==
  /\ CreateAt(b, "compensating")
  /\ flight' = flight \cup {Request("cancel", b, b)}

(* INSERT or COMMIT raises; a COMMIT that raises may have been applied. *)
SaveFails(b) ==
  /\ create[b] = "saving"
  /\ Fault("database")
  /\ \/ UNCHANGED <<row, mishaps>>
     \/ row' = [row EXCEPT ![b] = "active"] /\ Note(b, "commit")
  /\ Compensate(b)
  /\ UNCHANGED <<registered, cancel, target, reply>>

(* Whatever came of the compensation, the first failure is raised. *)
Compensated(b) ==
  /\ create[b] = "compensating"
  /\ reply[b] # "none"
  /\ Taken(b)
  /\ CreateAt(b, "failed")
  /\ IF Got(b, "error") THEN Note(b, "compensation") ELSE UNCHANGED mishaps
  /\ UNCHANGED <<registered, row, cancel, target, flight, faults>>

-----------------------------------------------------------------------------
(* DELETE /api/tickets/{ticket_id} *)

CancelAt(c, place) == cancel' = [cancel EXCEPT ![c] = place]

(* An absent ticket is answered 404 and a cancelled one success at once. *)
BeginCancel(c, b) ==
  /\ cancel[c] = "idle"
  /\ row[b] = "active"
  /\ CancelAt(c, "cancelling")
  /\ target' = [target EXCEPT ![c] = b]
  /\ flight' = flight \cup {Request("cancel", b, c)}
  /\ UNCHANGED <<registered, row, create, reply, mishaps, faults>>

(* Mutation: every ProviderError is taken for an absent ticket. *)
AnyAnswer == {"ok", "absent", "error"}

(* Mutation: an absent ticket is an error like any other. *)
OnlyOk == {"ok"}

Accepted == {"ok", "absent"}

(* Mutation: success is answered without mark_cancelled. *)
NoMark == "idle"

AfterAccepted == "marking"

Released(c) ==
  /\ cancel[c] = "cancelling"
  /\ reply[c] \in Accepted
  /\ Taken(c)
  /\ CancelAt(c, AfterAccepted)
  /\ UNCHANGED <<registered, row, create, target, flight, mishaps, faults>>

CancelRefused(c) ==
  /\ cancel[c] = "cancelling"
  /\ reply[c] \notin Accepted \cup {"none"}
  /\ Taken(c)
  /\ CancelAt(c, "idle")
  /\ UNCHANGED <<registered, row, create, target, flight, mishaps, faults>>

Mark(c) ==
  /\ cancel[c] = "marking"
  /\ row' = [row EXCEPT ![target[c]] = "cancelled"]
  /\ CancelAt(c, "idle")
  /\ UNCHANGED <<registered, create, target, flight, reply, mishaps, faults>>

MarkFails(c) ==
  /\ cancel[c] = "marking"
  /\ Fault("database")
  /\ row' \in {row, [row EXCEPT ![target[c]] = "cancelled"]}
  /\ CancelAt(c, "idle")
  /\ Note(target[c], "cancel")
  /\ UNCHANGED <<registered, create, target, flight, reply>>

-----------------------------------------------------------------------------
(* Clients that give up, and processes that die *)

(* Mutation: an abandoned request leaves its answer to the next one. *)
AbandonLater(x) == UNCHANGED <<flight, reply>>

(* The connection of x is closed.  A request in flight may still arrive. *)
Abandon(x) ==
  LET mine == {m \in flight : m.client = x}
  IN /\ \/ flight' = flight \ mine
        \/ flight' = (flight \ mine) \cup {[m EXCEPT !.client = Nobody] : m \in mine}
     /\ Taken(x)

(* The request times out, or its answer makes no sense: ProviderError. *)
CreateLosesReply(b) ==
  /\ CreateWaits(b)
  /\ Fault("reply")
  /\ Abandon(b)
  /\ CreateAt(b, "failed")
  /\ Note(b, IF create[b] = "registering" THEN "register" ELSE "compensation")
  /\ UNCHANGED <<registered, row, cancel, target>>

CancelLosesReply(c) ==
  /\ cancel[c] = "cancelling"
  /\ Fault("reply")
  /\ Abandon(c)
  /\ CancelAt(c, "idle")
  /\ Note(target[c], "cancel")
  /\ UNCHANGED <<registered, row, create, target>>

CreateCrashes(b) ==
  /\ \/ CreateWaits(b) /\ UNCHANGED row
     \/ create[b] = "saving" /\ row' \in {row, [row EXCEPT ![b] = "active"]}
  /\ Fault("crash")
  /\ Abandon(b)
  /\ CreateAt(b, "failed")
  /\ Note(b, "crash")
  /\ UNCHANGED <<registered, cancel, target>>

CancelCrashes(c) ==
  /\ \/ cancel[c] = "cancelling" /\ UNCHANGED row
     \/ cancel[c] = "marking" /\ row' \in {row, [row EXCEPT ![target[c]] = "cancelled"]}
  /\ Fault("crash")
  /\ Abandon(c)
  /\ CancelAt(c, "idle")
  /\ Note(target[c], "cancel")
  /\ UNCHANGED <<registered, create, target>>

-----------------------------------------------------------------------------
(* Specification *)

Serve == \E m \in flight : ServeRegister(m) \/ ServeCancel(m)

CreateStep(b) ==
  \/ \E bookable \in BOOLEAN : CheckEvent(b, bookable)
  \/ Registered(b) \/ RegisterRejected(b) \/ Save(b) \/ Compensated(b)

CancelStep(c) == Released(c) \/ CancelRefused(c) \/ Mark(c)

Failure ==
  \/ \E b \in Bookings : SaveFails(b) \/ CreateLosesReply(b) \/ CreateCrashes(b)
  \/ \E c \in Cancels : MarkFails(c) \/ CancelLosesReply(c) \/ CancelCrashes(c)
  \/ \E m \in flight : RejectRegister(m) \/ RefuseCancel(m)

Next ==
  \/ Serve
  \/ \E b \in Bookings : CreateStep(b)
  \/ \E c \in Cancels : CancelStep(c) \/ \E b \in Bookings : BeginCancel(c, b)
  \/ Failure

Spec == Init /\ [][Next]_vars

(* The Provider serves what reaches it, the handlers go on, and whoever wants *)
(* a ticket cancelled asks again until it is.                                 *)
FairSpec ==
  /\ Spec
  /\ WF_vars(Serve)
  /\ \A b \in Bookings : WF_vars(CreateStep(b))
  /\ \A c \in Cancels : WF_vars(CancelStep(c))
  /\ \A b \in Bookings : SF_vars(\E c \in Cancels : BeginCancel(c, b))

-----------------------------------------------------------------------------
(* Properties *)

(* An answer has come, or may yet come, for x. *)
Expecting(x) == reply[x] # "none" \/ \E m \in flight : m.client = x

TypeOK ==
  /\ registered \subseteq Bookings
  /\ row \in [Bookings -> {"none", "active", "cancelled"}]
  /\ create \in [Bookings -> {"new", "registering", "saving", "compensating",
                              "created", "failed"}]
  /\ cancel \in [Cancels -> {"idle", "cancelling", "marking"}]
  /\ target \in [Cancels -> Bookings]
  /\ flight \subseteq [op: {"register", "cancel"}, booking: Bookings,
                       client: Clients \cup {Nobody}]
  /\ reply \in [Clients -> {"none", "ok", "absent", "error"}]
  /\ mishaps \in [Bookings -> SUBSET {"register", "commit", "compensation", "crash", "cancel"}]
  /\ faults \in Nat
  /\ \A b \in Bookings : Expecting(b) => CreateWaits(b)
  /\ \A c \in Cancels : Expecting(c) => cancel[c] = "cancelling"

(* A ticket the service calls cancelled is not registered at the Provider,  *)
(* and no request in flight can register it again.                          *)
CancelledIsReleased ==
  \A b \in Bookings : row[b] = "cancelled" =>
    b \notin registered /\ Request("register", b, b) \notin flight

(* A failed POST /api/tickets leaves no registration behind unless the      *)
(* answer of the Provider was lost, the compensation failed too, or the     *)
(* process died: the failure of the database alone is made good.            *)
NoSilentOrphan ==
  \A b \in Bookings : create[b] = "failed" /\ row[b] = "none" /\ b \in registered =>
    mishaps[b] \cap {"register", "compensation", "crash"} # {}

OnItsWay(b) == \E c \in Cancels : cancel[c] # "idle" /\ target[c] = b

(* A ticket the service calls active is registered at the Provider, unless  *)
(* a cancellation is under way or was cut short, or the COMMIT of its row   *)
(* was applied although it raised.                                          *)
ActiveIsRegistered ==
  \A b \in Bookings : row[b] = "active" /\ b \notin registered =>
    OnItsWay(b) \/ mishaps[b] \cap {"commit", "cancel"} # {}

(* Cancelling again heals whatever an earlier attempt left behind           *)
(* (test_cancel_ticket_recovers_after_local_write_failure).                 *)
CancelHeals == \A b \in Bookings : (row[b] = "active") ~> (row[b] = "cancelled")

-----------------------------------------------------------------------------
(* The invariant the proofs are by induction on *)

Waits(x) == IF x \in Bookings THEN CreateWaits(x) ELSE cancel[x] = "cancelling"

RequestOf(x) ==
  IF x \in Bookings
    THEN Request(IF create[x] = "registering" THEN "register" ELSE "cancel", x, x)
    ELSE Request("cancel", target[x], x)

(* A client has one request in flight at most, the one it waits for. *)
OwnRequests ==
  \A m \in flight : m.client # Nobody =>
    m = RequestOf(m.client) /\ Waits(m.client) /\ reply[m.client] = "none"

(* A registration that was given up has no row; the cancellation of a ticket *)
(* whose row is there was given up in a way that is on record.               *)
StrayRequests ==
  \A m \in flight : m.client = Nobody =>
    LET b == m.booking IN
    IF m.op = "register"
      THEN create[b] = "failed" /\ row[b] = "none" /\ mishaps[b] \cap {"register", "crash"} # {}
      ELSE \/ "cancel" \in mishaps[b] /\ row[b] # "none"
           \/ create[b] = "failed" /\ (row[b] # "none" => "commit" \in mishaps[b])

RowsAreSaved ==
  /\ \A b \in Bookings : row[b] # "none" =>
       /\ create[b] \in {"compensating", "created", "failed"}
       /\ create[b] = "compensating" => "commit" \in mishaps[b]
  /\ \A c \in Cancels : cancel[c] # "idle" => row[target[c]] # "none"

(* What a booking has been told of its registration is still so. *)
CreateKnows ==
  \A b \in Bookings :
    /\ create[b] = "new" \/ (create[b] = "registering" /\ ~Got(b, "ok")) => b \notin registered
    /\ create[b] = "saving" \/ (create[b] = "registering" /\ Got(b, "ok")) => b \in registered
    /\ create[b] = "compensating" /\ reply[b] \in Accepted => b \notin registered

Cleared(c) == cancel[c] = "marking" \/ (cancel[c] = "cancelling" /\ reply[c] \in Accepted)

CancelKnows == \A c \in Cancels : Cleared(c) => target[c] \notin registered

(* Somebody knows why an active ticket is not registered. *)
LossIsKnown ==
  \A b \in Bookings : row[b] = "active" /\ b \notin registered =>
    \/ mishaps[b] \cap {"commit", "cancel"} # {}
    \/ \E c \in Cancels : target[c] = b /\ Cleared(c)

Inv ==
  /\ TypeOK /\ OwnRequests /\ StrayRequests /\ RowsAreSaved /\ CreateKnows /\ CancelKnows
  /\ LossIsKnown /\ CancelledIsReleased /\ NoSilentOrphan

=============================================================================
