---------------------------- MODULE WebhookIntake ----------------------------
(***************************************************************************)
(* POST /webhook (api/routes/webhook.py): Meta delivers a payload of       *)
(* messages until it gets a 200, and may deliver it again while an earlier *)
(* delivery is still being served.  A request stores every message of a    *)
(* whitelisted worker in raw_messages, answers, and only then runs, one    *)
(* after the other, the background tasks it gathered.                      *)
(*                                                                         *)
(* Every query of a request is a step of its own.  Signature, unread       *)
(* fields and incomplete messages are not modelled: they change no state.  *)
(***************************************************************************)
EXTENDS Naturals, Sequences

CONSTANTS
    Messages,     \* named by their wamid
    Payloads,     \* the sequences of messages Meta delivers
    Allowed,      \* the messages whose sender is an active worker
    Requests,     \* names for the requests served at the same time
    Faults,       \* what may fail: "lookup", "commit", "process", "answer"
    MaxFaults,    \* bound: how often something does
    MaxCrashes    \* bound: how often the process is killed

ASSUME IntakeAssumption ==
    /\ Payloads \subseteq Seq(Messages)
    /\ Allowed \subseteq Messages
    /\ Faults \subseteq {"lookup", "commit", "process", "answer"}
    /\ MaxFaults \in Nat /\ MaxCrashes \in Nat

VARIABLES
    stored,       \* the wamids in raw_messages
    acked,        \* the payloads Meta has got a 200 for
    pc,           \* the next step of each request
    load, todo,   \* its payload, and what is left of it to go through
    queue,        \* its background tasks
    handled,      \* how often _process_message began with each message
    faults, crashes

request == <<pc, load, todo, queue>>
bounds == <<faults, crashes>>
vars == <<stored, acked, request, handled, bounds>>

TypeOK ==
    /\ stored \in SUBSET Messages
    /\ acked \in SUBSET Payloads
    /\ pc \in [Requests -> {"idle", "select", "lookup", "commit", "answer", "process"}]
    /\ load \in [Requests -> Seq(Messages)]
    /\ todo \in [Requests -> Seq(Messages)]
    /\ queue \in [Requests -> Seq(Allowed)]
    /\ handled \in [Messages -> Nat]
    /\ faults \in 0 .. MaxFaults /\ crashes \in 0 .. MaxCrashes

Init ==
    /\ pc = [r \in Requests |-> "idle"]
    /\ load = [r \in Requests |-> <<>>]
    /\ todo = [r \in Requests |-> <<>>]
    /\ queue = [r \in Requests |-> <<>>]
    /\ stored = {} /\ acked = {}
    /\ handled = [m \in Messages |-> 0]
    /\ faults = 0 /\ crashes = 0

-----------------------------------------------------------------------------
Fault(kind) == kind \in Faults /\ faults < MaxFaults /\ faults' = faults + 1

Goto(r, label) == pc' = [pc EXCEPT ![r] = label]

(* An exception: 500, and the background tasks are never run. *)
Fails(r) ==
    /\ Goto(r, "idle")
    /\ todo' = [todo EXCEPT ![r] = <<>>]
    /\ queue' = [queue EXCEPT ![r] = <<>>]

(* On to the next message, or out of the loop. *)
NextMessage(r) ==
    /\ todo' = [todo EXCEPT ![r] = Tail(@)]
    /\ Goto(r, IF Len(todo[r]) = 1 THEN "answer" ELSE "select")

Deliver(r, p) ==
    /\ pc[r] = "idle" /\ p # <<>>
    /\ load' = [load EXCEPT ![r] = p]
    /\ todo' = [todo EXCEPT ![r] = p]
    /\ Goto(r, "select")
    /\ UNCHANGED <<stored, acked, queue, handled, bounds>>

SelectExisting(r) ==
    /\ pc[r] = "select"
    /\ IF Head(todo[r]) \in stored
       THEN NextMessage(r)
       ELSE Goto(r, "lookup") /\ UNCHANGED todo
    /\ UNCHANGED <<stored, acked, load, queue, handled, bounds>>

AnySender(r) ==                                \* mutant of LookupWorker
    /\ pc[r] = "lookup"
    /\ Goto(r, "commit")
    /\ UNCHANGED <<stored, acked, load, todo, queue, handled, bounds>>

(* active_worker_by_phone_stmt: none, one, or an exception. *)
LookupWorker(r) ==
    /\ pc[r] = "lookup"
    /\ \/ /\ Head(todo[r]) \notin Allowed /\ NextMessage(r)
          /\ UNCHANGED <<queue, faults>>
       \/ /\ Head(todo[r]) \in Allowed /\ Goto(r, "commit")
          /\ UNCHANGED <<todo, queue, faults>>
       \/ Fault("lookup") /\ Fails(r)
    /\ UNCHANGED <<stored, acked, load, handled, crashes>>

Unchecked(m) == TRUE                           \* mutant of Unique
Unique(m) == m \notin stored

Swallowed(r) ==                                \* mutant of StoreAndSchedule
    /\ pc[r] = "commit"
    /\ \/ /\ Unique(Head(todo[r]))
          /\ stored' = stored \cup {Head(todo[r])}
          /\ queue' = [queue EXCEPT ![r] = Append(@, Head(todo[r]))]
          /\ UNCHANGED faults
       \/ Fault("commit") /\ UNCHANGED <<stored, queue>>
    /\ NextMessage(r)
    /\ UNCHANGED <<acked, load, handled, crashes>>

(* INSERT and COMMIT, then add_task; a wamid that is there by now makes an *)
(* IntegrityError.                                                         *)
StoreAndSchedule(r) ==
    /\ pc[r] = "commit"
    /\ \/ /\ Unique(Head(todo[r]))
          /\ stored' = stored \cup {Head(todo[r])}
          /\ queue' = [queue EXCEPT ![r] = Append(@, Head(todo[r]))]
          /\ NextMessage(r)
          /\ UNCHANGED faults
       \/ ~Unique(Head(todo[r])) /\ Fails(r) /\ UNCHANGED <<stored, faults>>
       \/ Fault("commit") /\ Fails(r) /\ UNCHANGED stored
    /\ UNCHANGED <<acked, load, handled, crashes>>

(* The 200; on its way to Meta it may be lost. *)
Answer(r) ==
    /\ pc[r] = "answer"
    /\ \/ acked' = acked \cup {load[r]} /\ UNCHANGED faults
       \/ Fault("answer") /\ UNCHANGED acked
    /\ Goto(r, "process")
    /\ UNCHANGED <<stored, load, todo, queue, handled, crashes>>

(* BackgroundTasks: in order; the first one that raises is the last one. *)
Process(r) ==
    /\ pc[r] = "process" /\ queue[r] # <<>>
    /\ handled' = [handled EXCEPT ![Head(queue[r])] = @ + 1]
    /\ \/ /\ queue' = [queue EXCEPT ![r] = Tail(@)]
          /\ UNCHANGED <<pc, todo, faults>>
       \/ Fault("process") /\ Fails(r)
    /\ UNCHANGED <<stored, acked, load, crashes>>

Done(r) ==
    /\ pc[r] = "process" /\ queue[r] = <<>>
    /\ Goto(r, "idle")
    /\ UNCHANGED <<stored, acked, load, todo, queue, handled, bounds>>

(* The process is killed and started again: what it held in memory is gone. *)
Crash ==
    /\ crashes < MaxCrashes /\ crashes' = crashes + 1
    /\ pc' = [r \in Requests |-> "idle"]
    /\ todo' = [r \in Requests |-> <<>>]
    /\ queue' = [r \in Requests |-> <<>>]
    /\ UNCHANGED <<load, stored, acked, handled, faults>>

Serve(r) ==
    \/ SelectExisting(r) \/ LookupWorker(r) \/ StoreAndSchedule(r)
    \/ Answer(r) \/ Process(r) \/ Done(r)

Next ==
    \/ \E r \in Requests : Serve(r)
    \/ \E r \in Requests, p \in Payloads : Deliver(r, p)
    \/ Crash

Spec == Init /\ [][Next]_vars

(* A request is served to its end, and Meta delivers a payload again and   *)
(* again until it is acknowledged; that a name in Requests is free at that *)
(* moment is no merit of the code, whence the strong form.                 *)
Fairness ==
    /\ \A r \in Requests : WF_vars(Serve(r))
    /\ \A p \in Payloads : SF_vars(p \notin acked /\ \E r \in Requests : Deliver(r, p))

FairSpec == Spec /\ Fairness

-----------------------------------------------------------------------------
(* test_ticket_lifecycle.py:411: however often Meta delivers a message, one *)
(* after the other or at once, it enters the conversation at most once.     *)
ProcessedOnce == \A m \in Messages : handled[m] <= 1

(* Meta is told 200 only when every message of a worker in the payload is  *)
(* in raw_messages, whichever delivery put it there.                       *)
AckedIsStored ==
    \A p \in acked : \A i \in 1 .. Len(p) : p[i] \in Allowed => p[i] \in stored

(* A message delivered by itself gets into the conversation, whatever      *)
(* fails before it is stored, as long as the process is not killed.        *)
Alone(m) == \A p \in Payloads : (\E i \in 1 .. Len(p) : p[i] = m) => p = <<m>>
Delivered(m) == \E p \in Payloads : \E i \in 1 .. Len(p) : p[i] = m

EveryMessageHandled ==
    \A m \in Allowed : Delivered(m) /\ Alone(m) => <>(handled[m] > 0 \/ crashes > 0)

(* webhook.py:123: a wamid that is already there was processed ("ya        *)
(* procesado"), or is about to be.                                         *)
Skips(r) == pc[r] = "select" /\ todo'[r] # todo[r] /\ pc'[r] # "idle"

SkippedIsProcessed ==
    [][ \A r \in Requests : Skips(r) =>
          \/ handled[Head(todo[r])] > 0
          \/ \E s \in Requests : \E i \in 1 .. Len(queue[s]) : queue[s][i] = Head(todo[r]) ]_vars
=============================================================================
