------------------------------ MODULE Pipeline ------------------------------
(***************************************************************************)
(* The way of a text from Meta to an open block: the requests of           *)
(* WebhookIntake, whose background tasks push into MessageBuffer, whose    *)
(* watchers hand the block to on_buffer_close.  One phone.                 *)
(*                                                                         *)
(* Neither module can say alone what becomes of a message that is in       *)
(* raw_messages: the one ends where _process_message begins, the other     *)
(* begins there and takes on_close for granted.  A task blocks the next    *)
(* one of its request; while the session awaits the client its text is a   *)
(* search and is not pushed; a push may fail half way, on_buffer_close may *)
(* raise or drop the block, and one kill hits all of them.                 *)
(***************************************************************************)
EXTENDS Naturals, Sequences

CONSTANTS
    Messages, Payloads, Allowed, Requests,           \* of WebhookIntake
    Watchers, BufferTTL, Margin, LockSlack,          \* of MessageBuffer
    NoTask,
    Faults,       \* those of WebhookIntake, "task" and "close"
    MaxFaults, MaxCrashes

ASSUME PipelineAssumption ==
    /\ Payloads \subseteq Seq(Messages) /\ Allowed \subseteq Messages
    /\ BufferTTL \in Nat \ {0} /\ Margin \in Nat \ {0} /\ LockSlack \in Nat \ {0}
    /\ NoTask \notin Messages
    /\ Faults \subseteq {"lookup", "commit", "process", "answer", "task", "close"}
    /\ MaxFaults \in Nat /\ MaxCrashes \in Nat

VARIABLES
    stored, acked, pc, load, todo, queue, handled, faults, crashes,
    list, listTTL, marker, lock, sender, watcher, wait, entries, up, handed,
    quiet, lapsed,
    task,        \* the message whose push a request is running
    reply,       \* the message a request is going to search a client for
    asking,      \* is there a session, and does it await the client?
    begun,       \* the watchers whose on_buffer_close has written the session
    opened,      \* the messages of the blocks that got a session
    taken,       \* ghost: the messages that are no part of a block
    lost,        \* ghost: why a message will not, if it is known by now
    overlapped   \* ghost: a message was pushed while a block was being closed

W == INSTANCE WebhookIntake WITH
        Faults <- Faults \ {"task", "close"}

B == INSTANCE MessageBuffer WITH
        Restarts <- {"crash"}, QuietClose <- FALSE, pc <- watcher

request == <<pc, load, todo, queue>>
intake == <<stored, acked, request, handled, faults, crashes>>
keys == <<list, listTTL, marker, lock>>
buffer == <<keys, sender, watcher, wait, entries, up, handed, quiet, lapsed>>
conversation == <<asking, begun, opened>>
ghosts == <<taken, lost, overlapped>>
vars == <<intake, buffer, task, reply, conversation, ghosts>>

Causes == {"request", "task", "moved", "race", "expired", "close", "crash"}

Busy(r) == task[r] # NoTask \/ reply[r] # NoTask

TypeOK ==
    /\ task \in [Requests -> Messages \cup {NoTask}]
    /\ reply \in [Requests -> Messages \cup {NoTask}]
    /\ asking \in BOOLEAN /\ begun \in SUBSET Watchers
    /\ opened \in SUBSET Messages /\ taken \in SUBSET Messages
    /\ lost \in [Messages -> {"no"} \cup Causes]
    /\ overlapped \in BOOLEAN
    /\ \A r \in Requests : Busy(r) => pc[r] = "process"
    /\ \A r \in Requests : task[r] = NoTask \/ reply[r] = NoTask
    /\ W!TypeOK /\ B!TypeOK

Init ==
    /\ W!Init /\ B!Init
    /\ task = [r \in Requests |-> NoTask] /\ reply = task
    /\ asking = FALSE /\ begun = {} /\ opened = {}
    /\ taken = {} /\ overlapped = FALSE
    /\ lost = [m \in Messages |-> "no"]

-----------------------------------------------------------------------------
Fault(kind) == kind \in Faults /\ faults < MaxFaults /\ faults' = faults + 1

Queued(r) == {queue[r][i] : i \in 1 .. Len(queue[r])}

Lose(messages, cause) ==
    lost' = [m \in Messages |-> IF m \in messages THEN cause ELSE lost[m]]

(* Meta repeats a payload until it has a 200 for it, also while an earlier  *)
(* delivery is being served.                                                *)
Deliver(r, p) ==
    /\ up /\ p \notin acked
    /\ W!Deliver(r, p)
    /\ UNCHANGED <<buffer, task, reply, conversation, ghosts>>

(* When it fails, what it had stored is never processed. *)
Intake(r) ==
    /\ W!SelectExisting(r) \/ W!LookupWorker(r) \/ W!StoreAndSchedule(r) \/ W!Answer(r)
    /\ Lose(IF queue'[r] = <<>> THEN Queued(r) ELSE {}, "request")
    /\ UNCHANGED <<buffer, task, reply, conversation, taken, overlapped>>

(* The next background task, up to its first reading of the session: it is *)
(* no text or a blank one, the answer to "which client?", a message to     *)
(* push, or it raises.  What Meta sent is known here only by its kind.     *)
BeginTask(r) ==
    /\ ~Busy(r)
    /\ W!Process(r)
    /\ \/ /\ pc'[r] = "process"
          /\ taken' = taken \cup {Head(queue[r])}
          /\ UNCHANGED <<task, reply, lost>>
       \/ /\ pc'[r] = "process" /\ asking
          /\ reply' = [reply EXCEPT ![r] = Head(queue[r])]
          /\ UNCHANGED <<task, taken, lost>>
       \/ /\ pc'[r] = "process" /\ ~asking
          /\ task' = [task EXCEPT ![r] = Head(queue[r])]
          /\ UNCHANGED <<reply, taken, lost>>
       \/ /\ pc'[r] = "idle" /\ Lose(Queued(r), "request")
          /\ UNCHANGED <<task, reply, taken>>
    /\ UNCHANGED <<buffer, conversation, overlapped>>

(* _handle_client_reply reads the session again, and when it has moved on  *)
(* by now the text is neither searched for nor pushed.                     *)
HandleClientReply(r) ==
    /\ reply[r] # NoTask
    /\ \/ asking /\ taken' = taken \cup {reply[r]} /\ UNCHANGED lost
       \/ ~asking /\ Lose({reply[r]}, "moved") /\ UNCHANGED taken
    /\ reply' = [reply EXCEPT ![r] = NoTask]
    /\ UNCHANGED <<intake, buffer, task, conversation, overlapped>>

Push(r) ==
    /\ task[r] # NoTask
    /\ B!Push(task[r])
    /\ task' = IF sender'[task[r]] = "done" THEN [task EXCEPT ![r] = NoTask] ELSE task
    /\ overlapped' = (overlapped \/ (list' # list /\ \E w \in Watchers : B!Closing(w)))
    /\ UNCHANGED <<intake, reply, conversation, taken, lost>>

(* A Redis command raises, or the search: the rest of the task, and of the *)
(* queue, is not run.                                                      *)
PushFails(r) ==
    /\ task[r] # NoTask
    /\ Fault("task")
    /\ W!Fails(r)
    /\ sender' = [sender EXCEPT ![task[r]] = "killed"]
    /\ Lose(Queued(r) \cup (IF sender[task[r]] = "unsent" THEN {task[r]} ELSE {}), "task")
    /\ task' = [task EXCEPT ![r] = NoTask]
    /\ UNCHANGED <<stored, acked, load, handled, crashes, keys, watcher, wait, entries, up, handed,
                   quiet, lapsed, reply, conversation, taken, overlapped>>

ReplyFails(r) ==
    /\ reply[r] # NoTask
    /\ Fault("task")
    /\ W!Fails(r)
    /\ Lose(Queued(r) \cup {reply[r]}, "task")
    /\ reply' = [reply EXCEPT ![r] = NoTask]
    /\ UNCHANGED <<stored, acked, load, handled, crashes, buffer, task, conversation, taken,
                   overlapped>>

NotAwaited(r) ==                               \* mutant of EndRequest
    /\ W!Done(r)
    /\ UNCHANGED <<buffer, task, reply, conversation, ghosts>>

EndRequest(r) ==
    /\ ~Busy(r)
    /\ W!Done(r)
    /\ UNCHANGED <<buffer, task, reply, conversation, ghosts>>

Watch(w) ==
    /\ \/ /\ B!SleepAgain(w) \/ B!WindowClosed(w) \/ B!LRange(w) \/ B!Release(w)
          /\ UNCHANGED lost
       \/ B!DeleteAndHandOver(w) /\ Lose(list \ entries[w], "race")
    /\ UNCHANGED <<intake, task, reply, conversation, taken, overlapped>>

KeepsOpenSession(w) ==                         \* mutant of OpenSession
    /\ watcher[w] = "close" /\ w \notin begun
    /\ begun' = begun \cup {w} /\ asking' = TRUE
    /\ opened' = IF asking THEN opened ELSE opened \cup entries[w]
    /\ UNCHANGED <<intake, buffer, task, reply, ghosts>>

(* on_buffer_close: start_session, whatever session there was ... *)
OpenSession(w) ==
    /\ watcher[w] = "close" /\ w \notin begun
    /\ begun' = begun \cup {w} /\ asking' = TRUE
    /\ opened' = opened \cup entries[w]
    /\ UNCHANGED <<intake, buffer, task, reply, ghosts>>

(* ... and its end, which comes before that when the worker is not found or *)
(* something raises.                                                        *)
CloseBlock(w) ==
    /\ B!FinishClose(w)
    /\ \/ w \in begun /\ UNCHANGED <<lost, faults>>
       \/ w \notin begun /\ Fault("close") /\ Lose(entries[w], "close")
    /\ begun' = begun \ {w}
    /\ UNCHANGED <<stored, acked, request, handled, crashes, task, reply, asking, opened, taken,
                   overlapped>>

(* What ConversationFlow does to the session: an answer or a timeout moves *)
(* it on, a ticket or its TTL ends it.                                     *)
MoveOn ==
    /\ asking /\ asking' = FALSE
    /\ UNCHANGED <<intake, buffer, task, reply, begun, opened, ghosts>>

Tick ==
    /\ B!Tick
    /\ Lose(list \ list', "expired")
    /\ UNCHANGED <<intake, task, reply, conversation, taken, overlapped>>

(* What only the process knew of: the tasks that have not pushed yet and    *)
(* the blocks that have no session yet.                                     *)
InMemory ==
    (UNION {Queued(r) : r \in Requests})
      \cup {m \in Messages : sender[m] = "unsent" /\ \E r \in Requests : task[r] = m}
      \cup {m \in Messages : \E r \in Requests : reply[r] = m}
      \cup (UNION {entries[w] : w \in {v \in Watchers : watcher[v] = "close" /\ v \notin begun}})

Crash ==
    /\ W!Crash /\ B!Crash
    /\ Lose(InMemory, "crash")
    /\ task' = [r \in Requests |-> NoTask] /\ reply' = task'
    /\ begun' = {}
    /\ UNCHANGED <<asking, opened, taken, overlapped>>

Restart == B!Restart /\ UNCHANGED <<intake, task, reply, conversation, ghosts>>

-----------------------------------------------------------------------------
Serve(r) == Intake(r) \/ BeginTask(r) \/ HandleClientReply(r) \/ Push(r) \/ EndRequest(r)

Close(w) == Watch(w) \/ OpenSession(w) \/ CloseBlock(w)

Next ==
    \/ \E r \in Requests, p \in Payloads : Deliver(r, p)
    \/ \E r \in Requests : Serve(r) \/ PushFails(r) \/ ReplyFails(r)
    \/ \E w \in Watchers : Close(w)
    \/ MoveOn \/ Tick \/ Crash \/ Restart

Spec == Init /\ [][Next]_vars

(* As in the two modules: requests and watchers are served, time passes     *)
(* and a killed bot is started again.  The session need not move on.        *)
Fairness ==
    /\ \A r \in Requests : WF_vars(Serve(r))
    /\ \A w \in Watchers : WF_vars(Close(w))
    /\ WF_vars(Tick) /\ WF_vars(Restart)

FairSpec == Spec /\ Fairness

-----------------------------------------------------------------------------
(* Where a message is on its way. *)
OnItsWay(m) ==
    \/ \E r \in Requests : m \in Queued(r) \/ task[r] = m \/ reply[r] = m
    \/ m \in list
    \/ \E w \in Watchers : watcher[w] = "close" /\ m \in entries[w]

(* A message that is in raw_messages, and that Meta need not deliver again, *)
(* is on its way, has a session, was no part of a block (an answer to the   *)
(* question for the client, a tap, a blank), or was lost for a cause the    *)
(* module names.                                                            *)
Accounted ==
    \A m \in stored : OnItsWay(m) \/ m \in opened \/ m \in taken \/ lost[m] # "no"

(* What MessageBuffer takes for granted, "each pushed at most once", the    *)
(* webhook keeps: a message that is queued has not been pushed, and the     *)
(* push of a message is in the hands of one request.                        *)
PushedByOne ==
    \A r \in Requests :
        /\ \A m \in Queued(r) : sender[m] = "unsent" /\ \A s \in Requests : task[s] # m
        /\ \A s \in Requests \ {r} : task[r] # NoTask => task[r] # task[s]

(* Nothing fails from outside and nobody writes while a block is being      *)
(* closed: every text that gets into raw_messages gets into a block with a  *)
(* session or answers the question for the client, but for two causes: a    *)
(* later message of its payload was stored by another delivery in between,  *)
(* which fails its request with an IntegrityError; or it was written as the *)
(* answer just when the session moved on.                                   *)
Calm == faults = 0 /\ crashes = 0 /\ ~overlapped

EndToEnd ==
    \A m \in Messages :
      m \in stored ~> m \in opened \/ m \in taken \/ lost[m] \in {"request", "moved"} \/ ~Calm

(* Of the seven causes a calm system knows those two only: the list        *)
(* outlives the sleep of the watcher that will read it, what is deleted    *)
(* has been read, and no push that ends finds a lock without a watcher,    *)
(* even after a lock has lapsed (message_buffer.py:16-22, 57 and 79-80).   *)
CalmLosesNothing == Calm => \A m \in Messages : lost[m] \in {"no", "request", "moved"}

(* Whatever fails, no message hangs for ever between the two, but in a list *)
(* that never got its TTL because the process was killed before EXPIRE.     *)
Immortal(m) == m \in list /\ listTTL = B!Persistent /\ sender[m] = "killed"

Settled ==
    \A m \in Messages :
      m \in stored ~> m \in opened \/ m \in taken \/ lost[m] # "no" \/ Immortal(m)
=============================================================================
