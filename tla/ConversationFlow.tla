-------------------------- MODULE ConversationFlow --------------------------
(***************************************************************************)
(* The conversation of one phone: api/services/conversation/orchestrator.py*)
(* over the session key, its timeout watchers and their locks of           *)
(* api/services/buffer/session.py.                                         *)
(*                                                                         *)
(* A task is the handler of one input of the worker (a text or a tap on an *)
(* option) or a timeout watcher; every await is a step of its own.  A text *)
(* that is not a reply opens a block, named by its input: the debounce     *)
(* buffer (module MessageBuffer) is here the time BufferTTL between that   *)
(* text and on_buffer_close.  A key with a TTL is the number of ticks it   *)
(* has left.  A Redis command is instantaneous; a call to the LLM, to Meta,*)
(* to the ticket system or to the database takes at most CallTicks.  What  *)
(* Redis keeps of a window that was open when the process went down is not *)
(* followed here: that is MessageBuffer.                                   *)
(***************************************************************************)
EXTENDS Naturals, FiniteSets

CONSTANTS
    Inputs,       \* the worker's texts and taps, each sent at most once
    Timers,       \* names for the timeout watchers alive at the same time
    Clients,      \* client ids of the ticket system
    Priorities,   \* ids of PRIORITY_OPTIONS
    DefaultPriority,
    NoClient,     \* client_id None; also NO_CLIENT_OPTION_ID
    Text,         \* in place of a reply id: the input is a text
    NoSession,    \* no session key
    StepTimeout,  \* client_ and priority_response_timeout_seconds (both 60)
    BufferTTL, Margin, LockSlack, CallTicks,
    Faults,       \* what may go wrong outside the bot
    Restarts,     \* how the process may go down: a subset of {"crash", "stop"}
    MaxDowns,     \* bound: how often it does (a block may be filed each time)
    Worker        \* how the worker behaves: one of Workers

Steps == {"client", "priority"}
Replies == Clients \cup Priorities \cup {NoClient}

(* A patient worker waits until the bot is done with the previous input, leaves *)
(* no answer for the last moment, answers only the question that is open, and  *)
(* starts no block while it is or while a watcher of an earlier block is still *)
(* asleep.                                                                     *)
Workers == {"any", "patient"}

(* The dict in Redis: title, messages and wamids are what identifies block, *)
(* known says that it has an external_user_id.                              *)
State == [step : Steps, block : Inputs, client : Replies, known : BOOLEAN]

ASSUME FlowAssumption ==
    /\ Inputs \cap Timers = {}
    /\ DefaultPriority \in Priorities /\ NoClient \notin Clients
    /\ Text \notin Replies
    /\ NoSession \notin State \cup Inputs
    /\ StepTimeout \in Nat \ {0} /\ BufferTTL \in Nat \ {0}
    /\ Margin \in Nat \ {0} /\ LockSlack \in Nat \ {0} /\ CallTicks \in Nat \ {0}
    /\ Faults \subseteq {"lookup", "unknown", "search", "create", "lost", "send", "log"}
    /\ Restarts \subseteq {"crash", "stop"} /\ MaxDowns \in Nat
    /\ Worker \in Workers

VARIABLES
    session, sttl,   \* bot:session:<phone> and its TTL
    lock,            \* TTL of the timeout lock of each step
    pc,              \* the next step of each task
    wait,            \* what is left of a sleep, or at most of a call
    st,              \* a task's local `state`
    arg,             \* its reply_id, later its `priority`
    own,             \* a timer's expected_step, or "startup" inside lifespan
    up, downs,       \* is the process running? how often did it go down?
    offered,         \* the <<step, block>> of every list or buttons sent
    filed,           \* the ticket system: how many tickets each block has
    rows,            \* ticket_creations: how many rows a block has of each status
    chosen,          \* ghost: the replies given to the questions of a block
    tried            \* ghost: how many attempts that fit the table a block has

stored == <<session, sttl, lock>>
tasks == <<pc, wait, st, arg, own>>
outside == <<offered, filed, rows, chosen, tried>>
running == <<up, downs>>
vars == <<stored, tasks, running, outside>>

Tasks == Inputs \cup Timers
NoMargin == StepTimeout                        \* mutant of StepTTL
StepTTL == StepTimeout + Margin
LockTTL == StepTimeout + LockSlack
MaxWait == StepTimeout + BufferTTL + CallTicks

Instant == {"get", "reread", "set", "spawn", "clear", "reject", "refresh", "release"}
Calls == {"extract", "search", "offer", "send", "create", "note", "excuse", "report", "tell"}
Statuses == {"created", "failed"}
Waiting == Calls \cup {"window", "sleep"}
Live(x) == pc[x] \notin {"unsent", "done", "idle"}

TypeOK ==
    /\ session \in State \cup {NoSession}
    /\ sttl \in 0 .. StepTTL
    /\ lock \in [Steps -> 0 .. LockTTL]
    /\ pc \in [Tasks -> Instant \cup Waiting \cup {"unsent", "done", "idle"}]
    /\ wait \in [Tasks -> 0 .. MaxWait]
    /\ st \in [Tasks -> State \cup {NoSession}]
    /\ arg \in [Tasks -> Replies \cup {Text}]
    /\ own \in [Timers -> Steps \cup {"startup"}]
    /\ up \in BOOLEAN /\ downs \in 0 .. (MaxDowns + 1)
    /\ offered \subseteq Steps \X Inputs
    /\ filed \in [Inputs -> Nat]
    /\ rows \in [Inputs -> [Statuses -> Nat]]
    /\ chosen \in [Inputs -> SUBSET Replies]
    /\ tried \in [Inputs -> Nat]

Init ==
    /\ session = NoSession /\ sttl = 0
    /\ lock = [s \in Steps |-> 0]
    /\ pc = [x \in Tasks |-> IF x \in Inputs THEN "unsent" ELSE "idle"]
    /\ wait = [x \in Tasks |-> 0]
    /\ st = [x \in Tasks |-> NoSession]
    /\ arg = [x \in Tasks |-> Text]
    /\ own = [t \in Timers |-> "startup"]
    /\ up = TRUE /\ downs = 0
    /\ offered = {}
    /\ filed = [i \in Inputs |-> 0] /\ tried = [i \in Inputs |-> 0]
    /\ rows = [i \in Inputs |-> [s \in Statuses |-> 0]]
    /\ chosen = [i \in Inputs |-> {}]

-----------------------------------------------------------------------------
(* Where a task goes next. *)

Goto(x, label, ticks) ==
    /\ pc' = [pc EXCEPT ![x] = label]
    /\ wait' = [wait EXCEPT ![x] = ticks]

Step(x, label) == Goto(x, label, 0)
Call(x, label) == Goto(x, label, CallTicks)

(* The coroutine is over: a timer still has its `finally`. *)
Over(x) ==
    /\ Step(x, IF x \in Timers THEN "release" ELSE "done")
    /\ st' = [st EXCEPT ![x] = NoSession]
    /\ arg' = [arg EXCEPT ![x] = Text]

(* _ask_priority and _finish up to their first await, on the state s just read *)
(* or still in the caller's hands.                                           *)
AskPriority(x, s, client) ==
    /\ st' = [st EXCEPT ![x] = [s EXCEPT !.step = "priority", !.client = client]]
    /\ Step(x, "set")
    /\ UNCHANGED arg

Finish(x, s, priority) ==
    /\ st' = [st EXCEPT ![x] = s]
    /\ arg' = [arg EXCEPT ![x] = priority]
    /\ IF s.known THEN Call(x, "create") ELSE Step(x, "reject")

OnTimeout(t, s) ==
    IF s.step = "client" THEN AskPriority(t, s, NoClient)
                         ELSE Finish(t, s, DefaultPriority)

-----------------------------------------------------------------------------
(* The worker. *)

AnyStep(step) == session # NoSession           \* mutant of Awaiting
Awaiting(step) == session # NoSession /\ session.step = step

Serving == up /\ \A t \in Timers : own[t] = "startup" => ~Live(t)

Calm == /\ \A i \in Inputs : ~Live(i)
        /\ \A t \in Timers : Live(t) => pc[t] = "sleep" /\ wait[t] > CallTicks
        /\ session # NoSession => sttl > CallTicks

WriteText(i) ==
    /\ Serving /\ pc[i] = "unsent"
    /\ Worker = "patient" =>
          /\ Calm
          /\ \/ Awaiting("client")
             \/ session = NoSession /\ \A t \in Timers : ~Live(t)
    /\ Step(i, "get")
    /\ UNCHANGED <<stored, st, arg, own, running, outside>>

Tap(i) ==
    /\ Serving /\ pc[i] = "unsent"
    /\ \E p \in offered :
        /\ Worker = "patient" =>
              Calm /\ session # NoSession /\ p = <<session.step, session.block>>
        /\ \E v \in IF p[1] = "client" THEN Clients \cup {NoClient} ELSE Priorities :
            /\ arg' = [arg EXCEPT ![i] = v]
            /\ chosen' = [chosen EXCEPT ![p[2]] = @ \cup {v}]
    /\ Step(i, "get")
    /\ UNCHANGED <<stored, st, own, running, offered, filed, rows, tried>>

-----------------------------------------------------------------------------
(* handle_incoming_message, _handle_client_reply and on_buffer_close. *)

(* Not a reply: push_message, into the open window or into a new one. *)
Buffer(i) ==
    \/ \E j \in Inputs :
          /\ pc[j] = "window"
          /\ pc' = [pc EXCEPT ![i] = "done"]
          /\ wait' = [wait EXCEPT ![j] = BufferTTL]
    \/ /\ \A j \in Inputs : pc[j] # "window"
       /\ Goto(i, "window", BufferTTL)

IncomingMessage(i) ==
    /\ pc[i] = "get" /\ arg[i] = Text
    /\ IF Awaiting("client") THEN Step(i, "reread") ELSE Buffer(i)
    /\ UNCHANGED <<stored, st, arg, own, running, outside>>

HandleClientReply(i) ==
    /\ pc[i] = "reread"
    /\ IF Awaiting("client")
       THEN Call(i, "search") /\ st' = [st EXCEPT ![i] = session] /\ UNCHANGED arg
       ELSE Over(i)
    /\ UNCHANGED <<stored, own, running, outside>>

GuessesClient(i) ==                            \* mutant of SearchClients
    /\ pc[i] = "search"
    /\ \E c \in Clients : AskPriority(i, st[i], c)
    /\ UNCHANGED <<stored, own, running, outside>>

(* Nothing found, something found, or the search raises. *)
SearchClients(i) ==
    /\ pc[i] = "search"
    /\ \/ AskPriority(i, st[i], NoClient)
       \/ Call(i, "offer") /\ UNCHANGED <<st, arg>>
       \/ "search" \in Faults /\ Over(i)
    /\ UNCHANGED <<stored, own, running, outside>>

SendOptions(i) ==
    /\ pc[i] = "offer"
    /\ \/ offered' = offered \cup {<<"client", st[i].block>>}
       \/ "send" \in Faults /\ UNCHANGED offered
    /\ Over(i)
    /\ UNCHANGED <<stored, own, running, filed, rows, chosen, tried>>

BufferCloses(i) ==
    /\ pc[i] = "window" /\ wait[i] = 0
    /\ Call(i, "extract")
    /\ UNCHANGED <<stored, st, arg, own, running, outside>>

(* The worker is looked up (gone or not, with an external id or not) and the *)
(* title extracted.                                                          *)
OnBufferClose(i) ==
    /\ pc[i] = "extract"
    /\ \/ /\ \E known \in IF "unknown" \in Faults THEN BOOLEAN ELSE {TRUE} :
                st' = [st EXCEPT ![i] = [step |-> "client", block |-> i,
                                         client |-> NoClient, known |-> known]]
          /\ Step(i, "set")
          /\ UNCHANGED arg
       \/ "lookup" \in Faults /\ Over(i)
    /\ UNCHANGED <<stored, own, running, outside>>

IgnoresStep(i) ==                              \* mutant of InteractiveReply
    /\ pc[i] = "get" /\ arg[i] # Text
    /\ IF session = NoSession THEN Over(i) ELSE Finish(i, session, arg[i])
    /\ UNCHANGED <<stored, own, running, outside>>

(* handle_interactive_reply: the step decides what the id means. *)
InteractiveReply(i) ==
    /\ pc[i] = "get" /\ arg[i] # Text
    /\ \/ session = NoSession /\ Over(i)
       \/ Awaiting("client") /\ AskPriority(i, session, arg[i])
       \/ Awaiting("priority") /\ Finish(i, session, arg[i])
    /\ UNCHANGED <<stored, own, running, outside>>

-----------------------------------------------------------------------------
(* start_session, spawn_timeout_watcher, and the question that follows. *)

StartSession(x) ==
    /\ pc[x] = "set"
    /\ session' = st[x] /\ sttl' = StepTTL
    /\ Step(x, "spawn")
    /\ UNCHANGED <<lock, st, arg, own, running, outside>>

OneLock(step) == \E s \in Steps : lock[s] > 0   \* mutant of Locked: no step in its key
Locked(step) == lock[step] > 0

(* SET lock NX EX: the new task t only when the key was absent. *)
NewTimer(t, step, seconds) ==
    /\ ~Locked(step) /\ lock' = [lock EXCEPT ![step] = seconds + LockSlack]
    /\ pc[t] = "idle"
    /\ own' = [own EXCEPT ![t] = step]

SpawnTimer(x) ==
    /\ pc[x] = "spawn"
    /\ \/ /\ Locked(st[x].step)
          /\ Call(x, "send")
          /\ UNCHANGED <<lock, own>>
       \/ \E t \in Timers :
          /\ NewTimer(t, st[x].step, StepTimeout)
          /\ pc' = [pc EXCEPT ![x] = "send", ![t] = "sleep"]
          /\ wait' = [wait EXCEPT ![x] = CallTicks, ![t] = StepTimeout]
    /\ UNCHANGED <<session, sttl, st, arg, running, outside>>

(* The question: a text for the client, buttons for the priority. *)
SendQuestion(x) ==
    /\ pc[x] = "send"
    /\ \/ offered' = offered \cup
            (IF st[x].step = "priority" THEN {<<"priority", st[x].block>>} ELSE {})
       \/ "send" \in Faults /\ x \notin {t \in Timers : own[t] = "startup"}
          /\ UNCHANGED offered
    /\ Over(x)
    /\ UNCHANGED <<stored, own, running, filed, rows, chosen, tried>>

-----------------------------------------------------------------------------
(* _finish. *)

(* ticket_creations takes a client's id and a priority's: uuid.UUID or the *)
(* column refuses any other (deps.py:46, orm.py:98).                       *)
Fits(x) == st[x].client \in Clients \cup {NoClient} /\ arg[x] \in Priorities

OnlyCreated(x, status) ==                      \* mutant of Log
    rows' = [rows EXCEPT ![st[x].block][status] = IF status = "created" THEN @ + 1 ELSE @]

(* _log never raises: the row may be missing. *)
Log(x, status) ==
    \/ /\ Fits(x)
       /\ rows' = [rows EXCEPT ![st[x].block][status] = @ + 1]
    \/ /\ ~Fits(x) \/ "log" \in Faults
       /\ UNCHANGED rows

Attempt(x) ==
    tried' = IF Fits(x) THEN [tried EXCEPT ![st[x].block] = @ + 1] ELSE tried

File(block) == filed' = [filed EXCEPT ![block] = @ + 1]

CreateTicket(x) ==
    /\ pc[x] = "create"
    /\ \/ File(st[x].block) /\ Step(x, "clear")
       \/ /\ \/ "create" \in Faults /\ UNCHANGED filed
             \/ "lost" \in Faults /\ File(st[x].block)   \* only the answer is lost
          /\ Call(x, "note")
    /\ Attempt(x)
    /\ UNCHANGED <<stored, st, arg, own, running, offered, rows, chosen>>

LogFailed(x) ==
    /\ pc[x] = "note"
    /\ Log(x, "failed")
    /\ Step(x, "refresh")
    /\ UNCHANGED <<stored, st, arg, own, running, offered, filed, chosen, tried>>

(* After a failure the session stays, refreshed, and the buttons are sent *)
(* again; no watcher is.                                                  *)
RefreshSession(x) ==
    /\ pc[x] = "refresh"
    /\ session' = st[x] /\ sttl' = StepTTL
    /\ Call(x, "excuse")
    /\ UNCHANGED <<lock, st, arg, own, running, outside>>

(* A message of text: before the buttons, or the last thing the task does. *)
Excuse(x) ==
    /\ pc[x] = "excuse"
    /\ \/ Call(x, "send") /\ UNCHANGED <<st, arg>>
       \/ "send" \in Faults /\ Over(x)
    /\ UNCHANGED <<stored, own, running, outside>>

NotCleared(x) ==                               \* mutant of ClearSession
    /\ pc[x] \in {"clear", "reject"}
    /\ Call(x, "report")
    /\ UNCHANGED <<stored, st, arg, own, running, outside>>

(* Also when the worker has no external_user_id, and no POST was made. *)
ClearSession(x) ==
    /\ pc[x] \in {"clear", "reject"}
    /\ session' = NoSession /\ sttl' = 0
    /\ IF pc[x] = "reject" THEN Attempt(x) ELSE UNCHANGED tried
    /\ Call(x, "report")
    /\ UNCHANGED <<lock, st, arg, own, running, offered, filed, rows, chosen>>

Report(x) ==
    /\ pc[x] = "report"
    /\ Log(x, IF st[x].known THEN "created" ELSE "failed")
    /\ Call(x, "tell")
    /\ UNCHANGED <<stored, st, arg, own, running, offered, filed, chosen, tried>>

Tell(x) ==
    /\ pc[x] = "tell"
    /\ Over(x)
    /\ UNCHANGED <<stored, own, running, outside>>

-----------------------------------------------------------------------------
(* session._watch. *)

TimerFires(t) ==
    /\ pc[t] = "sleep" /\ wait[t] = 0
    /\ IF Awaiting(own[t]) THEN OnTimeout(t, session) ELSE Over(t)
    /\ UNCHANGED <<stored, own, running, outside>>

Unlock(t) == IF own[t] = "startup" THEN lock ELSE [lock EXCEPT ![own[t]] = 0]

Release(t) ==
    /\ pc[t] = "release"
    /\ lock' = Unlock(t)
    /\ own' = [own EXCEPT ![t] = "startup"]
    /\ Step(t, "idle")
    /\ UNCHANGED <<session, sttl, st, arg, running, outside>>

-----------------------------------------------------------------------------
Due(x) == pc[x] \in Instant \/ (pc[x] \in Waiting /\ wait[x] = 0)

Minus1(n) == IF n = 0 THEN 0 ELSE n - 1

Tick ==
    /\ \A x \in Tasks : ~Due(x)
    /\ sttl' = Minus1(sttl)
    /\ session' = IF sttl' = 0 THEN NoSession ELSE session
    /\ lock' = [s \in Steps |-> Minus1(lock[s])]
    /\ wait' = [x \in Tasks |-> Minus1(wait[x])]
    /\ UNCHANGED <<pc, st, arg, own, running, outside>>

(* The process goes down: every task is gone.  A kill leaves the locks, a   *)
(* graceful stop lets requests finish and cancels the watchers, whose       *)
(* `finally` deletes their locks.                                           *)
TasksGone ==
    /\ downs' = downs + 1
    /\ up' = FALSE
    /\ pc' = [x \in Tasks |-> IF ~Live(x) THEN pc[x]
                              ELSE IF x \in Inputs THEN "done" ELSE "idle"]
    /\ wait' = [x \in Tasks |-> 0]
    /\ st' = [x \in Tasks |-> NoSession]
    /\ arg' = [x \in Tasks |-> Text]
    /\ own' = [t \in Timers |-> "startup"]
    /\ UNCHANGED <<session, sttl, outside>>

LocksReleased ==
    [s \in Steps |-> IF \E t \in Timers : Live(t) /\ own[t] = s THEN 0 ELSE lock[s]]

(* Inside on_buffer_close the task is a watcher, not a request. *)
BufferTask(i) == \/ pc[i] \in {"window", "extract"}
                 \/ pc[i] \in {"set", "spawn", "send"} /\ st[i].step = "client"

Crash ==
    /\ "crash" \in Restarts /\ up /\ downs < MaxDowns
    /\ TasksGone
    /\ UNCHANGED lock

Stop ==
    /\ "stop" \in Restarts /\ Serving /\ downs < MaxDowns
    /\ \A i \in Inputs : Live(i) => BufferTask(i)
    /\ TasksGone
    /\ lock' = LocksReleased

(* on_timeout raised inside lifespan: the application does not start (bound: *)
(* one start more than MaxDowns).                                            *)
StartupFails(t) ==
    /\ "send" \in Faults /\ downs <= MaxDowns
    /\ own[t] = "startup" /\ pc[t] \in {"send", "excuse", "tell"}
    /\ TasksGone
    /\ lock' = LocksReleased

FullTTL == sttl                                \* mutant of RecoveredWait
RecoveredWait == sttl - Margin

(* recover_watchers: on time, a watcher for what is left; too late, on_timeout *)
(* at once, before any request is served.                                      *)
Restart ==
    /\ ~up /\ up' = TRUE
    /\ \/ session = NoSession /\ UNCHANGED <<lock, tasks>>
       \/ /\ session # NoSession /\ sttl <= Margin
          /\ \E t \in Timers : OnTimeout(t, session)
          /\ UNCHANGED <<lock, own>>
       \/ /\ session # NoSession /\ sttl > Margin /\ Locked(session.step)
          /\ UNCHANGED <<lock, tasks>>
       \/ /\ session # NoSession /\ sttl > Margin
          /\ \E t \in Timers :
              /\ NewTimer(t, session.step, RecoveredWait)
              /\ Goto(t, "sleep", RecoveredWait)
          /\ UNCHANGED <<st, arg>>
    /\ UNCHANGED <<session, sttl, outside, downs>>
-----------------------------------------------------------------------------
HandleInput(i) ==
    \/ WriteText(i) \/ Tap(i)
    \/ IncomingMessage(i) \/ HandleClientReply(i) \/ SearchClients(i)
    \/ SendOptions(i) \/ BufferCloses(i) \/ OnBufferClose(i) \/ InteractiveReply(i)

Ask(x) == StartSession(x) \/ SpawnTimer(x) \/ SendQuestion(x)

Create(x) == \/ CreateTicket(x) \/ LogFailed(x) \/ RefreshSession(x) \/ Excuse(x)
             \/ ClearSession(x) \/ Report(x) \/ Tell(x)

Timeout(t) == TimerFires(t) \/ Release(t) \/ StartupFails(t)

Next ==
    \/ \E i \in Inputs : HandleInput(i)
    \/ \E x \in Tasks : Ask(x) \/ Create(x)
    \/ \E t \in Timers : Timeout(t)
    \/ Tick
    \/ Crash \/ Stop \/ Restart

Spec == Init /\ [][Next]_vars

(* Time passes, and with it every sleep and every call ends.  The worker need *)
(* not write; a stopped bot is started again.                                 *)
Fairness ==
    /\ WF_vars(Tick)
    /\ WF_vars(Restart)
    /\ \A i \in Inputs : WF_vars(HandleInput(i) /\ pc[i] # "unsent")
    /\ \A x \in Tasks : WF_vars(Ask(x) \/ Create(x))
    /\ \A t \in Timers : WF_vars(Timeout(t))

FairSpec == Spec /\ Fairness

-----------------------------------------------------------------------------
(* A watcher that is still asleep will find the session it is to look at:  *)
(* the session key outlives its sleep by the whole margin, also after a    *)
(* restart and when the watcher was spawned for an earlier session.        *)
SessionOutlivesTimer ==
    \A t \in Timers : pc[t] = "sleep" /\ Awaiting(own[t]) => sttl >= wait[t] + Margin

(* Nothing is going on but sleeping watchers and open windows. *)
Idle == up /\ \A x \in Tasks : Live(x) => pc[x] \in {"sleep", "window"}

(* A question is never left without a deadline: when the bot has done what *)
(* it had to, some watcher of that step sleeps for as long as it is open.  *)
QuestionIsTimed ==
    Idle /\ session # NoSession => \E t \in Timers : pc[t] = "sleep" /\ own[t] = session.step

(* The tasks that made an attempt on the block and owe its row. *)
Owing(b) ==
    {x \in Tasks : pc[x] \in {"clear", "note", "report"} /\ Fits(x) /\ st[x].block = b}

(* orm.py:81-83: the row is written also when the creation fails.  Every   *)
(* attempt has a row of its own, or a task that is about to write it: the  *)
(* second ticket of a block, a creation that failed or whose answer was    *)
(* lost, a worker turned down.  Not those whose ids the table refuses, and *)
(* not what a process that went down had in hand.                          *)
AuditTrail ==
    downs = 0 => \A b \in Inputs :
        rows[b]["created"] + rows[b]["failed"] + Cardinality(Owing(b)) = tried[b]

(* docs/bot-diseno-flujo-cliente.md:19: a block becomes one ticket. *)
OneTicketPerBlock == \A b \in Inputs : filed[b] <= 1

Posts(x) == pc[x] = "create" /\ pc'[x] # "create"

(* orchestrator.py:175-177: a client wrongly assigned in silence is worse  *)
(* than none.  The client of a ticket was chosen by the worker for the     *)
(* very block the ticket is made of.                                       *)
ClientChosenForBlock ==
    [][ \A x \in Tasks : Posts(x) /\ st[x].client \in Clients
          => st[x].client \in chosen[st[x].block] ]_vars

(* orchestrator.py:112-114: the id that comes back is the one the bot put  *)
(* there, a client's or a priority's.  None is posted as the other.        *)
IdsKeepTheirKind ==
    [][ \A x \in Tasks : Posts(x) =>
          /\ arg[x] \in Priorities
          /\ st[x].client \in Clients \cup {NoClient} ]_vars

(* session.py:45-47: a watcher acts once its wait is over, and does nothing*)
(* when the worker already answered.  A session it acts on is at the end   *)
(* of its own time.                                                        *)
TimeoutNotEarly ==
    [][ \A t \in Timers : pc[t] = "sleep" /\ pc'[t] \in {"set", "create", "reject"}
          => sttl <= Margin ]_vars

(* Whatever the worker answers, or if he never does, a block whose first   *)
(* question was asked gets its ticket.                                     *)
EveryBlockFiled ==
    \A b \in Inputs : (session # NoSession /\ session.block = b) ~> (filed[b] > 0)

(* With a patient worker, and a ticket system that accepts tickets, the    *)
(* tasks, keys and timers implement a Dialogue.                            *)
D == INSTANCE Dialogue WITH
        Blocks <- Inputs,
        Nothing <- NoSession,
        current <- IF session = NoSession THEN NoSession ELSE session.block,
        step <- IF session = NoSession THEN "client" ELSE session.step
IsDialogue == D!Spec
=============================================================================
