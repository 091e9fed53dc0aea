----------------------- MODULE ConversationFlowProofs -----------------------
(***************************************************************************)
(* Theorems of ConversationFlow, for any inputs, timers, clients and       *)
(* priorities, any worker, any faults and restarts, and every value of the *)
(* timeouts and TTLs.                                                      *)
(***************************************************************************)
EXTENDS ConversationFlow, FiniteSetTheorems, TLAPS

(* From these steps on a task holds a state in its hands: the types alone  *)
(* are not inductive, a task with no state would write NoSession back.     *)
Holding == {"search", "offer", "set", "spawn", "send", "create", "note", "refresh", "excuse",
            "clear", "reject", "report", "tell"}
Held == \A x \in Tasks : pc[x] \in Holding => st[x] \in State

TypeInv == TypeOK /\ Held

Labels == Instant \cup Waiting \cup {"unsent", "done", "idle"}

LEMMA StateFields ==
    ASSUME NEW s \in State
    PROVE  /\ s # NoSession /\ s.step \in Steps /\ s.block \in Inputs
           /\ \A c \in Replies : [s EXCEPT !.step = "priority", !.client = c] \in State
BY FlowAssumption DEF State, Steps

(* A step of one task, which has a state in its hands if it needs one. *)
LEMMA GotoType ==
    ASSUME TypeInv, NEW x \in Tasks, NEW label \in Labels, NEW ticks \in 0 .. MaxWait,
           Goto(x, label, ticks), \A y \in Tasks \ {x} : st'[y] = st[y],
           label \in Holding => st'[x] \in State
    PROVE  pc' \in [Tasks -> Labels] /\ wait' \in [Tasks -> 0 .. MaxWait] /\ Held'
<1>1. pc \in [Tasks -> Labels] /\ wait \in [Tasks -> 0 .. MaxWait]
  BY DEF TypeInv, TypeOK, Labels
<1>2. pc'[x] = label /\ \A y \in Tasks \ {x} : pc'[y] = pc[y]
  BY <1>1 DEF Goto
<1> HIDE DEF Holding
<1>3. Held'
  BY <1>2 DEF TypeInv, Held
<1> QED
  BY <1>1, <1>3 DEF Goto

LEMMA TicksAreWithin ==
    CallTicks \in 0 .. MaxWait /\ BufferTTL \in 0 .. MaxWait /\ 0 \in 0 .. MaxWait
BY FlowAssumption DEF MaxWait

(* Where Over, AskPriority and Finish leave a task, and with what. *)
LEMMA OverType ==
    ASSUME TypeInv, NEW x \in Tasks, Over(x)
    PROVE  /\ pc' \in [Tasks -> Labels] /\ wait' \in [Tasks -> 0 .. MaxWait]
           /\ st' \in [Tasks -> State \cup {NoSession}]
           /\ arg' \in [Tasks -> Replies \cup {Text}]
           /\ Held'
BY FlowAssumption DEF TypeInv, TypeOK, Held, Over, Step, Goto, Holding, Labels, Instant, MaxWait

LEMMA AskPriorityType ==
    ASSUME TypeInv, NEW x \in Tasks, NEW s \in State, NEW c \in Replies, AskPriority(x, s, c)
    PROVE  /\ pc' \in [Tasks -> Labels] /\ wait' \in [Tasks -> 0 .. MaxWait]
           /\ st' \in [Tasks -> State \cup {NoSession}]
           /\ arg' \in [Tasks -> Replies \cup {Text}]
           /\ Held'
<1>1. [s EXCEPT !.step = "priority", !.client = c] \in State
  BY StateFields
<1> QED
  BY <1>1, FlowAssumption
  DEF TypeInv, TypeOK, Held, AskPriority, Step, Goto, Holding, Labels, Instant, MaxWait

LEMMA FinishType ==
    ASSUME TypeInv, NEW x \in Tasks, NEW s \in State, NEW p \in Replies, Finish(x, s, p)
    PROVE  /\ pc' \in [Tasks -> Labels] /\ wait' \in [Tasks -> 0 .. MaxWait]
           /\ st' \in [Tasks -> State \cup {NoSession}]
           /\ arg' \in [Tasks -> Replies \cup {Text}]
           /\ Held'
<1>1. st' = [st EXCEPT ![x] = s] /\ arg' = [arg EXCEPT ![x] = p]
  BY DEF Finish
<1>2. st' \in [Tasks -> State \cup {NoSession}] /\ st'[x] \in State
      /\ \A y \in Tasks \ {x} : st'[y] = st[y]
  BY <1>1 DEF TypeInv, TypeOK
<1>3. arg' \in [Tasks -> Replies \cup {Text}]
  BY <1>1 DEF TypeInv, TypeOK
<1>4. Goto(x, "create", CallTicks) \/ Goto(x, "reject", 0)
  BY DEF Finish, Step, Call
<1>5. "create" \in Labels /\ "reject" \in Labels
  BY DEF Labels, Waiting, Calls, Instant
<1> QED
  BY <1>2, <1>3, <1>4, <1>5, GotoType, TicksAreWithin

LEMMA OnTimeoutType ==
    ASSUME TypeInv, NEW x \in Tasks, NEW s \in State, OnTimeout(x, s)
    PROVE  /\ pc' \in [Tasks -> Labels] /\ wait' \in [Tasks -> 0 .. MaxWait]
           /\ st' \in [Tasks -> State \cup {NoSession}]
           /\ arg' \in [Tasks -> Replies \cup {Text}]
           /\ Held'
<1>1. NoClient \in Replies /\ DefaultPriority \in Replies
  BY FlowAssumption DEF Replies
<1> QED
  BY <1>1, AskPriorityType, FinishType DEF OnTimeout

-----------------------------------------------------------------------------
LEMMA InputStep ==
    ASSUME TypeInv, NEW i \in Inputs, HandleInput(i)
    PROVE  TypeInv'
<1> USE FlowAssumption DEF TypeInv
<1>0. i \in Tasks
  BY DEF Tasks
<1>1. CASE WriteText(i)
  BY <1>0, <1>1 DEF WriteText, Step, Goto, TypeOK, Held, Holding, Instant, MaxWait, stored, running, outside
<1>2. CASE Tap(i)
  <2>1. PICK p \in offered : \E v \in IF p[1] = "client" THEN Clients \cup {NoClient} ELSE Priorities :
            /\ arg' = [arg EXCEPT ![i] = v]
            /\ chosen' = [chosen EXCEPT ![p[2]] = @ \cup {v}]
    BY <1>2 DEF Tap
  <2>2. PICK v \in Replies : /\ arg' = [arg EXCEPT ![i] = v]
                             /\ chosen' = [chosen EXCEPT ![p[2]] = @ \cup {v}]
    BY <2>1 DEF Replies
  <2>3. p[2] \in Inputs
    BY DEF TypeOK
  <2>4. arg' \in [Tasks -> Replies \cup {Text}] /\ chosen' \in [Inputs -> SUBSET Replies]
    BY <1>0, <2>2, <2>3 DEF TypeOK
  <2> QED
    BY <1>0, <1>2, <2>4 DEF Tap, Step, Goto, TypeOK, Held, Holding, Instant, MaxWait, stored, running
<1>3. CASE IncomingMessage(i)
  <2>1. CASE Step(i, "reread")
    <3>1. "reread" \in Labels \ Holding
      BY DEF Labels, Instant, Holding
    <3> QED
      BY <1>0, <1>3, <2>1, <3>1, GotoType, TicksAreWithin
      DEF IncomingMessage, Step, TypeOK, Labels, stored, running, outside
  <2>2. CASE Goto(i, "window", BufferTTL)
    <3>1. "window" \in Labels \ Holding
      BY DEF Labels, Waiting, Holding
    <3> QED
      BY <1>0, <1>3, <2>2, <3>1, GotoType, TicksAreWithin
      DEF IncomingMessage, TypeOK, Labels, stored, running, outside
  <2>3. ASSUME NEW j \in Inputs, pc' = [pc EXCEPT ![i] = "done"],
               wait' = [wait EXCEPT ![j] = BufferTTL]
        PROVE  TypeInv'
    <3>1. pc' \in [Tasks -> Labels] /\ wait' \in [Tasks -> 0 .. MaxWait]
      BY <2>3, TicksAreWithin DEF TypeOK, Labels
    <3>2. Held'
      BY <1>0, <1>3, <2>3 DEF IncomingMessage, Held, Holding, TypeOK
    <3> QED
      BY <1>3, <3>1, <3>2 DEF IncomingMessage, TypeOK, Labels, stored, running, outside
  <2> QED
    BY <1>3, <2>1, <2>2, <2>3 DEF IncomingMessage, Buffer
<1>4. CASE HandleClientReply(i)
  <2>1. CASE Awaiting("client") /\ Call(i, "search") /\ st' = [st EXCEPT ![i] = session] /\ UNCHANGED arg
    <3>1. "search" \in Labels
      BY DEF Labels, Waiting, Calls
    <3>2. session \in State
      BY <2>1 DEF Awaiting, TypeOK
    <3>3. st' \in [Tasks -> State \cup {NoSession}] /\ st'[i] \in State
          /\ \A y \in Tasks \ {i} : st'[y] = st[y]
      BY <1>0, <2>1, <3>2 DEF TypeOK
    <3> QED
      BY <1>0, <1>4, <2>1, <3>1, <3>3, GotoType, TicksAreWithin
      DEF HandleClientReply, Call, TypeOK, Labels, stored, running, outside
  <2>2. CASE Over(i)
    BY <1>0, <1>4, <2>2, OverType
    DEF HandleClientReply, TypeOK, Labels, stored, running, outside
  <2> QED
    BY <1>4, <2>1, <2>2 DEF HandleClientReply
<1>5. CASE SearchClients(i)
  <2>1. st[i] \in State
    BY <1>0, <1>5 DEF SearchClients, Held, Holding
  <2>2. CASE AskPriority(i, st[i], NoClient)
    <3>1. NoClient \in Replies
      BY DEF Replies
    <3> QED
      BY <1>0, <1>5, <2>1, <2>2, <3>1, AskPriorityType
      DEF SearchClients, TypeOK, Labels, stored, running, outside
  <2>3. CASE Call(i, "offer") /\ UNCHANGED <<st, arg>>
    BY <1>0, <1>5, <2>1, <2>3
    DEF SearchClients, Call, Goto, TypeOK, Held, Holding, Waiting, Calls, MaxWait, stored, running, outside
  <2>4. CASE Over(i)
    BY <1>0, <1>5, <2>4, OverType DEF SearchClients, TypeOK, Labels, stored, running, outside
  <2> QED
    BY <1>5, <2>2, <2>3, <2>4 DEF SearchClients
<1>6. CASE SendOptions(i)
  <2>1. offered' \subseteq Steps \X Inputs
    <3>1. st[i].block \in Inputs
      BY <1>0, <1>6, StateFields DEF SendOptions, Held, Holding
    <3> QED
      BY <1>6, <3>1 DEF SendOptions, TypeOK, Steps
  <2> QED
    BY <1>0, <1>6, <2>1, OverType DEF SendOptions, TypeOK, Labels, stored, running
<1>7. CASE BufferCloses(i)
  BY <1>0, <1>7
  DEF BufferCloses, Call, Goto, TypeOK, Held, Holding, Waiting, Calls, MaxWait, stored, running, outside
<1>8. CASE OnBufferClose(i)
  <2>1. CASE Over(i)
    BY <1>0, <1>8, <2>1, OverType DEF OnBufferClose, TypeOK, Labels, stored, running, outside
  <2>2. ASSUME NEW known \in BOOLEAN,
               st' = [st EXCEPT ![i] = [step |-> "client", block |-> i,
                                        client |-> NoClient, known |-> known]],
               Step(i, "set"), UNCHANGED arg
        PROVE  TypeInv'
    <3>1. [step |-> "client", block |-> i, client |-> NoClient, known |-> known] \in State
      BY DEF State, Steps, Replies
    <3> QED
      BY <1>0, <1>8, <2>2, <3>1
      DEF OnBufferClose, Step, Goto, TypeOK, Held, Holding, Instant, MaxWait, stored, running, outside
  <2> QED
    BY <1>8, <2>1, <2>2 DEF OnBufferClose
<1>9. CASE InteractiveReply(i)
  <2>1. arg[i] \in Replies
    BY <1>0, <1>9 DEF InteractiveReply, TypeOK
  <2>2. CASE Over(i)
    BY <1>0, <1>9, <2>2, OverType DEF InteractiveReply, TypeOK, Labels, stored, running, outside
  <2>3. CASE Awaiting("client") /\ AskPriority(i, session, arg[i])
    BY <1>0, <1>9, <2>1, <2>3, AskPriorityType
    DEF InteractiveReply, Awaiting, TypeOK, Labels, stored, running, outside
  <2>4. CASE Awaiting("priority") /\ Finish(i, session, arg[i])
    BY <1>0, <1>9, <2>1, <2>4, FinishType
    DEF InteractiveReply, Awaiting, TypeOK, Labels, stored, running, outside
  <2> QED
    BY <1>9, <2>2, <2>3, <2>4 DEF InteractiveReply
<1> QED
  BY <1>1, <1>2, <1>3, <1>4, <1>5, <1>6, <1>7, <1>8, <1>9 DEF HandleInput

LEMMA AskStep ==
    ASSUME TypeInv, NEW x \in Tasks, Ask(x)
    PROVE  TypeInv'
<1> USE FlowAssumption DEF TypeInv
<1>1. CASE StartSession(x)
  BY <1>1 DEF StartSession, Step, Goto, TypeOK, Held, Holding, Instant, MaxWait, StepTTL, running, outside
<1>2. CASE SpawnTimer(x)
  <2>1. st[x].step \in Steps
    BY <1>2, StateFields DEF SpawnTimer, Held, Holding
  <2>2. CASE Call(x, "send") /\ UNCHANGED <<lock, own>>
    BY <1>2, <2>2
    DEF SpawnTimer, Call, Goto, TypeOK, Held, Holding, Waiting, Calls, MaxWait, running, outside
  <2>3. ASSUME NEW t \in Timers,
               NewTimer(t, st[x].step, StepTimeout),
               pc' = [pc EXCEPT ![x] = "send", ![t] = "sleep"],
               wait' = [wait EXCEPT ![x] = CallTicks, ![t] = StepTimeout]
        PROVE  TypeInv'
    <3>1. t \in Tasks
      BY DEF Tasks
    <3>2. lock' \in [Steps -> 0 .. LockTTL] /\ own' \in [Timers -> Steps \cup {"startup"}]
      BY <2>1, <2>3 DEF NewTimer, TypeOK, LockTTL
    <3>3. pc' \in [Tasks -> Labels] /\ wait' \in [Tasks -> 0 .. MaxWait]
      BY <2>3, <3>1 DEF TypeOK, Labels, Waiting, Calls, MaxWait
    <3>4. Held'
      BY <1>2, <2>3, <3>1 DEF SpawnTimer, TypeOK, Held, Holding
    <3> QED
      BY <1>2, <3>2, <3>3, <3>4 DEF SpawnTimer, TypeOK, Labels, running, outside
  <2> QED
    BY <1>2, <2>2, <2>3 DEF SpawnTimer
<1>3. CASE SendQuestion(x)
  <2>1. st[x].block \in Inputs
    BY <1>3, StateFields DEF SendQuestion, Held, Holding
  <2>2. offered' \subseteq Steps \X Inputs
    BY <1>3, <2>1 DEF SendQuestion, TypeOK, Steps
  <2> QED
    BY <1>3, <2>2, OverType DEF SendQuestion, TypeOK, Labels, stored, running
<1> QED
  BY <1>1, <1>2, <1>3 DEF Ask

(* A task that goes on with what it has in its hands. *)
LEMMA MoveType ==
    ASSUME TypeInv, NEW x \in Tasks, pc[x] \in Holding, NEW label \in Labels, NEW ticks \in 0 .. MaxWait,
           Goto(x, label, ticks), UNCHANGED st
    PROVE  pc' \in [Tasks -> Labels] /\ wait' \in [Tasks -> 0 .. MaxWait] /\ Held'
BY GotoType DEF TypeInv, Held

LEMMA LogType ==
    ASSUME TypeOK, NEW x, st[x].block \in Inputs, NEW status \in Statuses, Log(x, status)
    PROVE  rows' \in [Inputs -> [Statuses -> Nat]]
<1>1. rows \in [Inputs -> [Statuses -> Nat]]
  BY DEF TypeOK
<1> DEFINE row == [rows[st[x].block] EXCEPT ![status] = @ + 1]
<1>2. row \in [Statuses -> Nat]
  BY <1>1
<1>3. rows' = rows \/ rows' = [rows EXCEPT ![st[x].block] = row]
  BY <1>1 DEF Log
<1> HIDE DEF row
<1> QED
  BY <1>1, <1>2, <1>3

LEMMA AttemptType ==
    ASSUME TypeOK, NEW x, st[x].block \in Inputs, Attempt(x)
    PROVE  tried' \in [Inputs -> Nat]
BY DEF TypeOK, Attempt

LEMMA CreateStep ==
    ASSUME TypeInv, NEW x \in Tasks, Create(x)
    PROVE  TypeInv'
<1>0. ASSUME pc[x] \in Holding PROVE st[x] \in State /\ st[x].block \in Inputs
  BY <1>0, StateFields DEF TypeInv, Held
<1>1. CASE CreateTicket(x)
  <2>1. pc[x] \in Holding
    BY <1>1 DEF CreateTicket, Holding
  <2>2. filed' \in [Inputs -> Nat] /\ tried' \in [Inputs -> Nat]
    <3>1. filed' = filed \/ File(st[x].block)
      BY <1>1 DEF CreateTicket
    <3>2. filed' \in [Inputs -> Nat]
      BY <1>0, <2>1, <3>1 DEF File, TypeInv, TypeOK
    <3>3. Attempt(x)
      BY <1>1 DEF CreateTicket
    <3> QED
      BY <1>0, <2>1, <3>2, <3>3, AttemptType DEF TypeInv
  <2>3. PICK label \in Labels, ticks \in 0 .. MaxWait : Goto(x, label, ticks)
    BY <1>1, TicksAreWithin DEF CreateTicket, Step, Call, Labels, Instant, Waiting, Calls
  <2>4. UNCHANGED st
    BY <1>1 DEF CreateTicket
  <2> QED
    BY <1>1, <2>1, <2>2, <2>3, <2>4, MoveType DEF CreateTicket, TypeInv, TypeOK, Labels, stored, running
<1>2. CASE LogFailed(x)
  <2>1. pc[x] \in Holding /\ "failed" \in Statuses
    BY <1>2 DEF LogFailed, Holding, Statuses
  <2>2. rows' \in [Inputs -> [Statuses -> Nat]]
    BY <1>0, <1>2, <2>1, LogType DEF LogFailed, TypeInv
  <2>3. Goto(x, "refresh", 0) /\ "refresh" \in Labels /\ UNCHANGED st
    BY <1>2 DEF LogFailed, Step, Labels, Instant
  <2> QED
    BY <1>2, <2>1, <2>2, <2>3, MoveType, TicksAreWithin DEF LogFailed, TypeInv, TypeOK, Labels, stored, running
<1>3. CASE RefreshSession(x)
  <2>1. pc[x] \in Holding
    BY <1>3 DEF RefreshSession, Holding
  <2>2. session' \in State /\ sttl' \in 0 .. StepTTL
    BY <1>0, <1>3, <2>1, FlowAssumption DEF RefreshSession, StepTTL
  <2>3. Goto(x, "excuse", CallTicks) /\ "excuse" \in Labels /\ UNCHANGED st
    BY <1>3 DEF RefreshSession, Call, Labels, Waiting, Calls
  <2> QED
    BY <1>3, <2>1, <2>2, <2>3, MoveType, TicksAreWithin
    DEF RefreshSession, TypeInv, TypeOK, Labels, running, outside
<1>4. CASE Excuse(x)
  <2>1. CASE Over(x)
    BY <1>4, <2>1, OverType DEF Excuse, TypeInv, TypeOK, Labels, stored, running, outside
  <2>2. CASE Call(x, "send") /\ UNCHANGED <<st, arg>>
    <3>1. pc[x] \in Holding
      BY <1>4 DEF Excuse, Holding
    <3>2. Goto(x, "send", CallTicks) /\ "send" \in Labels
      BY <2>2 DEF Call, Labels, Waiting, Calls
    <3> QED
      BY <1>4, <2>2, <3>1, <3>2, MoveType, TicksAreWithin
      DEF Excuse, TypeInv, TypeOK, Labels, stored, running, outside
  <2> QED
    BY <1>4, <2>1, <2>2 DEF Excuse
<1>5. CASE ClearSession(x)
  <2>1. pc[x] \in Holding
    BY <1>5 DEF ClearSession, Holding
  <2>2. session' = NoSession /\ sttl' \in 0 .. StepTTL
    BY <1>5, FlowAssumption DEF ClearSession, StepTTL
  <2>3. tried' \in [Inputs -> Nat]
    <3>1. Attempt(x) \/ UNCHANGED tried
      BY <1>5 DEF ClearSession
    <3> QED
      BY <1>0, <2>1, <3>1, AttemptType DEF TypeInv, TypeOK
  <2>4. Goto(x, "report", CallTicks) /\ "report" \in Labels /\ UNCHANGED st
    BY <1>5 DEF ClearSession, Call, Labels, Waiting, Calls
  <2> QED
    BY <1>5, <2>1, <2>2, <2>3, <2>4, MoveType, TicksAreWithin
    DEF ClearSession, TypeInv, TypeOK, Labels, running
<1>6. CASE Report(x)
  <2>1. pc[x] \in Holding
    BY <1>6 DEF Report, Holding
  <2>2. PICK status \in Statuses : Log(x, status)
    BY <1>6 DEF Report, Statuses
  <2>3. rows' \in [Inputs -> [Statuses -> Nat]]
    BY <1>0, <2>1, <2>2, LogType DEF TypeInv
  <2>4. Goto(x, "tell", CallTicks) /\ "tell" \in Labels /\ UNCHANGED st
    BY <1>6 DEF Report, Call, Labels, Waiting, Calls
  <2> QED
    BY <1>6, <2>1, <2>3, <2>4, MoveType, TicksAreWithin DEF Report, TypeInv, TypeOK, Labels, stored, running
<1>7. CASE Tell(x)
  BY <1>7, OverType DEF Tell, TypeInv, TypeOK, Labels, stored, running, outside
<1> QED
  BY <1>1, <1>2, <1>3, <1>4, <1>5, <1>6, <1>7 DEF Create

(* What going down leaves of the variables. *)
LEMMA TasksGoneType ==
    ASSUME TypeInv, TasksGone, downs <= MaxDowns, lock' \in [Steps -> 0 .. LockTTL]
    PROVE  TypeInv'
<1> USE FlowAssumption DEF TypeInv
<1>1. up' \in BOOLEAN
  BY Zenon DEF TasksGone
<1>2. downs' \in 0 .. (MaxDowns + 1)
  BY DEF TasksGone, TypeOK
<1>3. /\ pc' \in [Tasks -> Labels] /\ wait' \in [Tasks -> 0 .. MaxWait]
      /\ st' \in [Tasks -> State \cup {NoSession}]
      /\ arg' \in [Tasks -> Replies \cup {Text}]
      /\ own' \in [Timers -> Steps \cup {"startup"}]
  BY DEF TasksGone, TypeOK, Labels, MaxWait
<1>4. Held'
  <2>1. \A x \in Tasks : pc'[x] \in {"unsent", "done", "idle"}
    BY DEF TasksGone, Live
  <2> QED
    BY <2>1 DEF Held, Holding
<1> QED
  BY <1>1, <1>2, <1>3, <1>4 DEF TasksGone, TypeOK, Labels, outside

LEMMA TimeoutStep ==
    ASSUME TypeInv, NEW t \in Timers, Timeout(t)
    PROVE  TypeInv'
<1> USE FlowAssumption DEF TypeInv
<1>0. t \in Tasks
  BY DEF Tasks
<1>1. CASE TimerFires(t)
  <2>1. CASE Over(t)
    BY <1>0, <1>1, <2>1, OverType DEF TimerFires, TypeOK, Labels, stored, running, outside
  <2>2. CASE Awaiting(own[t]) /\ OnTimeout(t, session)
    BY <1>0, <1>1, <2>2, OnTimeoutType
    DEF TimerFires, Awaiting, TypeOK, Labels, stored, running, outside
  <2> QED
    BY <1>1, <2>1, <2>2 DEF TimerFires
<1>2. CASE Release(t)
  <2>1. lock' \in [Steps -> 0 .. LockTTL]
    BY <1>2 DEF Release, Unlock, TypeOK, LockTTL
  <2> QED
    BY <1>0, <1>2, <2>1 DEF Release, Step, Goto, TypeOK, Held, Holding, MaxWait, running, outside
<1>3. CASE StartupFails(t)
  <2>1. lock' \in [Steps -> 0 .. LockTTL]
    BY <1>3 DEF StartupFails, LocksReleased, TypeOK, LockTTL
  <2> QED
    BY <1>3, <2>1, TasksGoneType DEF StartupFails
<1> QED
  BY <1>1, <1>2, <1>3 DEF Timeout

LEMMA TickStep == ASSUME TypeInv, Tick PROVE TypeInv'
<1>0. /\ sttl \in 0 .. StepTTL /\ session \in State \cup {NoSession} /\ StepTTL \in Nat
      /\ lock \in [Steps -> 0 .. LockTTL] /\ LockTTL \in Nat
      /\ wait \in [Tasks -> 0 .. MaxWait] /\ MaxWait \in Nat
  BY FlowAssumption DEF TypeInv, TypeOK, StepTTL, LockTTL, MaxWait
<1>1. sttl' \in 0 .. StepTTL /\ session' \in State \cup {NoSession}
  BY <1>0 DEF Tick, Minus1
<1>2. lock' \in [Steps -> 0 .. LockTTL]
  BY <1>0 DEF Tick, Minus1
<1>3. wait' \in [Tasks -> 0 .. MaxWait]
  BY <1>0 DEF Tick, Minus1
<1>4. Held'
  BY DEF TypeInv, Tick, Held
<1> QED
  BY <1>1, <1>2, <1>3, <1>4 DEF TypeInv, TypeOK, Tick, running, outside

LEMMA RestartStep == ASSUME TypeInv, Restart PROVE TypeInv'
<1> USE FlowAssumption DEF TypeInv
<1>1. up' \in BOOLEAN
  BY Zenon DEF Restart
<1>2. CASE UNCHANGED <<lock, tasks>>
  BY <1>1, <1>2 DEF Restart, TypeOK, Held, outside, tasks
<1>3. ASSUME session # NoSession, NEW t \in Timers, OnTimeout(t, session), UNCHANGED <<lock, own>>
      PROVE  TypeInv'
  <2>1. t \in Tasks /\ session \in State
    BY <1>3 DEF Tasks, TypeOK
  <2> QED
    BY <1>1, <1>3, <2>1, OnTimeoutType DEF Restart, TypeOK, Labels, outside
<1>4. ASSUME session # NoSession, sttl > Margin, NEW t \in Timers,
             NewTimer(t, session.step, RecoveredWait), Goto(t, "sleep", RecoveredWait),
             UNCHANGED <<st, arg>>
      PROVE  TypeInv'
  <2>1. t \in Tasks /\ session.step \in Steps
    BY <1>4, StateFields DEF Tasks, TypeOK
  <2>2. RecoveredWait \in 0 .. StepTimeout
    BY <1>4 DEF RecoveredWait, StepTTL, TypeOK
  <2>3. lock' \in [Steps -> 0 .. LockTTL] /\ own' \in [Timers -> Steps \cup {"startup"}]
    BY <1>4, <2>1, <2>2 DEF NewTimer, TypeOK, LockTTL
  <2>4. pc' \in [Tasks -> Labels] /\ wait' \in [Tasks -> 0 .. MaxWait]
    BY <1>4, <2>1, <2>2 DEF Goto, TypeOK, Labels, Waiting, MaxWait
  <2>5. Held'
    BY <1>4, <2>1 DEF Goto, TypeOK, Held, Holding
  <2> QED
    BY <1>1, <1>4, <2>3, <2>4, <2>5 DEF Restart, TypeOK, Labels, outside
<1> QED
  BY <1>2, <1>3, <1>4 DEF Restart

LEMMA TypeInvariant == Spec => []TypeInv
<1>1. Init => TypeInv
  <2> SUFFICES ASSUME Init PROVE TypeInv
    OBVIOUS
  <2>1. up \in BOOLEAN
    BY Zenon DEF Init
  <2>2. Held
    BY DEF Init, Held, Holding
  <2> QED
    BY <2>1, <2>2, FlowAssumption DEF Init, TypeInv, TypeOK, MaxWait, StepTTL, LockTTL, Steps
<1>2. TypeInv /\ [Next]_vars => TypeInv'
  <2> SUFFICES ASSUME TypeInv, [Next]_vars PROVE TypeInv'
    OBVIOUS
  <2>1. CASE \E i \in Inputs : HandleInput(i)
    BY <2>1, InputStep
  <2>2. CASE \E x \in Tasks : Ask(x) \/ Create(x)
    BY <2>2, AskStep, CreateStep
  <2>3. CASE \E t \in Timers : Timeout(t)
    BY <2>3, TimeoutStep
  <2>4. CASE Tick
    BY <2>4, TickStep
  <2>5. CASE Crash
    BY <2>5, FlowAssumption, TasksGoneType DEF Crash, TypeInv, TypeOK
  <2>6. CASE Stop
    <3>1. lock' \in [Steps -> 0 .. LockTTL]
      BY <2>6, FlowAssumption DEF Stop, LocksReleased, TypeInv, TypeOK, LockTTL
    <3> QED
      BY <2>6, <3>1, FlowAssumption, TasksGoneType DEF Stop, TypeInv, TypeOK
  <2>7. CASE Restart
    BY <2>7, RestartStep
  <2>8. CASE UNCHANGED vars
    BY <2>8 DEF vars, stored, tasks, running, outside, TypeInv, TypeOK, Held
  <2> QED
    BY <2>1, <2>2, <2>3, <2>4, <2>5, <2>6, <2>7, <2>8 DEF Next
<1> QED
  BY <1>1, <1>2, PTL DEF Spec

(* Every variable keeps its type: the TTLs stay within what the code sets, *)
(* a recovered watcher never waits longer than the timeout, and what is    *)
(* written to the session is a state.                                      *)
THEOREM TypeCorrect == Spec => []TypeOK
BY TypeInvariant, PTL DEF TypeInv

-----------------------------------------------------------------------------
(* SessionOutlivesTimer is not inductive: a watcher that sleeps for a step  *)
(* nobody is at must not sleep too long either, and a session must still be *)
(* as fresh as it was written when its watcher is spawned.                  *)
ShortSleep == \A t \in Timers : pc[t] = "sleep" => wait[t] <= StepTimeout

FreshAtSpawn == \A x \in Tasks : pc[x] = "spawn" => session = NoSession \/ sttl = StepTTL

Timed == ShortSleep /\ FreshAtSpawn /\ SessionOutlivesTimer

(* No watcher falls asleep, no task comes to spawn one. *)
Harmless ==
    /\ \A t \in Timers : pc'[t] = "sleep" =>
          pc[t] = "sleep" /\ wait'[t] = wait[t] /\ own'[t] = own[t]
    /\ \A x \in Tasks : pc'[x] = "spawn" => pc[x] = "spawn"

LEMMA HarmlessStep ==
    ASSUME Timed, Harmless, UNCHANGED <<session, sttl>> \/ session' = NoSession
    PROVE  Timed'
BY DEF Timed, Harmless, ShortSleep, FreshAtSpawn, SessionOutlivesTimer, Awaiting, Tasks

LEMMA SessionWritten ==
    ASSUME TypeInv', ShortSleep', sttl' = StepTTL
    PROVE  Timed'
<1>1. ASSUME NEW t \in Timers, pc'[t] = "sleep" PROVE sttl' >= wait'[t] + Margin
  BY <1>1, FlowAssumption DEF ShortSleep, TypeInv, TypeOK, StepTTL, MaxWait, Tasks
<1> QED
  BY <1>1 DEF Timed, FreshAtSpawn, SessionOutlivesTimer

(* A task that moves on, except to sleep or to spawn, is harmless. *)
LEMMA MoveIsHarmless ==
    ASSUME TypeInv, NEW x \in Tasks, NEW label \in Labels \ {"sleep", "spawn"},
           NEW ticks, Goto(x, label, ticks), UNCHANGED own
    PROVE  Harmless
BY DEF Harmless, Goto, TypeInv, TypeOK, Tasks

LEMMA OverIsHarmless ==
    ASSUME TypeInv, NEW x \in Tasks, Over(x), UNCHANGED own
    PROVE  Harmless
BY MoveIsHarmless DEF Over, Step, Labels, Instant

LEMMA OnwardIsHarmless ==
    ASSUME TypeInv, NEW x \in Tasks, UNCHANGED own,
           \/ \E s \in State, c \in Replies : AskPriority(x, s, c)
           \/ \E s \in State, p \in Replies : Finish(x, s, p)
    PROVE  Harmless
BY MoveIsHarmless DEF AskPriority, Finish, Step, Call, Labels, Instant, Waiting, Calls

LEMMA OnTimeoutIsHarmless ==
    ASSUME TypeInv, NEW x \in Tasks, UNCHANGED own, NEW s \in State, OnTimeout(x, s)
    PROVE  Harmless
<1>1. NoClient \in Replies /\ DefaultPriority \in Replies
  BY FlowAssumption DEF Replies
<1> QED
  BY <1>1, OnwardIsHarmless DEF OnTimeout

LEMMA InputIsHarmless ==
    ASSUME TypeInv, NEW i \in Inputs, HandleInput(i)
    PROVE  Harmless /\ UNCHANGED <<session, sttl>>
<1>0. i \in Tasks
  BY DEF Tasks
<1>1. CASE WriteText(i)
  BY <1>0, <1>1, MoveIsHarmless DEF WriteText, Step, Labels, Instant, stored
<1>2. CASE Tap(i)
  BY <1>0, <1>2, MoveIsHarmless DEF Tap, Step, Labels, Instant, stored
<1>3. CASE IncomingMessage(i)
  <2>1. CASE Awaiting("client")
    BY <1>0, <1>3, <2>1, MoveIsHarmless DEF IncomingMessage, Step, Labels, Instant, stored
  <2>2. ASSUME NEW j \in Inputs, pc[j] = "window",
               pc' = [pc EXCEPT ![i] = "done"], wait' = [wait EXCEPT ![j] = BufferTTL]
        PROVE  Harmless
    BY <1>0, <1>3, <2>2 DEF IncomingMessage, Harmless, TypeInv, TypeOK, Tasks
  <2>3. ASSUME Goto(i, "window", BufferTTL) PROVE Harmless
    BY <1>0, <1>3, <2>3, MoveIsHarmless DEF IncomingMessage, Labels, Waiting
  <2>4. ASSUME Buffer(i) PROVE Harmless
    BY <2>2, <2>3, <2>4 DEF Buffer
  <2> QED
    BY <1>3, <2>1, <2>4 DEF IncomingMessage, stored
<1>4. CASE HandleClientReply(i)
  BY <1>0, <1>4, MoveIsHarmless, OverIsHarmless
  DEF HandleClientReply, Call, Labels, Waiting, Calls, stored
<1>5. CASE SearchClients(i)
  <2>1. st[i] \in State /\ NoClient \in Replies
    BY <1>0, <1>5 DEF SearchClients, TypeInv, Held, Holding, Replies
  <2> QED
    BY <1>0, <1>5, <2>1, OnwardIsHarmless, MoveIsHarmless, OverIsHarmless
    DEF SearchClients, Call, Labels, Waiting, Calls, stored
<1>6. CASE SendOptions(i)
  BY <1>0, <1>6, OverIsHarmless DEF SendOptions, stored
<1>7. CASE BufferCloses(i)
  BY <1>0, <1>7, MoveIsHarmless DEF BufferCloses, Call, Labels, Waiting, Calls, stored
<1>8. CASE OnBufferClose(i)
  BY <1>0, <1>8, MoveIsHarmless, OverIsHarmless DEF OnBufferClose, Step, Labels, Instant, stored
<1>9. CASE InteractiveReply(i)
  <2>1. arg[i] \in Replies /\ (session # NoSession => session \in State)
    BY <1>0, <1>9 DEF InteractiveReply, TypeInv, TypeOK
  <2> QED
    BY <1>0, <1>9, <2>1, OnwardIsHarmless, OverIsHarmless DEF InteractiveReply, Awaiting, stored
<1> QED
  BY <1>1, <1>2, <1>3, <1>4, <1>5, <1>6, <1>7, <1>8, <1>9 DEF HandleInput

LEMMA AskIsTimed ==
    ASSUME TypeInv, TypeInv', Timed, NEW x \in Tasks, Ask(x)
    PROVE  Timed'
<1>1. CASE StartSession(x)
  <2>1. ShortSleep'
    BY <1>1 DEF StartSession, Step, Goto, Timed, ShortSleep, TypeInv, TypeOK, Tasks
  <2> QED
    BY <1>1, <2>1, SessionWritten DEF StartSession
<1>2. CASE SpawnTimer(x)
  <2>1. CASE Call(x, "send") /\ UNCHANGED own
    BY <1>2, <2>1, MoveIsHarmless, HarmlessStep DEF SpawnTimer, Call, Labels, Waiting, Calls
  <2>2. ASSUME NEW t \in Timers,
               NewTimer(t, st[x].step, StepTimeout),
               pc' = [pc EXCEPT ![x] = "send", ![t] = "sleep"],
               wait' = [wait EXCEPT ![x] = CallTicks, ![t] = StepTimeout]
        PROVE  Timed'
    <3>1. UNCHANGED <<session, sttl>> /\ (session = NoSession \/ sttl = StepTTL)
      BY <1>2 DEF SpawnTimer, Timed, FreshAtSpawn
    <3>2. ShortSleep'
      <4>1. pc \in [Tasks -> Labels] /\ wait \in [Tasks -> 0 .. MaxWait] /\ Timers \subseteq Tasks
        BY DEF TypeInv, TypeOK, Labels, Tasks
      <4>2. ASSUME NEW u \in Timers, pc'[u] = "sleep" PROVE wait'[u] <= StepTimeout
        <5>1. CASE u = t
          BY <2>2, <4>1, <5>1, FlowAssumption
        <5>2. CASE u # t
          <6>1. u # x /\ pc[u] = "sleep" /\ wait'[u] = wait[u]
            BY <2>2, <4>1, <4>2, <5>2
          <6> QED
            BY <6>1 DEF Timed, ShortSleep
        <5> QED
          BY <5>1, <5>2
      <4> QED
        BY <4>2 DEF ShortSleep
    <3>3. CASE sttl = StepTTL
      BY <3>1, <3>2, <3>3, SessionWritten
    <3>4. CASE session = NoSession
      BY <3>1, <3>2, <3>4 DEF Timed, FreshAtSpawn, SessionOutlivesTimer, Awaiting
    <3> QED
      BY <3>1, <3>3, <3>4
  <2> QED
    BY <1>2, <2>1, <2>2 DEF SpawnTimer
<1>3. CASE SendQuestion(x)
  BY <1>3, OverIsHarmless, HarmlessStep DEF SendQuestion, stored
<1> QED
  BY <1>1, <1>2, <1>3 DEF Ask

LEMMA CreateIsTimed ==
    ASSUME TypeInv, TypeInv', Timed, NEW x \in Tasks, Create(x)
    PROVE  Timed'
<1>1. CASE CreateTicket(x)
  <2>1. Step(x, "clear") \/ Call(x, "note")
    BY <1>1 DEF CreateTicket
  <2>2. Harmless
    BY <1>1, <2>1, MoveIsHarmless DEF CreateTicket, Step, Call, Labels, Instant, Waiting, Calls
  <2> QED
    BY <1>1, <2>2, HarmlessStep DEF CreateTicket, stored
<1>2. CASE LogFailed(x)
  BY <1>2, MoveIsHarmless, HarmlessStep DEF LogFailed, Step, Labels, Instant, stored
<1>3. CASE RefreshSession(x)
  <2>1. ShortSleep'
    BY <1>3 DEF RefreshSession, Call, Goto, Timed, ShortSleep, TypeInv, TypeOK, Tasks
  <2> QED
    BY <1>3, <2>1, SessionWritten DEF RefreshSession
<1>4. CASE Excuse(x)
  <2>1. Over(x) \/ Call(x, "send")
    BY <1>4 DEF Excuse
  <2>2. Harmless
    BY <1>4, <2>1, OverIsHarmless, MoveIsHarmless DEF Excuse, Call, Labels, Waiting, Calls
  <2> QED
    BY <1>4, <2>2, HarmlessStep DEF Excuse, stored
<1>5. CASE ClearSession(x)
  BY <1>5, MoveIsHarmless, HarmlessStep DEF ClearSession, Call, Labels, Waiting, Calls
<1>6. CASE Report(x)
  BY <1>6, MoveIsHarmless, HarmlessStep DEF Report, Call, Labels, Waiting, Calls, stored
<1>7. CASE Tell(x)
  BY <1>7, OverIsHarmless, HarmlessStep DEF Tell, stored
<1> QED
  BY <1>1, <1>2, <1>3, <1>4, <1>5, <1>6, <1>7 DEF Create

LEMMA TasksGoneIsTimed ==
    ASSUME Timed, TasksGone
    PROVE  Timed'
<1>1. \A x \in Tasks : pc'[x] \in {"unsent", "done", "idle"}
  BY DEF TasksGone, Live
<1> QED
  BY <1>1, HarmlessStep DEF TasksGone, Harmless, Tasks

LEMMA TimeoutIsTimed ==
    ASSUME TypeInv, Timed, NEW t \in Timers, Timeout(t)
    PROVE  Timed'
<1>0. t \in Tasks
  BY DEF Tasks
<1>1. CASE TimerFires(t)
  <2>1. session # NoSession => session \in State
    BY DEF TypeInv, TypeOK
  <2> QED
    BY <1>0, <1>1, <2>1, OnTimeoutIsHarmless, OverIsHarmless, HarmlessStep
    DEF TimerFires, Awaiting, stored
<1>2. CASE Release(t)
  BY <1>0, <1>2, HarmlessStep DEF Release, Step, Goto, Harmless, TypeInv, TypeOK, Tasks
<1>3. CASE StartupFails(t)
  BY <1>3, TasksGoneIsTimed DEF StartupFails
<1> QED
  BY <1>1, <1>2, <1>3 DEF Timeout

(* A tick takes one from the sleep and one from the session; nobody may be *)
(* due.                                                                    *)
LEMMA TickIsTimed ==
    ASSUME TypeInv, Timed, Tick
    PROVE  Timed'
<1> USE FlowAssumption DEF Tick
<1>1. ASSUME NEW t \in Timers, pc[t] = "sleep"
      PROVE  wait[t] \in Nat /\ wait[t] > 0 /\ wait'[t] = wait[t] - 1
  BY <1>1 DEF Due, Waiting, Minus1, TypeInv, TypeOK, MaxWait, Tasks
<1>2. ShortSleep'
  BY <1>1 DEF Timed, ShortSleep
<1>3. FreshAtSpawn'
  BY DEF Due, Instant, FreshAtSpawn
<1>4. ASSUME NEW t \in Timers, pc[t] = "sleep", Awaiting(own[t])'
      PROVE  sttl' >= wait'[t] + Margin
  <2>1. session' = session /\ Awaiting(own[t])
    BY <1>4 DEF Awaiting
  <2>2. sttl >= wait[t] + Margin
    BY <1>4, <2>1 DEF Timed, SessionOutlivesTimer
  <2>3. sttl \in Nat /\ sttl' = IF sttl = 0 THEN 0 ELSE sttl - 1
    BY DEF Minus1, TypeInv, TypeOK, StepTTL
  <2> QED
    BY <1>1, <1>4, <2>2, <2>3
<1> QED
  BY <1>2, <1>3, <1>4 DEF Timed, SessionOutlivesTimer

LEMMA RestartIsTimed ==
    ASSUME TypeInv, Timed, Restart
    PROVE  Timed'
<1>1. CASE UNCHANGED tasks
  BY <1>1, HarmlessStep DEF Restart, tasks, Harmless
<1>2. ASSUME session # NoSession, NEW t \in Timers, OnTimeout(t, session), UNCHANGED own
      PROVE  Timed'
  <2>1. t \in Tasks /\ session \in State
    BY <1>2 DEF Tasks, TypeInv, TypeOK
  <2> QED
    BY <1>2, <2>1, OnTimeoutIsHarmless, HarmlessStep DEF Restart
<1>3. ASSUME sttl > Margin, NEW t \in Timers,
             NewTimer(t, session.step, RecoveredWait), Goto(t, "sleep", RecoveredWait)
      PROVE  Timed'
  <2>1. RecoveredWait \in 0 .. StepTimeout /\ sttl >= RecoveredWait + Margin
    BY <1>3, FlowAssumption DEF RecoveredWait, StepTTL, TypeInv, TypeOK
  <2> QED
    BY <1>3, <2>1
    DEF Restart, Goto, NewTimer, Timed, ShortSleep, FreshAtSpawn, SessionOutlivesTimer,
        Awaiting, TypeInv, TypeOK, Tasks
<1> QED
  BY <1>1, <1>2, <1>3 DEF Restart, tasks

LEMMA TimedInvariant == Spec => []Timed
<1>1. Init => Timed
  BY DEF Init, Timed, ShortSleep, FreshAtSpawn, SessionOutlivesTimer, Tasks
<1>2. TypeInv /\ TypeInv' /\ Timed /\ [Next]_vars => Timed'
  <2> SUFFICES ASSUME TypeInv, TypeInv', Timed, [Next]_vars PROVE Timed'
    OBVIOUS
  <2>1. CASE \E i \in Inputs : HandleInput(i)
    BY <2>1, InputIsHarmless, HarmlessStep
  <2>2. CASE \E x \in Tasks : Ask(x) \/ Create(x)
    BY <2>2, AskIsTimed, CreateIsTimed
  <2>3. CASE \E t \in Timers : Timeout(t)
    BY <2>3, TimeoutIsTimed
  <2>4. CASE Tick
    BY <2>4, TickIsTimed
  <2>5. CASE Crash \/ Stop
    BY <2>5, TasksGoneIsTimed DEF Crash, Stop
  <2>6. CASE Restart
    BY <2>6, RestartIsTimed
  <2>7. CASE UNCHANGED vars
    BY <2>7, HarmlessStep DEF vars, stored, tasks, Harmless
  <2> QED
    BY <2>1, <2>2, <2>3, <2>4, <2>5, <2>6, <2>7 DEF Next
<1> QED
  BY <1>1, <1>2, TypeInvariant, PTL DEF Spec

(* session.py:15-20: however many watchers overlap, sessions are written   *)
(* and the process restarts, a sleeping watcher finds the session it is to *)
(* look at, with the whole margin to spare.                                *)
THEOREM OutlivesTimer == Spec => []SessionOutlivesTimer
BY TimedInvariant, PTL DEF Timed

-----------------------------------------------------------------------------
(* AuditTrail: while the process is up, each step of a task either leaves    *)
(* the debts as they are, adds its own or pays it with a row.                *)
Owes(x) == pc[x] \in {"clear", "note", "report"}

Filed(b) == rows[b]["created"] + rows[b]["failed"]

Balanced(b) == IsFiniteSet(Owing(b)) /\ Filed(b) + Cardinality(Owing(b)) = tried[b]

Trail == /\ up \/ downs > 0
         /\ downs = 0 => \A b \in Inputs : Balanced(b)

(* No row is written, no attempt made, and whoever owes a row still does. *)
Discreet ==
    /\ UNCHANGED <<rows, tried, running>>
    /\ \A x \in Tasks : Owes(x)' = Owes(x)
    /\ \A x \in Tasks : Owes(x) => st'[x] = st[x] /\ arg'[x] = arg[x]

LEMMA DiscreetStep == ASSUME Trail, Discreet PROVE Trail'
<1>1. ASSUME NEW b \in Inputs PROVE Owing(b)' = Owing(b)
  BY DEF Discreet, Owing, Owes, Fits
<1>2. ASSUME NEW b \in Inputs, Balanced(b) PROVE Balanced(b)'
  BY <1>1, <1>2 DEF Balanced, Filed, Discreet
<1> QED
  BY <1>2 DEF Trail, Discreet, running

(* A task that owes nothing, before and after, does not touch those that do. *)
LEMMA MoveIsDiscreet ==
    ASSUME TypeInv, NEW x \in Tasks, ~Owes(x), UNCHANGED <<rows, tried, running>>,
           NEW label, label \notin {"clear", "note", "report"}, NEW ticks, Goto(x, label, ticks),
           \A y \in Tasks \ {x} : st'[y] = st[y] /\ arg'[y] = arg[y]
    PROVE  Discreet
<1>1. pc'[x] = label /\ \A y \in Tasks \ {x} : pc'[y] = pc[y]
  BY DEF Goto, TypeInv, TypeOK
<1>2. \A y \in Tasks : Owes(y)' = Owes(y)
  BY <1>1 DEF Owes
<1> QED
  BY <1>2 DEF Discreet

LEMMA OverIsDiscreet ==
    ASSUME TypeInv, NEW x \in Tasks, ~Owes(x), UNCHANGED <<rows, tried, running>>, Over(x)
    PROVE  Discreet
<1>1. \A y \in Tasks \ {x} : st'[y] = st[y] /\ arg'[y] = arg[y]
  BY DEF Over, TypeInv, TypeOK
<1> QED
  BY <1>1, MoveIsDiscreet DEF Over, Step

LEMMA OnwardIsDiscreet ==
    ASSUME TypeInv, NEW x \in Tasks, ~Owes(x), UNCHANGED <<rows, tried, running>>, NEW s, NEW c,
           AskPriority(x, s, c) \/ Finish(x, s, c)
    PROVE  Discreet
<1>1. \A y \in Tasks \ {x} : st'[y] = st[y] /\ arg'[y] = arg[y]
  BY DEF AskPriority, Finish, TypeInv, TypeOK
<1> QED
  BY <1>1, MoveIsDiscreet DEF AskPriority, Finish, Step, Call

LEMMA InputIsDiscreet ==
    ASSUME TypeInv, NEW i \in Inputs, HandleInput(i)
    PROVE  Discreet
<1>0. i \in Tasks
  BY DEF Tasks
<1>1. CASE WriteText(i) \/ Tap(i)
  <2>1. ~Owes(i) /\ UNCHANGED <<rows, tried, running>> /\ Step(i, "get")
    BY <1>1 DEF WriteText, Tap, Owes, outside
  <2>2. \A y \in Tasks \ {i} : st'[y] = st[y] /\ arg'[y] = arg[y]
    BY <1>1 DEF WriteText, Tap, TypeInv, TypeOK
  <2> QED
    BY <1>0, <2>1, <2>2, MoveIsDiscreet DEF Step
<1>2. CASE IncomingMessage(i)
  <2>1. ~Owes(i) /\ UNCHANGED <<st, arg, rows, tried, running>>
    BY <1>2 DEF IncomingMessage, Owes, outside
  <2>2. CASE Step(i, "reread")
    BY <1>0, <2>1, <2>2, MoveIsDiscreet DEF Step
  <2>3. ASSUME pc' = [pc EXCEPT ![i] = "done"] PROVE Discreet
    <3>1. pc'[i] = "done" /\ \A y \in Tasks \ {i} : pc'[y] = pc[y]
      BY <1>0, <2>3 DEF TypeInv, TypeOK
    <3>2. \A y \in Tasks : Owes(y)' = Owes(y)
      BY <2>1, <3>1 DEF Owes
    <3> QED
      BY <2>1, <3>2 DEF Discreet
  <2>4. CASE Goto(i, "window", BufferTTL)
    BY <1>0, <2>1, <2>4, MoveIsDiscreet
  <2> QED
    BY <1>2, <2>2, <2>3, <2>4 DEF IncomingMessage, Buffer
<1>3. CASE HandleClientReply(i)
  <2>1. ~Owes(i) /\ UNCHANGED <<rows, tried, running>>
    BY <1>3 DEF HandleClientReply, Owes, outside
  <2>2. CASE Over(i)
    BY <1>0, <2>1, <2>2, OverIsDiscreet
  <2>3. CASE Call(i, "search") /\ st' = [st EXCEPT ![i] = session] /\ UNCHANGED arg
    <3>1. \A y \in Tasks \ {i} : st'[y] = st[y] /\ arg'[y] = arg[y]
      BY <2>3 DEF TypeInv, TypeOK
    <3> QED
      BY <1>0, <2>1, <2>3, <3>1, MoveIsDiscreet DEF Call
  <2> QED
    BY <1>3, <2>2, <2>3 DEF HandleClientReply
<1>4. CASE SearchClients(i)
  <2>1. ~Owes(i) /\ UNCHANGED <<rows, tried, running>>
    BY <1>4 DEF SearchClients, Owes, outside
  <2> QED
    BY <1>0, <1>4, <2>1, OverIsDiscreet, OnwardIsDiscreet, MoveIsDiscreet DEF SearchClients, Call
<1>5. CASE SendOptions(i)
  BY <1>0, <1>5, OverIsDiscreet DEF SendOptions, Owes
<1>6. CASE BufferCloses(i)
  BY <1>0, <1>6, MoveIsDiscreet DEF BufferCloses, Owes, Call, outside
<1>7. CASE OnBufferClose(i)
  <2>1. ~Owes(i) /\ UNCHANGED <<rows, tried, running>>
    BY <1>7 DEF OnBufferClose, Owes, outside
  <2>2. CASE Over(i)
    BY <1>0, <2>1, <2>2, OverIsDiscreet
  <2>3. ASSUME NEW s, st' = [st EXCEPT ![i] = s], UNCHANGED arg, Step(i, "set") PROVE Discreet
    <3>1. \A y \in Tasks \ {i} : st'[y] = st[y] /\ arg'[y] = arg[y]
      BY <2>3 DEF TypeInv, TypeOK
    <3> QED
      BY <1>0, <2>1, <2>3, <3>1, MoveIsDiscreet DEF Step
  <2> QED
    BY <1>7, <2>2, <2>3 DEF OnBufferClose
<1>8. CASE InteractiveReply(i)
  <2>1. ~Owes(i) /\ UNCHANGED <<rows, tried, running>>
    BY <1>8 DEF InteractiveReply, Owes, outside
  <2> QED
    BY <1>0, <1>8, <2>1, OverIsDiscreet, OnwardIsDiscreet DEF InteractiveReply
<1> QED
  BY <1>1, <1>2, <1>3, <1>4, <1>5, <1>6, <1>7, <1>8 DEF HandleInput

LEMMA AskIsDiscreet ==
    ASSUME TypeInv, NEW x \in Tasks, Ask(x)
    PROVE  Discreet
<1>1. CASE StartSession(x)
  BY <1>1, MoveIsDiscreet DEF StartSession, Owes, Step, outside
<1>2. CASE SpawnTimer(x)
  <2>1. ~Owes(x) /\ UNCHANGED <<st, arg, rows, tried, running>>
    BY <1>2 DEF SpawnTimer, Owes, outside
  <2>2. CASE Call(x, "send")
    BY <2>1, <2>2, MoveIsDiscreet DEF Call
  <2>3. ASSUME NEW t \in Timers, pc[t] = "idle",
               pc' = [pc EXCEPT ![x] = "send", ![t] = "sleep"]
        PROVE  Discreet
    <3>1. /\ pc'[x] \in {"send", "sleep"} /\ pc'[t] = "sleep" /\ t \in Tasks
          /\ \A y \in Tasks \ {x, t} : pc'[y] = pc[y]
      BY <2>3 DEF TypeInv, TypeOK, Tasks
    <3>2. Owes(x)' = Owes(x) /\ Owes(t)' = Owes(t)
      BY <2>1, <2>3, <3>1 DEF Owes
    <3>3. ASSUME NEW y \in Tasks \ {x, t} PROVE Owes(y)' = Owes(y)
      <4>1. pc'[y] = pc[y] /\ st'[y] = st[y] /\ arg'[y] = arg[y]
        BY <2>1, <3>1
      <4> QED
        BY <4>1 DEF Owes
    <3>4. \A y \in Tasks : Owes(y)' = Owes(y)
      BY <3>2, <3>3
    <3> QED
      BY <2>1, <3>4 DEF Discreet
  <2> QED
    BY <1>2, <2>2, <2>3 DEF SpawnTimer, NewTimer
<1>3. CASE SendQuestion(x)
  BY <1>3, OverIsDiscreet DEF SendQuestion, Owes
<1> QED
  BY <1>1, <1>2, <1>3 DEF Ask

-----------------------------------------------------------------------------
(* Who owes a row after a step of x that keeps what x has in its hands. *)
LEMMA DebtAfter ==
    ASSUME TypeInv, NEW x \in Tasks, NEW label, NEW ticks, Goto(x, label, ticks), UNCHANGED <<st, arg>>,
           NEW b \in Inputs
    PROVE  Owing(b)' = (Owing(b) \ {x}) \cup
              {y \in {x} : label \in {"clear", "note", "report"} /\ Fits(x) /\ st[x].block = b}
<1>1. pc'[x] = label /\ \A y \in Tasks \ {x} : pc'[y] = pc[y]
  BY DEF Goto, TypeInv, TypeOK
<1>2. \A y : Fits(y)' = Fits(y)
  BY DEF Fits
<1> QED
  BY <1>1, <1>2 DEF Owing

(* Who owes nothing and makes an attempt owes its row ... *)
LEMMA AttemptOwes ==
    ASSUME TypeInv, Trail, NEW x \in Tasks, ~Owes(x), st[x].block \in Inputs,
           Attempt(x), NEW label \in {"clear", "note", "report"}, NEW ticks, Goto(x, label, ticks),
           UNCHANGED <<st, arg, rows, running>>
    PROVE  Trail'
<1>1. ASSUME NEW b \in Inputs, downs = 0 PROVE Balanced(b)'
  <2>1. Balanced(b) /\ x \notin Owing(b)
    BY <1>1 DEF Trail, Owing, Owes
  <2>2. tried \in [Inputs -> Nat] /\ rows[b]["created"] \in Nat /\ rows[b]["failed"] \in Nat
    BY DEF TypeInv, TypeOK, Statuses
  <2>3. Filed(b)' = Filed(b) /\ Filed(b) \in Nat /\ Cardinality(Owing(b)) \in Nat
    BY <2>1, <2>2, FS_CardinalityType DEF Filed, Balanced
  <2>4. CASE Fits(x) /\ st[x].block = b
    <3>1. Owing(b)' = Owing(b) \cup {x}
      BY <2>1, <2>4, DebtAfter
    <3>2. tried'[b] = tried[b] + 1
      BY <2>2, <2>4 DEF Attempt
    <3>3. IsFiniteSet(Owing(b)') /\ Cardinality(Owing(b)') = Cardinality(Owing(b)) + 1
      BY <2>1, <3>1, FS_AddElement DEF Balanced
    <3> QED
      BY <2>1, <2>2, <2>3, <3>2, <3>3 DEF Balanced
  <2>5. CASE ~(Fits(x) /\ st[x].block = b)
    <3>1. Owing(b)' = Owing(b)
      BY <2>1, <2>5, DebtAfter
    <3>2. tried'[b] = tried[b]
      BY <2>2, <2>5 DEF Attempt
    <3> QED
      BY <2>1, <2>3, <3>1, <3>2 DEF Balanced
  <2> QED
    BY <2>4, <2>5
<1> QED
  BY <1>1 DEF Trail, running

(* ... and who owes one pays with Log. *)
LEMMA LogPays ==
    ASSUME "log" \notin Faults, TypeInv, Trail, NEW x \in Tasks, Owes(x), st[x].block \in Inputs,
           NEW status \in Statuses, Log(x, status), NEW label, label \notin {"clear", "note", "report"},
           NEW ticks, Goto(x, label, ticks), UNCHANGED <<st, arg, tried, running>>
    PROVE  Trail'
<1>1. ASSUME NEW b \in Inputs, downs = 0 PROVE Balanced(b)'
  <2>1. Balanced(b) /\ Owing(b)' = Owing(b) \ {x}
    BY <1>1, DebtAfter DEF Trail
  <2>2. rows[b] \in [Statuses -> Nat] /\ rows \in [Inputs -> [Statuses -> Nat]]
    BY DEF TypeInv, TypeOK
  <2>3. Filed(b) \in Nat /\ Cardinality(Owing(b)) \in Nat
    BY <2>1, <2>2, FS_CardinalityType DEF Filed, Balanced, Statuses
  <2>4. CASE Fits(x) /\ st[x].block = b
    <3>1. x \in Owing(b)
      BY <2>4 DEF Owing, Owes
    <3>2. rows'[b] = [rows[b] EXCEPT ![status] = @ + 1]
      BY <2>2, <2>4 DEF Log
    <3>3. Filed(b)' = Filed(b) + 1
      BY <2>2, <3>2 DEF Filed, Statuses
    <3>4. IsFiniteSet(Owing(b)') /\ Cardinality(Owing(b)') = Cardinality(Owing(b)) - 1
      BY <2>1, <3>1, FS_RemoveElement DEF Balanced
    <3> QED
      BY <2>1, <2>3, <3>3, <3>4 DEF Balanced
  <2>5. CASE ~(Fits(x) /\ st[x].block = b)
    <3>1. x \notin Owing(b) /\ Owing(b)' = Owing(b)
      BY <2>1, <2>5 DEF Owing
    <3>2. rows'[b] = rows[b]
      BY <2>2, <2>5 DEF Log
    <3> QED
      BY <2>1, <3>1, <3>2 DEF Balanced, Filed
  <2> QED
    BY <2>4, <2>5
<1> QED
  BY <1>1 DEF Trail, running

LEMMA CreateIsTrail ==
    ASSUME "log" \notin Faults, TypeInv, Trail, NEW x \in Tasks, Create(x)
    PROVE  Trail'
<1>0. ASSUME pc[x] \in Holding PROVE st[x].block \in Inputs
  BY <1>0, StateFields DEF TypeInv, Held
<1>1. CASE CreateTicket(x)
  <2>1. st[x].block \in Inputs /\ ~Owes(x)
    BY <1>0, <1>1 DEF CreateTicket, Holding, Owes
  <2>2. Goto(x, "clear", 0) \/ Goto(x, "note", CallTicks)
    BY <1>1 DEF CreateTicket, Step, Call
  <2> QED
    BY <1>1, <2>1, <2>2, AttemptOwes DEF CreateTicket
<1>2. CASE LogFailed(x)
  <2>1. st[x].block \in Inputs /\ Owes(x) /\ "failed" \in Statuses
    BY <1>0, <1>2 DEF LogFailed, Holding, Owes, Statuses
  <2>2. Goto(x, "refresh", 0) /\ "refresh" \notin {"clear", "note", "report"}
    BY <1>2 DEF LogFailed, Step
  <2> QED
    BY <1>2, <2>1, <2>2, LogPays DEF LogFailed
<1>3. CASE RefreshSession(x)
  BY <1>3, MoveIsDiscreet, DiscreetStep DEF RefreshSession, Owes, Call, outside
<1>4. CASE Excuse(x)
  <2>1. ~Owes(x) /\ UNCHANGED <<rows, tried, running>>
    BY <1>4 DEF Excuse, Owes, outside
  <2> QED
    BY <1>4, <2>1, OverIsDiscreet, MoveIsDiscreet, DiscreetStep DEF Excuse, Call
<1>5. CASE ClearSession(x) /\ pc[x] = "reject"
  <2>1. st[x].block \in Inputs /\ ~Owes(x)
    BY <1>0, <1>5 DEF Holding, Owes
  <2>2. Goto(x, "report", CallTicks)
    BY <1>5 DEF ClearSession, Call
  <2> QED
    BY <1>5, <2>1, <2>2, AttemptOwes DEF ClearSession
<1>6. CASE ClearSession(x) /\ pc[x] = "clear"
  <2>1. UNCHANGED <<st, arg, rows, tried, running>> /\ Goto(x, "report", CallTicks)
    BY <1>6 DEF ClearSession, Call
  <2>2. pc'[x] = "report" /\ \A y \in Tasks \ {x} : pc'[y] = pc[y]
    BY <2>1 DEF Goto, TypeInv, TypeOK
  <2>3. \A y \in Tasks : Owes(y)' = Owes(y)
    BY <1>6, <2>2 DEF Owes
  <2> QED
    BY <2>1, <2>3, DiscreetStep DEF Discreet
<1>7. CASE Report(x)
  <2>1. st[x].block \in Inputs /\ Owes(x)
    BY <1>0, <1>7 DEF Report, Holding, Owes
  <2>2. PICK status \in Statuses : Log(x, status)
    BY <1>7 DEF Report, Statuses
  <2>3. Goto(x, "tell", CallTicks) /\ "tell" \notin {"clear", "note", "report"}
    BY <1>7 DEF Report, Call
  <2> QED
    BY <1>7, <2>1, <2>2, <2>3, LogPays DEF Report
<1>8. CASE Tell(x)
  BY <1>8, OverIsDiscreet, DiscreetStep DEF Tell, Owes, outside
<1> QED
  BY <1>1, <1>2, <1>3, <1>4, <1>5, <1>6, <1>7, <1>8 DEF Create, ClearSession

LEMMA TimeoutIsDiscreet ==
    ASSUME TypeInv, NEW t \in Timers, TimerFires(t) \/ Release(t)
    PROVE  Discreet
<1>0. t \in Tasks
  BY DEF Tasks
<1>1. CASE TimerFires(t)
  <2>1. ~Owes(t) /\ UNCHANGED <<rows, tried, running>>
    BY <1>1 DEF TimerFires, Owes, outside
  <2> QED
    BY <1>0, <1>1, <2>1, OverIsDiscreet, OnwardIsDiscreet DEF TimerFires, OnTimeout
<1>2. CASE Release(t)
  BY <1>0, <1>2, MoveIsDiscreet DEF Release, Owes, Step, outside
<1> QED
  BY <1>1, <1>2

(* A process that went down has stopped counting, and one that is down went *)
(* down.                                                                    *)
LEMMA DownIsTrail == ASSUME TypeInv, TasksGone PROVE Trail'
<1>1. downs' > 0
  BY FlowAssumption DEF TasksGone, TypeInv, TypeOK
<1> QED
  BY <1>1 DEF Trail

LEMMA RestartIsTrail == ASSUME TypeInv, Trail, Restart PROVE Trail'
<1>1. downs > 0 /\ downs' = downs /\ downs \in Nat
  BY FlowAssumption DEF Trail, Restart, TypeInv, TypeOK
<1> QED
  BY <1>1 DEF Trail

(* Every attempt to create a ticket that fits the table leaves a row of its  *)
(* own (orchestrator.py:288-321), the second one of a block too, whatever    *)
(* else fails: if the insert does not, and while the process is up.          *)
THEOREM EveryTicketRecorded ==
    ASSUME "log" \notin Faults
    PROVE  Spec => []AuditTrail
<1>1. Init => Trail
  <2>1. SUFFICES ASSUME Init, NEW b \in Inputs PROVE Balanced(b)
    BY DEF Init, Trail
  <2>2. Owing(b) = {}
    BY <2>1 DEF Init, Owing
  <2>3. rows[b]["created"] = 0 /\ rows[b]["failed"] = 0 /\ tried[b] = 0
    BY <2>1 DEF Init, Statuses
  <2> QED
    BY <2>2, <2>3, FS_EmptySet DEF Balanced, Filed
<1>2. TypeInv /\ Trail /\ [Next]_vars => Trail'
  <2> SUFFICES ASSUME TypeInv, Trail, [Next]_vars PROVE Trail'
    OBVIOUS
  <2>1. CASE \E i \in Inputs : HandleInput(i)
    BY <2>1, InputIsDiscreet, DiscreetStep
  <2>2. CASE \E x \in Tasks : Create(x)
    BY <2>2, CreateIsTrail
  <2>3. CASE \E x \in Tasks : Ask(x)
    BY <2>3, AskIsDiscreet, DiscreetStep
  <2>4. CASE \E t \in Timers : Timeout(t)
    BY <2>4, TimeoutIsDiscreet, DownIsTrail, DiscreetStep DEF Timeout, StartupFails
  <2>5. CASE Tick
    BY <2>5, DiscreetStep DEF Tick, Discreet, Owes, outside
  <2>6. CASE Crash \/ Stop
    BY <2>6, DownIsTrail DEF Crash, Stop
  <2>7. CASE Restart
    BY <2>7, RestartIsTrail
  <2>8. CASE UNCHANGED vars
    BY <2>8, DiscreetStep DEF vars, tasks, outside, Discreet, Owes
  <2> QED
    BY <2>1, <2>2, <2>3, <2>4, <2>5, <2>6, <2>7, <2>8 DEF Next
<1>3. Trail => AuditTrail
  BY DEF Trail, Balanced, Filed, AuditTrail
<1> QED
  BY <1>1, <1>2, <1>3, TypeInvariant, PTL DEF Spec
=============================================================================
