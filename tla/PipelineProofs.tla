--------------------------- MODULE PipelineProofs ---------------------------
(***************************************************************************)
(* Theorems of Pipeline, for any messages, payloads, requests, watchers,   *)
(* TTLs, faults and kills.  The steps of the two modules are theirs: what  *)
(* is proved of them there is used here.                                   *)
(***************************************************************************)
EXTENDS Pipeline, TLAPS

WP == INSTANCE WebhookIntakeProofs WITH
        Faults <- Faults \ {"task", "close"}

BP == INSTANCE MessageBufferProofs WITH
        Restarts <- {"crash"}, QuietClose <- FALSE, pc <- watcher

LEMMA Assumptions == WP!IntakeAssumption /\ BP!BufferAssumption
  BY PipelineAssumption DEF WP!IntakeAssumption, BP!BufferAssumption

USE DEF request, intake, keys, buffer, conversation, ghosts

-----------------------------------------------------------------------------
(* Which steps are steps of the intake, and which of the buffer. *)
LEMMA IntakeSteps ==
    ASSUME [Next]_vars
    PROVE  \/ [WP!Next]_(WP!vars)
           \/ \E r \in Requests : PushFails(r) \/ ReplyFails(r)
           \/ \E w \in Watchers : CloseBlock(w)
<1> USE DEF W!NextMessage, WP!NextMessage, W!Goto, WP!Goto, W!Fails, WP!Fails, W!Fault,
            WP!Fault, W!Unique, WP!Unique, W!bounds, WP!bounds
<1>1. ASSUME NEW r \in Requests, NEW p \in Payloads, Deliver(r, p) PROVE WP!Next
  BY <1>1, Zenon DEF Deliver, W!Deliver, WP!Deliver, WP!Next
<1>2. ASSUME NEW r \in Requests, Intake(r) PROVE WP!Serve(r)
  BY <1>2, Zenon DEF Intake, WP!Serve, W!SelectExisting, W!LookupWorker, W!StoreAndSchedule,
     W!Answer, WP!SelectExisting, WP!LookupWorker, WP!StoreAndSchedule, WP!Answer
<1>3. ASSUME NEW r \in Requests, BeginTask(r) PROVE WP!Serve(r)
  BY <1>3, Zenon DEF BeginTask, W!Process, WP!Process, WP!Serve
<1>4. ASSUME NEW r \in Requests, EndRequest(r) PROVE WP!Serve(r)
  BY <1>4, Zenon DEF EndRequest, W!Done, WP!Done, WP!Serve
<1>5. CASE Crash
  BY <1>5, Zenon DEF Crash, W!Crash, WP!Crash, WP!Next
<1>6. ASSUME UNCHANGED intake PROVE UNCHANGED WP!vars
  BY <1>6 DEF WP!vars, WP!request
<1> QED
  BY <1>1, <1>2, <1>3, <1>4, <1>5, <1>6, Zenon
  DEF Next, Serve, HandleClientReply, Push, Close, Watch, OpenSession, MoveOn, Tick, Restart, WP!Next,
      vars

LEMMA BufferSteps ==
    ASSUME [Next]_vars, TypeOK
    PROVE  [BP!Next]_(BP!vars) \/ \E r \in Requests : PushFails(r)
<1> USE DEF B!keys, BP!keys, B!tasks, BP!tasks, B!ListTTL, BP!ListTTL, B!LockTTL, BP!LockTTL,
            B!Persistent, BP!Persistent, B!SpawnIfNeeded, BP!SpawnIfNeeded, B!Remaining,
            BP!Remaining, B!InProgress, BP!InProgress, B!Due, BP!Due, B!Minus1, BP!Minus1,
            B!Live, BP!Live, B!TasksGone, BP!TasksGone
<1>1. ASSUME NEW r \in Requests, Push(r) PROVE BP!Next
  <2>1. task[r] \in Messages /\ B!Push(task[r])
    BY <1>1 DEF Push, TypeOK
  <2>2. BP!Push(task[r])
    BY <2>1, Zenon DEF B!Push, BP!Push, B!RPush, BP!RPush, B!Expire, BP!Expire, B!SetMarker,
       BP!SetMarker, B!SpawnWatcher, BP!SpawnWatcher, B!Closing, BP!Closing
  <2> QED
    BY <2>1, <2>2, Zenon DEF BP!Next
<1>2. ASSUME NEW w \in Watchers, Watch(w) \/ CloseBlock(w) PROVE BP!Watch(w)
  BY <1>2, Zenon DEF Watch, CloseBlock, BP!Watch, B!SleepAgain, BP!SleepAgain, B!WindowClosed,
     BP!WindowClosed, B!LRange, BP!LRange, B!Release, BP!Release, B!DeleteAndHandOver,
     BP!DeleteAndHandOver, B!FinishClose, BP!FinishClose
<1>3. CASE Tick
  BY <1>3, Zenon DEF Tick, B!Tick, BP!Tick, BP!Next
<1>4. CASE Crash
  BY <1>4, Zenon DEF Crash, B!Crash, BP!Crash, BP!Next
<1>5. CASE Restart
  BY <1>5, Zenon DEF Restart, B!Restart, BP!Restart, BP!Next
<1>6. ASSUME UNCHANGED buffer PROVE UNCHANGED BP!vars
  BY <1>6 DEF BP!vars
<1> QED
  BY <1>1, <1>2, <1>3, <1>4, <1>5, <1>6, Zenon
  DEF Next, Serve, Deliver, Intake, BeginTask, HandleClientReply, ReplyFails, EndRequest, Close,
      OpenSession, MoveOn, BP!Next, vars

-----------------------------------------------------------------------------
TypeInv ==
    /\ TypeOK
    /\ WP!TypeInv

LEMMA TypesOfParts == TypeInv => WP!TypeInv /\ BP!TypeOK
  BY DEF TypeInv, TypeOK, B!TypeOK, BP!TypeOK, B!Persistent, BP!Persistent, B!LockTTL,
     BP!LockTTL, B!ListTTL, BP!ListTTL

LEMMA Counted == ASSUME TypeInv, faults < MaxFaults
                 PROVE  faults + 1 \in 0 .. MaxFaults
<1>1. faults \in 0 .. MaxFaults /\ MaxFaults \in Nat
  BY PipelineAssumption DEF TypeInv, WP!TypeInv, WP!TypeOK
<1> QED
  BY <1>1

LEMMA PushFailsType ==
    ASSUME TypeInv, NEW r \in Requests, PushFails(r)
    PROVE  WP!TypeInv' /\ BP!TypeOK'
<1>1. WP!TypeInv'
  <2>1. WP!Fails(r) /\ UNCHANGED load
    BY DEF PushFails, W!Fails, WP!Fails, W!Goto, WP!Goto
  <2>2. /\ pc' \in [Requests -> WP!Labels] /\ todo' \in [Requests -> Seq(Messages)]
        /\ queue' \in [Requests -> Seq(Allowed)] /\ WP!InLoop'
    BY <2>1, TypesOfParts, Assumptions, WP!FailsType
  <2>3. faults' \in 0 .. MaxFaults
    BY Counted DEF PushFails, Fault
  <2> QED
    BY <2>2, <2>3 DEF PushFails, TypeInv, WP!TypeInv, WP!TypeOK, WP!Labels
<1>2. BP!TypeOK'
  BY TypesOfParts DEF PushFails, BP!TypeOK
<1> QED
  BY <1>1, <1>2

LEMMA ReplyFailsType ==
    ASSUME TypeInv, NEW r \in Requests, ReplyFails(r)
    PROVE  WP!TypeInv'
<1>1. WP!Fails(r) /\ UNCHANGED load
  BY DEF ReplyFails, W!Fails, WP!Fails, W!Goto, WP!Goto
<1>2. /\ pc' \in [Requests -> WP!Labels] /\ todo' \in [Requests -> Seq(Messages)]
      /\ queue' \in [Requests -> Seq(Allowed)] /\ WP!InLoop'
  BY <1>1, TypesOfParts, Assumptions, WP!FailsType
<1>3. faults' \in 0 .. MaxFaults
  BY Counted DEF ReplyFails, Fault
<1> QED
  BY <1>2, <1>3 DEF ReplyFails, TypeInv, WP!TypeInv, WP!TypeOK, WP!Labels

LEMMA CloseBlockType ==
    ASSUME TypeInv, NEW w \in Watchers, CloseBlock(w)
    PROVE  WP!TypeInv'
<1>1. faults' \in 0 .. MaxFaults
  <2>1. CASE UNCHANGED faults
    BY <2>1 DEF TypeInv, WP!TypeInv, WP!TypeOK
  <2>2. CASE Fault("close")
    BY <2>2, Counted DEF Fault
  <2> QED
    BY <2>1, <2>2 DEF CloseBlock
<1> QED
  BY <1>1 DEF CloseBlock, TypeInv, WP!TypeInv, WP!TypeOK, WP!InLoop

LEMMA QueueHead ==
    ASSUME TypeInv, NEW r \in Requests, queue[r] # <<>>
    PROVE  Head(queue[r]) \in Messages
  BY PipelineAssumption DEF TypeInv, WP!TypeInv, WP!TypeOK

(* The request that runs a task does nothing else. *)
LEMMA TaskInProcess ==
    ASSUME TypeInv, [Next]_vars, NEW r \in Requests, Busy(r)'
    PROVE  pc'[r] = "process"
<1> USE DEF TypeInv, TypeOK, Busy
<1>0. pc \in [Requests -> WP!Labels]
  BY DEF WP!TypeInv, WP!TypeOK, WP!Labels
<1>1. CASE \E s \in Requests, p \in Payloads : Deliver(s, p)
  BY <1>0, <1>1 DEF Deliver, W!Deliver, W!Goto
<1>2. CASE \E s \in Requests : Intake(s)
  BY <1>0, <1>2 DEF Intake, W!SelectExisting, W!LookupWorker, W!StoreAndSchedule, W!Answer,
     W!NextMessage, W!Goto, W!Fails
<1>3. CASE \E s \in Requests : BeginTask(s)
  BY <1>0, <1>3 DEF BeginTask, W!Process, W!Goto, W!Fails
<1>4. CASE \E s \in Requests : PushFails(s)
  BY <1>0, <1>4 DEF PushFails, W!Goto, W!Fails
<1>5. CASE \E s \in Requests : ReplyFails(s)
  BY <1>0, <1>5 DEF ReplyFails, W!Goto, W!Fails
<1>6. CASE \E s \in Requests : EndRequest(s)
  BY <1>0, <1>6 DEF EndRequest, W!Done, W!Goto
<1>7. CASE Crash
  BY <1>7 DEF Crash
<1>8. ASSUME UNCHANGED pc,
             task' = task \/ \E s \in Requests : task' = [task EXCEPT ![s] = NoTask],
             reply' = reply \/ \E s \in Requests : reply' = [reply EXCEPT ![s] = NoTask]
      PROVE  pc'[r] = "process"
  BY <1>8
<1> QED
  BY <1>1, <1>2, <1>3, <1>4, <1>5, <1>6, <1>7, <1>8
  DEF Next, Serve, HandleClientReply, Push, Close, Watch, OpenSession, CloseBlock, MoveOn, Tick,
      Restart, vars

(* A request has one message in its hands at a time. *)
LEMMA OneTask ==
    ASSUME TypeInv, [Next]_vars, NEW r \in Requests
    PROVE  task'[r] = NoTask \/ reply'[r] = NoTask
<1> USE DEF TypeInv, TypeOK
<1>1. CASE \E s \in Requests : BeginTask(s)
  BY <1>1 DEF BeginTask, Busy
<1>2. CASE Crash
  BY <1>2 DEF Crash
<1>3. ASSUME task' = task \/ \E s \in Requests : task' = [task EXCEPT ![s] = NoTask],
             reply' = reply \/ \E s \in Requests : reply' = [reply EXCEPT ![s] = NoTask]
      PROVE  task'[r] = NoTask \/ reply'[r] = NoTask
  BY <1>3
<1> QED
  BY <1>1, <1>2, <1>3
  DEF Next, Deliver, Serve, Intake, HandleClientReply, Push, EndRequest, PushFails, ReplyFails, Close,
      Watch, OpenSession, CloseBlock, MoveOn, Tick, Restart, vars

LEMMA HandsTypes ==
    ASSUME TypeInv, [Next]_vars
    PROVE  /\ task' \in [Requests -> Messages \cup {NoTask}]
           /\ reply' \in [Requests -> Messages \cup {NoTask}]
<1> USE DEF TypeInv, TypeOK
<1>1. ASSUME NEW r \in Requests, BeginTask(r)
      PROVE  /\ task' \in [Requests -> Messages \cup {NoTask}]
             /\ reply' \in [Requests -> Messages \cup {NoTask}]
  BY <1>1, QueueHead DEF BeginTask, W!Process
<1> QED
  BY <1>1
  DEF Next, Deliver, Serve, Intake, HandleClientReply, Push, EndRequest, PushFails, ReplyFails, Close,
      Watch, OpenSession, CloseBlock, MoveOn, Tick, Crash, Restart, vars

LEMMA SessionTypes ==
    ASSUME TypeInv, [Next]_vars
    PROVE  asking' \in BOOLEAN /\ begun' \in SUBSET Watchers /\ opened' \in SUBSET Messages
<1> USE DEF TypeInv, TypeOK
<1>1. ASSUME NEW w \in Watchers, OpenSession(w) \/ CloseBlock(w)
      PROVE  asking' \in BOOLEAN /\ begun' \in SUBSET Watchers /\ opened' \in SUBSET Messages
  BY <1>1 DEF OpenSession, CloseBlock, B!TypeOK
<1>2. CASE MoveOn \/ Crash
  BY <1>2 DEF MoveOn, Crash
<1>3. CASE UNCHANGED conversation
  BY <1>3
<1> QED
  BY <1>1, <1>2, <1>3
  DEF Next, Deliver, Serve, Intake, BeginTask, HandleClientReply, Push, EndRequest, PushFails,
      ReplyFails, Close, Watch, Tick, Restart, vars

LEMMA GhostTypes ==
    ASSUME TypeInv, [Next]_vars
    PROVE  /\ taken' \in SUBSET Messages
           /\ lost' \in [Messages -> {"no"} \cup Causes]
<1> USE DEF TypeInv, TypeOK
<1>1. ASSUME NEW S, NEW c \in Causes, Lose(S, c) PROVE lost' \in [Messages -> {"no"} \cup Causes]
  BY <1>1 DEF Lose
<1>2. ASSUME NEW r \in Requests, BeginTask(r) \/ HandleClientReply(r)
      PROVE  /\ taken' \in SUBSET Messages
             /\ lost' \in [Messages -> {"no"} \cup Causes]
  BY <1>1, <1>2, QueueHead DEF BeginTask, HandleClientReply, W!Process, Causes
<1>3. CASE UNCHANGED taken
  BY <1>1, <1>2, <1>3
  DEF Next, Deliver, Serve, Intake, Push, EndRequest, PushFails, ReplyFails, Close, Watch, OpenSession,
      CloseBlock, MoveOn, Tick, Crash, Restart, vars, Causes
<1> QED
  BY <1>2, <1>3
  DEF Next, Deliver, Serve, Intake, Push, EndRequest, PushFails, ReplyFails, Close, Watch, OpenSession,
      CloseBlock, MoveOn, Tick, Crash, Restart, vars

LEMMA OverlappedType == ASSUME TypeInv, [Next]_vars PROVE overlapped' \in BOOLEAN
  BY Zenon
  DEF TypeInv, TypeOK, Next, Deliver, Serve, Intake, BeginTask, HandleClientReply, Push, EndRequest,
      PushFails, ReplyFails, Close, Watch, OpenSession, CloseBlock, MoveOn, Tick, Crash, Restart, vars

LEMMA TypeStep == ASSUME TypeInv, [Next]_vars PROVE TypeInv'
<1>1. WP!TypeInv'
  BY IntakeSteps, TypesOfParts, PushFailsType, ReplyFailsType, CloseBlockType, Assumptions, WP!TypeStep,
     Zenon
<1>2. BP!TypeOK'
  BY BufferSteps, TypesOfParts, PushFailsType, Assumptions, BP!TypeStep, Zenon DEF TypeInv
<1>3. WP!TypeOK' /\ W!TypeOK'
  BY <1>1 DEF WP!TypeInv, WP!TypeOK, W!TypeOK
<1>4. B!TypeOK'
  BY <1>2 DEF B!TypeOK, BP!TypeOK, B!Persistent, BP!Persistent, B!LockTTL, BP!LockTTL,
     B!ListTTL, BP!ListTTL
<1> QED
  BY <1>1, <1>3, <1>4, HandsTypes, SessionTypes, GhostTypes, OverlappedType, OneTask, TaskInProcess
  DEF TypeInv, TypeOK, Busy

LEMMA InitType == Init => TypeInv
<1> SUFFICES ASSUME Init PROVE TypeInv
  OBVIOUS
<1>1. WP!Init /\ BP!Init
  BY Zenon DEF Init, W!Init, WP!Init, B!Init, BP!Init
<1>2. WP!TypeInv /\ BP!TypeOK
  BY <1>1, Assumptions, WP!InitType, BP!InitType, Zenon
<1>3. W!TypeOK
  BY <1>2 DEF WP!TypeInv, WP!TypeOK, W!TypeOK
<1>4. B!TypeOK
  BY <1>2 DEF B!TypeOK, BP!TypeOK, B!Persistent, BP!Persistent, B!LockTTL, BP!LockTTL,
     B!ListTTL, BP!ListTTL
<1>5. overlapped \in BOOLEAN
  BY Zenon DEF Init
<1>6. /\ task \in [Requests -> Messages \cup {NoTask}]
      /\ reply \in [Requests -> Messages \cup {NoTask}]
      /\ asking \in BOOLEAN /\ begun \in SUBSET Watchers
      /\ opened \in SUBSET Messages /\ taken \in SUBSET Messages
      /\ lost \in [Messages -> {"no"} \cup Causes]
      /\ \A r \in Requests : ~Busy(r)
  BY DEF Init, Busy
<1> QED
  BY <1>2, <1>3, <1>4, <1>5, <1>6, Zenon DEF TypeInv, TypeOK, Busy

LEMMA Types == Spec => []TypeInv
<1>1. TypeInv /\ [Next]_vars => TypeInv'
  BY TypeStep
<1> QED
  BY <1>1, InitType, PTL DEF Spec

(* Every variable of the whole way keeps its type. *)
THEOREM TypeCorrect == Spec => []TypeOK
  BY Types, PTL DEF TypeInv

-----------------------------------------------------------------------------
(* What a background task, and what a watcher, has in its hands. *)
Elements(q) == {q[i] : i \in 1 .. Len(q)}

Waiting(m) == \E r \in Requests : m \in Elements(queue[r]) \/ task[r] = m \/ reply[r] = m

Buffered(m) == m \in list \/ \E w \in Watchers : watcher[w] = "close" /\ m \in entries[w]

Followed(m) ==
    /\ m \in stored /\ sender[m] = "unsent" => Waiting(m) \/ m \in taken \/ lost[m] # "no"
    /\ sender[m] # "unsent" => Buffered(m) \/ m \in opened \/ lost[m] # "no"

(* Who has opened the session of a block has not ended yet. *)
BegunOpened == \A w \in begun : watcher[w] = "close" /\ entries[w] \subseteq opened

LEMMA ElementsOfTail ==
    ASSUME NEW S, NEW q \in Seq(S), q # <<>>
    PROVE  Elements(q) \subseteq Elements(Tail(q)) \cup {Head(q)}
<1> SUFFICES ASSUME NEW i \in 1 .. Len(q), i # 1 PROVE q[i] \in Elements(Tail(q))
  BY DEF Elements
<1>1. i - 1 \in 1 .. Len(Tail(q)) /\ Tail(q)[i - 1] = q[i]
  OBVIOUS
<1> QED
  BY <1>1 DEF Elements

LEMMA ElementsOfAppend ==
    ASSUME NEW S, NEW q \in Seq(S), NEW e \in S
    PROVE  Elements(Append(q, e)) = Elements(q) \cup {e}
<1>1. Len(Append(q, e)) = Len(q) + 1 /\ Append(q, e)[Len(q) + 1] = e /\ Len(q) \in Nat
  OBVIOUS
<1>2. \A i \in 1 .. Len(q) : Append(q, e)[i] = q[i] /\ i \in 1 .. Len(q) + 1
  OBVIOUS
<1>3. \A i \in 1 .. Len(q) + 1 : i \in 1 .. Len(q) \/ i = Len(q) + 1
  BY <1>1
<1> QED
  BY <1>1, <1>2, <1>3 DEF Elements

LEMMA LostForGood ==
    ASSUME TypeInv, NEW S, NEW c \in Causes, Lose(S, c), NEW m \in Messages
    PROVE  lost'[m] # "no" <=> m \in S \/ lost[m] # "no"
  BY DEF Lose, Causes

(* Steps that leave alone what a message is followed by. *)
LEMMA Undisturbed ==
    ASSUME TypeInv, NEW m \in Messages, Followed(m),
           UNCHANGED <<queue, task, reply, taken, sender, list, entries>>,
           opened \subseteq opened',
           m \in stored' => m \in stored \/ lost'[m] # "no",
           lost[m] # "no" => lost'[m] # "no",
           \A w \in Watchers : watcher[w] = "close" => watcher'[w] = "close"
    PROVE  Followed(m)'
  BY DEF Followed, Waiting, Buffered

LEMMA IntakeFollowed ==
    ASSUME TypeInv, NEW m \in Messages, Followed(m), NEW r \in Requests, Intake(r)
    PROVE  Followed(m)'
<1>1. /\ UNCHANGED <<sender, task, reply, taken, opened, list, entries, watcher>>
      /\ lost[m] # "no" => lost'[m] # "no"
  BY LostForGood DEF Intake, Causes
<1>2. m \in stored' /\ sender'[m] = "unsent" => Waiting(m)' \/ m \in taken' \/ lost'[m] # "no"
  <2> SUFFICES ASSUME m \in stored', sender[m] = "unsent", lost'[m] = "no", m \notin taken
               PROVE  Waiting(m)'
    BY <1>1
  <2>1. queue \in [Requests -> Seq(Allowed)]
    BY DEF TypeInv, TypeOK, W!TypeOK
  <2>2. CASE queue'[r] = <<>> /\ stored' = stored /\ queue' = [queue EXCEPT ![r] = <<>>]
    <3>1. m \notin Elements(queue[r])
      BY <2>2, LostForGood DEF Intake, Queued, Elements, Causes
    <3>2. PICK s \in Requests : m \in Elements(queue[s]) \/ task[s] = m \/ reply[s] = m
      BY <1>1, <2>2 DEF Followed, Waiting
    <3> QED
      BY <1>1, <2>1, <2>2, <3>1, <3>2 DEF Waiting
  <2>3. CASE /\ Head(todo[r]) \in Allowed
             /\ stored' = stored \cup {Head(todo[r])}
             /\ queue' = [queue EXCEPT ![r] = Append(@, Head(todo[r]))]
    <3>1. Elements(queue'[r]) = Elements(queue[r]) \cup {Head(todo[r])}
      BY <2>1, <2>3, ElementsOfAppend
    <3>2. \A s \in Requests \ {r} : queue'[s] = queue[s]
      BY <2>1, <2>3
    <3> QED
      BY <1>1, <2>3, <3>1, <3>2 DEF Followed, Waiting
  <2>4. CASE UNCHANGED <<stored, queue>>
    BY <1>1, <2>4 DEF Followed, Waiting
  <2> QED
    BY <2>1, <2>2, <2>3, <2>4
    DEF Intake, W!SelectExisting, W!LookupWorker, W!StoreAndSchedule, W!Answer, W!Fails,
        TypeInv, WP!TypeInv, WP!InLoop
<1>3. sender'[m] # "unsent" => Buffered(m)' \/ m \in opened' \/ lost'[m] # "no"
  BY <1>1 DEF Followed, Buffered
<1> QED
  BY <1>2, <1>3 DEF Followed

LEMMA BeginFollowed ==
    ASSUME TypeInv, NEW m \in Messages, Followed(m), NEW r \in Requests, BeginTask(r)
    PROVE  Followed(m)'
<1>1. /\ UNCHANGED <<sender, stored, opened, list, entries, watcher>>
      /\ queue[r] # <<>> /\ task[r] = NoTask /\ reply[r] = NoTask
      /\ queue \in [Requests -> Seq(Allowed)] /\ task \in [Requests -> Messages \cup {NoTask}]
      /\ reply \in [Requests -> Messages \cup {NoTask}]
      /\ pc[r] = "process"
      /\ r \in DOMAIN pc
      /\ m # NoTask
  BY PipelineAssumption DEF BeginTask, Busy, W!Process, TypeInv, TypeOK, W!TypeOK
<1>2. ASSUME queue' = [queue EXCEPT ![r] = Tail(@)], lost' = lost,
             \/ task' = [task EXCEPT ![r] = Head(queue[r])] /\ UNCHANGED <<reply, taken>>
             \/ reply' = [reply EXCEPT ![r] = Head(queue[r])] /\ UNCHANGED <<task, taken>>
             \/ taken' = taken \cup {Head(queue[r])} /\ UNCHANGED <<task, reply>>
      PROVE  Followed(m)'
  <2>1. Elements(queue[r]) \subseteq Elements(queue'[r]) \cup {Head(queue[r])}
    BY <1>1, <1>2, ElementsOfTail
  <2>2. \A s \in Requests \ {r} : queue'[s] = queue[s] /\ task'[s] = task[s] /\ reply'[s] = reply[s]
    BY <1>1, <1>2
  <2>3. task'[r] = Head(queue[r]) \/ reply'[r] = Head(queue[r]) \/ Head(queue[r]) \in taken'
    BY <1>1, <1>2
  <2>4. taken \subseteq taken'
    BY <1>2
  <2>5. Waiting(m) => Waiting(m)' \/ m \in taken'
    <3> SUFFICES ASSUME NEW s \in Requests,
                        m \in Elements(queue[s]) \/ task[s] = m \/ reply[s] = m
                 PROVE  Waiting(m)' \/ m \in taken'
      BY DEF Waiting
    <3>1. CASE s # r
      BY <2>2, <3>1 DEF Waiting
    <3>2. CASE s = r
      BY <1>1, <2>1, <2>3, <3>2 DEF Waiting
    <3> QED
      BY <3>1, <3>2
  <2> QED
    BY <1>1, <1>2, <2>4, <2>5 DEF Followed, Buffered
<1>3. CASE /\ queue' = [queue EXCEPT ![r] = <<>>]
           /\ Lose(Queued(r), "request") /\ UNCHANGED <<task, reply, taken>>
  <2>1. \A s \in Requests \ {r} : queue'[s] = queue[s]
    BY <1>1, <1>3
  <2>2. lost'[m] # "no" <=> m \in Elements(queue[r]) \/ lost[m] # "no"
    BY <1>3, LostForGood DEF Queued, Elements, Causes
  <2> QED
    BY <1>1, <1>3, <2>1, <2>2 DEF Followed, Waiting, Buffered
<1>4. pc'[r] = "process" => queue' = [queue EXCEPT ![r] = Tail(@)]
  <2>1. W!Fails(r) => pc'[r] = "idle"
    BY <1>1 DEF W!Fails, W!Goto
  <2> QED
    BY <2>1 DEF BeginTask, W!Process
<1>5. pc'[r] = "idle" => queue' = [queue EXCEPT ![r] = <<>>]
  BY <1>1 DEF BeginTask, W!Process, W!Fails
<1> QED
  BY <1>2, <1>3, <1>4, <1>5 DEF BeginTask

LEMMA ReplyFollowed ==
    ASSUME TypeInv, NEW m \in Messages, Followed(m), NEW r \in Requests,
           HandleClientReply(r) \/ ReplyFails(r)
    PROVE  Followed(m)'
<1>1. /\ UNCHANGED <<sender, stored, opened, list, entries, watcher, task>>
      /\ reply \in [Requests -> Messages \cup {NoTask}]
      /\ reply' = [reply EXCEPT ![r] = NoTask]
      /\ queue \in [Requests -> Seq(Allowed)]
      /\ m # NoTask /\ taken \subseteq taken'
  BY PipelineAssumption DEF HandleClientReply, ReplyFails, TypeInv, TypeOK, W!TypeOK
<1>2. \A s \in Requests \ {r} : reply'[s] = reply[s] /\ queue'[s] = queue[s]
  BY <1>1 DEF HandleClientReply, ReplyFails, W!Fails
<1>3. \/ m \in taken' \/ lost'[m] # "no"
      \/ /\ reply[r] # m /\ lost[m] = "no"
         /\ m \in Elements(queue[r]) => m \in Elements(queue'[r])
  <2>1. CASE HandleClientReply(r)
    BY <2>1, LostForGood DEF HandleClientReply, Causes
  <2>2. CASE ReplyFails(r)
    BY <2>2, LostForGood DEF ReplyFails, Queued, Elements, Causes
  <2> QED
    BY <2>1, <2>2
<1>4. lost[m] # "no" => lost'[m] # "no"
  BY LostForGood DEF HandleClientReply, ReplyFails, Causes
<1> QED
  BY <1>1, <1>2, <1>3, <1>4 DEF Followed, Waiting, Buffered

LEMMA PushFollowed ==
    ASSUME TypeInv, NEW m \in Messages, Followed(m), NEW r \in Requests, Push(r)
    PROVE  Followed(m)'
<1>1. UNCHANGED <<stored, queue, opened, lost, entries, reply, taken>> /\ task[r] \in Messages
  BY DEF Push, B!Push, B!RPush, B!Expire, B!SetMarker, B!SpawnWatcher, TypeInv, TypeOK, B!tasks
<1>2. sender'[task[r]] # "unsent" /\ \A n \in Messages \ {task[r]} : sender'[n] = sender[n]
  BY <1>1 DEF Push, B!Push, B!RPush, B!Expire, B!SetMarker, B!SpawnWatcher, TypeInv, TypeOK,
     B!TypeOK
<1>3. \A n \in Messages \ {task[r]}, s \in Requests : task[s] = n => task'[s] = n
  BY DEF Push, TypeInv, TypeOK
<1>4. list \subseteq list' /\ (sender[task[r]] = "unsent" => task[r] \in list')
  BY DEF Push, B!Push, B!RPush, B!Expire, B!SetMarker, B!SpawnWatcher
<1>5. \A w \in Watchers : watcher[w] = "close" => watcher'[w] = "close"
  BY DEF Push, B!Push, B!RPush, B!Expire, B!SetMarker, B!SpawnWatcher, B!SpawnIfNeeded, B!tasks,
     TypeInv, TypeOK, B!TypeOK
<1> QED
  BY <1>1, <1>2, <1>3, <1>4, <1>5 DEF Followed, Waiting, Buffered

LEMMA PushFailsFollowed ==
    ASSUME TypeInv, NEW m \in Messages, Followed(m), NEW r \in Requests, PushFails(r)
    PROVE  Followed(m)'
<1>1. UNCHANGED <<stored, opened, list, entries, watcher, reply, taken>> /\ task[r] \in Messages
  BY DEF PushFails, TypeInv, TypeOK
<1>2. \/ lost'[m] # "no"
      \/ /\ lost[m] = "no" /\ m \notin Elements(queue[r])
         /\ task[r] = m => sender[m] # "unsent"
  BY LostForGood DEF PushFails, Queued, Elements, Causes
<1>3. /\ sender'[task[r]] # "unsent"
      /\ \A n \in Messages \ {task[r]} : sender'[n] = sender[n]
  BY <1>1 DEF PushFails, TypeInv, TypeOK, B!TypeOK
<1>4. \A s \in Requests \ {r} : queue'[s] = queue[s] /\ task'[s] = task[s]
  BY DEF PushFails, W!Fails, TypeInv, TypeOK, W!TypeOK
<1> QED
  BY <1>1, <1>2, <1>3, <1>4 DEF Followed, Waiting, Buffered

LEMMA WatchFollowed ==
    ASSUME TypeInv, BegunOpened, NEW m \in Messages, Followed(m), NEW w \in Watchers,
           Watch(w) \/ CloseBlock(w)
    PROVE  Followed(m)'
<1> USE DEF TypeInv, TypeOK, B!TypeOK
<1>1. UNCHANGED <<stored, queue, task, sender, reply, taken>>
  BY DEF Watch, CloseBlock, B!SleepAgain, B!WindowClosed, B!LRange, B!DeleteAndHandOver,
     B!FinishClose, B!Release
<1>2. CASE B!DeleteAndHandOver(w) /\ Lose(list \ entries[w], "race") /\ UNCHANGED opened
  <2>1. lost'[m] # "no" <=> m \in list \ entries[w] \/ lost[m] # "no"
    BY <1>2, LostForGood DEF Causes
  <2>2. UNCHANGED entries /\ watcher'[w] = IF entries[w] = {} THEN "release" ELSE "close"
    BY <1>2 DEF B!DeleteAndHandOver
  <2>3. \A v \in Watchers : watcher[v] = "close" => watcher'[v] = "close"
    BY <1>2 DEF B!DeleteAndHandOver
  <2> QED
    BY <1>1, <1>2, <2>1, <2>2, <2>3 DEF Followed, Waiting, Buffered
<1>3. CASE CloseBlock(w)
  <2>1. /\ UNCHANGED <<list, entries>>
        /\ \A v \in Watchers \ {w} : watcher'[v] = watcher[v]
        /\ opened \subseteq opened'
    BY <1>3 DEF CloseBlock, B!FinishClose, B!keys
  <2>2. lost[m] # "no" => lost'[m] # "no"
    BY <1>3, LostForGood DEF CloseBlock, Causes
  <2>3. m \in entries[w] => m \in opened' \/ lost'[m] # "no"
    BY <1>3, LostForGood DEF CloseBlock, Causes, BegunOpened
  <2> QED
    BY <1>1, <2>1, <2>2, <2>3 DEF Followed, Waiting, Buffered
<1>4. CASE B!SleepAgain(w) \/ B!WindowClosed(w) \/ B!LRange(w) \/ B!Release(w)
  <2>1. UNCHANGED list /\ watcher[w] # "close"
    BY <1>4 DEF B!SleepAgain, B!WindowClosed, B!LRange, B!Release, B!keys
  <2>2. \A v \in Watchers \ {w} : watcher'[v] = watcher[v] /\ entries'[v] = entries[v]
    BY <1>4 DEF B!SleepAgain, B!WindowClosed, B!LRange, B!Release, B!keys
  <2>3. CASE UNCHANGED <<lost, opened>>
    BY <1>1, <2>1, <2>2, <2>3 DEF Followed, Waiting, Buffered
  <2> QED
    BY <1>2, <1>3, <2>3, <1>4 DEF Watch
<1> QED
  BY <1>2, <1>3, <1>4 DEF Watch

LEMMA OthersFollowed ==
    ASSUME TypeInv, NEW m \in Messages, Followed(m),
           Tick \/ Restart \/ MoveOn \/ \E w \in Watchers : OpenSession(w)
    PROVE  Followed(m)'
<1>1. CASE Tick
  <2>1. UNCHANGED <<stored, queue, task, sender, entries, watcher, opened, reply, taken>>
    BY <1>1 DEF Tick, B!Tick
  <2>2. lost'[m] # "no" <=> m \in list \ list' \/ lost[m] # "no"
    BY <1>1, LostForGood DEF Tick, Causes
  <2> QED
    BY <2>1, <2>2 DEF Followed, Waiting, Buffered
<1>2. CASE Restart
  <2>1. UNCHANGED <<stored, queue, task, sender, list, entries, opened, lost, reply, taken>>
    BY <1>2 DEF Restart, B!Restart
  <2>2. \A w \in Watchers : watcher[w] = "close" => watcher'[w] = "close"
    BY <1>2 DEF Restart, B!Restart, B!SpawnIfNeeded, TypeInv, TypeOK, B!TypeOK
  <2> QED
    BY <2>1, <2>2, Undisturbed
<1>3. CASE MoveOn
  BY <1>3, Undisturbed DEF MoveOn
<1>4. ASSUME NEW w \in Watchers, OpenSession(w) PROVE Followed(m)'
  BY <1>4, Undisturbed DEF OpenSession
<1> QED
  BY <1>1, <1>2, <1>3, <1>4

LEMMA CrashFollowed ==
    ASSUME TypeInv, BegunOpened, NEW m \in Messages, Followed(m), Crash
    PROVE  Followed(m)'
<1>1. /\ UNCHANGED <<stored, opened, taken, list>>
      /\ sender'[m] = "unsent" <=> sender[m] = "unsent"
  BY DEF Crash, W!Crash, B!Crash, B!TasksGone, B!InProgress, TypeInv, TypeOK, B!TypeOK
<1>2. lost'[m] # "no" <=> m \in InMemory \/ lost[m] # "no"
  BY LostForGood DEF Crash, Causes
<1>3. m \in InMemory <=>
        \/ \E r \in Requests : m \in Elements(queue[r])
        \/ sender[m] = "unsent" /\ \E r \in Requests : task[r] = m
        \/ \E r \in Requests : reply[r] = m
        \/ \E w \in Watchers : watcher[w] = "close" /\ w \notin begun /\ m \in entries[w]
  <2>1. m \in UNION {Queued(r) : r \in Requests} <=> \E r \in Requests : m \in Elements(queue[r])
    BY DEF Queued, Elements
  <2>2. m \in UNION {entries[w] : w \in {v \in Watchers : watcher[v] = "close" /\ v \notin begun}}
          <=> \E w \in Watchers : watcher[w] = "close" /\ w \notin begun /\ m \in entries[w]
    OBVIOUS
  <2> QED
    BY <2>1, <2>2 DEF InMemory
<1>4. m \in stored' /\ sender'[m] = "unsent" => m \in taken' \/ lost'[m] # "no"
  BY <1>1, <1>2, <1>3 DEF Followed, Waiting
<1>5. sender'[m] # "unsent" => m \in list' \/ m \in opened' \/ lost'[m] # "no"
  BY <1>1, <1>2, <1>3 DEF Followed, Buffered, BegunOpened
<1> QED
  BY <1>4, <1>5, Zenon DEF Followed, Buffered

LEMMA BegunStep == ASSUME TypeInv, BegunOpened, [Next]_vars PROVE BegunOpened'
<1> USE DEF TypeInv, TypeOK, B!TypeOK, BegunOpened
<1>1. ASSUME NEW w \in Watchers, OpenSession(w) \/ CloseBlock(w) PROVE BegunOpened'
  BY <1>1 DEF OpenSession, CloseBlock, B!FinishClose
<1>2. CASE Crash
  BY <1>2 DEF Crash
<1>3. ASSUME UNCHANGED conversation,
             \A w \in Watchers : watcher[w] = "close" => watcher'[w] = "close" /\ entries'[w] = entries[w]
      PROVE  BegunOpened'
  BY <1>3
<1>4. ASSUME NEW w \in Watchers, Watch(w) PROVE BegunOpened'
  <2>1. /\ watcher[w] # "close" /\ UNCHANGED conversation
        /\ \A v \in Watchers \ {w} : watcher'[v] = watcher[v] /\ entries'[v] = entries[v]
    BY <1>4 DEF Watch, B!SleepAgain, B!WindowClosed, B!LRange, B!DeleteAndHandOver, B!Release
  <2> QED
    BY <1>3, <2>1
<1>5. ASSUME NEW r \in Requests, Push(r) PROVE BegunOpened'
  <2>1. UNCHANGED <<conversation, entries>>
    BY <1>5 DEF Push, B!Push, B!RPush, B!Expire, B!SetMarker, B!SpawnWatcher, B!tasks
  <2>2. \A w \in Watchers : watcher[w] = "close" => watcher'[w] = "close"
    BY <1>5 DEF Push, B!Push, B!RPush, B!Expire, B!SetMarker, B!SpawnWatcher, B!SpawnIfNeeded, B!tasks
  <2> QED
    BY <1>3, <2>1, <2>2
<1>6. CASE Restart
  <2>1. UNCHANGED <<conversation, entries>>
    BY <1>6 DEF Restart, B!Restart
  <2>2. \A w \in Watchers : watcher[w] = "close" => watcher'[w] = "close"
    BY <1>6 DEF Restart, B!Restart, B!SpawnIfNeeded
  <2> QED
    BY <1>3, <2>1, <2>2
<1>7. CASE Tick
  BY <1>3, <1>7 DEF Tick, B!Tick
<1>8. CASE MoveOn
  BY <1>8 DEF MoveOn
<1>9. CASE UNCHANGED <<conversation, watcher, entries>>
  BY <1>9
<1> QED
  BY <1>1, <1>2, <1>4, <1>5, <1>6, <1>7, <1>8, <1>9
  DEF Next, Deliver, Serve, Intake, BeginTask, HandleClientReply, EndRequest, PushFails, ReplyFails,
      Close, vars

LEMMA FollowedStep ==
    ASSUME TypeInv, BegunOpened, NEW m \in Messages, Followed(m), [Next]_vars
    PROVE  Followed(m)'
<1>1. ASSUME NEW r \in Requests, NEW p \in Payloads, Deliver(r, p) PROVE Followed(m)'
  BY <1>1, Undisturbed DEF Deliver, W!Deliver
<1>2. ASSUME NEW r \in Requests, EndRequest(r) PROVE Followed(m)'
  BY <1>2, Undisturbed DEF EndRequest, W!Done
<1>3. CASE UNCHANGED vars
  BY <1>3, Undisturbed DEF vars
<1> QED
  BY <1>1, <1>2, <1>3, IntakeFollowed, BeginFollowed, ReplyFollowed, PushFollowed, PushFailsFollowed,
     WatchFollowed, OthersFollowed, CrashFollowed, Zenon DEF Next, Serve, Close

(* A message in raw_messages is on its way, has a session, was no part of a *)
(* block, or was lost for a cause the module names: no interleaving of      *)
(* deliveries, background tasks, watchers, sessions, failures and kills     *)
(* makes it vanish in any other way.                                        *)
THEOREM NothingVanishes == Spec => []Accounted
<1> DEFINE Path == BegunOpened /\ \A m \in Messages : Followed(m)
<1>1. Init => Path
  BY DEF Init, W!Init, B!Init, Followed, BegunOpened
<1>2. TypeInv /\ Path /\ [Next]_vars => Path'
  BY FollowedStep, BegunStep
<1>3. TypeInv /\ Path => Accounted
  <2> SUFFICES ASSUME TypeInv, Path, NEW m \in stored
               PROVE  OnItsWay(m) \/ m \in opened \/ m \in taken \/ lost[m] # "no"
    BY DEF Accounted
  <2>1. m \in Messages
    BY DEF TypeInv, TypeOK, W!TypeOK
  <2> QED
    BY <2>1 DEF Followed, Waiting, Buffered, OnItsWay, Queued, Elements
<1> HIDE DEF Path
<1> QED
  BY <1>1, <1>2, <1>3, Types, PTL DEF Spec

-----------------------------------------------------------------------------
(* A message that is pushed, or whose task runs, was taken out of a queue;  *)
(* with what the intake promises of its queues nobody else can push it.     *)
Fetched ==
    /\ \A m \in Messages : sender[m] # "unsent" => handled[m] > 0
    /\ \A r \in Requests : task[r] # NoTask => handled[task[r]] > 0
    /\ \A r, s \in Requests : r # s /\ task[r] # NoTask => task[r] # task[s]

LEMMA OnceStep == ASSUME TypeInv, WP!ScheduledOnce, [Next]_vars PROVE WP!ScheduledOnce'
<1>1. ASSUME NEW r \in Requests, PushFails(r) PROVE WP!ScheduledOnce'
  <2>1. queue' = [queue EXCEPT ![r] = <<>>] /\ UNCHANGED <<stored, handled>>
    BY <1>1 DEF PushFails, W!Fails
  <2> QED
    BY <2>1, TypesOfParts, Assumptions, WP!FewerTasks
<1>2. ASSUME NEW w \in Watchers, CloseBlock(w) PROVE WP!ScheduledOnce'
  BY <1>2 DEF CloseBlock, WP!ScheduledOnce, WP!Places
<1>3. ASSUME NEW r \in Requests, ReplyFails(r) PROVE WP!ScheduledOnce'
  <2>1. queue' = [queue EXCEPT ![r] = <<>>] /\ UNCHANGED <<stored, handled>>
    BY <1>3 DEF ReplyFails, W!Fails
  <2> QED
    BY <2>1, TypesOfParts, Assumptions, WP!FewerTasks
<1> QED
  BY <1>1, <1>2, <1>3, IntakeSteps, TypesOfParts, Assumptions, WP!OnceStep, Zenon

LEMMA FetchedStep == ASSUME TypeInv, WP!ScheduledOnce, Fetched, [Next]_vars PROVE Fetched'
<1>0. /\ task \in [Requests -> Messages \cup {NoTask}] /\ NoTask \notin Messages
      /\ handled \in [Messages -> Nat]
      /\ queue \in [Requests -> Seq(Allowed)]
      /\ sender \in [Messages -> {"unsent", "listed", "timed", "marked", "done", "killed"}]
  BY PipelineAssumption DEF TypeInv, TypeOK, W!TypeOK, B!TypeOK
<1>1. ASSUME NEW r \in Requests, BeginTask(r) PROVE Fetched'
  <2> DEFINE m == Head(queue[r])
  <2>1. m \in Messages /\ handled[m] = 0 /\ queue[r] # <<>>
    <3>1. queue[r] # <<>> /\ queue[r] \in Seq(Allowed)
      BY <1>0, <1>1 DEF BeginTask, W!Process
    <3>2. 1 \in WP!Places(queue[r]) /\ m = queue[r][1]
      BY <3>1 DEF WP!Places
    <3>3. handled[queue[r][1]] = 0
      BY <3>2, Zenon DEF WP!ScheduledOnce
    <3> QED
      BY <3>1, <3>2, <3>3, QueueHead
  <2>2. UNCHANGED sender /\ handled' = [handled EXCEPT ![m] = @ + 1]
    BY <1>1 DEF BeginTask, W!Process
  <2>3. handled'[m] = 1 /\ \A n \in Messages \ {m} : handled'[n] = handled[n]
    BY <1>0, <2>1, <2>2
  <2>4. task' = [task EXCEPT ![r] = m] \/ task' = task
    BY <1>0, <1>1 DEF BeginTask
  <2>5. \A s \in Requests : task[s] # m
    BY <1>0, <2>1 DEF Fetched
  <2> HIDE DEF m
  <2>6. \A n \in Messages : handled[n] > 0 => handled'[n] > 0
    BY <2>3
  <2>7. CASE task' = task
    BY <1>0, <2>2, <2>6, <2>7 DEF Fetched
  <2>8. CASE task' = [task EXCEPT ![r] = m]
    <3>1. task'[r] = m /\ \A s \in Requests \ {r} : task'[s] = task[s]
      BY <1>0, <2>8
    <3>2. \A s \in Requests : task'[s] # NoTask => handled'[task'[s]] > 0
      BY <1>0, <2>3, <2>6, <3>1 DEF Fetched
    <3>3. \A s, t \in Requests : s # t /\ task'[s] # NoTask => task'[s] # task'[t]
      BY <2>1, <2>5, <3>1, <1>0 DEF Fetched
    <3>4. \A n \in Messages : sender'[n] # "unsent" => handled'[n] > 0
      BY <2>2, <2>6 DEF Fetched
    <3> QED
      BY <3>2, <3>3, <3>4 DEF Fetched
  <2> QED
    BY <2>4, <2>7, <2>8
<1>2. ASSUME NEW r \in Requests, Push(r) PROVE Fetched'
  <2>1. task[r] \in Messages /\ UNCHANGED handled
    BY <1>0, <1>2 DEF Push
  <2>2. \A n \in Messages \ {task[r]} : sender'[n] = sender[n]
    BY <1>0, <1>2, <2>1 DEF Push, B!Push, B!RPush, B!Expire, B!SetMarker, B!SpawnWatcher
  <2>3. task' = task \/ task' = [task EXCEPT ![r] = NoTask]
    BY <1>2 DEF Push
  <2>4. handled[task[r]] > 0
    BY <1>0, <2>1 DEF Fetched
  <2>5. \A n \in Messages : sender'[n] # "unsent" => handled'[n] > 0
    BY <2>1, <2>2, <2>4 DEF Fetched
  <2>6. \A s \in Requests : task'[s] # NoTask => task'[s] = task[s]
    BY <1>0, <2>3
  <2> QED
    BY <2>1, <2>3, <2>5, <2>6 DEF Fetched
<1>3. ASSUME NEW r \in Requests, PushFails(r) PROVE Fetched'
  <2>1. /\ task[r] \in Messages /\ UNCHANGED handled
        /\ task' = [task EXCEPT ![r] = NoTask]
        /\ \A n \in Messages \ {task[r]} : sender'[n] = sender[n]
    BY <1>0, <1>3 DEF PushFails
  <2>2. handled[task[r]] > 0
    BY <1>0, <2>1 DEF Fetched
  <2>3. \A n \in Messages : sender'[n] # "unsent" => handled'[n] > 0
    BY <2>1, <2>2 DEF Fetched
  <2>4. \A s \in Requests : task'[s] # NoTask => task'[s] = task[s]
    BY <1>0, <2>1
  <2> QED
    BY <2>1, <2>3, <2>4 DEF Fetched
<1>4. CASE Crash
  BY <1>0, <1>4 DEF Crash, W!Crash, B!Crash, B!InProgress, Fetched
<1>5. CASE UNCHANGED <<sender, handled, task>>
  BY <1>5 DEF Fetched
<1>6. ASSUME NEW r \in Requests, Intake(r) PROVE UNCHANGED <<sender, handled, task>>
  BY <1>6 DEF Intake, W!SelectExisting, W!LookupWorker, W!StoreAndSchedule, W!Answer
<1>7. ASSUME NEW r \in Requests, NEW p \in Payloads, Deliver(r, p)
      PROVE  UNCHANGED <<sender, handled, task>>
  BY <1>7 DEF Deliver, W!Deliver
<1>8. ASSUME NEW r \in Requests, EndRequest(r) \/ HandleClientReply(r) \/ ReplyFails(r)
      PROVE  UNCHANGED <<sender, handled, task>>
  BY <1>8 DEF EndRequest, W!Done, HandleClientReply, ReplyFails
<1>9. ASSUME NEW w \in Watchers, Close(w)
      PROVE  UNCHANGED <<sender, handled, task>>
  BY <1>9 DEF Close, Watch, OpenSession, CloseBlock, B!SleepAgain, B!WindowClosed, B!LRange, B!DeleteAndHandOver,
     B!FinishClose, B!Release
<1>10. CASE Tick \/ Restart \/ MoveOn \/ UNCHANGED vars
  BY <1>5, <1>10 DEF MoveOn, Tick, B!Tick, Restart, B!Restart, vars
<1> QED
  BY <1>1, <1>2, <1>3, <1>4, <1>5, <1>6, <1>7, <1>8, <1>9, <1>10, Zenon DEF Next, Serve

(* Each message is pushed by one background task at most, whatever Meta     *)
(* repeats and whatever fails: what MessageBuffer assumes of its callers.   *)
THEOREM OnePusher == Spec => []PushedByOne
<1>1. Init => WP!ScheduledOnce /\ Fetched
  BY DEF Init, W!Init, B!Init, WP!ScheduledOnce, WP!Places, Fetched
<1>2. TypeInv /\ WP!ScheduledOnce /\ Fetched /\ [Next]_vars => WP!ScheduledOnce' /\ Fetched'
  BY OnceStep, FetchedStep
<1>3. TypeInv /\ WP!ScheduledOnce /\ Fetched => PushedByOne
  <2> SUFFICES ASSUME TypeInv, WP!ScheduledOnce, Fetched, NEW r \in Requests
               PROVE  /\ \A m \in Queued(r) : sender[m] = "unsent" /\ \A s \in Requests : task[s] # m
                      /\ \A s \in Requests \ {r} : task[r] # NoTask => task[r] # task[s]
    BY DEF PushedByOne
  <2>1. ASSUME NEW m \in Queued(r)
        PROVE  sender[m] = "unsent" /\ \A s \in Requests : task[s] # m
    <3>1. PICK i \in WP!Places(queue[r]) : m = queue[r][i]
      BY DEF Queued, WP!Places
    <3>2. m \in Messages /\ handled[m] = 0
      BY <3>1, PipelineAssumption DEF WP!ScheduledOnce, WP!Places, TypeInv, TypeOK, W!TypeOK
    <3> QED
      BY <3>2, PipelineAssumption DEF Fetched
  <2> QED
    BY <2>1 DEF Fetched
<1> QED
  BY <1>1, <1>2, <1>3, Types, PTL DEF Spec

-----------------------------------------------------------------------------
(* A calm system: the process was never down, so that the list outlives the *)
(* sleep of its watchers (MarginInv), and what waits has a watcher that has *)
(* not read it yet (Kept), as in a buffer by itself that nobody writes to   *)
(* during a close.                                                          *)
LosesNothing == \A m \in Messages : lost[m] \in {"no", "request", "moved"}

CalmInv == Calm => BP!MarginInv /\ BP!Kept /\ LosesNothing

(* It was calm before, and the step is none that ends it. *)
LEMMA CalmBefore ==
    ASSUME TypeInv, [Next]_vars, Calm'
    PROVE  /\ Calm /\ ~Fault("task") /\ ~Fault("close")
           /\ \A r \in Requests : ~PushFails(r) /\ ~ReplyFails(r)
           /\ ~Crash
<1>1. faults \in Nat /\ crashes \in Nat /\ faults' = 0 /\ crashes' = 0 /\ ~overlapped'
  BY PipelineAssumption DEF TypeInv, WP!TypeInv, WP!TypeOK, Calm
<1>2. ~Fault("task") /\ ~Fault("close") /\ \A r \in Requests : ~PushFails(r) /\ ~ReplyFails(r)
  BY <1>1 DEF Fault, PushFails, ReplyFails
<1>3. ~Crash
  BY <1>1 DEF Crash, W!Crash
<1>4. faults = 0 /\ crashes = 0
  <2>1. ASSUME NEW c, W!Fault(c) PROVE FALSE
    BY <1>1, <2>1 DEF W!Fault
  <2>2. CASE \E r \in Requests : Intake(r) \/ BeginTask(r)
    BY <1>1, <2>1, <2>2
    DEF Intake, BeginTask, W!SelectExisting, W!LookupWorker, W!StoreAndSchedule, W!Answer,
        W!Process, W!bounds
  <2>3. CASE \E r \in Requests : EndRequest(r) \/ \E p \in Payloads : Deliver(r, p)
    BY <1>1, <2>3 DEF EndRequest, Deliver, W!Done, W!Deliver, W!bounds
  <2>4. ASSUME UNCHANGED <<faults, crashes>> PROVE faults = 0 /\ crashes = 0
    BY <1>1, <2>4
  <2>5. ASSUME NEW w \in Watchers, CloseBlock(w) PROVE UNCHANGED <<faults, crashes>>
    BY <1>2, <2>5 DEF CloseBlock
  <2> QED
    BY <1>2, <1>3, <2>2, <2>3, <2>4, <2>5
    DEF Next, Serve, HandleClientReply, Push, Close, Watch, OpenSession, MoveOn, Tick, Restart, vars
<1>5. ~overlapped
  BY <1>1, <1>2, <1>3
  DEF Next, Deliver, Serve, Intake, BeginTask, HandleClientReply, Push, EndRequest, Close, Watch,
      OpenSession, CloseBlock, MoveOn, Tick, Restart, vars
<1> QED
  BY <1>2, <1>3, <1>4, <1>5 DEF Calm

(* Such a step is one of the buffer that neither stops nor writes during a *)
(* close.                                                                  *)
LEMMA CalmStep ==
    ASSUME TypeInv, [Next]_vars, Calm'
    PROVE  [BP!Next]_(BP!vars) /\ BP!QuietStep /\ ~BP!Crash /\ ~BP!Stop
<1>1. [BP!Next]_(BP!vars)
  BY CalmBefore, BufferSteps DEF TypeInv
<1>2. list' \subseteq list \/ \A w \in Watchers : ~B!Closing(w)
  <2>1. ASSUME NEW r \in Requests, Push(r), ~(list' \subseteq list)
        PROVE  \A w \in Watchers : ~B!Closing(w)
    BY <2>1 DEF Push, Calm
  <2>2. ASSUME NEW w \in Watchers, Watch(w) \/ CloseBlock(w) PROVE list' \subseteq list
    BY <2>2 DEF Watch, CloseBlock, B!SleepAgain, B!WindowClosed, B!LRange, B!DeleteAndHandOver,
       B!FinishClose, B!Release, B!keys
  <2>3. Tick => list' \subseteq list
    BY DEF Tick, B!Tick
  <2> QED
    BY <2>1, <2>2, <2>3, CalmBefore
    DEF Next, Serve, Deliver, Intake, BeginTask, HandleClientReply, EndRequest, Close, OpenSession, MoveOn,
        Restart, B!Restart, vars
<1>3. ~(up /\ up' = FALSE)
  BY CalmBefore
  DEF Next, Serve, Deliver, Intake, BeginTask, HandleClientReply, EndRequest, Push, Close, Watch,
      OpenSession, CloseBlock, MoveOn, Tick, Restart,
      B!Push, B!RPush, B!Expire, B!SetMarker, B!SpawnWatcher, B!SleepAgain, B!WindowClosed,
      B!LRange, B!DeleteAndHandOver, B!FinishClose, B!Release, B!Tick, B!Restart, vars
<1> QED
  BY <1>1, <1>2, <1>3 DEF BP!QuietStep, B!Closing, BP!Closing, BP!Crash, BP!Stop, BP!TasksGone

LEMMA CalmLoss ==
    ASSUME TypeInv, CalmInv, [Next]_vars, Calm'
    PROVE  LosesNothing'
<1>1. BP!MarginInv /\ BP!Kept /\ LosesNothing
  BY CalmBefore DEF CalmInv
<1>2. ASSUME NEW S, Lose(S, "request") \/ Lose(S, "moved") PROVE LosesNothing'
  BY <1>1, <1>2 DEF Lose, LosesNothing
<1>3. ASSUME NEW c, Lose({}, c) PROVE LosesNothing'
  BY <1>1, <1>3, TypesOfParts DEF Lose, LosesNothing, TypeInv, TypeOK
<1>4. ASSUME UNCHANGED lost PROVE LosesNothing'
  BY <1>1, <1>4 DEF LosesNothing
<1>5. ASSUME NEW r \in Requests, Intake(r) \/ BeginTask(r) \/ HandleClientReply(r)
      PROVE  LosesNothing'
  BY <1>2, <1>4, <1>5 DEF Intake, BeginTask, HandleClientReply
<1>6. ASSUME NEW w \in Watchers, Watch(w) PROVE LosesNothing'
  <2>1. ASSUME B!DeleteAndHandOver(w) PROVE list \ entries[w] = {}
    BY <1>1, <2>1 DEF B!DeleteAndHandOver, BP!Kept, BP!WholeBlock
  <2> QED
    BY <1>3, <1>4, <1>6, <2>1 DEF Watch
<1>7. ASSUME NEW w \in Watchers, CloseBlock(w) PROVE LosesNothing'
  BY <1>4, <1>7, CalmBefore DEF CloseBlock
<1>8. CASE Tick
  <2>1. BP!Tick
    BY <1>8, Zenon DEF Tick, B!Tick, BP!Tick, B!InProgress, BP!InProgress, B!Due, BP!Due, B!Minus1,
       BP!Minus1, B!Persistent, BP!Persistent, B!ListTTL, BP!ListTTL, B!Live, BP!Live
  <2>2. list' = list
    BY <1>1, <2>1, TypesOfParts, Assumptions, BP!NothingExpires, Zenon DEF BP!Kept, BP!MarginInv
  <2> QED
    BY <1>3, <1>8, <2>2 DEF Tick
<1> QED
  BY <1>4, <1>5, <1>6, <1>7, <1>8, CalmBefore
  DEF Next, Serve, Deliver, EndRequest, Push, Close, OpenSession, MoveOn, Restart, vars

(* As long as nothing fails and nobody writes during a close, two things    *)
(* lose a message: a request that fails after it had stored it, and a       *)
(* session that moves on while its answer is being read.                    *)
THEOREM CalmIsSafe == Spec => []CalmLosesNothing
<1>1. Init => CalmInv
  <2> SUFFICES ASSUME Init PROVE BP!MarginInv /\ BP!Kept /\ LosesNothing
    BY DEF CalmInv
  <2>1. list = {} /\ listTTL = 0 /\ lock = 0 /\ up = TRUE
        /\ \A w \in Watchers : watcher[w] = "idle"
    BY DEF Init, B!Init
  <2>2. \A m \in Messages : sender[m] = "unsent" /\ lost[m] = "no"
    BY DEF Init, B!Init
  <2> QED
    BY <2>1, <2>2 DEF BP!MarginInv, BP!ListOutlivesMarker, BP!MarginCovers, BP!Kept, BP!Locked,
       BP!Watched, BP!WholeBlock, LosesNothing
<1>2. TypeInv /\ CalmInv /\ [Next]_vars => CalmInv'
  <2> SUFFICES ASSUME TypeInv, CalmInv, [Next]_vars, Calm'
               PROVE  BP!MarginInv' /\ BP!Kept' /\ LosesNothing'
    BY DEF CalmInv
  <2>1. BP!MarginInv /\ BP!Kept /\ BP!MarginCovers /\ BP!TypeOK
    BY CalmBefore, TypesOfParts DEF CalmInv, BP!MarginInv
  <2>2. BP!MarginInv'
    BY <2>1, CalmStep, Assumptions, BP!MarginStep, Zenon
  <2>3. BP!Kept'
    BY <2>1, CalmStep, Assumptions, BP!KeptStep, Zenon
  <2> QED
    BY <2>2, <2>3, CalmLoss
<1>3. CalmInv => CalmLosesNothing
  BY DEF CalmInv, LosesNothing, CalmLosesNothing
<1> QED
  BY <1>1, <1>2, <1>3, Types, PTL DEF Spec
=============================================================================
