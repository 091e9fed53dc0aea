--------------------------- MODULE DialogueProofs ---------------------------
(***************************************************************************)
(* A conversation implements a Dialogue: theorems of ConversationFlow for a*)
(* patient worker, a ticket system that accepts every ticket and knows     *)
(* every worker, and a process that stays up, for any inputs, timers,      *)
(* clients and priorities and every timeout.  The lookup and the LLM at    *)
(* the close of a block, the search, every message to the worker and every *)
(* row of ticket_creations may fail.                                       *)
(***************************************************************************)
EXTENDS ConversationFlowProofs

(* The last conjunct is what makes the margin a margin: a call of the worker's *)
(* last moment ends before the key it read (30 s against at most 15 s).        *)
Favourable ==
    /\ Worker = "patient" /\ Restarts = {}
    /\ Faults \subseteq {"lookup", "search", "send", "log"}
    /\ CallTicks < Margin

Asleep(t) == pc[t] = "sleep"
Acts == {"get", "reread", "search", "window", "extract", "set", "spawn", "create", "clear"}
Acting(x) == pc[x] \in Acts

(* The labels from which on the session is for x, or about to be, and those *)
(* before: the block of a session is never at one of them.                 *)
Carrying == {"set", "spawn", "create", "clear"}
Early == {"unsent", "get", "reread", "search", "offer", "window", "extract"}

(* One watcher per step, with the lock of that step; none for the priority *)
(* while the client is asked for.                                         *)
NobodyWaitsFor(step) == \A t \in Timers : Live(t) => own[t] # step

Watchers ==
    /\ up /\ \A t \in Timers : Live(t) => own[t] \in Steps
    /\ \A t, u \in Timers : Live(t) /\ Live(u) /\ own[t] = own[u] => t = u
    /\ \A step \in Steps : NobodyWaitsFor(step) => ~Locked(step)
    /\ Awaiting("client") => NobodyWaitsFor("priority")

(* At most one task is in the middle of something. *)
Alone == \A x, y \in Tasks : Acting(x) /\ Acting(y) => x = y

(* Until x moves on, neither does a watcher that could act, nor does the *)
(* session expire.                                                       *)
InTime(n) ==
    /\ \A t \in Timers : Asleep(t) /\ Awaiting(own[t]) => wait[t] > n
    /\ session # NoSession => sttl > n

Ahead(x) == IF pc[x] \in {"get", "reread"} THEN CallTicks ELSE wait[x]

Undisturbed == \A x \in Tasks : Acting(x) => InTime(Ahead(x))

(* A session is not kept for longer than its watcher sleeps and the margin. *)
Precise == \A t \in Timers : Asleep(t) /\ Awaiting(own[t]) => sttl <= wait[t] + Margin

(* Nobody works on a block, and nobody is going to ask about one. *)
AtRest == session = NoSession /\ \A t \in Timers : ~Live(t)

(* What is known at each step of a task. *)
Answers(i) ==
    /\ session # NoSession /\ arg[i] \in chosen[session.block]
    /\ session.step = "client" => arg[i] \in Clients \cup {NoClient}
    /\ session.step = "priority" => arg[i] \in Priorities

AtGet(i) == IF arg[i] = Text THEN Awaiting("client") \/ AtRest ELSE Answers(i)

AtSet(x) ==
    \/ st[x].step = "client" /\ AtRest /\ st[x].block = x /\ filed[x] = 0
    \/ st[x].step = "priority" /\ Awaiting("client") /\ st[x].block = session.block

At(x) ==
    /\ pc[x] = "unsent" => arg[x] = Text
    /\ pc[x] = "get" => AtGet(x)
    /\ pc[x] = "reread" => Awaiting("client")
    /\ pc[x] = "search" => Awaiting("client") /\ st[x] = session
    /\ pc[x] \in {"window", "extract"} => AtRest
    /\ pc[x] = "set" => AtSet(x)
    /\ pc[x] = "spawn" => session = st[x] /\ NobodyWaitsFor(st[x].step)
    /\ pc[x] = "create" => Awaiting("priority") /\ st[x] = session /\ arg[x] \in Priorities
    /\ pc[x] = "clear" => Awaiting("priority") /\ st[x] = session
    /\ pc[x] \notin {"note", "refresh", "excuse", "reject"}

Informed == \A x \in Tasks : At(x)

(* A question is open only with a watcher for it, or in the hands of a task. *)
Attended ==
    session # NoSession =>
        \/ \E t \in Timers : Asleep(t) /\ own[t] = session.step
        \/ \E x \in Tasks : pc[x] \in Carrying

(* Nobody but the worker says who the client is. *)
Sound(s, replies) ==
    /\ s.known /\ s.client \in Clients \cup {NoClient}
    /\ s.client \in Clients => s.client \in replies[s.block]

Honest ==
    /\ session # NoSession => Sound(session, chosen)
    /\ \A x \in Tasks : st[x] # NoSession => Sound(st[x], chosen)

(* The block of the session has no ticket but between its creation and the end *)
(* of the session.                                                             *)
Clearing == \E x \in Tasks : pc[x] = "clear"

Counted ==
    /\ \A i \in Inputs : pc[i] \in Early => filed[i] = 0
    /\ session # NoSession => /\ pc[session.block] \notin Early
                              /\ filed[session.block] = IF Clearing THEN 1 ELSE 0

Patience ==
    /\ Watchers /\ Alone /\ Undisturbed /\ Precise
    /\ Informed /\ Attended /\ Honest /\ Counted

-----------------------------------------------------------------------------
(* A task moves on; the session, the locks and the tickets stay. *)
Moves(x, label) ==
    /\ pc' = [pc EXCEPT ![x] = label]
    /\ \A y \in Tasks \ {x} : wait'[y] = wait[y] /\ st'[y] = st[y] /\ arg'[y] = arg[y]
    /\ \A b \in Inputs : chosen[b] \subseteq chosen'[b]
    /\ UNCHANGED <<session, sttl, lock, own, up, filed>>

LEMMA OthersStay ==
    ASSUME TypeInv, NEW x \in Tasks, NEW label, Moves(x, label)
    PROVE  /\ pc'[x] = label /\ \A y \in Tasks \ {x} : pc'[y] = pc[y]
           /\ \A step : Awaiting(step)' <=> Awaiting(step)
           /\ \A y \in Tasks \ {x} : Live(y)' <=> Live(y)
BY DEF Moves, TypeInv, TypeOK, Awaiting, Live

(* The watchers are the same ones, none of them newly asleep. *)
LEMMA WatchersStay ==
    ASSUME TypeInv, Patience, NEW x \in Tasks, NEW label \in Labels \ {"sleep"}, Moves(x, label),
           x \in Timers => (Live(x)' <=> Live(x))
    PROVE  /\ Watchers' /\ Precise'
           /\ \A step : NobodyWaitsFor(step)' <=> NobodyWaitsFor(step)
           /\ AtRest' <=> AtRest
<1>1. \A t \in Timers : Live(t)' <=> Live(t)
  BY OthersStay DEF Tasks
<1>2. ASSUME NEW t \in Timers, Asleep(t)' PROVE Asleep(t) /\ wait'[t] = wait[t]
  <2>1. t \in Tasks \ {x}
    BY <1>2, OthersStay DEF Asleep, Tasks
  <2>2. pc'[t] = pc[t]
    BY <2>1, OthersStay
  <2> QED
    BY <1>2, <2>1, <2>2 DEF Asleep, Moves
<1>3. \A step : NobodyWaitsFor(step)' <=> NobodyWaitsFor(step)
  BY <1>1 DEF NobodyWaitsFor, Moves
<1>4. Watchers'
  BY <1>1, <1>3, OthersStay DEF Patience, Watchers, Locked, Moves
<1>5. Precise'
  BY <1>2 DEF Patience, Precise, Moves, Awaiting
<1>6. AtRest' <=> AtRest
  BY <1>1 DEF AtRest, Moves
<1> QED
  BY <1>3, <1>4, <1>5, <1>6

LEMMA HonestStays ==
    ASSUME TypeInv, Patience, NEW x \in Tasks, NEW label, Moves(x, label),
           st'[x] = NoSession \/ st'[x] = st[x] \/ Sound(st'[x], chosen')
    PROVE  Honest'
<1>1. \A s \in State : Sound(s, chosen) => Sound(s, chosen')
  BY StateFields DEF Sound, Moves
<1>2. session # NoSession => Sound(session, chosen')
  BY <1>1 DEF Patience, Honest, TypeInv, TypeOK
<1>3. ASSUME NEW y \in Tasks, st'[y] # NoSession PROVE Sound(st'[y], chosen')
  <2>1. st[y] # NoSession => Sound(st[y], chosen')
    BY <1>1 DEF Patience, Honest, TypeInv, TypeOK
  <2> QED
    BY <1>3, <2>1 DEF Moves
<1> QED
  BY <1>2, <1>3 DEF Honest, Moves

(* A task that holds nothing gives up, reports or asks: it is not for the   *)
(* session any more.                                                       *)
LEMMA Leaving ==
    ASSUME TypeInv, Patience, NEW x \in Tasks,
           NEW label \in {"offer", "send", "report", "tell", "release", "done"}, Moves(x, label),
           Live(x), pc[x] \notin Carrying, pc[x] = "sleep" => ~Awaiting(own[x]),
           x \in Timers => label # "done", label = "offer" => pc[x] \in Early,
           st'[x] = NoSession \/ st'[x] = st[x]
    PROVE  Patience'
<1>1. x \in Timers => (Live(x)' <=> Live(x))
  BY OthersStay DEF Live
<1>2. Watchers' /\ Precise' /\ Honest' /\ (AtRest' <=> AtRest)
  BY <1>1, WatchersStay, HonestStays DEF Labels, Instant, Waiting, Calls
<1>3. \A y \in Tasks : Acting(y)' => y # x /\ Acting(y)
  BY OthersStay DEF Acting, Acts
<1>4. \A t \in Timers : Asleep(t)' => t # x /\ Asleep(t) /\ wait'[t] = wait[t]
  BY OthersStay DEF Asleep, Moves, Tasks
<1>5. Alone'
  BY <1>3 DEF Alone, Patience
<1>6. Undisturbed'
  <2> SUFFICES ASSUME NEW y \in Tasks, Acting(y)' PROVE InTime(Ahead(y))'
    BY DEF Undisturbed
  <2>1. Acting(y) /\ Ahead(y)' = Ahead(y) /\ InTime(Ahead(y))
    BY <1>3, OthersStay DEF Ahead, Moves, Patience, Undisturbed
  <2> QED
    BY <1>4, <2>1 DEF InTime, Awaiting, Moves
<1>7. Informed'
  <2> SUFFICES ASSUME NEW y \in Tasks PROVE At(y)'
    BY DEF Informed
  <2>1. CASE y = x
    BY <2>1, OthersStay DEF At
  <2>2. CASE y # x
    <3>1. pc'[y] = pc[y] /\ st'[y] = st[y] /\ arg'[y] = arg[y] /\ At(y)
      BY <2>2, OthersStay DEF Moves, Patience, Informed
    <3>2. pc[y] = "get" => AtGet(y)'
      BY <1>2, <3>1 DEF At, AtGet, Answers, Awaiting, Moves, TypeInv, TypeOK, State
    <3>3. pc[y] = "set" => AtSet(y)'
      BY <1>2, <3>1 DEF At, AtSet, Awaiting, Moves
    <3>4. pc[y] = "spawn" => session' = st'[y] /\ NobodyWaitsFor(st[y].step)'
      BY <1>1, <3>1, WatchersStay DEF At, Moves, Labels, Instant, Waiting, Calls
    <3> QED
      BY <1>2, <3>1, <3>2, <3>3, <3>4 DEF At, Awaiting, Moves
  <2> QED
    BY <2>1, <2>2
<1>8. Attended'
  <2> SUFFICES ASSUME session # NoSession
               PROVE  \/ \E t \in Timers : Asleep(t)' /\ own'[t] = session'.step
                      \/ \E y \in Tasks : pc'[y] \in Carrying
    BY DEF Attended, Moves
  <2>1. ASSUME NEW t \in Timers, Asleep(t), own[t] = session.step PROVE Asleep(t)' /\ own'[t] = session'.step
    BY <2>1, OthersStay DEF Asleep, Awaiting, Moves, Tasks
  <2>2. ASSUME NEW y \in Tasks, pc[y] \in Carrying PROVE pc'[y] \in Carrying
    BY <2>2, OthersStay
  <2> QED
    BY <2>1, <2>2 DEF Patience, Attended
<1>9. Counted'
  <2>1. Clearing' <=> Clearing
    BY OthersStay DEF Clearing, Carrying
  <2>2. \A i \in Inputs : pc'[i] \in Early => pc[i] \in Early
    BY OthersStay DEF Early, Tasks
  <2>3. session # NoSession => session.block \in Inputs
    BY StateFields DEF TypeInv, TypeOK
  <2> QED
    BY <2>1, <2>2, <2>3 DEF Counted, Patience, Moves
<1> QED
  BY <1>2, <1>5, <1>6, <1>7, <1>8, <1>9 DEF Patience

(* A task takes the next step of what it alone is doing. *)
LEMMA Onward ==
    ASSUME TypeInv, Patience, NEW x \in Tasks,
           NEW label \in Acts \ {"spawn", "clear"}, Moves(x, label),
           \A y \in Tasks : Acting(y) => y = x,
           pc[x] \notin Carrying, x \in Timers => Live(x), Asleep(x) => label \in Carrying,
           label \in Early => pc[x] \in Early,
           At(x)', InTime(Ahead(x))',
           st'[x] = NoSession \/ st'[x] = st[x] \/ Sound(st'[x], chosen')
    PROVE  Patience'
<1>1. Watchers' /\ Precise' /\ Honest'
  <2>1. x \in Timers => (Live(x)' <=> Live(x))
    BY OthersStay DEF Live, Acts
  <2> QED
    BY <2>1, WatchersStay, HonestStays DEF Labels, Acts, Instant, Waiting, Calls
<1>2. \A y \in Tasks : Acting(y)' => y = x
  BY OthersStay DEF Acting
<1>3. Alone' /\ Undisturbed'
  BY <1>2 DEF Alone, Undisturbed
<1>4. Informed'
  <2> SUFFICES ASSUME NEW y \in Tasks, y # x PROVE At(y)'
    BY DEF Informed
  <2>1. pc'[y] \notin Acts /\ pc'[y] = pc[y] /\ arg'[y] = arg[y] /\ At(y)
    BY <1>2, OthersStay DEF Acting, Moves, Patience, Informed
  <2> QED
    BY <2>1 DEF At, Acts
<1>5. Attended'
  <2> SUFFICES ASSUME session # NoSession, label \notin Carrying
               PROVE  \E t \in Timers : Asleep(t)' /\ own'[t] = session'.step
    BY OthersStay DEF Attended, Moves
  <2>1. \A y \in Tasks : pc[y] \notin Carrying
    BY DEF Acting, Acts, Carrying
  <2>2. PICK t \in Timers : Asleep(t) /\ own[t] = session.step
    BY <2>1 DEF Patience, Attended
  <2>3. Asleep(t)' /\ own'[t] = session'.step
    BY <2>2, OthersStay DEF Asleep, Awaiting, Moves, Tasks
  <2> QED
    BY <2>3
<1>6. Counted'
  <2>1. ~Clearing' /\ ~Clearing
    BY <1>2, OthersStay DEF Clearing, Acting, Acts, Carrying
  <2>2. \A i \in Inputs : pc'[i] \in Early => pc[i] \in Early
    BY OthersStay DEF Tasks
  <2>3. session # NoSession => session.block \in Inputs
    BY StateFields DEF TypeInv, TypeOK
  <2> QED
    BY <2>1, <2>2, <2>3 DEF Counted, Patience, Moves
<1> QED
  BY <1>1, <1>3, <1>4, <1>5, <1>6 DEF Patience

-----------------------------------------------------------------------------
(* The worker writes when nobody is in the middle of anything. *)
LEMMA CalmIsQuiet ==
    ASSUME TypeInv, Calm
    PROVE  InTime(CallTicks) /\ \A x \in Tasks : ~Acting(x)
BY DEF Calm, InTime, Asleep, Live, Acting, Acts, Tasks

(* No other watcher is to act on the session within n ticks, and it lasts them. *)
Others(x, n) ==
    /\ \A t \in Timers \ {x} : Asleep(t) /\ Awaiting(own[t]) => wait[t] > n
    /\ session # NoSession => sttl > n

LEMMA StaysInTime ==
    ASSUME TypeInv, NEW x \in Tasks, NEW label \in Labels \ {"sleep"}, Moves(x, label),
           NEW n \in Nat, NEW k \in Nat, k <= n, Others(x, n)
    PROVE  InTime(k)'
<1>1. ASSUME NEW t \in Timers, Asleep(t)', Awaiting(own[t])'
      PROVE  wait[t] > n /\ wait'[t] = wait[t] /\ wait[t] \in Nat
  <2>1. t \in Tasks \ {x}
    BY <1>1, OthersStay DEF Asleep, Tasks
  <2>2. pc'[t] = pc[t] /\ wait'[t] = wait[t]
    BY <2>1, OthersStay DEF Moves
  <2>3. Asleep(t) /\ Awaiting(own[t])
    BY <1>1, <2>2 DEF Asleep, Awaiting, Moves
  <2> QED
    BY <2>1, <2>2, <2>3 DEF Others, TypeInv, TypeOK, MaxWait
<1>2. session' # NoSession => sttl > n /\ sttl' = sttl /\ sttl \in Nat
  BY DEF Others, Moves, TypeInv, TypeOK, StepTTL
<1> QED
  BY <1>1, <1>2 DEF InTime

LEMMA WriteTextIsPatient ==
    ASSUME Favourable, TypeInv, Patience, NEW i \in Inputs, WriteText(i)
    PROVE  Patience'
<1>1. Calm /\ (Awaiting("client") \/ AtRest) /\ pc[i] = "unsent"
  BY DEF WriteText, Favourable, AtRest
<1>2. i \in Tasks \ Timers /\ Moves(i, "get") /\ st' = st /\ arg' = arg
  BY FlowAssumption DEF WriteText, Step, Goto, Moves, TypeInv, TypeOK, Tasks, stored, running, outside
<1>3. pc'[i] = "get" /\ arg'[i] = Text /\ (AtRest' <=> AtRest) /\ (Awaiting("client")' <=> Awaiting("client"))
  <2>1. arg[i] = Text
    BY <1>1, <1>2 DEF Patience, Informed, At
  <2> QED
    BY <1>2, <2>1, OthersStay, WatchersStay DEF Labels, Instant
<1>4. At(i)'
  BY <1>1, <1>3 DEF At, AtGet
<1>5. InTime(Ahead(i))'
  <2>1. Others(i, CallTicks)
    BY <1>1, CalmIsQuiet DEF InTime, Others
  <2> QED
    BY <1>2, <1>3, <2>1, FlowAssumption, StaysInTime DEF Ahead, Labels, Instant
<1> QED
  BY <1>1, <1>2, <1>4, <1>5, CalmIsQuiet, Onward DEF Acts, Carrying, Early, Asleep

LEMMA TapIsPatient ==
    ASSUME Favourable, TypeInv, Patience, NEW i \in Inputs, Tap(i)
    PROVE  Patience'
<1>1. PICK v : /\ session # NoSession /\ arg' = [arg EXCEPT ![i] = v]
               /\ v \in IF session.step = "client" THEN Clients \cup {NoClient} ELSE Priorities
               /\ chosen' = [chosen EXCEPT ![session.block] = @ \cup {v}]
  <2>1. PICK p \in offered :
           /\ session # NoSession /\ p = <<session.step, session.block>>
           /\ \E v \in IF p[1] = "client" THEN Clients \cup {NoClient} ELSE Priorities :
                /\ arg' = [arg EXCEPT ![i] = v]
                /\ chosen' = [chosen EXCEPT ![p[2]] = @ \cup {v}]
    BY DEF Tap, Favourable
  <2>2. p[1] = session.step /\ p[2] = session.block
    BY <2>1
  <2> QED
    BY <2>1, <2>2
<1>2. Calm /\ pc[i] = "unsent" /\ session.block \in Inputs /\ v # Text
  BY <1>1, FlowAssumption, StateFields DEF Tap, Favourable, TypeInv, TypeOK, Replies
<1>3. \A b \in Inputs : chosen[b] \subseteq chosen'[b]
  BY <1>1 DEF TypeInv, TypeOK
<1>4. i \in Tasks \ Timers /\ Moves(i, "get") /\ st' = st
  BY <1>1, <1>3, FlowAssumption DEF Tap, Step, Goto, Moves, TypeInv, TypeOK, Tasks, stored, running
<1>5. pc'[i] = "get" /\ arg'[i] = v /\ session' = session
  BY <1>1, <1>4, OthersStay DEF Moves, TypeInv, TypeOK
<1>6. At(i)'
  <2>1. v \in chosen'[session.block]
    BY <1>1, <1>2 DEF TypeInv, TypeOK
  <2>2. Answers(i)'
    BY <1>1, <1>5, <2>1 DEF Answers
  <2> QED
    BY <1>2, <1>5, <2>2 DEF At, AtGet
<1>7. InTime(Ahead(i))'
  <2>1. Others(i, CallTicks)
    BY <1>2, CalmIsQuiet DEF InTime, Others
  <2> QED
    BY <1>4, <1>5, <2>1, FlowAssumption, StaysInTime DEF Ahead, Labels, Instant
<1> QED
  BY <1>2, <1>4, <1>6, <1>7, CalmIsQuiet, Onward DEF Acts, Carrying, Early, Asleep

(* What a task knows when it is its turn. *)
LEMMA ItsTurn ==
    ASSUME TypeInv, Patience, NEW x \in Tasks, Acting(x)
    PROVE  /\ At(x) /\ Ahead(x) \in Nat /\ InTime(Ahead(x)) /\ Others(x, Ahead(x))
           /\ \A y \in Tasks : Acting(y) => y = x
<1>1. Ahead(x) \in Nat
  BY FlowAssumption DEF Ahead, TypeInv, TypeOK, MaxWait
<1>2. InTime(Ahead(x))
  BY DEF Patience, Undisturbed
<1>3. Others(x, Ahead(x))
  BY <1>2 DEF InTime, Others
<1> QED
  BY <1>1, <1>2, <1>3 DEF Patience, Informed, Alone

(* The client is settled, by the worker or for him. *)
LEMMA AsksPatiently ==
    ASSUME TypeInv, Patience, NEW x \in Tasks, \A y \in Tasks : Acting(y) => y = x,
           pc[x] \notin Carrying, x \in Timers => Live(x), Others(x, 0),
           Awaiting("client"), NEW c \in Clients \cup {NoClient},
           c \in Clients => c \in chosen[session.block],
           AskPriority(x, session, c), UNCHANGED <<stored, own, running, outside>>
    PROVE  Patience'
<1> DEFINE s == [session EXCEPT !.step = "priority", !.client = c]
<1>1. session \in State /\ Sound(session, chosen)
  BY DEF Awaiting, TypeInv, TypeOK, Patience, Honest
<1>2. s.step = "priority" /\ s.client = c /\ s.block = session.block /\ s.known = session.known
  BY <1>1 DEF State
<1>3. Moves(x, "set") /\ st'[x] = s /\ wait'[x] = 0 /\ pc'[x] = "set" /\ UNCHANGED <<session, chosen>>
  BY DEF AskPriority, Step, Goto, Moves, TypeInv, TypeOK, stored, running, outside
<1>4. Sound(st'[x], chosen')
  BY <1>1, <1>2, <1>3 DEF Sound
<1>5. At(x)'
  BY <1>2, <1>3 DEF At, AtSet, Awaiting
<1>6. InTime(Ahead(x))'
  BY <1>3, StaysInTime DEF Ahead, Labels, Instant
<1> QED
  BY <1>3, <1>4, <1>5, <1>6, Onward DEF Acts, Carrying, Early

(* The priority is, and the ticket is about to be created. *)
LEMMA FinishesPatiently ==
    ASSUME TypeInv, Patience, NEW x \in Tasks, \A y \in Tasks : Acting(y) => y = x,
           pc[x] \notin Carrying, x \in Timers => Live(x), Others(x, CallTicks),
           Awaiting("priority"), NEW p \in Priorities,
           Finish(x, session, p), UNCHANGED <<stored, own, running, outside>>
    PROVE  Patience'
<1>1. session \in State /\ Sound(session, chosen)
  BY DEF Awaiting, TypeInv, TypeOK, Patience, Honest
<1>2. Call(x, "create") /\ st' = [st EXCEPT ![x] = session] /\ arg' = [arg EXCEPT ![x] = p]
  BY <1>1 DEF Finish, Sound
<1>3. /\ Moves(x, "create") /\ st'[x] = session /\ arg'[x] = p /\ wait'[x] = CallTicks
      /\ pc'[x] = "create" /\ UNCHANGED <<session, chosen>>
  BY <1>2 DEF Call, Goto, Moves, TypeInv, TypeOK, stored, running, outside
<1>4. At(x)'
  BY <1>3 DEF At, Awaiting
<1>5. InTime(Ahead(x))'
  BY <1>3, FlowAssumption, StaysInTime DEF Ahead, Labels, Waiting, Calls
<1> QED
  BY <1>1, <1>3, <1>4, <1>5, Onward DEF Acts, Carrying, Early

(* A coroutine that leaves the session to others, or finds it gone, ends. *)
LEMMA EndIsPatient ==
    ASSUME TypeInv, Patience, NEW x \in Tasks,
           \/ pc[x] \in {"search", "extract", "offer", "send", "tell"}
           \/ x \in Timers /\ pc[x] = "sleep" /\ ~Awaiting(own[x]),
           Over(x), UNCHANGED <<stored, own, running, filed, chosen>>
    PROVE  Patience'
<1>1. PICK label \in {"release", "done"} : Step(x, label) /\ (x \in Timers => label # "done")
  BY DEF Over
<1>2. Moves(x, label) /\ st'[x] = NoSession
  BY <1>1 DEF Over, Step, Goto, Moves, TypeInv, TypeOK, stored, running
<1> QED
  BY <1>1, <1>2, Leaving DEF Live, Carrying

LEMMA InputIsPatient ==
    ASSUME Favourable, TypeInv, Patience, NEW i \in Inputs, HandleInput(i)
    PROVE  Patience'
<1>0. i \in Tasks \ Timers
  BY FlowAssumption DEF Tasks
<1>1. CASE WriteText(i) \/ Tap(i)
  BY <1>1, WriteTextIsPatient, TapIsPatient
<1>2. CASE IncomingMessage(i)
  <2>1. Acting(i) /\ Ahead(i) = CallTicks /\ (Awaiting("client") \/ AtRest)
    BY <1>0, <1>2, ItsTurn DEF IncomingMessage, Acting, Acts, Ahead, At, AtGet
  <2>2. CASE Awaiting("client")
    <3>1. Moves(i, "reread") /\ pc'[i] = "reread" /\ st' = st
      BY <1>0, <1>2, <2>2
      DEF IncomingMessage, Step, Goto, Moves, TypeInv, TypeOK, stored, running, outside
    <3>2. At(i)'
      BY <2>2, <3>1 DEF At, Awaiting, Moves
    <3>3. InTime(Ahead(i))'
      BY <1>0, <2>1, <3>1, FlowAssumption, ItsTurn, StaysInTime DEF Ahead, Labels, Instant
    <3> QED
      BY <1>0, <1>2, <2>1, <3>1, <3>2, <3>3, ItsTurn, Onward
      DEF IncomingMessage, Acts, Carrying, Early, Asleep
  <2>3. CASE ~Awaiting("client")
    <3>1. Goto(i, "window", BufferTTL)
      BY <1>0, <1>2, <2>1, <2>3, ItsTurn DEF IncomingMessage, Buffer, Acting, Acts, Tasks
    <3>2. Moves(i, "window") /\ pc'[i] = "window" /\ st' = st
      BY <1>0, <1>2, <3>1
      DEF IncomingMessage, Goto, Moves, TypeInv, TypeOK, stored, running, outside
    <3>3. AtRest' /\ session' = NoSession
      BY <1>0, <2>1, <2>3, <3>2, WatchersStay DEF AtRest, Moves, Labels, Waiting
    <3>4. At(i)' /\ InTime(Ahead(i))'
      BY <3>2, <3>3 DEF At, InTime, Awaiting
    <3> QED
      BY <1>0, <1>2, <2>1, <3>2, <3>4, ItsTurn, Onward
      DEF IncomingMessage, Acts, Carrying, Early, Asleep
  <2> QED
    BY <2>2, <2>3
<1>3. CASE HandleClientReply(i)
  <2>1. Acting(i) /\ Ahead(i) = CallTicks /\ Awaiting("client")
    BY <1>0, <1>3, ItsTurn DEF HandleClientReply, Acting, Acts, Ahead, At
  <2>2. /\ Moves(i, "search") /\ pc'[i] = "search" /\ wait'[i] = CallTicks
        /\ st'[i] = session /\ UNCHANGED <<session, chosen>>
    BY <1>0, <1>3, <2>1
    DEF HandleClientReply, Call, Goto, Moves, TypeInv, TypeOK, stored, running, outside
  <2>3. At(i)' /\ Sound(st'[i], chosen')
    BY <2>1, <2>2 DEF At, Awaiting, Patience, Honest
  <2>4. InTime(Ahead(i))'
    BY <1>0, <2>1, <2>2, FlowAssumption, ItsTurn, StaysInTime DEF Ahead, Labels, Waiting, Calls
  <2> QED
    BY <1>0, <1>3, <2>1, <2>2, <2>3, <2>4, ItsTurn, Onward
    DEF HandleClientReply, Acts, Carrying, Early, Asleep
<1>4. CASE SearchClients(i)
  <2>1. /\ Acting(i) /\ Ahead(i) = wait[i] /\ wait[i] \in Nat
        /\ Awaiting("client") /\ st[i] = session
    BY <1>0, <1>4, ItsTurn DEF SearchClients, Acting, Acts, Ahead, At
  <2>2. CASE AskPriority(i, st[i], NoClient)
    <3>1. Others(i, 0)
      BY <1>0, <2>1, ItsTurn DEF Others, TypeInv, TypeOK, StepTTL, MaxWait, Tasks
    <3> QED
      BY <1>0, <1>4, <2>1, <2>2, <3>1, FlowAssumption, ItsTurn, AsksPatiently
      DEF SearchClients, Carrying
  <2>3. CASE Call(i, "offer") /\ UNCHANGED <<st, arg>>
    <3>1. Moves(i, "offer")
      BY <1>0, <1>4, <2>3
      DEF SearchClients, Call, Goto, Moves, TypeInv, TypeOK, stored, running, outside
    <3> QED
      BY <1>0, <1>4, <2>3, <3>1, Leaving DEF SearchClients, Live, Carrying, Early
  <2>4. CASE Over(i)
    BY <1>0, <1>4, <2>4, EndIsPatient DEF SearchClients, outside
  <2> QED
    BY <1>4, <2>2, <2>3, <2>4 DEF SearchClients
<1>5. CASE SendOptions(i)
  BY <1>0, <1>5, EndIsPatient DEF SendOptions
<1>6. CASE BufferCloses(i)
  <2>1. Acting(i) /\ AtRest
    BY <1>0, <1>6, ItsTurn DEF BufferCloses, Acting, Acts, At
  <2>2. Moves(i, "extract") /\ pc'[i] = "extract" /\ st' = st
    BY <1>0, <1>6 DEF BufferCloses, Call, Goto, Moves, TypeInv, TypeOK, stored, running, outside
  <2>3. AtRest' /\ session' = NoSession
    BY <1>0, <2>1, <2>2, WatchersStay DEF AtRest, Moves, Labels, Waiting, Calls
  <2>4. At(i)' /\ InTime(Ahead(i))'
    BY <2>2, <2>3 DEF At, InTime, Awaiting
  <2> QED
    BY <1>0, <1>6, <2>1, <2>2, <2>4, ItsTurn, Onward
    DEF BufferCloses, Acts, Carrying, Early, Asleep
<1>7. CASE OnBufferClose(i)
  <2>1. CASE Over(i)
    BY <1>0, <1>7, <2>1, EndIsPatient DEF OnBufferClose, outside
  <2>2. CASE ~Over(i)
    <3> DEFINE s == [step |-> "client", block |-> i, client |-> NoClient, known |-> TRUE]
    <3>1. Step(i, "set") /\ st' = [st EXCEPT ![i] = s] /\ UNCHANGED arg
      BY <1>7, <2>2 DEF OnBufferClose, Favourable
    <3>2. /\ Moves(i, "set") /\ pc'[i] = "set" /\ st'[i] = s
      BY <1>0, <1>7, <3>1
      DEF OnBufferClose, Step, Goto, Moves, TypeInv, TypeOK, stored, running, outside
    <3>3. Acting(i) /\ AtRest
      BY <1>0, <1>7, ItsTurn DEF OnBufferClose, Acting, Acts, At
    <3>4. AtRest' /\ session' = NoSession
      BY <1>0, <3>2, <3>3, WatchersStay DEF AtRest, Moves, Labels, Instant
    <3>5. filed'[i] = 0
      BY <1>7, <3>2 DEF OnBufferClose, Moves, Early, Patience, Counted
    <3>6. At(i)' /\ InTime(Ahead(i))'
      BY <3>2, <3>4, <3>5 DEF At, AtSet, InTime, Awaiting
    <3>7. Sound(st'[i], chosen')
      BY <3>2, FlowAssumption DEF Sound
    <3> QED
      BY <1>0, <1>7, <3>2, <3>3, <3>6, <3>7, ItsTurn, Onward
      DEF OnBufferClose, Acts, Carrying, Early, Asleep
  <2> QED
    BY <2>1, <2>2
<1>8. CASE InteractiveReply(i)
  <2>1. Acting(i) /\ Ahead(i) = CallTicks /\ Answers(i)
    BY <1>0, <1>8, ItsTurn DEF InteractiveReply, Acting, Acts, Ahead, At, AtGet
  <2>2. CASE Awaiting("client")
    <3>1. AskPriority(i, session, arg[i])
      BY <1>8, <2>1, <2>2 DEF InteractiveReply, Answers, Awaiting
    <3>2. Others(i, 0)
      BY <1>0, <2>1, FlowAssumption, ItsTurn DEF Others, TypeInv, TypeOK, StepTTL, MaxWait, Tasks
    <3> QED
      BY <1>0, <1>8, <2>1, <2>2, <3>1, <3>2, ItsTurn, AsksPatiently
      DEF InteractiveReply, Answers, Awaiting, Carrying
  <2>3. CASE Awaiting("priority")
    <3>1. Finish(i, session, arg[i])
      BY <1>8, <2>1, <2>3 DEF InteractiveReply, Answers, Awaiting
    <3> QED
      BY <1>0, <1>8, <2>1, <2>3, <3>1, ItsTurn, FinishesPatiently
      DEF InteractiveReply, Answers, Awaiting, Carrying
  <2> QED
    BY <1>8, <2>1, <2>2, <2>3 DEF InteractiveReply, Answers
<1> QED
  BY <1>1, <1>2, <1>3, <1>4, <1>5, <1>6, <1>7, <1>8 DEF HandleInput

-----------------------------------------------------------------------------
(* A timeout finds everyone else at rest, and the session at the end of its *)
(* time: the margin is still there.                                         *)
LEMMA TimerFiresIsPatient ==
    ASSUME Favourable, TypeInv, Timed, Patience, NEW t \in Timers, TimerFires(t)
    PROVE  Patience'
<1>0. t \in Tasks /\ Live(t) /\ Asleep(t) /\ wait[t] = 0
  BY DEF TimerFires, Tasks, Live, Asleep
<1>1. CASE ~Awaiting(own[t])
  BY <1>0, <1>1, EndIsPatient DEF TimerFires, Asleep, outside
<1>2. CASE Awaiting(own[t])
  <2>1. \A y \in Tasks : ~Acting(y)
    <3> SUFFICES ASSUME NEW y \in Tasks, Acting(y) PROVE FALSE
      OBVIOUS
    <3> QED
      BY <1>0, <1>2, ItsTurn DEF InTime
  <2>2. Others(t, CallTicks)
    <3>1. \A u \in Timers \ {t} : Asleep(u) => ~Awaiting(own[u])
      BY <1>0, <1>2 DEF Patience, Watchers, Asleep, Awaiting, Live
    <3>2. sttl > CallTicks
      BY <1>0, <1>2, FlowAssumption
      DEF Timed, SessionOutlivesTimer, Asleep, Favourable, TypeInv, TypeOK, StepTTL
    <3> QED
      BY <3>1, <3>2 DEF Others
  <2>3. Others(t, 0)
    BY <1>0, <2>2, FlowAssumption DEF Others, TypeInv, TypeOK, StepTTL, MaxWait, Tasks
  <2>4. CASE session.step = "client"
    BY <1>0, <1>2, <2>1, <2>3, <2>4, FlowAssumption, AsksPatiently
    DEF TimerFires, OnTimeout, Awaiting, Asleep, Carrying
  <2>5. CASE session.step # "client"
    <3>1. Awaiting("priority")
      BY <1>2, <2>5, StateFields DEF Awaiting, Steps, TypeInv, TypeOK
    <3> QED
      BY <1>0, <1>2, <2>1, <2>2, <2>5, <3>1, FlowAssumption, FinishesPatiently
      DEF TimerFires, OnTimeout, Awaiting, Asleep, Carrying
  <2> QED
    BY <2>4, <2>5
<1> QED
  BY <1>1, <1>2

LEMMA ReleaseIsPatient ==
    ASSUME TypeInv, Patience, NEW t \in Timers, Release(t)
    PROVE  Patience'
<1>0. t \in Tasks /\ Live(t) /\ pc[t] = "release" /\ own[t] \in Steps
  BY DEF Release, Tasks, Live, Patience, Watchers
<1>1. /\ pc'[t] = "idle" /\ \A y \in Tasks \ {t} : pc'[y] = pc[y] /\ wait'[y] = wait[y]
      /\ \A u \in Timers \ {t} : own'[u] = own[u]
      /\ lock' = [lock EXCEPT ![own[t]] = 0]
      /\ UNCHANGED <<session, sttl, st, arg, up, filed, chosen>>
  BY <1>0 DEF Release, Unlock, Step, Goto, Steps, TypeInv, TypeOK, running, outside
<1>2. \A u \in Timers : Live(u)' => u # t /\ Live(u)
  BY <1>1 DEF Live, Tasks
<1>3. \A u \in Timers : Asleep(u)' <=> u # t /\ Asleep(u)
  BY <1>1 DEF Asleep, Tasks
<1>4. \A step : NobodyWaitsFor(step) => NobodyWaitsFor(step)'
  BY <1>1, <1>2 DEF NobodyWaitsFor
<1>5. Watchers'
  <2>1. ASSUME NEW step \in Steps, NobodyWaitsFor(step)' PROVE ~Locked(step)'
    <3>1. CASE step = own[t]
      BY <1>1, <3>1 DEF Locked, TypeInv, TypeOK
    <3>2. CASE step # own[t]
      <4>1. NobodyWaitsFor(step)
        BY <1>1, <2>1, <3>2 DEF NobodyWaitsFor, Live, Tasks
      <4> QED
        BY <1>1, <3>2, <4>1 DEF Locked, Patience, Watchers, TypeInv, TypeOK
    <3> QED
      BY <3>1, <3>2
  <2> QED
    BY <1>1, <1>2, <1>4, <2>1 DEF Patience, Watchers, Awaiting
<1>6. Precise'
  BY <1>1, <1>3 DEF Patience, Precise, Awaiting, Tasks
<1>7. \A y \in Tasks : Acting(y)' => y # t /\ Acting(y)
  BY <1>1 DEF Acting, Acts
<1>8. Alone'
  BY <1>7 DEF Patience, Alone
<1>9. Undisturbed'
  <2> SUFFICES ASSUME NEW y \in Tasks, Acting(y)' PROVE InTime(Ahead(y))'
    BY DEF Undisturbed
  <2>1. InTime(Ahead(y)) /\ Ahead(y)' = Ahead(y)
    BY <1>1, <1>7, ItsTurn DEF Ahead
  <2> QED
    BY <1>1, <1>3, <2>1 DEF InTime, Awaiting, Tasks
<1>10. Informed'
  <2> SUFFICES ASSUME NEW y \in Tasks PROVE At(y)'
    BY DEF Informed
  <2>1. CASE y = t
    BY <1>1, <2>1 DEF At
  <2>2. CASE y # t
    <3>1. pc'[y] = pc[y] /\ At(y) /\ (AtRest => AtRest')
      BY <1>1, <1>2, <2>2 DEF Patience, Informed, AtRest
    <3>2. pc[y] = "get" => AtGet(y)'
      BY <1>1, <3>1 DEF At, AtGet, Answers, Awaiting
    <3>3. pc[y] = "set" => AtSet(y)'
      BY <1>1, <3>1 DEF At, AtSet, Awaiting
    <3>4. pc[y] = "spawn" => NobodyWaitsFor(st[y].step)'
      BY <1>1, <1>2, <3>1 DEF At, NobodyWaitsFor
    <3> QED
      BY <1>1, <3>1, <3>2, <3>3, <3>4 DEF At, Awaiting
  <2> QED
    BY <2>1, <2>2
<1>11. Attended'
  <2>1. \A y \in Tasks : pc[y] \in Carrying => pc'[y] \in Carrying
    BY <1>0, <1>1 DEF Carrying
  <2>2. \A u \in Timers : Asleep(u) => u # t
    BY <1>0 DEF Asleep
  <2> QED
    BY <1>1, <1>3, <2>1, <2>2 DEF Patience, Attended
<1>12. Honest'
  BY <1>1 DEF Patience, Honest
<1>13. Counted'
  <2>1. Clearing' <=> Clearing
    BY <1>0, <1>1 DEF Clearing
  <2>2. \A i \in Inputs : pc'[i] = pc[i]
    BY <1>1, FlowAssumption DEF Tasks
  <2>3. session # NoSession => session.block \in Inputs
    BY StateFields DEF TypeInv, TypeOK
  <2> QED
    BY <1>1, <2>1, <2>2, <2>3 DEF Patience, Counted
<1> QED
  BY <1>5, <1>6, <1>8, <1>9, <1>10, <1>11, <1>12, <1>13 DEF Patience

-----------------------------------------------------------------------------
LEMMA StartSessionIsPatient ==
    ASSUME TypeInv, Patience, NEW x \in Tasks, StartSession(x)
    PROVE  Patience'
<1>0. /\ Acting(x) /\ pc[x] = "set" /\ AtSet(x) /\ st[x] \in State
      /\ \A y \in Tasks : Acting(y) => y = x
  BY ItsTurn DEF StartSession, Acting, Acts, At, TypeInv, Held, Holding
<1>1. /\ pc'[x] = "spawn" /\ \A y \in Tasks \ {x} : pc'[y] = pc[y] /\ wait'[y] = wait[y]
      /\ wait'[x] = 0 /\ session' = st[x] /\ sttl' = StepTTL
      /\ UNCHANGED <<lock, st, arg, own, up, filed, chosen>>
  BY DEF StartSession, Step, Goto, TypeInv, TypeOK, running, outside
<1>2. session'.step \in Steps /\ session'.block \in Inputs /\ session' # NoSession
  BY <1>0, <1>1, StateFields
<1>3. \A u \in Timers : (Live(u)' <=> Live(u)) /\ (Asleep(u)' <=> Asleep(u))
  BY <1>0, <1>1 DEF Live, Asleep, Tasks
<1>4. \A step : NobodyWaitsFor(step)' <=> NobodyWaitsFor(step)
  BY <1>1, <1>3 DEF NobodyWaitsFor
<1>5. NobodyWaitsFor(session'.step) /\ (session'.step = "client" => NobodyWaitsFor("priority"))
  BY <1>0, <1>1 DEF AtSet, AtRest, NobodyWaitsFor, Patience, Watchers
<1>6. \A u \in Timers : Asleep(u)' => ~Awaiting(own[u])'
  BY <1>1, <1>3, <1>5 DEF NobodyWaitsFor, Awaiting, Asleep, Live
<1>7. Watchers'
  BY <1>1, <1>3, <1>4, <1>5 DEF Patience, Watchers, Locked, Awaiting
<1>8. \A y \in Tasks : Acting(y)' => y = x
  BY <1>0, <1>1 DEF Acting
<1>9. Alone' /\ Undisturbed' /\ Precise'
  <2>1. InTime(Ahead(x))'
    BY <1>1, <1>6, FlowAssumption DEF InTime, Ahead, StepTTL
  <2> QED
    BY <1>6, <1>8, <2>1 DEF Alone, Undisturbed, Precise
<1>10. Informed'
  <2> SUFFICES ASSUME NEW y \in Tasks PROVE At(y)'
    BY DEF Informed
  <2>1. CASE y = x
    <3>1. NobodyWaitsFor(st[x].step)'
      BY <1>1, <1>3, <1>5 DEF NobodyWaitsFor
    <3> QED
      BY <1>1, <2>1, <3>1 DEF At
  <2>2. CASE y # x
    <3>1. pc'[y] = pc[y] /\ pc'[y] \notin Acts /\ At(y)
      BY <1>1, <1>8, <2>2 DEF Acting, Patience, Informed
    <3> QED
      BY <1>1, <3>1 DEF At, Acts
  <2> QED
    BY <2>1, <2>2
<1>11. Attended'
  BY <1>1 DEF Attended, Carrying
<1>12. Honest'
  BY <1>0, <1>1, StateFields DEF Patience, Honest
<1>13. Counted'
  <2>1. ~Clearing /\ ~Clearing'
    BY <1>0, <1>1 DEF Clearing, Acting, Acts
  <2>2. \A i \in Inputs : pc'[i] \in Early => pc[i] \in Early
    BY <1>1 DEF Early, Tasks
  <2>3. pc'[session'.block] \notin Early /\ filed[session'.block] = 0
    <3>1. CASE st[x].step = "client"
      BY <1>0, <1>1, <3>1 DEF AtSet, Early
    <3>2. CASE st[x].step = "priority"
      BY <1>0, <1>1, <1>2, <2>1, <2>2, <3>2 DEF AtSet, Awaiting, Patience, Counted
    <3> QED
      BY <1>0, <3>1, <3>2 DEF AtSet
  <2> QED
    BY <1>1, <2>1, <2>2, <2>3 DEF Patience, Counted
<1> QED
  BY <1>7, <1>9, <1>10, <1>11, <1>12, <1>13 DEF Patience

(* The watcher of an earlier question never keeps this one from having its own. *)
LEMMA SpawnTimerIsPatient ==
    ASSUME TypeInv, Timed, Patience, NEW x \in Tasks, SpawnTimer(x)
    PROVE  Patience'
<1>0. /\ Acting(x) /\ pc[x] = "spawn" /\ session = st[x] /\ session \in State
      /\ session.step \in Steps /\ NobodyWaitsFor(session.step)
      /\ \A y \in Tasks : Acting(y) => y = x
  BY ItsTurn, StateFields DEF SpawnTimer, Acting, Acts, At, TypeInv, Held, Holding
<1>1. ~Locked(session.step)
  BY <1>0 DEF Patience, Watchers
<1>2. PICK t \in Timers :
        /\ NewTimer(t, session.step, StepTimeout)
        /\ pc' = [pc EXCEPT ![x] = "send", ![t] = "sleep"]
        /\ wait' = [wait EXCEPT ![x] = CallTicks, ![t] = StepTimeout]
  BY <1>0, <1>1 DEF SpawnTimer
<1>3. t \in Tasks /\ t # x /\ pc[t] = "idle" /\ ~Live(t)
  BY <1>0, <1>2 DEF NewTimer, Tasks, Live
<1>4. /\ pc'[x] = "send" /\ pc'[t] = "sleep" /\ wait'[t] = StepTimeout
      /\ \A y \in Tasks \ {x, t} : pc'[y] = pc[y] /\ wait'[y] = wait[y]
      /\ own'[t] = session.step /\ \A u \in Timers \ {t} : own'[u] = own[u]
      /\ \A step \in Steps \ {session.step} : lock'[step] = lock[step]
      /\ UNCHANGED <<session, sttl, st, arg, up, filed, chosen>>
  BY <1>2, <1>3 DEF SpawnTimer, NewTimer, TypeInv, TypeOK, running, outside
<1>5. \A u \in Timers : Live(u)' <=> (u = t \/ Live(u))
  BY <1>0, <1>3, <1>4 DEF Live, Tasks
<1>6. session # NoSession /\ sttl = StepTTL
  BY <1>0, StateFields DEF Timed, FreshAtSpawn
<1>7. Watchers'
  <2>1. \A u \in Timers : Live(u)' => own'[u] \in Steps
    BY <1>0, <1>4, <1>5 DEF Patience, Watchers
  <2>2. \A u, v \in Timers : Live(u)' /\ Live(v)' /\ own'[u] = own'[v] => u = v
    BY <1>0, <1>4, <1>5 DEF Patience, Watchers, NobodyWaitsFor
  <2>3. ASSUME NEW step \in Steps, NobodyWaitsFor(step)' PROVE ~Locked(step)'
    <3>1. step # session.step
      BY <1>4, <1>5, <2>3 DEF NobodyWaitsFor
    <3>2. NobodyWaitsFor(step)
      BY <1>3, <1>4, <1>5, <2>3 DEF NobodyWaitsFor
    <3> QED
      BY <1>4, <3>1, <3>2 DEF Patience, Watchers, Locked
  <2>4. Awaiting("client")' => NobodyWaitsFor("priority")'
    BY <1>4, <1>5 DEF Patience, Watchers, NobodyWaitsFor, Awaiting
  <2> QED
    BY <1>4, <2>1, <2>2, <2>3, <2>4 DEF Patience, Watchers
<1>8. Alone' /\ Undisturbed' /\ \A y \in Tasks : pc'[y] \notin Acts
  BY <1>0, <1>4 DEF Alone, Undisturbed, Acting, Acts
<1>9. Precise'
  <2> SUFFICES ASSUME NEW u \in Timers, Asleep(u)', Awaiting(own[u])' PROVE sttl' <= wait'[u] + Margin
    BY DEF Precise
  <2>1. u = t
    BY <1>0, <1>4, <1>5 DEF NobodyWaitsFor, Asleep, Awaiting, Live
  <2> QED
    BY <1>4, <1>6, <2>1, FlowAssumption DEF StepTTL
<1>10. Informed'
  <2> SUFFICES ASSUME NEW y \in Tasks PROVE At(y)'
    BY DEF Informed
  <2>1. CASE y = x \/ y = t
    BY <1>4, <2>1 DEF At
  <2>2. CASE y # x /\ y # t
    <3>1. pc'[y] = pc[y] /\ At(y)
      BY <1>4, <2>2 DEF Patience, Informed
    <3> QED
      BY <1>4, <1>8, <3>1 DEF At, Acts
  <2> QED
    BY <2>1, <2>2
<1>11. Attended'
  BY <1>4 DEF Attended, Asleep
<1>12. Honest'
  BY <1>4 DEF Patience, Honest
<1>13. Counted'
  <2>1. ~Clearing /\ ~Clearing'
    BY <1>0, <1>4 DEF Clearing, Acting, Acts
  <2>2. \A i \in Inputs : pc'[i] \in Early => pc[i] \in Early
    BY <1>4 DEF Early, Tasks
  <2>3. session.block \in Inputs
    BY <1>0, StateFields
  <2> QED
    BY <1>4, <2>1, <2>2, <2>3 DEF Patience, Counted
<1> QED
  BY <1>7, <1>8, <1>9, <1>10, <1>11, <1>12, <1>13 DEF Patience

LEMMA AskIsPatient ==
    ASSUME TypeInv, Timed, Patience, NEW x \in Tasks, Ask(x)
    PROVE  Patience'
<1>1. CASE SendQuestion(x)
  BY <1>1, EndIsPatient DEF SendQuestion
<1> QED
  BY <1>1, StartSessionIsPatient, SpawnTimerIsPatient DEF Ask

-----------------------------------------------------------------------------
(* The ticket of the block of the session, its first. *)
LEMMA CreateTicketIsPatient ==
    ASSUME Favourable, TypeInv, Patience, NEW x \in Tasks, CreateTicket(x)
    PROVE  /\ Patience'
           /\ Awaiting("priority") /\ filed[session.block] = 0 /\ session.block \in Inputs
           /\ filed' = [filed EXCEPT ![session.block] = 1] /\ UNCHANGED session
<1>0. /\ Acting(x) /\ pc[x] = "create" /\ Awaiting("priority") /\ st[x] = session
      /\ InTime(wait[x]) /\ wait[x] \in Nat /\ \A y \in Tasks : Acting(y) => y = x
  BY ItsTurn DEF CreateTicket, Acting, Acts, At, Ahead
<1>1. /\ pc'[x] = "clear" /\ wait'[x] = 0
      /\ \A y \in Tasks \ {x} : pc'[y] = pc[y] /\ wait'[y] = wait[y]
      /\ File(session.block) /\ UNCHANGED <<session, sttl, lock, st, arg, own, up, chosen>>
  BY <1>0 DEF Favourable, CreateTicket, Step, Goto, TypeInv, TypeOK, stored, running
<1>2. session.block \in Inputs /\ session # NoSession
  BY <1>0, StateFields DEF Awaiting, TypeInv, TypeOK
<1>3. ~Clearing /\ Clearing'
  BY <1>0, <1>1 DEF Clearing, Acting, Acts
<1>4. filed[session.block] = 0 /\ filed' = [filed EXCEPT ![session.block] = 1]
  <2>1. filed[session.block] = 0
    BY <1>2, <1>3 DEF Patience, Counted
  <2>2. filed[session.block] + 1 = 1
    BY <2>1
  <2> QED
    BY <1>1, <2>1, <2>2 DEF File
<1>5. \A u \in Timers : (Live(u)' <=> Live(u)) /\ (Asleep(u)' <=> u # x /\ Asleep(u))
  BY <1>0, <1>1 DEF Live, Asleep, Tasks
<1>6. Watchers'
  BY <1>1, <1>5 DEF Patience, Watchers, NobodyWaitsFor, Locked, Awaiting
<1>7. \A y \in Tasks : Acting(y)' => y = x
  BY <1>0, <1>1 DEF Acting
<1>8. Alone' /\ Undisturbed' /\ Precise'
  <2>1. InTime(Ahead(x))'
    <3>1. \A u \in Timers : Asleep(u)' => Asleep(u) /\ wait'[u] = wait[u] /\ wait[u] \in Nat
      BY <1>1, <1>5 DEF TypeInv, TypeOK, MaxWait, Tasks
    <3> QED
      BY <1>0, <1>1, <3>1 DEF InTime, Ahead, Awaiting, TypeInv, TypeOK, StepTTL
  <2>2. Precise'
    BY <1>1, <1>5 DEF Patience, Precise, Awaiting, Tasks
  <2> QED
    BY <1>7, <2>1, <2>2 DEF Alone, Undisturbed
<1>9. Informed'
  <2> SUFFICES ASSUME NEW y \in Tasks PROVE At(y)'
    BY DEF Informed
  <2>1. CASE y = x
    BY <1>0, <1>1, <2>1 DEF At, Awaiting
  <2>2. CASE y # x
    <3>1. pc'[y] = pc[y] /\ pc'[y] \notin Acts /\ At(y)
      BY <1>1, <1>7, <2>2 DEF Acting, Patience, Informed
    <3> QED
      BY <1>1, <3>1 DEF At, Acts
  <2> QED
    BY <2>1, <2>2
<1>10. Attended'
  BY <1>1 DEF Attended, Carrying
<1>11. Honest'
  BY <1>1 DEF Patience, Honest
<1>12. Counted'
  <2>1. \A i \in Inputs : pc'[i] \in Early => pc[i] \in Early
    BY <1>1 DEF Early, Tasks
  <2>2. pc[session.block] \notin Early
    BY <1>2 DEF Patience, Counted
  <2>3. \A i \in Inputs : filed'[i] = IF i = session.block THEN 1 ELSE filed[i]
    BY <1>4 DEF TypeInv, TypeOK
  <2> QED
    BY <1>1, <1>2, <1>3, <2>1, <2>2, <2>3 DEF Patience, Counted
<1> QED
  BY <1>0, <1>1, <1>2, <1>4, <1>6, <1>8, <1>9, <1>10, <1>11, <1>12 DEF Patience

LEMMA ClearSessionIsPatient ==
    ASSUME TypeInv, Patience, NEW x \in Tasks, ClearSession(x)
    PROVE  Patience' /\ filed[session.block] = 1 /\ session # NoSession
<1>0. /\ Acting(x) /\ pc[x] = "clear" /\ Awaiting("priority")
      /\ \A y \in Tasks : Acting(y) => y = x
  <2>1. pc[x] = "clear"
    BY DEF ClearSession, Patience, Informed, At
  <2> QED
    BY <2>1, ItsTurn DEF Acting, Acts, At
<1>1. /\ pc'[x] = "report" /\ \A y \in Tasks \ {x} : pc'[y] = pc[y] /\ wait'[y] = wait[y]
      /\ session' = NoSession /\ UNCHANGED <<lock, st, arg, own, up, filed, chosen>>
  BY DEF ClearSession, Call, Goto, TypeInv, TypeOK, running, outside
<1>2. filed[session.block] = 1 /\ session # NoSession
  BY <1>0 DEF Awaiting, Clearing, Patience, Counted
<1>3. \A u \in Timers : Live(u)' <=> Live(u)
  BY <1>0, <1>1 DEF Live, Tasks
<1>4. Watchers'
  BY <1>1, <1>3 DEF Patience, Watchers, NobodyWaitsFor, Locked, Awaiting
<1>5. \A y \in Tasks : pc'[y] \notin Acts
  BY <1>0, <1>1 DEF Acting, Acts
<1>6. Alone' /\ Undisturbed' /\ Precise'
  BY <1>1, <1>5 DEF Alone, Undisturbed, Precise, Acting, Awaiting
<1>7. Informed'
  <2> SUFFICES ASSUME NEW y \in Tasks PROVE At(y)'
    BY DEF Informed
  <2>1. CASE y = x
    BY <1>1, <2>1 DEF At
  <2>2. CASE y # x
    BY <1>1, <1>5, <2>2 DEF At, Acts, Patience, Informed
  <2> QED
    BY <2>1, <2>2
<1>8. Attended' /\ Honest'
  BY <1>1 DEF Attended, Patience, Honest
<1>9. Counted'
  <2>1. \A i \in Inputs : pc'[i] \in Early => pc[i] \in Early
    BY <1>1 DEF Early, Tasks
  <2> QED
    BY <1>1, <2>1 DEF Patience, Counted
<1> QED
  BY <1>2, <1>4, <1>6, <1>7, <1>8, <1>9 DEF Patience

(* A creation does not fail here: nobody logs a failure or excuses the bot. *)
LEMMA NothingFails ==
    ASSUME Patience, NEW x \in Tasks
    PROVE  ~LogFailed(x) /\ ~RefreshSession(x) /\ ~Excuse(x)
BY DEF LogFailed, RefreshSession, Excuse, Patience, Informed, At

LEMMA CreateIsPatient ==
    ASSUME Favourable, TypeInv, Patience, NEW x \in Tasks, Create(x)
    PROVE  Patience'
<1>1. ~LogFailed(x) /\ ~RefreshSession(x) /\ ~Excuse(x)
  BY NothingFails
<1>2. CASE Report(x)
  <2>1. pc[x] = "report" /\ Moves(x, "tell") /\ st' = st
    BY <1>2 DEF Report, Call, Goto, Moves, TypeInv, TypeOK, stored, running
  <2> QED
    BY <2>1, Leaving DEF Live, Carrying
<1>3. CASE Tell(x)
  BY <1>3, EndIsPatient DEF Tell, outside
<1> QED
  BY <1>1, <1>2, <1>3, CreateTicketIsPatient, ClearSessionIsPatient DEF Create

-----------------------------------------------------------------------------
(* Time never ends a session: it is read, answered or timed out before. *)
LEMMA TickIsPatient ==
    ASSUME TypeInv, Timed, Patience, Tick
    PROVE  Patience' /\ UNCHANGED session
<1>1. ASSUME NEW x \in Tasks, pc[x] \in Waiting
      PROVE  wait[x] \in Nat /\ wait[x] > 0 /\ wait'[x] = wait[x] - 1
  BY <1>1, FlowAssumption DEF Tick, Due, Minus1, TypeInv, TypeOK, MaxWait
<1>2. \A x \in Tasks : pc[x] \notin Instant
  BY DEF Tick, Due
<1>3. ASSUME session # NoSession PROVE sttl > 1
  <2>1. ASSUME NEW t \in Timers, Asleep(t), own[t] = session.step PROVE sttl > 1
    <3>1. sttl >= wait[t] + Margin /\ wait[t] \in Nat /\ wait[t] > 0
      BY <1>1, <1>3, <2>1 DEF Timed, SessionOutlivesTimer, Awaiting, Asleep, Waiting, Tasks
    <3> QED
      BY <3>1, FlowAssumption DEF TypeInv, TypeOK, StepTTL
  <2>2. ASSUME NEW x \in Tasks, pc[x] \in Carrying PROVE sttl > 1
    <3>1. pc[x] = "create"
      BY <1>2, <2>2 DEF Carrying, Instant
    <3>2. sttl > wait[x] /\ wait[x] \in Nat /\ wait[x] > 0
      BY <1>1, <1>3, <3>1, ItsTurn DEF Acting, Acts, Ahead, InTime, Waiting, Calls
    <3> QED
      BY <3>2, FlowAssumption DEF TypeInv, TypeOK, StepTTL
  <2> QED
    BY <1>3, <2>1, <2>2 DEF Patience, Attended
<1>4. UNCHANGED session /\ (session # NoSession => sttl' = sttl - 1 /\ sttl \in Nat)
  BY <1>3, FlowAssumption DEF Tick, Minus1, TypeInv, TypeOK, StepTTL
<1>5. UNCHANGED <<pc, st, arg, own, up, filed, chosen>>
  BY DEF Tick, running, outside
<1>6. Watchers'
  <2>1. \A step \in Steps : ~Locked(step) => ~Locked(step)'
    BY FlowAssumption DEF Tick, Locked, Minus1, TypeInv, TypeOK, LockTTL
  <2> QED
    BY <1>4, <1>5, <2>1 DEF Patience, Watchers, NobodyWaitsFor, Live, Awaiting
<1>7. \A t \in Timers : Asleep(t) => wait[t] \in Nat /\ wait'[t] = wait[t] - 1
  BY <1>1 DEF Asleep, Waiting, Tasks
<1>8. Undisturbed'
  <2> SUFFICES ASSUME NEW x \in Tasks, Acting(x) PROVE InTime(Ahead(x))'
    BY <1>5 DEF Undisturbed, Acting
  <2>1. pc[x] \in Waiting /\ Ahead(x) = wait[x] /\ Ahead(x)' = wait'[x]
    BY <1>2, <1>5 DEF Acting, Acts, Ahead, Instant, Waiting, Calls
  <2>2. InTime(wait[x]) /\ wait[x] \in Nat /\ wait'[x] = wait[x] - 1
    BY <1>1, <2>1, ItsTurn
  <2> QED
    BY <1>4, <1>5, <1>7, <2>1, <2>2 DEF InTime, Awaiting, Asleep
<1>9. Precise'
  <2> SUFFICES ASSUME NEW t \in Timers, Asleep(t), Awaiting(own[t]) PROVE sttl' <= wait'[t] + Margin
    BY <1>4, <1>5 DEF Precise, Asleep, Awaiting
  <2> QED
    BY <1>4, <1>7, FlowAssumption DEF Patience, Precise, Awaiting
<1>10. Alone' /\ Attended' /\ Honest'
  BY <1>4, <1>5 DEF Patience, Alone, Acting, Attended, Asleep, Honest
<1>11. Counted'
  BY <1>4, <1>5 DEF Patience, Counted, Clearing
<1>12. Informed'
  BY <1>4, <1>5
  DEF Patience, Informed, At, AtGet, AtSet, Answers, AtRest, NobodyWaitsFor, Awaiting, Live
<1> QED
  BY <1>4, <1>6, <1>8, <1>9, <1>10, <1>11, <1>12 DEF Patience

LEMMA StutterIsPatient ==
    ASSUME Patience, UNCHANGED vars
    PROVE  Patience'
<1> USE DEF vars, stored, tasks, running, outside
<1>1. Watchers'
  BY DEF Patience, Watchers, NobodyWaitsFor, Locked, Live, Awaiting
<1>2. Alone' /\ Undisturbed' /\ Precise'
  BY DEF Patience, Alone, Undisturbed, Precise, Acting, InTime, Ahead, Asleep, Awaiting
<1>3. Informed'
  BY DEF Patience, Informed, At, AtGet, AtSet, Answers, AtRest, NobodyWaitsFor, Awaiting, Live
<1>4. Attended' /\ Honest' /\ Counted'
  BY DEF Patience, Attended, Asleep, Honest, Counted, Clearing
<1> QED
  BY <1>1, <1>2, <1>3, <1>4 DEF Patience

LEMMA PatienceInvariant ==
    ASSUME Favourable
    PROVE  Spec => [](TypeInv /\ Timed /\ Patience)
<1>1. Init => Patience
  <2> SUFFICES ASSUME Init PROVE Patience
    OBVIOUS
  <2>1. \A x \in Tasks : pc[x] \in {"unsent", "idle"} /\ arg[x] = Text /\ st[x] = NoSession
    BY DEF Init
  <2>2. Watchers
    <3>1. up
      BY Zenon DEF Init
    <3>2. \A t \in Timers : ~Live(t)
      BY <2>1 DEF Live, Tasks
    <3>3. \A step \in Steps : ~Locked(step)
      BY DEF Init, Locked
    <3>4. ~Awaiting("client")
      BY DEF Init, Awaiting
    <3> QED
      BY <3>1, <3>2, <3>3, <3>4 DEF Watchers
  <2>3. Alone /\ Undisturbed /\ Precise
    BY <2>1 DEF Init, Alone, Undisturbed, Precise, Acting, Acts, Awaiting
  <2>4. Informed
    BY <2>1 DEF Informed, At
  <2>5. Attended /\ Honest /\ Counted
    BY <2>1 DEF Init, Attended, Honest, Counted
  <2> QED
    BY <2>2, <2>3, <2>4, <2>5 DEF Patience
<1>2. TypeInv /\ Timed /\ Patience /\ [Next]_vars => Patience'
  <2> SUFFICES ASSUME TypeInv, Timed, Patience, [Next]_vars PROVE Patience'
    OBVIOUS
  <2>1. CASE \E t \in Timers : StartupFails(t)
    BY <2>1 DEF StartupFails, Patience, Watchers, Live, Steps
  <2>2. CASE Crash \/ Stop \/ Restart
    BY <2>2, Zenon DEF Favourable, Crash, Stop, Restart, Patience, Watchers
  <2> QED
    BY <2>1, <2>2, InputIsPatient, AskIsPatient, CreateIsPatient, TimerFiresIsPatient,
       ReleaseIsPatient, TickIsPatient, StutterIsPatient DEF Next, Timeout
<1> QED
  BY <1>1, <1>2, TypeInvariant, TimedInvariant, PTL DEF Spec

(* A question is never left without a deadline (orchestrator.py:149-159 and *)
(* 197-207: start_session, then the watcher, then the message): whatever    *)
(* fails to be sent or found, once the bot is idle a watcher of the step    *)
(* sleeps.                                                                  *)
THEOREM EveryQuestionTimed ==
    ASSUME Favourable
    PROVE  Spec => []QuestionIsTimed
<1>1. Patience => QuestionIsTimed
  BY DEF Patience, Attended, QuestionIsTimed, Idle, Asleep, Carrying, Live
<1> QED
  BY <1>1, PatienceInvariant, PTL

(* orchestrator.py:175-177: the client of a ticket is nobody, or one that the *)
(* worker chose for the very block it is made of.                             *)
THEOREM ClientIsChosen ==
    ASSUME Favourable
    PROVE  Spec => ClientChosenForBlock
<1>1. ASSUME TypeInv, Patience, NEW x \in Tasks, Posts(x), st[x].client \in Clients
      PROVE  st[x].client \in chosen[st[x].block]
  BY <1>1, StateFields DEF Posts, TypeInv, Held, Holding, Patience, Honest, Sound
<1>2. TypeInv /\ Patience /\ [Next]_vars =>
        [ \A x \in Tasks : Posts(x) /\ st[x].client \in Clients
            => st[x].client \in chosen[st[x].block] ]_vars
  BY <1>1
<1> QED
  BY <1>2, PatienceInvariant, PTL DEF Spec, ClientChosenForBlock

(* orchestrator.py:112-114: what is posted as a priority is one, and what is *)
(* posted as a client is one or nobody.                                      *)
THEOREM KindsAreKept ==
    ASSUME Favourable
    PROVE  Spec => IdsKeepTheirKind
<1>1. ASSUME TypeInv, Patience, NEW x \in Tasks, Posts(x)
      PROVE  arg[x] \in Priorities /\ st[x].client \in Clients \cup {NoClient}
  <2>1. arg[x] \in Priorities
    BY <1>1 DEF Posts, Patience, Informed, At
  <2>2. Sound(st[x], chosen)
    BY <1>1, StateFields DEF Posts, TypeInv, Held, Holding, Patience, Honest
  <2> QED
    BY <2>1, <2>2 DEF Sound
<1>2. TypeInv /\ Patience /\ [Next]_vars =>
        [ \A x \in Tasks : Posts(x) =>
            /\ arg[x] \in Priorities
            /\ st[x].client \in Clients \cup {NoClient} ]_vars
  BY <1>1
<1> QED
  BY <1>2, PatienceInvariant, PTL DEF Spec, IdsKeepTheirKind

-----------------------------------------------------------------------------
(* Only its own end wakes a watcher. *)
LEMMA SleepersSleepOn ==
    ASSUME Favourable, TypeInv, Patience, [Next]_vars, NEW t \in Timers, Asleep(t), ~TimerFires(t)
    PROVE  Asleep(t)'
<1>0. t \in Tasks \ Inputs
  BY FlowAssumption DEF Tasks
<1>1. ASSUME NEW x \in Tasks \ {t}, NEW label, pc' = [pc EXCEPT ![x] = label] PROVE Asleep(t)'
  BY <1>0, <1>1 DEF Asleep, TypeInv, TypeOK
<1>2. ASSUME NEW i \in Inputs, HandleInput(i) PROVE Asleep(t)'
  <2>1. i \in Tasks \ {t}
    BY <1>0 DEF Tasks
  <2>2. \E label : pc' = [pc EXCEPT ![i] = label]
    BY <1>2
    DEF HandleInput, WriteText, Tap, IncomingMessage, Buffer, HandleClientReply, SearchClients, SendOptions,
        BufferCloses, OnBufferClose, InteractiveReply, Over, AskPriority, Finish, Step, Call, Goto
  <2> QED
    BY <1>1, <2>1, <2>2
<1>3. ASSUME NEW x \in Tasks, Ask(x) \/ Create(x) PROVE Asleep(t)'
  <2>1. x # t
    BY <1>3
    DEF Ask, StartSession, SpawnTimer, SendQuestion, Create, CreateTicket, LogFailed, RefreshSession,
        Excuse, ClearSession, Report, Tell, Asleep
  <2>2. CASE \E label : pc' = [pc EXCEPT ![x] = label]
    BY <1>1, <2>1, <2>2
  <2>3. ASSUME NEW u \in Timers, pc' = [pc EXCEPT ![x] = "send", ![u] = "sleep"] PROVE Asleep(t)'
    BY <1>0, <2>1, <2>3 DEF Asleep, TypeInv, TypeOK
  <2> QED
    BY <1>3, <2>2, <2>3
    DEF Ask, StartSession, SpawnTimer, SendQuestion, Create, CreateTicket, LogFailed, RefreshSession,
        Excuse, ClearSession, Report, Tell, Over, Step, Call, Goto
<1>4. ASSUME NEW u \in Timers, Timeout(u) PROVE Asleep(t)'
  <2>1. ~StartupFails(u)
    BY DEF StartupFails, Patience, Watchers, Live, Steps
  <2>2. u \in Tasks \ {t}
    BY <1>4, <2>1 DEF Timeout, Release, Asleep, Tasks
  <2>3. \E label : pc' = [pc EXCEPT ![u] = label]
    BY <1>4, <2>1
    DEF Timeout, TimerFires, Release, OnTimeout, Over, AskPriority, Finish, Step, Call, Goto
  <2> QED
    BY <1>1, <2>2, <2>3
<1>5. CASE Crash \/ Stop \/ Restart
  BY <1>5, Zenon DEF Favourable, Crash, Stop, Restart, Patience, Watchers
<1>6. CASE Tick \/ UNCHANGED vars
  BY <1>6 DEF Tick, vars, tasks, Asleep
<1> QED
  BY <1>2, <1>3, <1>4, <1>5, <1>6 DEF Next

(* session.py:45-47: a watcher acts at the end of its wait, on a session that *)
(* has nothing left but the margin.                                           *)
THEOREM NeverEarly ==
    ASSUME Favourable
    PROVE  Spec => TimeoutNotEarly
<1>1. ASSUME TypeInv, Patience, [Next]_vars, NEW t \in Timers,
             pc[t] = "sleep", pc'[t] \in {"set", "create", "reject"}
      PROVE  sttl <= Margin
  <2>1. t \in Tasks /\ Asleep(t) /\ TimerFires(t)
    BY <1>1, SleepersSleepOn DEF Asleep, Tasks
  <2>2. Awaiting(own[t])
    BY <1>1, <2>1 DEF TimerFires, Over, Step, Goto, TypeInv, TypeOK
  <2> QED
    BY <1>1, <2>1, <2>2, FlowAssumption DEF TimerFires, Patience, Precise
<1>2. TypeInv /\ Patience /\ [Next]_vars =>
        [ \A t \in Timers : pc[t] = "sleep" /\ pc'[t] \in {"set", "create", "reject"}
            => sttl <= Margin ]_vars
  BY <1>1
<1> QED
  BY <1>2, PatienceInvariant, PTL DEF Spec, TimeoutNotEarly

-----------------------------------------------------------------------------
(* What a step of the conversation is to the Dialogue. *)
LEMMA StartSessionOpensOrSettles ==
    ASSUME TypeInv, Patience, NEW x \in Tasks, StartSession(x)
    PROVE  (\E b \in Inputs : D!Open(b)) \/ D!SettleClient
<1>1. AtSet(x) /\ st[x] \in State /\ session' = st[x] /\ UNCHANGED filed
  BY ItsTurn DEF StartSession, Acting, Acts, At, TypeInv, Held, Holding, outside
<1>2. st[x] # NoSession /\ st[x].block \in Inputs
  BY <1>1, StateFields
<1>3. CASE st[x].step = "client"
  <2>1. session = NoSession /\ filed[st[x].block] = 0
    BY <1>1, <1>3 DEF AtSet, AtRest
  <2>2. D!Open(st[x].block)
    BY <1>1, <1>2, <1>3, <2>1 DEF D!Open
  <2> QED
    BY <1>2, <2>2
<1>4. CASE st[x].step = "priority"
  <2>1. session # NoSession /\ session.step = "client" /\ session.block = st[x].block
    BY <1>1, <1>4 DEF AtSet, Awaiting
  <2> QED
    BY <1>1, <1>2, <1>4, <2>1, FlowAssumption DEF D!SettleClient
<1> QED
  BY <1>1, <1>3, <1>4 DEF AtSet

LEMMA CreateFilesOrLetsGo ==
    ASSUME Favourable, TypeInv, Patience, NEW x \in Tasks, Create(x)
    PROVE  D!File \/ D!LetGo \/ UNCHANGED D!vars
<1>1. session # NoSession => session.block \in Inputs /\ session.block # NoSession
  BY StateFields, FlowAssumption DEF TypeInv, TypeOK
<1>2. CASE CreateTicket(x)
  <2>1. /\ Awaiting("priority") /\ filed[session.block] = 0
        /\ filed' = [filed EXCEPT ![session.block] = 1] /\ UNCHANGED session
    BY <1>2, CreateTicketIsPatient
  <2> QED
    BY <1>1, <2>1 DEF Awaiting, D!File
<1>3. CASE ClearSession(x)
  <2>1. filed[session.block] = 1 /\ session # NoSession
    BY <1>3, ClearSessionIsPatient
  <2> QED
    BY <1>1, <1>3, <2>1 DEF ClearSession, outside, D!LetGo
<1>4. CASE Report(x) \/ Tell(x)
  BY <1>4 DEF Report, Tell, stored, outside, D!vars
<1>5. ~LogFailed(x) /\ ~RefreshSession(x) /\ ~Excuse(x)
  BY NothingFails
<1> QED
  BY <1>2, <1>3, <1>4, <1>5 DEF Create

(* Blocks are talked about one at a time, first their client and then their *)
(* priority, and each becomes one ticket before it is let go: every other   *)
(* step, of a task, a watcher or the clock, stutters.                       *)
THEOREM ImplementsDialogue ==
    ASSUME Favourable
    PROVE  Spec => IsDialogue
<1>1. Init => D!Init
  BY DEF Init, D!Init
<1>2. TypeInv /\ Timed /\ Patience /\ [Next]_vars => [D!Next]_(D!vars)
  <2> SUFFICES ASSUME TypeInv, Timed, Patience, [Next]_vars PROVE [D!Next]_(D!vars)
    OBVIOUS
  <2>0. ASSUME UNCHANGED <<session, filed>> PROVE UNCHANGED D!vars
    BY <2>0 DEF D!vars
  <2>1. CASE \E i \in Inputs : HandleInput(i)
    <3>1. UNCHANGED filed
      BY <2>1
      DEF HandleInput, WriteText, Tap, IncomingMessage, HandleClientReply, SearchClients, SendOptions,
          BufferCloses, OnBufferClose, InteractiveReply, outside
    <3> QED
      BY <2>0, <2>1, <3>1, InputIsHarmless
  <2>2. ASSUME NEW x \in Tasks, Ask(x) PROVE [D!Next]_(D!vars)
    <3>1. CASE StartSession(x)
      BY <3>1, StartSessionOpensOrSettles DEF D!Next
    <3>2. CASE SpawnTimer(x) \/ SendQuestion(x)
      BY <2>0, <3>2 DEF SpawnTimer, SendQuestion, stored, outside
    <3> QED
      BY <2>2, <3>1, <3>2 DEF Ask
  <2>3. CASE \E x \in Tasks : Create(x)
    BY <2>3, CreateFilesOrLetsGo DEF D!Next
  <2>4. ASSUME NEW t \in Timers, Timeout(t) PROVE [D!Next]_(D!vars)
    <3>1. ~StartupFails(t)
      BY DEF StartupFails, Patience, Watchers, Live, Steps
    <3> QED
      BY <2>0, <2>4, <3>1 DEF Timeout, TimerFires, Release, stored, outside
  <2>5. CASE Tick
    BY <2>0, <2>5, TickIsPatient DEF Tick, outside
  <2>6. CASE Crash \/ Stop \/ Restart
    BY <2>6, Zenon DEF Favourable, Crash, Stop, Restart, Patience, Watchers
  <2>7. CASE UNCHANGED vars
    BY <2>0, <2>7 DEF vars, stored, outside
  <2> QED
    BY <2>1, <2>2, <2>3, <2>4, <2>5, <2>6, <2>7 DEF Next
<1> QED
  BY <1>1, <1>2, PatienceInvariant, PTL DEF Spec, IsDialogue, D!Spec
=============================================================================
