------------------------ MODULE WebhookIntakeProofs ------------------------
(***************************************************************************)
(* Theorems of WebhookIntake, for any messages, payloads and number of     *)
(* requests at once, any faults and kills.                                 *)
(***************************************************************************)
EXTENDS WebhookIntake, SequenceTheorems, TLAPS

(* What a request in the loop of _handle_messages has before it; the types *)
(* are not inductive without it.                                           *)
InLoop ==
    \A r \in Requests :
      /\ pc[r] \in {"select", "lookup", "commit"} => todo[r] # <<>>
      /\ pc[r] = "commit" => Head(todo[r]) \in Allowed
      /\ pc[r] # "idle" => load[r] \in Payloads

TypeInv == TypeOK /\ InLoop

Labels == {"idle", "select", "lookup", "commit", "answer", "process"}

LEMMA NextMessageType ==
    ASSUME TypeInv, NEW r \in Requests, pc[r] # "idle", todo[r] # <<>>,
           NextMessage(r), UNCHANGED load
    PROVE  /\ pc' \in [Requests -> Labels] /\ todo' \in [Requests -> Seq(Messages)]
           /\ InLoop'
<1>1. todo[r] \in Seq(Messages) /\ Len(todo[r]) # 0 /\ Tail(todo[r]) \in Seq(Messages)
  BY DEF TypeInv, TypeOK
<1>2. Len(Tail(todo[r])) = Len(todo[r]) - 1
  BY <1>1
<1>3. Len(todo[r]) # 1 => Tail(todo[r]) # <<>>
  <2>1. Len(<<>>) = 0
    OBVIOUS
  <2>2. Tail(todo[r]) = <<>> => Len(Tail(todo[r])) = 0
    BY <2>1, Zenon
  <2> QED
    BY <1>1, <1>2, <2>2
<1> QED
  BY <1>1, <1>3 DEF NextMessage, Goto, TypeInv, TypeOK, InLoop, Labels

LEMMA FailsType ==
    ASSUME TypeInv, NEW r \in Requests, Fails(r), UNCHANGED load
    PROVE  /\ pc' \in [Requests -> Labels] /\ todo' \in [Requests -> Seq(Messages)]
           /\ queue' \in [Requests -> Seq(Allowed)]
           /\ InLoop'
BY DEF Fails, Goto, TypeInv, TypeOK, InLoop, Labels

LEMMA ServeType ==
    ASSUME TypeInv, NEW r \in Requests, Serve(r)
    PROVE  TypeInv'
<1> USE IntakeAssumption DEF TypeInv, Fault, bounds
<1>1. CASE SelectExisting(r)
  <2>1. CASE NextMessage(r)
    BY <1>1, <2>1, NextMessageType DEF SelectExisting, TypeOK, InLoop, Labels
  <2>2. CASE Goto(r, "lookup") /\ UNCHANGED todo
    BY <1>1, <2>2 DEF SelectExisting, Goto, TypeOK, InLoop
  <2> QED
    BY <1>1, <2>1, <2>2 DEF SelectExisting
<1>2. CASE LookupWorker(r)
  <2>1. CASE NextMessage(r) /\ UNCHANGED <<queue, faults>>
    BY <1>2, <2>1, NextMessageType DEF LookupWorker, TypeOK, InLoop, Labels
  <2>2. CASE Head(todo[r]) \in Allowed /\ Goto(r, "commit") /\ UNCHANGED <<todo, queue, faults>>
    BY <1>2, <2>2 DEF LookupWorker, Goto, TypeOK, InLoop
  <2>3. CASE Fault("lookup") /\ Fails(r)
    BY <1>2, <2>3, FailsType DEF LookupWorker, TypeOK, Labels
  <2> QED
    BY <1>2, <2>1, <2>2, <2>3 DEF LookupWorker
<1>3. CASE StoreAndSchedule(r)
  <2>1. Head(todo[r]) \in Allowed /\ todo[r] # <<>>
    BY <1>3 DEF StoreAndSchedule, InLoop
  <2>2. ASSUME stored' = stored \cup {Head(todo[r])},
               queue' = [queue EXCEPT ![r] = Append(@, Head(todo[r]))],
               NextMessage(r), UNCHANGED faults
        PROVE  TypeInv'
    <3>1. queue' \in [Requests -> Seq(Allowed)]
      BY <2>1, <2>2 DEF TypeOK
    <3> QED
      BY <1>3, <2>1, <2>2, <3>1, NextMessageType DEF StoreAndSchedule, TypeOK, Labels
  <2>3. CASE Fails(r) /\ UNCHANGED stored
    BY <1>3, <2>3, FailsType DEF StoreAndSchedule, TypeOK, Labels
  <2> QED
    BY <1>3, <2>2, <2>3 DEF StoreAndSchedule
<1>4. CASE Answer(r)
  BY <1>4 DEF Answer, Goto, TypeOK, InLoop
<1>5. CASE Process(r)
  <2>1. queue[r] \in Seq(Allowed) /\ Head(queue[r]) \in Messages
    BY <1>5 DEF Process, TypeOK
  <2>2. handled' \in [Messages -> Nat]
    BY <1>5, <2>1 DEF Process, TypeOK
  <2>3. CASE queue' = [queue EXCEPT ![r] = Tail(@)] /\ UNCHANGED <<pc, todo, faults>>
    BY <1>5, <2>1, <2>2, <2>3 DEF Process, TypeOK, InLoop
  <2>4. CASE Fault("process") /\ Fails(r)
    BY <1>5, <2>2, <2>4, FailsType DEF Process, TypeOK, Labels
  <2> QED
    BY <1>5, <2>3, <2>4 DEF Process
<1>6. CASE Done(r)
  BY <1>6 DEF Done, Goto, TypeOK, InLoop
<1> QED
  BY <1>1, <1>2, <1>3, <1>4, <1>5, <1>6 DEF Serve

(* Modules that compose the intake use this step. *)
LEMMA TypeStep == ASSUME TypeInv, [Next]_vars PROVE TypeInv'
<1> USE IntakeAssumption DEF TypeInv
<1>1. ASSUME NEW r \in Requests, Serve(r) PROVE TypeInv'
  BY <1>1, ServeType
<1>2. ASSUME NEW r \in Requests, NEW p \in Payloads, Deliver(r, p) PROVE TypeInv'
  <2>1. p \in Seq(Messages) /\ p # <<>>
    BY <1>2 DEF Deliver
  <2> QED
    BY <1>2, <2>1 DEF Deliver, Goto, TypeOK, InLoop, bounds
<1>3. CASE Crash
  BY <1>3 DEF Crash, TypeOK, InLoop
<1>4. CASE UNCHANGED vars
  BY <1>4 DEF vars, request, bounds, TypeOK, InLoop
<1> QED
  BY <1>1, <1>2, <1>3, <1>4 DEF Next

LEMMA InitType == Init => TypeInv
  BY IntakeAssumption DEF Init, TypeInv, TypeOK, InLoop

LEMMA TypeInvariant == Spec => []TypeInv
<1>1. TypeInv /\ [Next]_vars => TypeInv'
  BY TypeStep
<1> QED
  BY <1>1, InitType, PTL DEF Spec

(* Every variable keeps its type; only messages of active workers are ever *)
(* scheduled.                                                              *)
THEOREM TypeCorrect == Spec => []TypeOK
BY TypeInvariant, PTL DEF TypeInv

-----------------------------------------------------------------------------
(* A message waits in at most one place of one queue; it is stored, and was *)
(* not handled before.                                                      *)
Places(q) == 1 .. Len(q)

ScheduledOnce ==
    /\ \A m \in Messages : handled[m] <= 1 /\ (handled[m] > 0 => m \in stored)
    /\ \A r \in Requests : \A i \in Places(queue[r]) :
          queue[r][i] \in stored /\ handled[queue[r][i]] = 0
    /\ \A r, s \in Requests : \A i \in Places(queue[r]), j \in Places(queue[s]) :
          queue[r][i] = queue[s][j] => r = s /\ i = j

LEMMA FewerTasks ==
    ASSUME TypeInv, ScheduledOnce, NEW r \in Requests,
           queue' = [queue EXCEPT ![r] = <<>>], UNCHANGED <<stored, handled>>
    PROVE  ScheduledOnce'
<1>1. ASSUME NEW s \in Requests, NEW i \in Places(queue'[s])
      PROVE  i \in Places(queue[s]) /\ queue'[s][i] = queue[s][i]
  BY <1>1 DEF TypeInv, TypeOK, Places
<1>2. \A m \in Messages : handled'[m] <= 1 /\ (handled'[m] > 0 => m \in stored')
  BY DEF ScheduledOnce
<1>3. \A s \in Requests : \A i \in Places(queue'[s]) :
          queue'[s][i] \in stored' /\ handled'[queue'[s][i]] = 0
  BY <1>1 DEF ScheduledOnce
<1>4. \A s, t \in Requests : \A i \in Places(queue'[s]), j \in Places(queue'[t]) :
          queue'[s][i] = queue'[t][j] => s = t /\ i = j
  BY <1>1 DEF ScheduledOnce
<1> QED
  BY <1>2, <1>3, <1>4 DEF ScheduledOnce

LEMMA StoreOnce ==
    ASSUME TypeInv, ScheduledOnce, NEW r \in Requests, StoreAndSchedule(r)
    PROVE  ScheduledOnce'
<1>1. CASE Fails(r) /\ UNCHANGED stored
  BY <1>1, FewerTasks DEF Fails, StoreAndSchedule
<1>2. CASE /\ Unique(Head(todo[r]))
           /\ stored' = stored \cup {Head(todo[r])}
           /\ queue' = [queue EXCEPT ![r] = Append(@, Head(todo[r]))]
  <2> DEFINE m == Head(todo[r])
  <2>1. m \in Allowed /\ m \notin stored /\ m \in Messages /\ handled[m] = 0 /\ UNCHANGED handled
    BY <1>2, IntakeAssumption DEF Unique, StoreAndSchedule, TypeInv, InLoop, ScheduledOnce, TypeOK
  <2>2. /\ queue[r] \in Seq(Allowed) /\ Len(queue'[r]) = Len(queue[r]) + 1
        /\ queue'[r][Len(queue[r]) + 1] = m
        /\ \A i \in Places(queue[r]) : queue'[r][i] = queue[r][i]
        /\ \A s \in Requests \ {r} : queue'[s] = queue[s]
    BY <1>2, <2>1 DEF TypeInv, TypeOK, Places
  <2> HIDE DEF m
  <2>3. ASSUME NEW s \in Requests, NEW i \in Places(queue'[s])
        PROVE  \/ s = r /\ i = Len(queue[r]) + 1 /\ queue'[s][i] = m
               \/ i \in Places(queue[s]) /\ queue'[s][i] = queue[s][i] /\ queue[s][i] # m
    BY <2>1, <2>2 DEF ScheduledOnce, TypeInv, TypeOK, Places
  <2>4. \A s \in Requests : \A i \in Places(queue'[s]) :
            queue'[s][i] \in stored' /\ handled'[queue'[s][i]] = 0
    <3> SUFFICES ASSUME NEW s \in Requests, NEW i \in Places(queue'[s])
                 PROVE  queue'[s][i] \in stored' /\ handled'[queue'[s][i]] = 0
      OBVIOUS
    <3>1. m \in stored' /\ stored \subseteq stored'
      BY <1>2 DEF m
    <3>2. CASE queue'[s][i] = m
      BY <2>1, <3>1, <3>2
    <3>3. CASE i \in Places(queue[s]) /\ queue'[s][i] = queue[s][i]
      BY <2>1, <3>1, <3>3 DEF ScheduledOnce
    <3> QED
      BY <2>3, <3>2, <3>3
  <2>5. \A s, t \in Requests : \A i \in Places(queue'[s]), j \in Places(queue'[t]) :
            queue'[s][i] = queue'[t][j] => s = t /\ i = j
    BY <2>3 DEF ScheduledOnce
  <2> QED
    BY <1>2, <2>1, <2>4, <2>5 DEF ScheduledOnce
<1> QED
  BY <1>1, <1>2 DEF StoreAndSchedule

LEMMA ProcessOnce ==
    ASSUME TypeInv, ScheduledOnce, NEW r \in Requests, Process(r)
    PROVE  ScheduledOnce'
<1> DEFINE m == Head(queue[r])
<1>0. /\ queue[r] \in Seq(Allowed) /\ Len(queue[r]) > 0 /\ m = queue[r][1]
      /\ m \in Messages /\ 1 \in Places(queue[r])
  <2>1. queue[r] \in Seq(Allowed) /\ queue[r] # <<>>
    BY DEF Process, TypeInv, TypeOK
  <2> QED
    BY <2>1, IntakeAssumption DEF Places
<1>1. /\ queue[r] \in Seq(Allowed) /\ Len(queue[r]) > 0 /\ m = queue[r][1]
      /\ m \in Messages /\ m \in stored /\ handled[m] = 0
      /\ handled' = [handled EXCEPT ![m] = 1] /\ UNCHANGED stored
  <2>1. m \in stored /\ handled[m] = 0
    BY <1>0 DEF ScheduledOnce
  <2> QED
    BY <1>0, <2>1 DEF Process
<1>2. ASSUME NEW s \in Requests, NEW i \in Places(queue'[s])
      PROVE  \E j \in Places(queue[s]) :
                /\ queue'[s][i] = queue[s][j] /\ queue[s][j] # m
                /\ s = r => j = i + 1
                /\ s # r => j = i
  <2>1. CASE queue' = [queue EXCEPT ![r] = Tail(@)]
    <3>1. CASE s = r
      <4>1. queue'[s] = Tail(queue[r])
        BY <2>1, <3>1 DEF TypeInv, TypeOK
      <4>2. i + 1 \in Places(queue[r]) /\ queue'[s][i] = queue[r][i + 1]
        BY <1>1, <1>2, <3>1, <4>1 DEF Places
      <4>3. queue[r][i + 1] # m
        BY <1>0, <1>1, <4>2 DEF ScheduledOnce, Places
      <4> QED
        BY <3>1, <4>2, <4>3
    <3>2. CASE s # r
      <4>1. queue'[s] = queue[s]
        BY <2>1, <3>2 DEF TypeInv, TypeOK
      <4> QED
        BY <1>0, <1>1, <1>2, <3>2, <4>1 DEF ScheduledOnce, Places
    <3> QED
      BY <3>1, <3>2
  <2>2. CASE queue' = [queue EXCEPT ![r] = <<>>]
    <3>1. s # r /\ queue'[s] = queue[s]
      BY <1>2, <2>2 DEF TypeInv, TypeOK, Places
    <3> QED
      BY <1>0, <1>1, <1>2, <3>1 DEF ScheduledOnce, Places
  <2> QED
    BY <2>1, <2>2 DEF Process, Fails
<1> HIDE DEF m
<1>3. \A s \in Requests : \A i \in Places(queue'[s]) :
          queue'[s][i] \in stored' /\ handled'[queue'[s][i]] = 0
  <2> SUFFICES ASSUME NEW s \in Requests, NEW i \in Places(queue'[s])
               PROVE  queue'[s][i] \in stored' /\ handled'[queue'[s][i]] = 0
    OBVIOUS
  <2>1. PICK j \in Places(queue[s]) : queue'[s][i] = queue[s][j] /\ queue[s][j] # m
    BY <1>2
  <2>2. queue[s][j] \in stored /\ handled[queue[s][j]] = 0
    BY DEF ScheduledOnce
  <2>3. queue[s][j] \in Messages
    BY IntakeAssumption DEF TypeInv, TypeOK, Places
  <2> QED
    BY <1>1, <2>1, <2>2, <2>3 DEF TypeInv, TypeOK
<1>4. \A s, t \in Requests : \A i \in Places(queue'[s]), j \in Places(queue'[t]) :
          queue'[s][i] = queue'[t][j] => s = t /\ i = j
  <2> SUFFICES ASSUME NEW s \in Requests, NEW t \in Requests,
                      NEW i \in Places(queue'[s]), NEW j \in Places(queue'[t]),
                      queue'[s][i] = queue'[t][j]
               PROVE  s = t /\ i = j
    OBVIOUS
  <2>1. PICK k \in Places(queue[s]) : /\ queue'[s][i] = queue[s][k]
                                      /\ s = r => k = i + 1
                                      /\ s # r => k = i
    BY <1>2
  <2>2. PICK l \in Places(queue[t]) : /\ queue'[t][j] = queue[t][l]
                                      /\ t = r => l = j + 1
                                      /\ t # r => l = j
    BY <1>2
  <2>3. s = t /\ k = l
    <3>1. queue[s][k] = queue[t][l]
      BY <2>1, <2>2
    <3> QED
      BY <3>1 DEF ScheduledOnce
  <2>4. i \in Nat /\ j \in Nat
    BY DEF TypeInv, TypeOK, Places
  <2> QED
    BY <2>1, <2>2, <2>3, <2>4
<1> QED
  BY <1>1, <1>3, <1>4 DEF ScheduledOnce, TypeInv, TypeOK

LEMMA OnceStep == ASSUME TypeInv, ScheduledOnce, [Next]_vars PROVE ScheduledOnce'
<1>1. CASE UNCHANGED <<queue, stored, handled>>
  BY <1>1 DEF ScheduledOnce, Places
<1>2. ASSUME NEW r \in Requests, LookupWorker(r) PROVE ScheduledOnce'
  BY <1>1, <1>2, FewerTasks DEF LookupWorker, Fails
<1>3. ASSUME NEW r \in Requests, Serve(r) PROVE ScheduledOnce'
  BY <1>1, <1>2, <1>3, StoreOnce, ProcessOnce DEF Serve, SelectExisting, Answer, Done
<1>4. CASE \E r \in Requests, p \in Payloads : Deliver(r, p)
  BY <1>1, <1>4 DEF Deliver
<1>5. CASE Crash
  BY <1>5 DEF Crash, ScheduledOnce, Places
<1>6. CASE UNCHANGED vars
  BY <1>1, <1>6 DEF vars, request
<1> QED
  BY <1>3, <1>4, <1>5, <1>6 DEF Next

(* However Meta repeats deliveries, in sequence or at once, and whatever   *)
(* fails, no message enters the conversation twice.                        *)
THEOREM NeverTwice == Spec => []ProcessedOnce
<1>1. Init => ScheduledOnce
  BY DEF Init, ScheduledOnce, Places
<1>2. TypeInv /\ ScheduledOnce /\ [Next]_vars => ScheduledOnce'
  BY OnceStep
<1>3. ScheduledOnce => ProcessedOnce
  BY DEF ScheduledOnce, ProcessedOnce
<1> QED
  BY <1>1, <1>2, <1>3, TypeInvariant, PTL DEF Spec

-----------------------------------------------------------------------------
(* What a request has gone through of its payload: t is what is left of l, *)
(* and what is before t is in S.                                           *)
Through(l, t, S) ==
    /\ Len(t) <= Len(l)
    /\ \A j \in 1 .. Len(t) : t[j] = l[Len(l) - Len(t) + j]
    /\ \A i \in 1 .. Len(l) - Len(t) : l[i] \in Allowed => l[i] \in S

LEMMA ThroughTail ==
    ASSUME NEW l \in Seq(Messages), NEW t \in Seq(Messages), NEW S, t # <<>>, Through(l, t, S),
           Head(t) \in Allowed => Head(t) \in S
    PROVE  Through(l, Tail(t), S)
<1> DEFINE u == Tail(t)
<1>1. /\ Len(l) \in Nat /\ Len(t) \in Nat \ {0} /\ Len(u) = Len(t) - 1 /\ Head(t) = t[1]
      /\ \A j \in 1 .. Len(u) : u[j] = t[j + 1]
  OBVIOUS
<1> HIDE DEF u
<1>2. \A j \in 1 .. Len(u) : u[j] = l[Len(l) - Len(u) + j]
  <2> SUFFICES ASSUME NEW j \in 1 .. Len(u) PROVE u[j] = l[Len(l) - Len(u) + j]
    OBVIOUS
  <2>1. j + 1 \in 1 .. Len(t) /\ Len(l) - Len(t) + (j + 1) = Len(l) - Len(u) + j
    BY <1>1
  <2>2. t[j + 1] = l[Len(l) - Len(t) + (j + 1)]
    BY <2>1 DEF Through
  <2> QED
    BY <1>1, <2>1, <2>2
<1>3. \A i \in 1 .. Len(l) - Len(u) : l[i] \in Allowed => l[i] \in S
  <2> SUFFICES ASSUME NEW i \in 1 .. Len(l) - Len(u), l[i] \in Allowed PROVE l[i] \in S
    OBVIOUS
  <2>1. CASE i \in 1 .. Len(l) - Len(t)
    BY <2>1 DEF Through
  <2>2. CASE i = Len(l) - Len(t) + 1
    <3>1. t[1] = l[Len(l) - Len(t) + 1]
      BY <1>1 DEF Through
    <3> QED
      BY <1>1, <2>2, <3>1
  <2>3. i \in 1 .. Len(l) - Len(t) \/ i = Len(l) - Len(t) + 1
    <3>1. Len(l) \in Nat /\ Len(t) \in Nat /\ Len(u) = Len(t) - 1
      BY <1>1
    <3>2. i \in 1 .. Len(l) - (Len(t) - 1)
      BY <3>1, Zenon
    <3> QED
      BY <3>1, <3>2
  <2> QED
    BY <2>1, <2>2, <2>3
<1>4. Len(u) <= Len(l)
  BY <1>1 DEF Through
<1> QED
  BY <1>2, <1>3, <1>4 DEF Through, u

LEMMA ThroughStart == ASSUME NEW l \in Seq(Messages), NEW S PROVE Through(l, l, S)
  BY DEF Through

LEMMA ThroughMore ==
    ASSUME NEW l, NEW t, NEW S, NEW T, Through(l, t, S), S \subseteq T
    PROVE  Through(l, t, T)
  BY DEF Through

LEMMA ThroughEnd ==
    ASSUME NEW l \in Seq(Messages), NEW S, Through(l, <<>>, S)
    PROVE  \A i \in 1 .. Len(l) : l[i] \in Allowed => l[i] \in S
<1>1. Len(<<>>) = 0 /\ Len(l) - 0 = Len(l)
  OBVIOUS
<1> QED
  BY <1>1 DEF Through

GoneThrough ==
    \A r \in Requests :
      /\ pc[r] \in {"select", "lookup", "commit", "answer"} => Through(load[r], todo[r], stored)
      /\ pc[r] = "answer" => todo[r] = <<>>

LEMMA NextThrough ==
    ASSUME TypeInv, GoneThrough, NEW r \in Requests, NextMessage(r), UNCHANGED load,
           pc[r] \in {"select", "lookup", "commit"}, stored \subseteq stored',
           Head(todo[r]) \in Allowed => Head(todo[r]) \in stored'
    PROVE  GoneThrough'
<1>1. /\ pc \in [Requests -> Labels] /\ todo \in [Requests -> Seq(Messages)]
      /\ load \in [Requests -> Seq(Messages)] /\ todo[r] # <<>>
  BY DEF TypeInv, TypeOK, InLoop, Labels
<1>2. todo'[r] = Tail(todo[r]) /\ pc'[r] = IF Len(todo[r]) = 1 THEN "answer" ELSE "select"
  BY <1>1 DEF NextMessage, Goto
<1>3. Through(load'[r], todo'[r], stored')
  BY <1>1, <1>2, ThroughMore, ThroughTail DEF GoneThrough
<1>4. Len(todo[r]) = 1 => todo'[r] = <<>>
  <2>1. Tail(todo[r]) \in Seq(Messages) /\ Len(Tail(todo[r])) = Len(todo[r]) - 1
    BY <1>1
  <2>2. Len(todo[r]) = 1 => Len(Tail(todo[r])) = 0
    BY <2>1
  <2>3. Len(Tail(todo[r])) = 0 => Tail(todo[r]) = <<>>
    BY <2>1, EmptySeq
  <2> QED
    BY <1>2, <2>2, <2>3
<1>5. \A s \in Requests \ {r} : UNCHANGED <<pc[s], todo[s], load[s]>>
  BY <1>1 DEF NextMessage, Goto
<1> QED
  BY <1>2, <1>3, <1>4, <1>5, ThroughMore DEF GoneThrough

LEMMA ThroughStep == ASSUME TypeInv, GoneThrough, [Next]_vars PROVE GoneThrough' /\ stored \subseteq stored'
<1>0. /\ pc \in [Requests -> Labels] /\ todo \in [Requests -> Seq(Messages)]
      /\ load \in [Requests -> Seq(Messages)]
  BY DEF TypeInv, TypeOK, Labels
<1>1. ASSUME NEW r \in Requests, SelectExisting(r) PROVE GoneThrough' /\ stored \subseteq stored'
  BY <1>0, <1>1, NextThrough DEF SelectExisting, Goto, GoneThrough
<1>2. ASSUME NEW r \in Requests, Fails(r), UNCHANGED <<load, stored>> PROVE GoneThrough'
  BY <1>0, <1>2 DEF Fails, Goto, GoneThrough
<1>3. ASSUME NEW r \in Requests, LookupWorker(r) PROVE GoneThrough' /\ stored \subseteq stored'
  BY <1>0, <1>2, <1>3, NextThrough DEF LookupWorker, Goto, GoneThrough
<1>4. ASSUME NEW r \in Requests, StoreAndSchedule(r) PROVE GoneThrough' /\ stored \subseteq stored'
  BY <1>0, <1>2, <1>4, NextThrough DEF StoreAndSchedule
<1>5. ASSUME NEW r \in Requests, Answer(r) PROVE GoneThrough' /\ stored \subseteq stored'
  BY <1>0, <1>5 DEF Answer, Goto, GoneThrough
<1>6. ASSUME NEW r \in Requests, Process(r) PROVE GoneThrough' /\ stored \subseteq stored'
  BY <1>0, <1>2, <1>6 DEF Process, GoneThrough
<1>7. ASSUME NEW r \in Requests, Done(r) PROVE GoneThrough' /\ stored \subseteq stored'
  BY <1>0, <1>7 DEF Done, Goto, GoneThrough
<1>8. ASSUME NEW r \in Requests, NEW p \in Payloads, Deliver(r, p)
      PROVE  GoneThrough' /\ stored \subseteq stored'
  BY <1>0, <1>8, ThroughStart, IntakeAssumption DEF Deliver, Goto, GoneThrough, bounds
<1>9. CASE Crash
  BY <1>9 DEF Crash, GoneThrough
<1>10. CASE UNCHANGED vars
  BY <1>10 DEF vars, request, GoneThrough
<1> QED
  BY <1>1, <1>3, <1>4, <1>5, <1>6, <1>7, <1>8, <1>9, <1>10 DEF Next, Serve

(* Meta is never told 200 for a payload with a message of a worker that is *)
(* not in raw_messages: a message that is not stored is delivered again.   *)
THEOREM NothingAckedUnstored == Spec => []AckedIsStored
<1>1. Init => GoneThrough /\ AckedIsStored
  BY DEF Init, GoneThrough, AckedIsStored
<1>2. TypeInv /\ GoneThrough /\ AckedIsStored /\ [Next]_vars => AckedIsStored'
  <2> SUFFICES ASSUME TypeInv, GoneThrough, AckedIsStored, [Next]_vars PROVE AckedIsStored'
    OBVIOUS
  <2>1. stored \subseteq stored'
    BY ThroughStep
  <2>2. ASSUME NEW r \in Requests, Answer(r) PROVE AckedIsStored'
    <3>1. Through(load[r], <<>>, stored) /\ load[r] \in Seq(Messages)
      BY <2>2 DEF Answer, GoneThrough, TypeInv, TypeOK
    <3>2. acked' \subseteq acked \cup {load[r]} /\ UNCHANGED stored
      BY <2>2 DEF Answer
    <3> QED
      BY <3>1, <3>2, ThroughEnd DEF AckedIsStored
  <2>3. CASE UNCHANGED acked
    BY <2>1, <2>3 DEF AckedIsStored
  <2> QED
    BY <2>2, <2>3 DEF Next, Serve, SelectExisting, LookupWorker, StoreAndSchedule, Process, Done,
       Deliver, Crash, vars
<1>3. TypeInv /\ GoneThrough /\ [Next]_vars => GoneThrough'
  BY ThroughStep
<1> QED
  BY <1>1, <1>2, <1>3, TypeInvariant, PTL DEF Spec
=============================================================================
