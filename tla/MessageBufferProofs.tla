------------------------ MODULE MessageBufferProofs ------------------------
(***************************************************************************)
(* Theorems of MessageBuffer, for every set of messages and of watchers    *)
(* and every value of the TTLs: its invariants, the quiet window, and that *)
(* it implements Debounce.                                                 *)
(***************************************************************************)
EXTENDS MessageBuffer, TLAPS

(* What a step does to the types; modules that compose the buffer use it. *)
LEMMA TypeStep == ASSUME TypeOK, [Next]_vars PROVE TypeOK'
<1> USE BufferAssumption DEF TypeOK, ListTTL, LockTTL, Persistent
<1> USE DEF keys, tasks
<1>1. ASSUME NEW m \in Messages, RPush(m) PROVE TypeOK'
  BY <1>1 DEF RPush
<1>2. ASSUME NEW m \in Messages, Expire(m) PROVE TypeOK'
  BY <1>2 DEF Expire
<1>3. ASSUME NEW m \in Messages, SetMarker(m) PROVE TypeOK'
  BY <1>3 DEF SetMarker
<1>4. ASSUME NEW m \in Messages, SpawnWatcher(m) PROVE TypeOK'
  BY <1>4 DEF SpawnWatcher, SpawnIfNeeded
<1>5. ASSUME NEW w \in Watchers, SleepAgain(w) PROVE TypeOK'
  BY <1>5 DEF SleepAgain, Remaining
<1>6. ASSUME NEW w \in Watchers, WindowClosed(w) PROVE TypeOK'
  BY <1>6 DEF WindowClosed
<1>7. ASSUME NEW w \in Watchers, LRange(w) PROVE TypeOK'
  BY <1>7 DEF LRange
<1>8. ASSUME NEW w \in Watchers, DeleteAndHandOver(w) PROVE TypeOK'
  BY <1>8 DEF DeleteAndHandOver
<1>9. ASSUME NEW w \in Watchers, FinishClose(w) PROVE TypeOK'
  BY <1>9 DEF FinishClose
<1>10. ASSUME NEW w \in Watchers, Release(w) PROVE TypeOK'
  BY <1>10 DEF Release
<1>11. CASE Tick
  BY <1>11 DEF Tick, Minus1
<1>12. CASE Crash
  <2>1. up' \in BOOLEAN /\ lapsed' \in BOOLEAN
    BY <1>12, Zenon DEF Crash, TasksGone
  <2>2. sender' \in [Messages -> {"unsent", "listed", "timed", "marked", "done", "killed"}]
    BY <1>12 DEF Crash
  <2> QED
    BY <1>12, <2>1, <2>2 DEF Crash, TasksGone
<1>13. CASE Stop
  <2>1. up' \in BOOLEAN /\ lapsed' \in BOOLEAN
    BY <1>13, Zenon DEF Stop, TasksGone
  <2>2. lock' \in 0 .. LockTTL
    BY <1>13 DEF Stop, LockAfterCancel
  <2> QED
    BY <1>13, <2>1, <2>2 DEF Stop, TasksGone
<1>14. CASE Restart
  <2>1. up' \in BOOLEAN /\ lapsed' \in BOOLEAN
    BY <1>14, Zenon DEF Restart
  <2>2. /\ lock' \in 0 .. LockTTL /\ wait' \in [Watchers -> 0 .. BufferTTL]
        /\ pc' \in [Watchers -> {"idle", "sleep", "read", "delete", "close", "release"}]
    BY <1>14 DEF Restart, SpawnIfNeeded
  <2> QED
    BY <1>14, <2>1, <2>2 DEF Restart
<1>15. CASE UNCHANGED vars
  BY <1>15 DEF vars
<1> QED
  BY <1>1, <1>2, <1>3, <1>4, <1>5, <1>6, <1>7, <1>8, <1>9, <1>10, <1>11,
     <1>12, <1>13, <1>14, <1>15 DEF Next, Push, Watch

LEMMA InitType == Init => TypeOK
<1> USE BufferAssumption DEF ListTTL, LockTTL, Persistent
<1> SUFFICES ASSUME Init PROVE TypeOK
  OBVIOUS
<1>1. up \in BOOLEAN /\ lapsed \in BOOLEAN
  BY Zenon DEF Init
<1>2. /\ list \subseteq Messages /\ listTTL \in 0 .. Persistent
      /\ marker \in 0 .. BufferTTL /\ lock \in 0 .. LockTTL
      /\ quiet \in 0 .. BufferTTL
  BY DEF Init
<1>3. /\ sender \in [Messages -> {"unsent", "listed", "timed", "marked", "done", "killed"}]
      /\ pc \in [Watchers -> {"idle", "sleep", "read", "delete", "close", "release"}]
      /\ wait \in [Watchers -> 0 .. BufferTTL]
      /\ entries \in [Watchers -> SUBSET Messages]
      /\ handed \in [Messages -> Nat]
  BY DEF Init
<1> QED
  BY <1>1, <1>2, <1>3 DEF TypeOK

(* Every variable keeps its type: the TTLs stay within what the code sets  *)
(* and every task is at one of the steps of _watch or push_message.        *)
THEOREM TypeCorrect == Spec => []TypeOK
<1>1. TypeOK /\ [Next]_vars => TypeOK'
  BY TypeStep
<1> QED
  BY <1>1, InitType, PTL DEF Spec

-----------------------------------------------------------------------------
(* Mutual exclusion is inductive by itself: the only step that adds a live *)
(* watcher finds no lock, hence no live watcher, and sets one.             *)
THEOREM Exclusive == Spec => []ExclusiveWatcher
<1> USE BufferAssumption DEF ExclusiveWatcher, Live
<1>1. Init => ExclusiveWatcher
  BY DEF Init
<1>2. TypeOK /\ ExclusiveWatcher /\ [Next]_vars => ExclusiveWatcher'
  <2> SUFFICES ASSUME TypeOK, ExclusiveWatcher, [Next]_vars PROVE ExclusiveWatcher'
    OBVIOUS
  <2> USE DEF keys, tasks, TypeOK, ListTTL, LockTTL
  <2>1. ASSUME NEW m \in Messages, Push(m) PROVE ExclusiveWatcher'
    <3>1. CASE SpawnWatcher(m)
      BY <3>1 DEF SpawnWatcher, SpawnIfNeeded
    <3> QED
      BY <2>1, <3>1 DEF Push, RPush, Expire, SetMarker
  <2>2. ASSUME NEW w \in Watchers, Watch(w) PROVE ExclusiveWatcher'
    <3>1. CASE Release(w)
      BY <3>1 DEF Release
    <3>2. CASE SleepAgain(w) \/ WindowClosed(w) \/ LRange(w)
      BY <3>2 DEF SleepAgain, WindowClosed, LRange
    <3>3. CASE DeleteAndHandOver(w) \/ FinishClose(w)
      BY <3>3 DEF DeleteAndHandOver, FinishClose
    <3> QED
      BY <2>2, <3>1, <3>2, <3>3 DEF Watch
  <2>3. CASE Tick
    <3>1. lock' \in Nat /\ pc' = pc
      BY <2>3 DEF Tick, Minus1
    <3>2. ~lapsed' => ~lapsed /\ (lock' # 0 \/ \A w \in Watchers : ~Live(w))
      BY <2>3 DEF Tick
    <3> QED
      BY <3>1, <3>2
  <2>4. CASE Crash \/ Stop
    <3>1. \A w \in Watchers : pc'[w] = "idle"
      BY <2>4 DEF Crash, Stop, TasksGone
    <3> QED
      BY <3>1
  <2>5. CASE Restart
    BY <2>5 DEF Restart, SpawnIfNeeded
  <2>6. CASE UNCHANGED vars
    BY <2>6 DEF vars
  <2> QED
    BY <2>1, <2>2, <2>3, <2>4, <2>5, <2>6 DEF Next
<1> QED
  BY <1>1, <1>2, TypeCorrect, PTL DEF Spec

-----------------------------------------------------------------------------
(* What the exclusive watcher is good for: a message still to come, or in  *)
(* the list, or read by the exclusive watcher and not yet handed over, has *)
(* never reached on_close.                                                 *)
FreshMessages ==
    /\ \A m \in Messages : sender[m] = "unsent" =>
          /\ handed[m] = 0
          /\ m \notin list
          /\ \A w \in Watchers : m \notin entries[w]
    /\ \A m \in list : handed[m] = 0
    /\ ~lapsed => \A w \in Watchers : pc[w] = "delete" =>
          \A m \in entries[w] : handed[m] = 0

LEMMA Fresh == Spec => []FreshMessages
<1> USE BufferAssumption DEF FreshMessages
<1>1. Init => FreshMessages
  BY DEF Init
<1>2. TypeOK /\ ExclusiveWatcher /\ FreshMessages /\ [Next]_vars => FreshMessages'
  <2> SUFFICES ASSUME TypeOK, ExclusiveWatcher, FreshMessages, [Next]_vars
               PROVE  FreshMessages'
    OBVIOUS
  <2> USE DEF keys, tasks, TypeOK
  <2>1. ASSUME NEW m \in Messages, Push(m) PROVE FreshMessages'
    <3>1. CASE RPush(m)
      BY <3>1 DEF RPush
    <3>2. CASE Expire(m) \/ SetMarker(m)
      BY <3>2 DEF Expire, SetMarker
    <3>3. CASE SpawnWatcher(m)
      BY <3>3 DEF SpawnWatcher, SpawnIfNeeded
    <3> QED
      BY <2>1, <3>1, <3>2, <3>3 DEF Push
  <2>2. ASSUME NEW w \in Watchers, Watch(w) PROVE FreshMessages'
    <3>1. CASE DeleteAndHandOver(w)
      <4>1. ~lapsed => \A v \in Watchers : pc[v] = "delete" => v = w
        BY <3>1 DEF DeleteAndHandOver, ExclusiveWatcher, Live
      <4> QED
        BY <3>1, <4>1 DEF DeleteAndHandOver
    <3>2. CASE Release(w)
      BY <3>2 DEF Release, Live
    <3>3. CASE LRange(w)
      BY <3>3 DEF LRange
    <3>4. CASE SleepAgain(w) \/ WindowClosed(w) \/ FinishClose(w)
      BY <3>4 DEF SleepAgain, WindowClosed, FinishClose
    <3> QED
      BY <2>2, <3>1, <3>2, <3>3, <3>4 DEF Watch
  <2>3. CASE Tick
    BY <2>3 DEF Tick
  <2>4. CASE Crash \/ Stop
    BY <2>4 DEF Crash, Stop, TasksGone, InProgress
  <2>5. CASE Restart
    BY <2>5 DEF Restart, SpawnIfNeeded
  <2>6. CASE UNCHANGED vars
    BY <2>6 DEF vars
  <2> QED
    BY <2>1, <2>2, <2>3, <2>4, <2>5, <2>6 DEF Next
<1> QED
  BY <1>1, <1>2, TypeCorrect, Exclusive, PTL DEF Spec

(* A message is handed over twice only after a lock has lapsed under its   *)
(* watcher.                                                                *)
THEOREM HandedOverOnce == Spec => NoDoubleHandover
<1>1. TypeOK /\ FreshMessages /\ [Next]_vars =>
        [~lapsed => \A m \in Messages : handed'[m] > handed[m] => handed[m] = 0]_vars
  <2> SUFFICES ASSUME TypeOK, FreshMessages, [Next]_vars, ~lapsed,
                      NEW m \in Messages, handed'[m] > handed[m]
               PROVE  handed[m] = 0
    OBVIOUS
  <2>1. ASSUME NEW w \in Watchers, DeleteAndHandOver(w) PROVE handed[m] = 0
    <3>1. m \in entries[w]
      BY <2>1 DEF DeleteAndHandOver, TypeOK
    <3> QED
      BY <2>1, <3>1 DEF DeleteAndHandOver, FreshMessages
  <2>2. ASSUME handed' = handed PROVE handed[m] = 0
    BY <2>2 DEF TypeOK
  <2>3. handed' = handed \/ \E w \in Watchers : DeleteAndHandOver(w)
    BY DEF Next, Push, Watch, RPush, Expire, SetMarker, SpawnWatcher, SleepAgain,
       WindowClosed, LRange, FinishClose, Release, Tick, Crash, Stop, TasksGone,
       Restart, vars
  <2> QED
    BY <2>1, <2>2, <2>3
<1> QED
  BY <1>1, TypeCorrect, Fresh, PTL DEF Spec, NoDoubleHandover

-----------------------------------------------------------------------------
(* Where the margin comes from: EXPIRE precedes SET marker, which precedes *)
(* the spawn, and a watcher that goes back to sleep sleeps for what the    *)
(* marker has left, never for longer than the list minus the margin.       *)
ListOutlivesMarker ==
    /\ list = {} <=> listTTL = 0
    /\ list # {} /\ marker > 0 => listTTL >= marker + Margin
    /\ \A m \in Messages :
          sender[m] \in {"timed", "marked"} /\ list # {} => listTTL >= ListTTL

MarginInv == up = TRUE /\ ListOutlivesMarker /\ MarginCovers

LEMMA MarginStep ==
    ASSUME TypeOK, MarginInv, [Next]_vars, ~Crash, ~Stop
    PROVE  MarginInv'
<1> USE BufferAssumption
    DEF MarginInv, ListOutlivesMarker, MarginCovers, ListTTL, Persistent
<1> USE DEF keys, tasks, TypeOK
<1>1. ASSUME NEW m \in Messages, Push(m) PROVE MarginInv'
  <2>1. CASE RPush(m)
    BY <2>1 DEF RPush
  <2>2. CASE Expire(m)
    BY <2>2 DEF Expire
  <2>3. CASE SetMarker(m)
    BY <2>3 DEF SetMarker
  <2>4. CASE SpawnWatcher(m)
    BY <2>4 DEF SpawnWatcher, SpawnIfNeeded
  <2> QED
    BY <1>1, <2>1, <2>2, <2>3, <2>4 DEF Push
<1>2. ASSUME NEW w \in Watchers, Watch(w) PROVE MarginInv'
  <2>1. CASE SleepAgain(w)
    BY <2>1 DEF SleepAgain, Remaining
  <2>2. CASE WindowClosed(w) \/ LRange(w) \/ FinishClose(w)
    BY <2>2 DEF WindowClosed, LRange, FinishClose
  <2>3. CASE DeleteAndHandOver(w)
    BY <2>3 DEF DeleteAndHandOver
  <2>4. CASE Release(w)
    BY <2>4 DEF Release
  <2> QED
    BY <1>2, <2>1, <2>2, <2>3, <2>4 DEF Watch
<1>3. CASE Tick
  <2>1. /\ listTTL' = listTTL \/ listTTL' = Minus1(listTTL)
        /\ marker' = Minus1(marker)
        /\ list' = IF listTTL' = 0 THEN {} ELSE list
        /\ pc' = pc /\ up' = up /\ sender' = sender
    BY <1>3 DEF Tick
  <2>2. \A w \in Watchers : pc[w] = "sleep" => wait'[w] = wait[w] - 1
    BY <1>3 DEF Tick, Due, Minus1
  <2>3. \A m \in Messages : sender[m] \notin {"timed", "marked"}
    BY <1>3 DEF Tick, InProgress
  <2>4. ListOutlivesMarker'
    BY <2>1, <2>3 DEF Minus1
  <2>5. MarginCovers'
    BY <2>1, <2>2 DEF Minus1
  <2> QED
    BY <2>1, <2>4, <2>5
<1>4. CASE Restart
  BY <1>4 DEF Restart
<1>5. CASE UNCHANGED vars
  BY <1>5 DEF vars
<1> QED
  BY <1>1, <1>2, <1>3, <1>4, <1>5 DEF Next

(* As long as the process is not restarted the list outlives, by the whole *)
(* margin, the sleep of every watcher that is going to read it.            *)
THEOREM MarginAlwaysCovers ==
  ASSUME Restarts = {}
  PROVE  Spec => []MarginCovers
<1>1. Init => MarginInv
  BY DEF Init, MarginInv, ListOutlivesMarker, MarginCovers
<1>2. TypeOK /\ MarginInv /\ [Next]_vars => MarginInv'
  BY MarginStep DEF Crash, Stop
<1>3. MarginInv => MarginCovers
  BY DEF MarginInv
<1> QED
  BY <1>1, <1>2, <1>3, TypeCorrect, PTL DEF Spec

-----------------------------------------------------------------------------
(* What the marker has lost the window has been quiet for, as long as a message *)
(* that set or refreshed it is still in the list: the marker is only deleted    *)
(* together with the list.                                                      *)
MarkerCounts ==
    \A m \in list : sender[m] \in {"marked", "done"} => marker + quiet >= BufferTTL

LEMMA MarkerCountsStep ==
    ASSUME TypeOK, MarkerCounts, [Next]_vars
    PROVE  MarkerCounts'
<1> USE BufferAssumption DEF TypeOK, MarkerCounts, keys, tasks
<1>1. ASSUME NEW m \in Messages, Push(m) PROVE MarkerCounts'
  <2>1. CASE RPush(m)
    BY <2>1 DEF RPush
  <2>2. CASE Expire(m)
    BY <2>2 DEF Expire
  <2>3. CASE SetMarker(m)
    BY <2>3 DEF SetMarker
  <2>4. CASE SpawnWatcher(m)
    BY <2>4 DEF SpawnWatcher
  <2> QED
    BY <1>1, <2>1, <2>2, <2>3, <2>4 DEF Push
<1>2. ASSUME NEW w \in Watchers, Watch(w) PROVE MarkerCounts'
  <2>1. CASE DeleteAndHandOver(w)
    BY <2>1 DEF DeleteAndHandOver
  <2>2. CASE ~DeleteAndHandOver(w)
    BY <1>2, <2>2 DEF Watch, SleepAgain, WindowClosed, LRange, FinishClose, Release
  <2> QED
    BY <2>1, <2>2
<1>3. CASE Tick
  <2>1. list' \subseteq list /\ sender' = sender
    BY <1>3 DEF Tick
  <2>2. marker + quiet >= BufferTTL => marker' + quiet' >= BufferTTL
    BY <1>3 DEF Tick, Minus1
  <2> QED
    BY <2>1, <2>2
<1>4. CASE Crash \/ Stop
  BY <1>4 DEF Crash, Stop, TasksGone, InProgress
<1>5. CASE Restart \/ UNCHANGED vars
  BY <1>5 DEF Restart, vars
<1> QED
  BY <1>1, <1>2, <1>3, <1>4, <1>5 DEF Next

(* A block is closed only after a whole window in which nobody refreshed the *)
(* marker (message_buffer.py:37 and 69-77), whatever watchers overlap,       *)
(* however often the process restarts.                                       *)
THEOREM WindowIsQuiet == Spec => DebounceRespected
<1>1. Init => MarkerCounts
  BY DEF Init, MarkerCounts
<1>2. ASSUME TypeOK, MarkerCounts, [Next]_vars, NEW w \in Watchers, pc[w] = "sleep", pc'[w] = "read",
             NEW m \in list, sender[m] \in {"marked", "done"}
      PROVE  quiet = BufferTTL
  <2>1. marker = 0
    <3>1. ASSUME NEW v \in Watchers, pc' = [pc EXCEPT ![v] = "sleep"] PROVE FALSE
      BY <1>2, <3>1 DEF TypeOK
    <3>2. ASSUME NEW n \in Messages, Push(n) PROVE FALSE
      BY <1>2, <3>1, <3>2
      DEF Push, RPush, Expire, SetMarker, SpawnWatcher, SpawnIfNeeded, tasks, TypeOK
    <3>3. ASSUME NEW v \in Watchers, Watch(v), ~WindowClosed(v) PROVE FALSE
      BY <1>2, <3>3
      DEF Watch, SleepAgain, LRange, DeleteAndHandOver, FinishClose, Release, TypeOK
    <3>4. ASSUME Tick \/ UNCHANGED vars PROVE FALSE
      BY <1>2, <3>4 DEF Tick, vars, tasks
    <3>5. ASSUME Crash \/ Stop PROVE FALSE
      BY <1>2, <3>5 DEF Crash, Stop, TasksGone
    <3>6. ASSUME Restart PROVE FALSE
      BY <1>2, <3>1, <3>6 DEF Restart, SpawnIfNeeded
    <3> QED
      BY <1>2, <3>2, <3>3, <3>4, <3>5, <3>6 DEF Next, WindowClosed, Remaining
  <2> QED
    BY <1>2, <2>1, BufferAssumption DEF MarkerCounts, TypeOK
<1>3. TypeOK /\ MarkerCounts /\ [Next]_vars =>
        [ \A w \in Watchers : pc[w] = "sleep" /\ pc'[w] = "read" =>
            \A m \in list : sender[m] \in {"marked", "done"} => quiet = BufferTTL ]_vars
  BY <1>2
<1>4. TypeOK /\ MarkerCounts /\ [Next]_vars => MarkerCounts'
  BY MarkerCountsStep
<1> QED
  BY <1>1, <1>3, <1>4, TypeCorrect, PTL DEF Spec, DebounceRespected

-----------------------------------------------------------------------------
(* The refinement: MessageBuffer implements Debounce when nobody writes      *)
(* during a close and the process stays up.                                  *)
Delivered == {m \in Messages : handed[m] > 0}

(* Only a live watcher keeps the lock ... *)
Locked == lock > 0 => \E w \in Watchers : Live(w)

(* ... so that whatever waits, waits for somebody who has not read it yet. *)
Watched ==
    list # {} => \/ \E m \in Messages : InProgress(m)
                 \/ \E w \in Watchers : pc[w] \in {"sleep", "read", "delete"}

(* What a watcher has read is all there is; only another one that lost its  *)
(* lock may have handed it over in between.                                 *)
WholeBlock ==
    \A w \in Watchers :
        /\ pc[w] = "delete" => list \subseteq entries[w] /\ entries[w] \subseteq list \cup Delivered
        /\ pc[w] \in {"close", "release"} => list = {}

Kept == Locked /\ Watched /\ WholeBlock

(* No tick takes the list away: whoever waits for it sleeps for less than  *)
(* it lives.                                                               *)
LEMMA NothingExpires ==
    ASSUME TypeOK, MarginCovers, Watched, Tick
    PROVE  list' = list
<1> USE BufferAssumption DEF TypeOK, Persistent, ListTTL
<1>1. CASE list = {}
  BY <1>1 DEF Tick
<1>2. CASE list # {}
  <2>1. PICK w \in Watchers : pc[w] \in {"sleep", "read", "delete"}
    BY <1>2 DEF Watched, Tick
  <2>2. pc[w] = "sleep" /\ wait[w] # 0
    BY <2>1 DEF Tick, Due
  <2>3. wait[w] \in Nat /\ wait[w] > 0 /\ Margin > 0 /\ listTTL \in Nat
    BY <2>2
  <2>4. listTTL >= wait[w] + Margin
    BY <1>2, <2>2 DEF MarginCovers
  <2>5. listTTL > 1
    BY <2>3, <2>4
  <2>6. listTTL' # 0
    BY <2>5 DEF Tick, Minus1
  <2> QED
    BY <2>6 DEF Tick
<1> QED
  BY <1>1, <1>2

(* Nobody writes during a close. *)
QuietStep == list' \subseteq list \/ \A w \in Watchers : ~Closing(w)

LEMMA PushKept ==
    ASSUME QuietStep, TypeOK, Kept, NEW m \in Messages, Push(m)
    PROVE  Kept'
<1> USE DEF keys, tasks, TypeOK, Kept, Live
<1>1. CASE RPush(m)
  <2>1. pc' = pc /\ list \subseteq list' /\ UNCHANGED <<entries, handed>>
    BY <1>1 DEF RPush
  <2>2. WholeBlock'
    <3>1. CASE list' = list
      BY <2>1, <3>1 DEF WholeBlock, Delivered
    <3>2. CASE \A w \in Watchers : ~Closing(w)
      BY <2>1, <3>2 DEF WholeBlock, Closing
    <3> QED
      BY <2>1, <3>1, <3>2 DEF QuietStep
  <2>3. Watched'
    BY <1>1 DEF RPush, Watched, InProgress
  <2> QED
    BY <1>1, <2>2, <2>3 DEF RPush, Locked
<1>2. CASE Expire(m) \/ SetMarker(m)
  <2>1. InProgress(m)' /\ UNCHANGED <<list, lock, pc, entries, handed>>
    BY <1>2 DEF Expire, SetMarker, InProgress
  <2> QED
    BY <2>1 DEF Locked, Watched, WholeBlock, Delivered
<1>3. CASE SpawnWatcher(m)
  <2> USE DEF SpawnWatcher
  <2>1. UNCHANGED <<list, entries, handed>>
    BY <1>3
  <2>2. CASE lock > 0 /\ UNCHANGED <<lock, pc, wait>>
    <3>1. PICK w \in Watchers : pc[w] # "idle"
      BY <2>2 DEF Locked
    <3>2. list # {} => pc[w] \in {"sleep", "read", "delete"}
      BY <3>1 DEF WholeBlock
    <3> QED
      BY <2>1, <2>2, <3>1, <3>2 DEF Locked, Watched, WholeBlock, Delivered
  <2>3. CASE \E w \in Watchers : pc[w] = "idle" /\ pc' = [pc EXCEPT ![w] = "sleep"]
    <3>1. PICK w \in Watchers : pc[w] = "idle" /\ pc' = [pc EXCEPT ![w] = "sleep"]
      BY <2>3
    <3>2. pc'[w] = "sleep" /\ \A v \in Watchers \ {w} : pc'[v] = pc[v]
      BY <3>1
    <3> QED
      BY <2>1, <3>2 DEF Locked, Watched, WholeBlock, Delivered
  <2> QED
    BY <1>3, <2>2, <2>3 DEF SpawnIfNeeded
<1> QED
  BY <1>1, <1>2, <1>3 DEF Push

LEMMA WatchKept ==
    ASSUME TypeOK, Kept, NEW w \in Watchers, Watch(w)
    PROVE  Kept'
<1> USE DEF keys, tasks, TypeOK, Kept, Live
<1>1. CASE SleepAgain(w) \/ WindowClosed(w)
  <2>1. /\ UNCHANGED <<list, lock, sender, entries, handed>>
        /\ pc'[w] \in {"sleep", "read"}
        /\ \A v \in Watchers \ {w} : pc'[v] = pc[v]
    BY <1>1 DEF SleepAgain, WindowClosed
  <2> QED
    BY <2>1 DEF Locked, Watched, WholeBlock, Delivered, InProgress
<1>2. CASE LRange(w)
  <2>1. /\ UNCHANGED <<list, lock, sender, handed>>
        /\ pc'[w] = "delete" /\ entries'[w] = list
        /\ \A v \in Watchers \ {w} : pc'[v] = pc[v] /\ entries'[v] = entries[v]
    BY <1>2 DEF LRange
  <2> QED
    BY <2>1 DEF Locked, Watched, WholeBlock, Delivered, InProgress
<1>3. CASE DeleteAndHandOver(w)
  <2>1. /\ UNCHANGED <<lock, sender, entries>> /\ list' = {}
        /\ pc[w] = "delete" /\ pc'[w] \in {"close", "release"}
        /\ \A v \in Watchers \ {w} : pc'[v] = pc[v]
    BY <1>3 DEF DeleteAndHandOver
  <2>2. Delivered' = Delivered \cup entries[w]
    BY <1>3 DEF DeleteAndHandOver, Delivered
  <2>3. list \subseteq entries[w]
    BY <2>1 DEF WholeBlock
  <2>4. WholeBlock'
    BY <2>1, <2>2, <2>3 DEF WholeBlock
  <2> QED
    BY <2>1, <2>4 DEF Locked, Watched
<1>4. CASE FinishClose(w)
  <2>1. /\ UNCHANGED <<list, lock, sender, entries, handed>>
        /\ pc[w] = "close" /\ pc'[w] = "release"
        /\ \A v \in Watchers \ {w} : pc'[v] = pc[v]
    BY <1>4 DEF FinishClose
  <2> QED
    BY <2>1 DEF Locked, Watched, WholeBlock, Delivered
<1>5. CASE Release(w)
  <2>1. /\ UNCHANGED <<list, sender, handed>> /\ lock' = 0
        /\ pc[w] = "release" /\ pc'[w] = "idle"
        /\ \A v \in Watchers \ {w} : pc'[v] = pc[v] /\ entries'[v] = entries[v]
    BY <1>5 DEF Release
  <2> QED
    BY <2>1 DEF Locked, Watched, WholeBlock, Delivered
<1> QED
  BY <1>1, <1>2, <1>3, <1>4, <1>5 DEF Watch

LEMMA KeptStep ==
    ASSUME TypeOK, MarginCovers, Kept, [Next]_vars, QuietStep, ~Crash, ~Stop
    PROVE  Kept'
<1>1. CASE Tick
  <2>1. list' = list /\ lock' = Minus1(lock) /\ UNCHANGED <<sender, pc, entries, handed>>
    BY <1>1, NothingExpires DEF Kept, Tick
  <2>2. lock' > 0 => lock > 0
    BY <2>1 DEF Minus1, TypeOK
  <2> QED
    BY <2>1, <2>2 DEF Kept, Locked, Watched, WholeBlock, Delivered, Live, InProgress
<1>2. CASE Restart
  <2>1. UNCHANGED <<list, sender, entries, handed>>
    BY <1>2 DEF Restart
  <2>2. CASE UNCHANGED <<lock, pc>>
    BY <2>1, <2>2 DEF Kept, Locked, Watched, WholeBlock, Delivered, Live, InProgress
  <2>3. CASE \E w \in Watchers : pc[w] = "idle" /\ pc' = [pc EXCEPT ![w] = "sleep"]
    <3>1. PICK w \in Watchers : pc[w] = "idle" /\ pc' = [pc EXCEPT ![w] = "sleep"]
      BY <2>3
    <3>2. pc'[w] = "sleep" /\ \A v \in Watchers \ {w} : pc'[v] = pc[v]
      BY <3>1 DEF TypeOK
    <3> QED
      BY <2>1, <3>2 DEF Kept, Locked, Watched, WholeBlock, Delivered, Live
  <2> QED
    BY <1>2, <2>2, <2>3 DEF Restart, SpawnIfNeeded
<1>3. CASE UNCHANGED vars
  BY <1>3 DEF vars, keys, tasks, Kept, Locked, Watched, WholeBlock, Delivered, Live, InProgress
<1> QED
  BY <1>1, <1>2, <1>3, PushKept, WatchKept DEF Next

-----------------------------------------------------------------------------
LEMMA StepImplements ==
    ASSUME TypeOK, FreshMessages, MarginCovers, Kept, [Next]_vars, Restarts = {}
    PROVE  [D!Next]_(D!vars)
<1> USE DEF TypeOK, D!vars
<1>1. ASSUME NEW m \in Messages, RPush(m) PROVE D!Arrive(m)
  BY <1>1 DEF RPush, D!Arrive, FreshMessages
<1>2. ASSUME NEW w \in Watchers, DeleteAndHandOver(w) PROVE D!CloseBlock \/ UNCHANGED D!vars
  <2>1. pc[w] = "delete" /\ list' = {}
    BY <1>2 DEF DeleteAndHandOver
  <2>2. Delivered' = Delivered \cup list
    <3>1. Delivered' = Delivered \cup entries[w]
      BY <1>2 DEF DeleteAndHandOver, Delivered
    <3> QED
      BY <2>1, <3>1 DEF Kept, WholeBlock
  <2> QED
    BY <2>1, <2>2 DEF D!CloseBlock, Delivered
<1>3. ASSUME UNCHANGED <<list, handed>> PROVE UNCHANGED D!vars
  BY <1>3
<1>4. CASE Tick
  BY <1>3, <1>4, NothingExpires DEF Kept, Tick
<1> QED
  BY <1>1, <1>2, <1>3, <1>4
  DEF Next, Push, Watch, Expire, SetMarker, SpawnWatcher, SleepAgain, WindowClosed, LRange,
      FinishClose, Release, Crash, Stop, Restart, D!Next, vars, keys, tasks

(* Nothing that waits is lost: if nobody writes during a close and the     *)
(* process stays up, a message leaves the buffer only with its whole block *)
(* and only to on_close, whatever locks lapse meanwhile.                   *)
THEOREM Implements ==
    ASSUME QuietClose, Restarts = {}
    PROVE  Spec => IsDebounce
<1>1. Init => Kept /\ D!Init
  BY DEF Init, Kept, Locked, Watched, WholeBlock, D!Init
<1>2. TypeOK /\ MarginCovers /\ Kept /\ [Next]_vars => Kept'
  <2> SUFFICES ASSUME TypeOK, MarginCovers, Kept, [Next]_vars PROVE Kept'
    OBVIOUS
  <2>1. QuietStep
    BY DEF QuietStep, Next, Push, Watch, RPush, Expire, SetMarker, SpawnWatcher, SleepAgain,
           WindowClosed, LRange, DeleteAndHandOver, FinishClose, Release, Tick, Crash, Stop,
           Restart, vars, keys
  <2> QED
    BY <2>1, KeptStep DEF Crash, Stop
<1>3. TypeOK /\ FreshMessages /\ MarginCovers /\ Kept /\ [Next]_vars => [D!Next]_(D!vars)
  BY StepImplements
<1>4. Spec => []MarginCovers
  BY MarginAlwaysCovers
<1> QED
  BY <1>1, <1>2, <1>3, <1>4, TypeCorrect, Fresh, PTL DEF Spec, IsDebounce, D!Spec
=============================================================================
