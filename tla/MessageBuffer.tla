--------------------------- MODULE MessageBuffer ---------------------------
(***************************************************************************)
(* The debounce buffer of api/services/buffer/message_buffer.py, for one   *)
(* phone: the three Redis keys of that phone (the list of the open block,  *)
(* the debounce marker and the watcher lock), the handlers that push into  *)
(* it and the watcher tasks that close it.  Keys of different phones are   *)
(* disjoint, so one phone is the whole component.                          *)
(*                                                                         *)
(* Every awaited Redis command is a step of its own.  A key with a TTL is  *)
(* the number of ticks it has left, 0 when it is absent.  Redis commands   *)
(* are instantaneous at the scale of the TTLs: Tick waits until no command *)
(* is due.  The callback on_close (an LLM call and more) may take any      *)
(* number of ticks.                                                        *)
(***************************************************************************)
EXTENDS Naturals

CONSTANTS
    Messages,    \* the messages that may arrive, each pushed at most once
    Watchers,    \* names for the watcher tasks alive at the same time
    BufferTTL,   \* settings.buffer_ttl_seconds
    Margin,      \* _STORAGE_SAFETY_MARGIN_SECONDS
    LockSlack,   \* the 5 in `ex=ttl_seconds + 5`
    Restarts,    \* how the process may go down: a subset of {"crash", "stop"}
    QuietClose   \* TRUE: nobody writes while a watcher is closing the block

ASSUME BufferAssumption ==
    /\ BufferTTL \in Nat \ {0}
    /\ Margin \in Nat \ {0}
    /\ LockSlack \in Nat \ {0}
    /\ Restarts \subseteq {"crash", "stop"}
    /\ QuietClose \in BOOLEAN

VARIABLES
    list,      \* bot:buffer:<phone>: the messages of the open block
    listTTL,   \* its TTL
    marker,    \* TTL of the debounce marker
    lock,      \* TTL of the watcher lock
    sender,    \* how far the handler of each message has got
    pc,        \* the next step of each watcher task
    wait,      \* what is left of a watcher's asyncio.sleep
    entries,   \* a watcher's local `entries`
    up,        \* is the process running?
    handed,    \* ghost: how many times each message reached on_close
    quiet,     \* ghost: ticks since the marker was last set, up to BufferTTL
    lapsed     \* ghost: a live watcher has outlived its lock

keys == <<list, listTTL, marker, lock>>
tasks == <<pc, wait, entries>>
vars == <<keys, sender, tasks, up, handed, quiet, lapsed>>

NoMargin == BufferTTL                          \* mutant of ListTTL
ListTTL == BufferTTL + Margin
LockTTL == BufferTTL + LockSlack
Persistent == ListTTL + 1      \* the TTL of a list that has no expiry yet

InProgress(m) == sender[m] \in {"listed", "timed", "marked"}
Live(w) == pc[w] # "idle"
Closing(w) == pc[w] \in {"read", "delete", "close", "release"}

TypeOK ==
    /\ list \subseteq Messages
    /\ listTTL \in 0 .. Persistent
    /\ marker \in 0 .. BufferTTL
    /\ lock \in 0 .. LockTTL
    /\ sender \in [Messages ->
            {"unsent", "listed", "timed", "marked", "done", "killed"}]
    /\ pc \in [Watchers ->
            {"idle", "sleep", "read", "delete", "close", "release"}]
    /\ wait \in [Watchers -> 0 .. BufferTTL]
    /\ entries \in [Watchers -> SUBSET Messages]
    /\ up \in BOOLEAN
    /\ handed \in [Messages -> Nat]
    /\ quiet \in 0 .. BufferTTL
    /\ lapsed \in BOOLEAN

Init ==
    /\ list = {} /\ listTTL = 0 /\ marker = 0 /\ lock = 0
    /\ sender = [m \in Messages |-> "unsent"]
    /\ pc = [w \in Watchers |-> "idle"]
    /\ wait = [w \in Watchers |-> 0]
    /\ entries = [w \in Watchers |-> {}]
    /\ up = TRUE
    /\ handed = [m \in Messages |-> 0]
    /\ quiet = BufferTTL
    /\ lapsed = FALSE

-----------------------------------------------------------------------------
(* push_message, then spawn_watcher_if_needed: the handler of one message. *)

RPush(m) ==
    /\ up
    /\ sender[m] = "unsent"
    /\ QuietClose => \A w \in Watchers : ~Closing(w)
    /\ list' = list \cup {m}
    /\ listTTL' = IF list = {} THEN Persistent ELSE listTTL
    /\ sender' = [sender EXCEPT ![m] = "listed"]
    /\ UNCHANGED <<marker, lock, tasks, up, handed, quiet, lapsed>>

NeverExpires(m) ==                             \* mutant of Expire
    /\ sender[m] = "listed"
    /\ sender' = [sender EXCEPT ![m] = "timed"]
    /\ UNCHANGED <<keys, tasks, up, handed, quiet, lapsed>>

(* EXPIRE does nothing to a key that is gone. *)
Expire(m) ==
    /\ sender[m] = "listed"
    /\ listTTL' = IF list = {} THEN 0 ELSE ListTTL
    /\ sender' = [sender EXCEPT ![m] = "timed"]
    /\ UNCHANGED <<list, marker, lock, tasks, up, handed, quiet, lapsed>>

SetMarker(m) ==
    /\ sender[m] = "timed"
    /\ marker' = BufferTTL
    /\ quiet' = 0
    /\ sender' = [sender EXCEPT ![m] = "marked"]
    /\ UNCHANGED <<list, listTTL, lock, tasks, up, handed, lapsed>>

SpawnAlways ==                                 \* mutant of SpawnIfNeeded: no NX
    /\ lock' = LockTTL
    /\ \E w \in Watchers :
         /\ pc[w] = "idle"
         /\ pc' = [pc EXCEPT ![w] = "sleep"]
         /\ wait' = [wait EXCEPT ![w] = BufferTTL]

(* SET lock NX EX: a new task only when the key was absent. *)
SpawnIfNeeded ==
    \/ /\ lock > 0
       /\ UNCHANGED <<lock, pc, wait>>
    \/ /\ lock = 0
       /\ lock' = LockTTL
       /\ \E w \in Watchers :
            /\ pc[w] = "idle"
            /\ pc' = [pc EXCEPT ![w] = "sleep"]
            /\ wait' = [wait EXCEPT ![w] = BufferTTL]

SpawnWatcher(m) ==
    /\ sender[m] = "marked"
    /\ SpawnIfNeeded
    /\ sender' = [sender EXCEPT ![m] = "done"]
    /\ UNCHANGED <<list, listTTL, marker, entries, up, handed, quiet, lapsed>>

-----------------------------------------------------------------------------
(* _watch: the task that closes the block. *)

IgnoresMarker == 0                             \* mutant of Remaining
RemainingInMs == 1000 * marker                 \* mutant of Remaining: no `/ 1000`
Remaining == marker                            \* PTTL

(* The marker is still there: a message refreshed the window. *)
SleepAgain(w) ==
    /\ pc[w] = "sleep" /\ wait[w] = 0
    /\ Remaining > 0
    /\ wait' = [wait EXCEPT ![w] = Remaining]
    /\ UNCHANGED <<keys, sender, pc, entries, up, handed, quiet, lapsed>>

WindowClosed(w) ==
    /\ pc[w] = "sleep" /\ wait[w] = 0
    /\ Remaining = 0
    /\ pc' = [pc EXCEPT ![w] = "read"]
    /\ UNCHANGED <<keys, sender, wait, entries, up, handed, quiet, lapsed>>

DropsLast(w) ==                                \* mutant of LRange: 0 to -2
    /\ pc[w] = "read"
    /\ \E m \in Messages : entries' = [entries EXCEPT ![w] = list \ {m}]
    /\ pc' = [pc EXCEPT ![w] = "delete"]
    /\ UNCHANGED <<keys, sender, wait, up, handed, quiet, lapsed>>

LRange(w) ==
    /\ pc[w] = "read"
    /\ entries' = [entries EXCEPT ![w] = list]
    /\ pc' = [pc EXCEPT ![w] = "delete"]
    /\ UNCHANGED <<keys, sender, wait, up, handed, quiet, lapsed>>

(* DELETE of list and marker, then `if entries: await on_close(...)`. *)
DeleteAndHandOver(w) ==
    /\ pc[w] = "delete"
    /\ list' = {} /\ listTTL' = 0 /\ marker' = 0
    /\ handed' = [m \in Messages |->
            IF m \in entries[w] THEN handed[m] + 1 ELSE handed[m]]
    /\ pc' = [pc EXCEPT ![w] = IF entries[w] = {} THEN "release" ELSE "close"]
    /\ UNCHANGED <<lock, sender, wait, entries, up, quiet, lapsed>>

(* on_close returned, or raised and was logged. *)
FinishClose(w) ==
    /\ pc[w] = "close"
    /\ pc' = [pc EXCEPT ![w] = "release"]
    /\ UNCHANGED <<keys, sender, wait, entries, up, handed, quiet, lapsed>>

(* `finally`: whoever owns the lock by now, it is deleted. *)
Release(w) ==
    /\ pc[w] = "release"
    /\ lock' = 0
    /\ pc' = [pc EXCEPT ![w] = "idle"]
    /\ entries' = [entries EXCEPT ![w] = {}]
    /\ lapsed' = (lapsed /\ \E v \in Watchers \ {w} : Live(v))
    /\ UNCHANGED <<list, listTTL, marker, sender, wait, up, handed, quiet>>

-----------------------------------------------------------------------------
(* Time.  Nothing that is due waits for the next tick. *)

Due(w) == pc[w] \in {"read", "delete", "release"}
          \/ (pc[w] = "sleep" /\ wait[w] = 0)

Minus1(n) == IF n = 0 THEN 0 ELSE n - 1

Tick ==
    /\ \A m \in Messages : ~InProgress(m)
    /\ \A w \in Watchers : ~Due(w)
    /\ listTTL' = IF listTTL = Persistent THEN listTTL ELSE Minus1(listTTL)
    /\ list' = IF listTTL' = 0 THEN {} ELSE list
    /\ marker' = Minus1(marker)
    /\ lock' = Minus1(lock)
    /\ wait' = [w \in Watchers |-> Minus1(wait[w])]
    /\ quiet' = IF quiet = BufferTTL THEN quiet ELSE quiet + 1
    /\ lapsed' = (lapsed \/ (lock' = 0 /\ \E w \in Watchers : Live(w)))
    /\ UNCHANGED <<sender, pc, entries, up, handed>>

-----------------------------------------------------------------------------
(* The process goes down and comes back.  Redis keeps its keys. *)

TasksGone ==
    /\ up /\ up' = FALSE
    /\ pc' = [w \in Watchers |-> "idle"]
    /\ wait' = [w \in Watchers |-> 0]
    /\ entries' = [w \in Watchers |-> {}]
    /\ lapsed' = FALSE
    /\ UNCHANGED <<list, listTTL, marker, handed, quiet>>

(* A kill: no `finally` runs, a push may be cut in the middle. *)
Crash ==
    /\ "crash" \in Restarts
    /\ TasksGone
    /\ sender' = [m \in Messages |->
            IF InProgress(m) THEN "killed" ELSE sender[m]]
    /\ UNCHANGED lock

LockAfterCancel == IF \E w \in Watchers : Live(w) THEN 0 ELSE lock

(* A graceful stop: requests finish first, watchers are cancelled and their *)
(* `finally` deletes the lock.                                              *)
Stop ==
    /\ "stop" \in Restarts
    /\ \A m \in Messages : ~InProgress(m)
    /\ TasksGone
    /\ lock' = LockAfterCancel
    /\ UNCHANGED sender

(* recover_watchers, in the lifespan, before any request is served. *)
Restart ==
    /\ ~up /\ up' = TRUE
    /\ IF list = {} THEN UNCHANGED <<lock, pc, wait>> ELSE SpawnIfNeeded
    /\ UNCHANGED <<list, listTTL, marker, sender, entries, handed, quiet, lapsed>>

-----------------------------------------------------------------------------
Push(m) == RPush(m) \/ Expire(m) \/ SetMarker(m) \/ SpawnWatcher(m)

Watch(w) ==
    \/ SleepAgain(w) \/ WindowClosed(w) \/ LRange(w)
    \/ DeleteAndHandOver(w) \/ FinishClose(w) \/ Release(w)

Next ==
    \/ \E m \in Messages : Push(m)
    \/ \E w \in Watchers : Watch(w)
    \/ Tick
    \/ Crash \/ Stop \/ Restart

Spec == Init /\ [][Next]_vars

(* The event loop runs every ready task, time passes, on_close returns (its *)
(* LLM, HTTP and database calls have timeouts) and a stopped bot is started *)
(* again.  Nothing makes a worker write or a process go down.               *)
Fairness ==
    /\ \A m \in Messages : WF_vars(Expire(m) \/ SetMarker(m) \/ SpawnWatcher(m))
    /\ \A w \in Watchers : WF_vars(Watch(w))
    /\ WF_vars(Tick)
    /\ WF_vars(Restart)

FairSpec == Spec /\ Fairness

-----------------------------------------------------------------------------
(* Until a watcher outlives its lock, it is the only one and holds the     *)
(* lock: SET NX with `finally: delete` is mutual exclusion only that long. *)
ExclusiveWatcher ==
    ~lapsed => /\ \A w \in Watchers : Live(w) => lock > 0
               /\ \A v, w \in Watchers : Live(v) /\ Live(w) => v = w

(* A message reaches on_close a second time only if a lock has lapsed:     *)
(* LRANGE and DELETE are two commands, and the lock is what keeps another  *)
(* watcher from reading between them.                                      *)
NoDoubleHandover ==
    [][ ~lapsed => \A m \in Messages : handed'[m] > handed[m] => handed[m] = 0 ]_vars

(* A block is closed only after a full quiet window: a message whose push  *)
(* got as far as the marker is never cut off from the ones that follow it  *)
(* within buffer_ttl_seconds, whoever set, refreshed or deleted the marker.*)
DebounceRespected ==
    [][ \A w \in Watchers : pc[w] = "sleep" /\ pc'[w] = "read" =>
          \A m \in list : sender[m] \in {"marked", "done"} => quiet = BufferTTL ]_vars

(* The safety margin does its work: the list outlives the sleep of every   *)
(* watcher that is going to read it (the comment at lines 17-21).          *)
MarginCovers ==
    \A w \in Watchers : pc[w] = "sleep" /\ list # {} => listTTL >= wait[w] + Margin

(* Every message whose push finished reaches on_close. *)
HandedOver ==
    \A m \in Messages : (sender[m] = "done") ~> (handed[m] > 0)

(* If nobody writes during a close and the process stays up, the keys, the *)
(* tasks and their locks implement a Debounce: no expiry and no watcher,   *)
(* not even a second one after a lock lapsed, takes a message away.        *)
D == INSTANCE Debounce WITH
        pending <- list,
        delivered <- {m \in Messages : handed[m] > 0}
IsDebounce == D!Spec

(* A claim of the code that it does not keep.                              *)

(* message_buffer.py:54-56, "exactly one watcher is running": a message    *)
(* whose push is over waits in a buffer that some watcher will read.       *)
BufferedIsWatched ==
    up /\ list # {} /\ (\A m \in Messages : ~InProgress(m))
        => \E w \in Watchers : Live(w)
=============================================================================
