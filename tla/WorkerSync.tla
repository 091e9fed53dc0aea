----------------------------- MODULE WorkerSync -----------------------------
(***************************************************************************)
(* The whitelist: worker_sync_loop of api/services/ticket_system/sync.py   *)
(* pulls the roster of the ticket system into the table workers, and       *)
(* active_worker_by_phone_stmt of api/services/conversation/deps.py looks  *)
(* numbers up in it.                                                       *)
(*                                                                         *)
(* A phone is a pair: what is written before its last ten digits, "52" or  *)
(* "521", and these digits.  Rows are unique by the whole, the comparison  *)
(* takes the digits.                                                       *)
(***************************************************************************)
EXTENDS Naturals

CONSTANTS
    Users,        \* user_id in the ticket system
    Phones,       \* the phones as the ticket system may write them
    NoPhone,      \* an entry whose phone has no digits
    Absent,       \* a user who is not in the roster
    MaxChanges    \* bound: how often the roster changes

phone_match_key(phone) == phone[2]
Numbers == {phone_match_key(p) : p \in Phones}

Entries == [phone : Phones \cup {NoPhone}, bot : BOOLEAN, active : BOOLEAN]
Rows == [user : Users, active : BOOLEAN]

(* A number is one person's: no two users have it at the same time. *)
HasNumber(r, u, n) ==
    r[u] # Absent /\ r[u].phone # NoPhone /\ phone_match_key(r[u].phone) = n

Rosters ==
    { r \in [Users -> Entries \cup {Absent}] :
        \A u, v \in Users, n \in Numbers :
            HasNumber(r, u, n) /\ HasNumber(r, v, n) => u = v }

ASSUME SyncAssumption ==
    /\ NoPhone \notin Phones
    /\ Absent \notin Entries
    /\ MaxChanges \in Nat

VARIABLES
    roster,       \* what GET /internal/workers would answer
    fetched,      \* what it answered in this cycle
    workers,      \* the table, by phone_number
    pc,           \* the next step of worker_sync_loop
    changes

vars == <<roster, fetched, workers, pc, changes>>

TypeOK ==
    /\ roster \in Rosters
    /\ fetched \in Rosters
    /\ DOMAIN workers \subseteq Phones
    /\ workers \in [DOMAIN workers -> Rows]
    /\ pc \in {"list", "upsert", "sleep"}
    /\ changes \in 0 .. MaxChanges

Init ==
    /\ roster \in Rosters
    /\ fetched = [u \in Users |-> Absent]
    /\ workers = [p \in {} |-> NoPhone]
    /\ pc = "list"
    /\ changes = 0

-----------------------------------------------------------------------------
(* In the ticket system. *)
EditUser(u) ==
    /\ changes < MaxChanges /\ changes' = changes + 1
    /\ \E e \in Entries \cup {Absent} : roster' = [roster EXCEPT ![u] = e]
    /\ roster' \in Rosters
    /\ UNCHANGED <<fetched, workers, pc>>

ListWorkers ==
    /\ pc = "list" /\ pc' = "upsert"
    /\ fetched' = roster
    /\ UNCHANGED <<roster, workers, changes>>

BotOnly(e) == e.bot                            \* mutant of Enabled
Enabled(e) == e.bot /\ e.active

Listed == {u \in Users : fetched[u] # Absent}

AnyPhone == {fetched[u].phone : u \in Listed}  \* mutant of Upserts
Upserts == {fetched[u].phone : u \in Listed} \ {NoPhone}

AllSeen == Numbers                             \* mutant of SeenKeys
SeenKeys == {phone_match_key(p) : p \in Upserts}

Upserted(phone) ==
    LET u == CHOOSE v \in Listed : fetched[v].phone = phone
    IN  [user |-> u, active |-> Enabled(fetched[u])]

(* upsert_workers: one transaction; no row is ever deleted. *)
UpsertWorkers ==
    /\ pc = "upsert" /\ pc' = "sleep"
    /\ workers' = [p \in DOMAIN workers \cup Upserts |->
            IF p \in Upserts THEN Upserted(p)
            ELSE IF phone_match_key(p) \notin SeenKeys THEN [workers[p] EXCEPT !.active = FALSE]
            ELSE workers[p]]
    /\ UNCHANGED <<roster, fetched, changes>>

(* Whatever raises in a cycle is logged. *)
CycleFails ==
    /\ pc \in {"list", "upsert"} /\ pc' = "sleep"
    /\ UNCHANGED <<roster, fetched, workers, changes>>

Sleep ==
    /\ pc = "sleep" /\ pc' = "list"
    /\ UNCHANGED <<roster, fetched, workers, changes>>

Next ==
    \/ \E u \in Users : EditUser(u)
    \/ ListWorkers \/ UpsertWorkers \/ CycleFails \/ Sleep

Spec == Init /\ [][Next]_vars

(* The loop never dies, and a cycle that is tried for ever succeeds some day. *)
Fairness == WF_vars(Sleep) /\ SF_vars(ListWorkers) /\ SF_vars(UpsertWorkers)

FairSpec == Spec /\ Fairness

-----------------------------------------------------------------------------
(* active_worker_by_phone_stmt and scalar_one_or_none: the worker of a     *)
(* number is found when exactly one active row has it.                     *)
ActiveRows(n) == {p \in DOMAIN workers : phone_match_key(p) = n /\ workers[p].active}

LetIn(n, u) == \E p \in DOMAIN workers : ActiveRows(n) = {p} /\ workers[p].user = u

Reconciled(r) ==
    \A n \in Numbers, u \in Users :
        LetIn(n, u) <=> HasNumber(r, u, n) /\ r[u].bot /\ r[u].active

(* sync.py:51: a cycle that ends well leaves the table reconciled with the *)
(* whole roster it received, whatever rows were there before: users who    *)
(* were switched off, left, came back, or took over a colleague's number.  *)
CycleReconciles ==
    [][ UpsertWorkers => Reconciled(fetched)' ]_vars

(* sync.py:8-10: the poll heals itself; however many cycles are lost,      *)
(* nothing stays out of step for ever.                                     *)
SelfHealing == <>[]Reconciled(roster)
=============================================================================
