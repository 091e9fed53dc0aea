-------------------------- MODULE WorkerSyncProofs --------------------------
(***************************************************************************)
(* WorkerSync, for any users, phones and number of roster changes: the     *)
(* types, and that a cycle leaves the table reconciled with the roster it  *)
(* received when every number has one way to be written.                   *)
(***************************************************************************)
EXTENDS WorkerSync, TLAPS

(* Upserted is the user the roster has under that phone. *)
LEMMA UpsertedIsListed ==
    ASSUME NEW phone \in Upserts
    PROVE  \E u \in Listed : /\ fetched[u].phone = phone
                             /\ Upserted(phone) = [user |-> u, active |-> Enabled(fetched[u])]
                             /\ Upserted(phone).user = u
                             /\ Upserted(phone).active <=> fetched[u].bot /\ fetched[u].active
<1>1. PICK v \in Listed : fetched[v].phone = phone
  BY DEF Upserts
<1> DEFINE u == CHOOSE w \in Listed : fetched[w].phone = phone
<1>2. u \in Listed /\ fetched[u].phone = phone
  BY <1>1
<1>3. Upserted(phone) = [user |-> u, active |-> Enabled(fetched[u])]
  BY DEF Upserted
<1>4. Upserted(phone).user = u /\ Upserted(phone).active = Enabled(fetched[u])
  BY <1>3
<1> HIDE DEF u
<1>5. Upserted(phone).active <=> fetched[u].bot /\ fetched[u].active
  BY <1>4, Zenon DEF Enabled
<1> QED
  BY <1>2, <1>3, <1>4, <1>5, Zenon

(* What upsert_workers makes of the table. *)
LEMMA TableType ==
    ASSUME TypeOK, UpsertWorkers
    PROVE  DOMAIN workers' \subseteq Phones /\ workers' \in [DOMAIN workers' -> Rows]
<1> USE DEF TypeOK, UpsertWorkers
<1>1. Upserts \subseteq Phones
  BY DEF Upserts, Listed, Rosters, Entries
<1>2. ASSUME NEW p \in Upserts PROVE Upserted(p) \in Rows
  BY UpsertedIsListed DEF Listed, Rosters, Rows, Enabled, Entries
<1>3. ASSUME NEW p \in DOMAIN workers PROVE workers[p] \in Rows /\ [workers[p] EXCEPT !.active = FALSE] \in Rows
  BY DEF Rows
<1> QED
  BY <1>1, <1>2, <1>3

(* Every variable keeps its type. *)
THEOREM TypeCorrect == Spec => []TypeOK
<1>1. Init => TypeOK
  BY SyncAssumption DEF Init, TypeOK, Rosters, HasNumber, Entries
<1>2. TypeOK /\ [Next]_vars => TypeOK'
  <2> SUFFICES ASSUME TypeOK, [Next]_vars PROVE TypeOK'
    OBVIOUS
  <2>1. ASSUME NEW u \in Users, EditUser(u) PROVE TypeOK'
    BY <2>1, SyncAssumption DEF EditUser, TypeOK
  <2>2. CASE ListWorkers
    BY <2>2 DEF ListWorkers, TypeOK
  <2>3. CASE UpsertWorkers
    BY <2>3, TableType DEF UpsertWorkers, TypeOK
  <2>4. CASE CycleFails
    BY <2>4 DEF CycleFails, TypeOK
  <2>5. CASE Sleep
    BY <2>5 DEF Sleep, TypeOK
  <2>6. CASE UNCHANGED vars
    BY <2>6 DEF vars, TypeOK
  <2> QED
    BY <2>1, <2>2, <2>3, <2>4, <2>5, <2>6 DEF Next
<1> QED
  BY <1>1, <1>2, PTL DEF Spec

(* Rows are told apart by the whole phone and compared by its last digits: *)
(* the two agree when a number is always written the same way.             *)
OneFormat == \A p, q \in Phones : phone_match_key(p) = phone_match_key(q) => p = q

(* sync.py:51: a successful cycle reconciles the whole table, whatever rows *)
(* earlier cycles left in it.                                               *)
THEOREM Reconciles == ASSUME OneFormat PROVE Spec => CycleReconciles
<1>1. ASSUME TypeOK, UpsertWorkers PROVE Reconciled(fetched)'
  <2>1. fetched' = fetched /\ fetched \in Rosters
    BY <1>1 DEF UpsertWorkers, TypeOK
  <2>2. /\ DOMAIN workers' \subseteq Phones
        /\ DOMAIN workers' = DOMAIN workers \cup Upserts
        /\ workers' \in [DOMAIN workers' -> Rows]
    BY <1>1, TableType DEF UpsertWorkers
  <2>3. Upserts \subseteq Phones
    BY <2>2
  <2> SUFFICES ASSUME NEW n \in Numbers, NEW u \in Users
               PROVE  LetIn(n, u)' <=> HasNumber(fetched, u, n) /\ fetched[u].bot /\ fetched[u].active
    BY <2>1 DEF Reconciled
  (* Whoever has the number and is enabled is let in ... *)
  <2>4. ASSUME HasNumber(fetched, u, n), fetched[u].bot, fetched[u].active PROVE LetIn(n, u)'
    <3> DEFINE p == fetched[u].phone
    <3>1. p \in Upserts /\ phone_match_key(p) = n
      BY <2>4 DEF HasNumber, Upserts, Listed
    <3>2. PICK v \in Listed : /\ fetched[v].phone = p /\ Upserted(p).user = v
                              /\ Upserted(p).active <=> fetched[v].bot /\ fetched[v].active
      BY <3>1, UpsertedIsListed
    <3>3. v = u
      <4>1. v \in Users /\ HasNumber(fetched, v, n)
        BY <3>1, <3>2 DEF HasNumber, Listed, Upserts
      <4> QED
        BY <2>1, <2>4, <4>1 DEF Rosters
    <3>4. workers'[p].user = u /\ workers'[p].active
      <4>1. workers'[p] = Upserted(p)
        BY <1>1, <3>1 DEF UpsertWorkers
      <4> HIDE DEF p
      <4> QED
        BY <2>4, <3>2, <3>3, <4>1, Zenon
    <3>5. (ActiveRows(n))' = {p}
      BY <2>2, <3>1, <3>4 DEF ActiveRows, OneFormat
    <3> QED
      BY <2>2, <3>1, <3>4, <3>5 DEF LetIn
  (* ... and nobody else. *)
  <2>5. ASSUME LetIn(n, u)' PROVE HasNumber(fetched, u, n) /\ fetched[u].bot /\ fetched[u].active
    <3>1. PICK p \in DOMAIN workers' :
            p \in (ActiveRows(n))' /\ workers'[p].user = u
      BY <2>5 DEF LetIn
    <3>2. phone_match_key(p) = n /\ workers'[p].active
      BY <3>1 DEF ActiveRows
    <3>3. p \in Upserts
      <4>1. SUFFICES ASSUME p \notin Upserts PROVE FALSE
        OBVIOUS
      <4>2. p \in DOMAIN workers /\ workers[p] \in Rows
        BY <1>1, <2>2, <4>1 DEF TypeOK
      <4>3. CASE n \notin SeenKeys
        BY <1>1, <2>2, <3>2, <4>1, <4>2, <4>3 DEF UpsertWorkers, Rows
      <4>4. CASE n \in SeenKeys
        BY <2>2, <2>3, <3>2, <4>1, <4>4 DEF SeenKeys, OneFormat
      <4> QED
        BY <4>3, <4>4
    <3>4. PICK v \in Listed : /\ fetched[v].phone = p /\ Upserted(p).user = v
                              /\ Upserted(p).active <=> fetched[v].bot /\ fetched[v].active
      BY <3>3, UpsertedIsListed
    <3>5. workers'[p] = Upserted(p)
      BY <1>1, <2>2, <3>3 DEF UpsertWorkers
    <3> QED
      <4>1. v = u
        BY <3>1, <3>4, <3>5
      <4>2. Upserted(p).active
        BY <3>2, <3>5, Zenon
      <4>3. fetched[u].bot /\ fetched[u].active
        BY <3>4, <4>1, <4>2, Zenon
      <4> QED
        BY <3>2, <3>3, <3>4, <4>1, <4>3 DEF HasNumber, Listed, Upserts
  <2> QED
    BY <2>4, <2>5
<1>2. TypeOK /\ [Next]_vars => [UpsertWorkers => Reconciled(fetched)']_vars
  BY <1>1
<1> QED
  BY <1>2, TypeCorrect, PTL DEF Spec, CycleReconciles
=============================================================================
