----------------------------- MODULE Extraction -----------------------------
(***************************************************************************)
(* From the texts a worker writes to the ticket and its record: what of a  *)
(* message gets into the block, what the LLM makes of it, what is sent to  *)
(* the ticket system and what ticket_creations and raw_messages keep.      *)
(*                                                                         *)
(* Here the data counts, so most handlers are one action; how they         *)
(* interleave is in Pipeline and ConversationFlow.  _finish is taken apart *)
(* at its awaits, because two of them may have the same session in hand:   *)
(* each attempt to create a ticket is a task with a copy of the session.   *)
(***************************************************************************)
EXTENDS TicketText

CONSTANTS
    Messages,      \* wamids
    Bodies,        \* what a worker may write
    Replies,       \* what the LLM may answer; Null: nothing that can be read
    Matches,       \* how many clients a search may return
    OldSessions,   \* sessions an older version may have left in Redis
    Attempts       \* names for the runs of _finish; also the tickets' ids

VARIABLES
    row,         \* raw_messages: the body and the ticket_creation_id of a wamid
    tasks,       \* the messages whose _process_message is still to run
    buffer,      \* the wamids of the open block, in the order of the list
    session,     \* bot:session:<phone>
    options,     \* the interactive message with the clients that was sent last
    work,        \* where an attempt is, its local `state`, and has it a ticket?
    log,         \* ticket_creations
    tickets,     \* what the ticket system accepted
    rivals       \* ghost: the attempts that ran while another did

vars == <<row, tasks, buffer, session, options, work, log, tickets, rivals>>

NoOptions == [kind |-> "none", titles |-> <<>>]

(* NO_CLIENT_OPTION_TITLE, and MAX_CLIENT_MATCHES *)
NoClient == "Sin cliente"
MaxClientMatches == 9

Rows == [body : Text, creation : Nat]

(* worker and user say if there is a worker_id and an external_user_id.  A *)
(* ghost: answer is what the LLM answered for the block.                   *)
Sessions ==
    [step : {"client", "priority"}, title : Text, entities : Entities \cup {Null, NotADict},
     messages : Seq(Text), wamids : Seq(Messages), worker : BOOLEAN, user : BOOLEAN,
     answer : Answers \cup {Null}]
Creations ==
    [status : {"created", "failed"}, title : Text, entities : Entities \cup {Null},
     ticket : Attempts \cup {Null}]
Works ==
    [at : {"idle", "post", "clear", "log", "refresh", "done"}, session : Sessions \cup {Null},
     created : BOOLEAN]

(* A session of an older version has no worker_id. *)
ASSUME ExtractionAssumption ==
    /\ Bodies \subseteq Text /\ Replies \subseteq Answers \cup {Null}
    /\ Matches \subseteq Nat
    /\ OldSessions \subseteq {s \in Sessions : ~s.worker}
    /\ Null \notin Rows /\ Null \notin Sessions /\ Null \notin Answers
    /\ Null \notin Entities /\ NotADict \notin Entities /\ Null \notin Attempts

TypeOK ==
    /\ row \in [Messages -> Rows \cup {Null}]
    /\ \A m \in Messages : row[m] # Null => row[m].creation <= Len(log)
    /\ tasks \subseteq Messages /\ buffer \in Seq(Messages)
    /\ session \in Sessions \cup {Null}
    /\ options \in [kind : {"none", "buttons", "list", "ValueError"}, titles : Seq({"client", NoClient})]
    /\ work \in [Attempts -> Works]
    /\ log \in Seq(Creations)
    /\ \A t \in tickets : t.id \in Attempts /\ t.title \in Text
    /\ rivals \subseteq Attempts

Init ==
    /\ row = [m \in Messages |-> Null]
    /\ tasks = {} /\ buffer = <<>>
    /\ session \in {Null} \cup OldSessions
    /\ options = NoOptions
    /\ work = [a \in Attempts |-> [at |-> "idle", session |-> Null, created |-> FALSE]]
    /\ log = <<>> /\ tickets = {} /\ rivals = {}

filing == <<work, log, tickets, rivals>>

-----------------------------------------------------------------------------
(* The row keeps the body as it came ... *)
Store(m, body) ==
    /\ row[m] = Null
    /\ row' = [row EXCEPT ![m] = [body |-> body, creation |-> 0]]
    /\ tasks' = tasks \cup {m}
    /\ UNCHANGED <<buffer, session, options, filing>>

(* ... the conversation gets it stripped, and a blank one not at all.  The *)
(* tasks of different requests run in any order.                           *)
Process(m) ==
    /\ m \in tasks /\ tasks' = tasks \ {m}
    /\ session # Null => session.step # "client"
    /\ buffer' = IF Blank(row[m].body) THEN buffer ELSE Append(buffer, m)
    /\ UNCHANGED <<row, session, options, filing>>

(* send_buttons and send_list refuse what Meta would refuse. *)
SendButtons(titles) ==
    [kind |-> IF Len(titles) \in 1 .. 3 THEN "buttons" ELSE "ValueError", titles |-> titles]
SendList(titles) ==
    [kind |-> IF Len(titles) \in 1 .. 10 THEN "list" ELSE "ValueError", titles |-> titles]

OneMore(found) == Append([i \in 1 .. Min({found, MaxClientMatches + 1}) |-> "client"], NoClient)
                                               \* mutant of ClientOptions

ClientOptions(found) == Append([i \in 1 .. Min({found, MaxClientMatches}) |-> "client"], NoClient)

(* A text while the client is asked for is a search, not part of a block. *)
ClientSearch(m, found) ==
    /\ m \in tasks /\ tasks' = tasks \ {m}
    /\ session # Null /\ session.step = "client"
    /\ \/ Blank(row[m].body) /\ UNCHANGED <<session, options>>
       \/ /\ ~Blank(row[m].body) /\ found = 0
          /\ session' = [session EXCEPT !.step = "priority"] /\ UNCHANGED options
       \/ /\ ~Blank(row[m].body) /\ found > 0
          /\ options' = LET titles == ClientOptions(found)
                        IN  IF Len(titles) <= 3 THEN SendButtons(titles) ELSE SendList(titles)
          /\ UNCHANGED session
    /\ UNCHANGED <<row, buffer, filing>>

Body(m) == Strip(row[m].body)
Block(wamids) == [i \in DOMAIN wamids |-> Body(wamids[i])]

(* on_buffer_close, for a worker who may lack external_user_id. *)
CloseBlock(answer, user) ==
    /\ buffer # <<>> /\ buffer' = <<>>
    /\ LET extracted == ExtractTitle(Block(buffer), answer)
       IN  session' = [step |-> "client", title |-> extracted.title,
                       entities |-> extracted.entities, messages |-> Block(buffer),
                       wamids |-> buffer, worker |-> TRUE, user |-> user, answer |-> answer]
    /\ UNCHANGED <<row, tasks, options, filing>>

(* The worker left the whitelist in the meantime. *)
DiscardBlock ==
    /\ buffer # <<>> /\ buffer' = <<>>
    /\ UNCHANGED <<row, tasks, session, options, filing>>

(* A choice of the list, or the timeout. *)
ChooseClient ==
    /\ session # Null /\ session.step = "client"
    /\ session' = [session EXCEPT !.step = "priority"]
    /\ UNCHANGED <<row, tasks, buffer, options, filing>>

-----------------------------------------------------------------------------
(* What an older version left may be unreadable. *)
EntitiesFrom(s) == IF s.entities \in Entities THEN s.entities ELSE Null

(* UPDATE raw_messages ... WHERE wamid IN (...) *)
FirstOnly(wamids, creation) ==                 \* mutant of Link: a linked row keeps its link
    row' = [m \in Messages |-> IF m \in Range(wamids) /\ row[m].creation = 0
                               THEN [row[m] EXCEPT !.creation = creation] ELSE row[m]]

Link(wamids, creation) ==
    row' = [m \in Messages |-> IF m \in Range(wamids)
                               THEN [row[m] EXCEPT !.creation = creation] ELSE row[m]]

LinksFirst(a, status) ==                       \* mutant of Log: two transactions
    /\ Link(work[a].session.wamids, Len(log) + 1)
    /\ UNCHANGED log

(* _log and record_ticket_creation: the row and its links in one commit, or *)
(* neither; a session without worker_id is not recorded.                    *)
Log(a, status) ==
    LET s == work[a].session
    IN  \/ /\ s.worker
           /\ log' = Append(log, [status |-> status, title |-> s.title, entities |-> EntitiesFrom(s),
                                  ticket |-> IF status = "created" THEN a ELSE Null])
           /\ Link(s.wamids, Len(log) + 1)
        \/ UNCHANGED <<log, row>>

-----------------------------------------------------------------------------
(* _finish, from await to await. *)

Goto(a, label) == work' = [work EXCEPT ![a].at = label]
Over(w) == [w EXCEPT !.at = "done", !.session = Null]

Underway == {a \in Attempts : work[a].at \notin {"idle", "done"}}

(* A tap or the timeout: the session as it is now goes with the attempt. *)
Begin(a) ==
    /\ work[a].at = "idle"
    /\ session # Null /\ session.step = "priority"
    /\ work' = [work EXCEPT ![a].at = IF session.user THEN "post" ELSE "clear",
                            ![a].session = session]
    /\ rivals' = IF Underway = {} THEN rivals ELSE rivals \cup Underway \cup {a}
    /\ UNCHANGED <<row, tasks, buffer, session, options, log, tickets>>

Ticket(a) ==
    LET s == work[a].session
    IN  [id |-> a, title |-> s.title, description |-> BuildDescription(s.messages, EntitiesFrom(s))]

Created(a) ==
    /\ work[a].at = "post"
    /\ tickets' = tickets \cup {Ticket(a)}
    /\ work' = [work EXCEPT ![a].at = "clear", ![a].created = TRUE]
    /\ UNCHANGED <<row, tasks, buffer, session, options, log, rivals>>

(* There may be a ticket all the same, when only the answer was lost. *)
CreationFails(a) ==
    /\ work[a].at = "post"
    /\ tickets' \in {tickets, tickets \cup {Ticket(a)}}
    /\ Goto(a, "log")
    /\ UNCHANGED <<row, tasks, buffer, session, options, log, rivals>>

NotCleared(a) ==                               \* mutant of ClearSession
    /\ work[a].at = "clear" /\ Goto(a, "log")
    /\ UNCHANGED <<row, tasks, buffer, session, options, log, tickets, rivals>>

ClearSession(a) ==
    /\ work[a].at = "clear" /\ Goto(a, "log")
    /\ session' = Null
    /\ UNCHANGED <<row, tasks, buffer, options, log, tickets, rivals>>

Record(a) ==
    /\ work[a].at = "log"
    /\ Log(a, IF work[a].created THEN "created" ELSE "failed")
    /\ IF work[a].session.user /\ ~work[a].created
       THEN Goto(a, "refresh")
       ELSE work' = [work EXCEPT ![a] = Over(@)]
    /\ UNCHANGED <<tasks, buffer, session, options, tickets, rivals>>

(* After a failed creation the session is written again, as it was. *)
RefreshSession(a) ==
    /\ work[a].at = "refresh"
    /\ session' = work[a].session
    /\ work' = [work EXCEPT ![a] = Over(@)]
    /\ UNCHANGED <<row, tasks, buffer, options, log, tickets, rivals>>

Finish(a) ==
    \/ Begin(a) \/ Created(a) \/ CreationFails(a) \/ ClearSession(a) \/ Record(a)
    \/ RefreshSession(a)

(* The process is killed: no attempt goes on, and the tasks are gone. *)
Crash ==
    /\ tasks' = {}
    /\ work' = [a \in Attempts |-> IF a \in Underway THEN Over(work[a]) ELSE work[a]]
    /\ UNCHANGED <<row, buffer, session, options, log, tickets, rivals>>

Next ==
    \/ \E m \in Messages :
         \/ \E body \in Bodies : Store(m, body)
         \/ Process(m)
         \/ \E found \in Matches : ClientSearch(m, found)
    \/ \E answer \in Replies, user \in BOOLEAN : CloseBlock(answer, user)
    \/ DiscardBlock \/ ChooseClient \/ Crash
    \/ \E a \in Attempts : Finish(a)

Spec == Init /\ [][Next]_vars

-----------------------------------------------------------------------------
(* The rule of entities.py without its normal forms: a datum appears in a  *)
(* text if its letters are consecutive letters of the text, whatever their *)
(* case and accents, with blanks in the same places between them.          *)
Letter(c) == CASE c \in {"a", "A", "a'"} -> "a" [] c \in {"f", "F"} -> "f"
               [] c \in {"2", "^2"} -> "2" [] OTHER -> c

Letters(t) == {i \in DOMAIN t : t[i] \notin Whitespace \cup {"'"}}

Consecutive(t, i, j) == i < j /\ \A k \in Letters(t) : ~(i < k /\ k < j)

AppearsIn(v, t) ==
    \E at \in [Letters(v) -> Letters(t)] :
      /\ \A i \in Letters(v) : Letter(v[i]) = Letter(t[at[i]])
      /\ \A i, j \in Letters(v) : Consecutive(v, i, j) =>
            Consecutive(t, at[i], at[j]) /\ (j = i + 1 <=> at[j] = at[i] + 1)

Current == session # Null /\ session.worker

(* entities.py:3 "solo sobreviven si la cadena aparece literalmente": a     *)
(* datum of the LLM is kept exactly if it is a text that appears in the     *)
(* block, whatever the other fields of its answer look like.                *)
OnlyWritten ==
    Current /\ Usable(session.answer) /\ session.answer.entities \notin {Null, NotADict} =>
      \A f \in Fields :
        LET v == session.answer.entities[f]
        IN  session.entities[f] # Null
              <=> IsString(v) /\ ~Blank(v) /\ AppearsIn(v, Join(session.messages))

(* base.py:17: whatever the LLM does, a block gets a title: the LLM's when  *)
(* there is one, even if the entities are malformed, else the beginning of  *)
(* the block, cut with an ellipsis that follows no blank.                   *)
Titled ==
    Current =>
      LET t == session.title
          raw == Join(session.messages)
          reply == session.answer
      IN  /\ ~Blank(t)
          /\ Usable(reply) => IsIn(t, reply.title)
          /\ ~Usable(reply) /\ t # raw =>
                /\ Last(t) = "..." /\ Len(t) <= TitleLength + 1 /\ Len(raw) > TitleLength
                /\ IsPrefix(Front(t), raw) /\ Last(Front(t)) \notin Whitespace

(* client.py:46,70: the clients of a search are always offered within what *)
(* Meta accepts, and with the way out of choosing none of them.            *)
Offered ==
    options.kind # "none" => options.kind # "ValueError" /\ Last(options.titles) = NoClient

(* The description of ticket t can be had from row n of ticket_creations.  *)
(* In which order the texts were is not kept.                              *)
Rebuilds(t, n) ==
    LET linked == {m \in Messages : row[m] # Null /\ row[m].creation = n}
    IN  \E order \in SetToSeqs(linked) :
          t.description = BuildDescription([i \in DOMAIN order |-> Strip(row[order[i]].body)],
                                           log[n].entities)

(* orm.py:85: the description is not kept, because it can be rebuilt from   *)
(* the linked raw_messages and the entities of the row.  So it can, for    *)
(* good, if the attempt that made the ticket had the phone to itself:       *)
(* attempts that failed before it, a kill, or whatever is written and filed *)
(* after it leave the row its links.  Of two at once, the one that writes   *)
(* its row later takes the links of the other.                              *)
Reconstructible ==
    \A n \in DOMAIN log, t \in tickets :
      log[n].ticket = t.id /\ t.id \notin rivals => Rebuilds(t, n)
=============================================================================
