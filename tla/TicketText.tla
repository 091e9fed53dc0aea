----------------------------- MODULE TicketText -----------------------------
(***************************************************************************)
(* What the bot writes into a ticket (services/llm, description.py): the   *)
(* title, the entities that survive the verbatim rule, the description.    *)
(*                                                                         *)
(* A text is a sequence of characters.  The alphabet has one character of  *)
(* each kind the code tells apart: letters of either case, a letter with   *)
(* an accent, an accent by itself, a superscript, a blank and a newline.   *)
(***************************************************************************)
EXTENDS Naturals, SequencesExt, FiniteSetsExt

CONSTANTS
    Fields,        \* _VERBATIM_FIELDS
    Tramites,      \* the values of the enum Tramite, as texts
    TitleLength,   \* FALLBACK_TITLE_LENGTH
    Null, NotADict, NotAString

Chars == {"a", "b", "f", "A", "F", "a'", "'", "2", "^2", " ", "\n", "..."}
Whitespace == {" ", "\n"}
Text == Seq(Chars)

ASSUME TextAssumption ==
    /\ "tramite" \notin Fields
    /\ Tramites \subseteq Text /\ TitleLength \in Nat \ {0}
    /\ \A odd \in {Null, NotADict, NotAString} : odd \notin Text

-----------------------------------------------------------------------------
Inked(t) == {i \in DOMAIN t : t[i] \notin Whitespace}
Blank(t) == Inked(t) = {}
RStrip(t) == IF Blank(t) THEN <<>> ELSE SubSeq(t, 1, Max(Inked(t)))
Strip(t) == IF Blank(t) THEN <<>> ELSE SubSeq(t, Min(Inked(t)), Max(Inked(t)))

(* "\n".join *)
Join(texts) ==
    IF texts = <<>> THEN <<>>
    ELSE FoldLeft(LAMBDA t, u : t \o <<"\n">> \o u, Head(texts), Tail(texts))

CaseFold(c) == IF c = "A" THEN "a" ELSE IF c = "F" THEN "f" ELSE c

(* What NFKD and the removal of combining marks leave of a character: they *)
(* make compatibility characters what they look like, and of an accent by  *)
(* itself, which is a blank with a combining accent, the blank.            *)
Unmarked(c) ==
    IF c = "a'" THEN "a" ELSE IF c = "'" THEN " " ELSE IF c = "^2" THEN "2" ELSE c

(* _WHITESPACE.sub(" ", ...): a blank is written once. *)
Squeeze(u, c) ==
    IF c \notin Whitespace THEN Append(u, c)
    ELSE IF u # <<>> /\ Last(u) = " " THEN u ELSE Append(u, " ")

Collapse(t) ==
    LET upTo[n \in 0 .. Len(t)] == IF n = 0 THEN <<>> ELSE Squeeze(upTo[n - 1], t[n])
    IN  upTo[Len(t)]

Plain(t) == [i \in DOMAIN t |-> Unmarked(CaseFold(t[i]))]

OneByOne(t) == Strip(Plain(t))                 \* mutant of Normalize: no \s+

(* _normalize *)
Normalize(t) == Strip(Collapse(Plain(t)))

IsIn(t, u) == \E i \in 0 .. Len(u) - Len(t) : SubSeq(u, i + 1, i + Len(t)) = t

-----------------------------------------------------------------------------
Entities == [Fields \cup {"tramite"} -> Text \cup {Null}]
NoEntities == [f \in Fields \cup {"tramite"} |-> Null]
IsEmpty(entities) == entities = NoEntities

(* What can be read of an answer, before it is validated. *)
Answers ==
    [title : Text \cup {Null, NotAString},
     entities : [Fields \cup {"tramite"} -> Text \cup {Null, NotAString}] \cup {Null, NotADict}]

IsString(v) == v \notin {Null, NotAString}

Verbatim(v, source) ==
    IF IsString(v) /\ ~Blank(v) /\ IsIn(Normalize(Strip(v)), Normalize(source))
    THEN Strip(v) ELSE Null

OfClosedList(v) ==
    LET folded == [i \in DOMAIN Strip(v) |-> CaseFold(Strip(v)[i])]
    IN  IF IsString(v) /\ folded \in Tramites THEN folded ELSE Null

(* validate_entities *)
ValidateEntities(raw, source) ==
    IF raw \in {Null, NotADict} THEN NoEntities
    ELSE [f \in Fields \cup {"tramite"} |->
            IF f = "tramite" THEN OfClosedList(raw[f]) ELSE Verbatim(raw[f], source)]

(* fallback_title *)
FallbackTitle(raw) ==
    LET text == Strip(raw)
    IN  IF Len(text) <= TitleLength THEN text
        ELSE Append(RStrip(SubSeq(text, 1, TitleLength)), "...")

(* What the model answered, if an answer with a title could be read. *)
Usable(reply) == reply # Null /\ IsString(reply.title) /\ ~Blank(reply.title)

AllOrNothing(messages, reply) ==               \* mutant of ExtractTitle
    LET raw == Join(messages)
    IN  IF Usable(reply) /\ reply.entities # NotADict
        THEN [title |-> Strip(reply.title), entities |-> ValidateEntities(reply.entities, raw)]
        ELSE [title |-> FallbackTitle(raw), entities |-> Null]

(* extract_title: an answer that fails at any point costs all of it, but    *)
(* malformed entities cost only themselves.                                 *)
ExtractTitle(messages, reply) ==
    LET raw == Join(messages)
    IN  IF Usable(reply)
        THEN [title |-> Strip(reply.title), entities |-> ValidateEntities(reply.entities, raw)]
        ELSE [title |-> FallbackTitle(raw), entities |-> Null]

(* build_description, as its lines; the raw text is the last one. *)
BuildDescription(messages, entities) ==
    IF entities = Null \/ IsEmpty(entities) THEN <<Join(messages)>>
    ELSE <<{<<f, entities[f]>> : f \in {g \in DOMAIN entities : entities[g] # Null}}, Join(messages)>>
=============================================================================
