---------------------------- MODULE MCExtraction ----------------------------
(* Two messages, one of them perhaps blank or with text around it, and answers *)
(* of the LLM with every way a datum may differ from what was written.         *)
EXTENDS Extraction

CONSTANTS m1, m2

MCBodies == {<<" ", "a'", "\n", " ", "b", "'", "F">>, <<"a", "b", "^2">>, <<" ">>}

MCValues == {NotAString, <<" ">>, <<"'">>, <<"A", "b">>, <<"b", "2">>, <<"a", " ", "b", " ">>,
             <<"2", " ", " ", "a">>, <<"b", "b">>}

MCAnswer(monto, tramite) ==
    [title |-> <<" ", "A", " ">>, entities |-> [f \in {"monto", "tramite"} |-> IF f = "monto" THEN monto ELSE tramite]]

MCReplies ==
    {MCAnswer(v, <<" ", "F">>) : v \in MCValues}
      \cup {MCAnswer(<<"A", "b">>, t) : t \in {NotAString, <<"a'">>}}
      \cup {MCAnswer(Null, Null)}
      \cup {[title |-> t, entities |-> NotADict] : t \in {<<"A">>, <<" ">>, NotAString}}
      \cup {[title |-> <<"A">>, entities |-> Null], Null}

MCTramites == {<<"f">>, <<"a">>}

OldSession(entities) ==
    [step |-> "priority", title |-> <<"A">>, entities |-> entities, messages |-> <<<<"a">>>>,
     wamids |-> <<>>, worker |-> FALSE, user |-> TRUE, answer |-> Null]

MCOldSessions == {OldSession(NotADict)}

Symmetry == Permutations(Messages) \cup Permutations(Attempts)
=============================================================================
