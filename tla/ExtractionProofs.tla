-------------------------- MODULE ExtractionProofs --------------------------
(***************************************************************************)
(* Proofs about Extraction, for any alphabet of answers, number of clients *)
(* and number of messages.  First the texts: what strip, join and the      *)
(* fallback title return; then the invariants that use it; last the normal *)
(* forms of validate_entities and what comparing them tells.               *)
(***************************************************************************)
EXTENDS Extraction, FiniteSetTheorems, WellFoundedInduction, TLAPS

-----------------------------------------------------------------------------
(* Induction over numbers, from the well-founded order on finite sets.     *)
LEMMA Least ==
    ASSUME NEW T \in SUBSET Nat, T # {}
    PROVE  \E n \in T : \A m \in T : n <= m
<1> DEFINE R == StrictSubsetOrdering(Nat)
           F == FiniteSubsetsOf(Nat)
           Down == {0 .. n : n \in T}
<1>1. Down \subseteq F /\ Down # {}
  <2>1. \A n \in T : IsFiniteSet(0 .. n) /\ 0 .. n \in SUBSET Nat
    BY FS_Interval
  <2>2. \A n \in T : 0 .. n \in F
    BY <2>1 DEF FiniteSubsetsOf
  <2> QED
    BY <2>2
<1>2. IsWellFoundedOn(R, F)
  BY FS_StrictSubsetOrderingWellFounded
<1> HIDE DEF R, F, Down
<1>3. PICK x \in Down : \A y \in Down : <<y, x>> \notin R
  BY <1>1, <1>2, WFMin
<1>4. PICK n \in T : x = 0 .. n
  BY DEF Down
<1>5. ASSUME NEW m \in T, m < n PROVE FALSE
  <2>1. 0 .. m \in Down
    BY DEF Down
  <2>2. 0 .. m \subseteq Nat /\ x \subseteq Nat /\ 0 .. m \subseteq x
    BY <1>4, <1>5
  <2>3. n \in x /\ n \notin 0 .. m
    BY <1>4, <1>5
  <2>4. <<0 .. m, x>> \in R
    BY <2>2, <2>3 DEF R, StrictSubsetOrdering
  <2> QED
    BY <2>1, <2>4, <1>3
<1> QED
  BY <1>5

LEMMA Induction ==
    ASSUME NEW T \in SUBSET Nat, 0 \in T, \A n \in T : n + 1 \in T
    PROVE  \A n \in Nat : n \in T
<1>1. SUFFICES ASSUME Nat \ T # {} PROVE FALSE
  OBVIOUS
<1>2. PICK n \in Nat \ T : \A m \in Nat \ T : n <= m
  BY <1>1, Least
<1>3. n - 1 \in T
  BY <1>2
<1>4. (n - 1) + 1 \in T
  BY <1>3
<1> QED
  BY <1>2, <1>4

LEMMA MaxIsIn ==
    ASSUME NEW T \in SUBSET Nat, NEW n \in Nat, T # {}, \A m \in T : m <= n
    PROVE  Max(T) \in T /\ \A m \in T : m <= Max(T)
<1> DEFINE Bounds == {k \in Nat : \A m \in T : m <= k}
<1>1. PICK k \in Bounds : \A j \in Bounds : k <= j
  BY Least
<1>2. ASSUME k \notin T PROVE FALSE
  <2>1. PICK x \in T : TRUE
    OBVIOUS
  <2>2. k - 1 \in Bounds
    BY <1>2, <2>1
  <2> QED
    BY <2>2, <1>1
<1> QED
  BY <1>1, <1>2 DEF Max

LEMMA MinIsIn ==
    ASSUME NEW T \in SUBSET Nat, T # {}
    PROVE  Min(T) \in T /\ \A m \in T : Min(T) <= m
BY Least DEF Min

-----------------------------------------------------------------------------
(* What joins two texts, and the fold that joins a list of them, unfolded.  *)
Glue(t, u) == t \o <<"\n">> \o u
Fold(g, base, seq, domain) ==
    [s \in domain |-> IF s = {} THEN base ELSE Glue(g[s \ {Max(s)}], seq[Max(s)])]
Upto(n, k) == {s \in SUBSET (1 .. n) : Cardinality(s) <= k}

LEMMA InInterval ==
    ASSUME NEW n \in Nat, NEW s \in SUBSET (1 .. n)
    PROVE  /\ IsFiniteSet(s) /\ Cardinality(s) \in 0 .. n
           /\ Cardinality(s) = 0 => s = {}
<1>1. IsFiniteSet(1 .. n) /\ Cardinality(1 .. n) = n
  BY FS_Interval
<1>2. IsFiniteSet(s) /\ Cardinality(s) <= n
  BY <1>1, FS_Subset
<1>3. Cardinality(s) \in Nat
  BY <1>2, FS_CardinalityType
<1> QED
  BY <1>2, <1>3, FS_EmptySet

LEMMA UptoGrows ==
    ASSUME NEW n \in Nat, NEW k \in Nat
    PROVE  Upto(n, n) = SUBSET (1 .. n) /\ Upto(n, 0) = {{}} /\ Upto(n, k) \subseteq Upto(n, k + 1)
<1>1. \A s \in SUBSET (1 .. n) : Cardinality(s) \in 0 .. n /\ (Cardinality(s) = 0 => s = {})
  BY InInterval
<1>2. {} \in SUBSET (1 .. n) /\ Cardinality({}) = 0
  BY FS_EmptySet
<1> QED
  BY <1>1, <1>2 DEF Upto

LEMMA Smaller ==
    ASSUME NEW n \in Nat, NEW k \in Nat, NEW s \in Upto(n, k + 1), s # {}
    PROVE  Max(s) \in 1 .. n /\ s \ {Max(s)} \in Upto(n, k)
<1>1. s \in SUBSET (1 .. n) /\ Cardinality(s) <= k + 1
  BY DEF Upto
<1>2. Max(s) \in s
  <2>1. s \in SUBSET Nat /\ \A m \in s : m <= n
    BY <1>1
  <2> QED
    BY <2>1, MaxIsIn
<1>3. IsFiniteSet(s) /\ Cardinality(s) \in Nat
  BY <1>1, InInterval
<1>4. Cardinality(s \ {Max(s)}) = Cardinality(s) - 1
  BY <1>2, <1>3, FS_RemoveElement
<1>5. Cardinality(s \ {Max(s)}) <= k
  BY <1>1, <1>3, <1>4
<1>6. s \ {Max(s)} \in SUBSET (1 .. n)
  BY <1>1
<1> QED
  BY <1>1, <1>2, <1>5, <1>6 DEF Upto

(* The fold exists ... *)
LEMMA FoldExists ==
    ASSUME NEW base, NEW seq, NEW n \in Nat
    PROVE  \E g : g = Fold(g, base, seq, SUBSET (1 .. n))
<1> DEFINE Good == {k \in Nat : \E g : g = Fold(g, base, seq, Upto(n, k))}
<1>1. 0 \in Good
  <2> DEFINE g == [s \in Upto(n, 0) |-> base]
  <2>1. g = Fold(g, base, seq, Upto(n, 0))
    BY UptoGrows DEF Fold
  <2> QED
    BY <2>1
<1>2. ASSUME NEW k \in Good PROVE k + 1 \in Good
  <2>1. PICK g : g = Fold(g, base, seq, Upto(n, k))
    OBVIOUS
  <2> DEFINE h == Fold(g, base, seq, Upto(n, k + 1))
  <2>2. \A s \in Upto(n, k) : s \in Upto(n, k + 1)
    BY UptoGrows
  <2>3. \A s \in Upto(n, k) : h[s] = g[s]
    BY <2>1, <2>2 DEF Fold
  <2>4. h = Fold(h, base, seq, Upto(n, k + 1))
    <3>1. ASSUME NEW s \in Upto(n, k + 1), s # {} PROVE h[s] = Glue(h[s \ {Max(s)}], seq[Max(s)])
      BY <3>1, <2>3, Smaller DEF Fold
    <3>2. ASSUME NEW s \in Upto(n, k + 1), s = {} PROVE h[s] = base
      BY <3>2 DEF Fold
    <3> QED
      BY <3>1, <3>2 DEF Fold
  <2> QED
    BY <2>4
<1>3. n \in Good
  BY <1>1, <1>2, Induction
<1> QED
  BY <1>3, UptoGrows

(* ... and stays in any set of texts that joining does not leave.          *)
LEMMA FoldStays ==
    ASSUME NEW S, NEW base \in S, NEW seq \in Seq(S), \A t, u \in S : Glue(t, u) \in S
    PROVE  FoldLeft(Glue, base, seq) \in S
<1> DEFINE n == Len(seq)
           g == CHOOSE f : f = Fold(f, base, seq, SUBSET DOMAIN seq)
           Good == {k \in Nat : \A s \in Upto(n, k) : g[s] \in S}
<1>1. n \in Nat /\ DOMAIN seq = 1 .. n
  OBVIOUS
<1>2. g = Fold(g, base, seq, SUBSET (1 .. n))
  BY <1>1, FoldExists
<1>3. FoldLeft(Glue, base, seq) = g[1 .. n]
  BY <1>1 DEF FoldLeft, MapThenFoldSet, Fold
<1> HIDE DEF g, n
<1>4. 0 \in Good
  BY <1>1, <1>2, UptoGrows DEF Fold
<1>5. ASSUME NEW k \in Good PROVE k + 1 \in Good
  <2>0. k \in Nat /\ \A s \in Upto(n, k) : g[s] \in S
    OBVIOUS
  <2> HIDE DEF Good
  <2>1. ASSUME NEW s \in Upto(n, k + 1), s # {} PROVE g[s] \in S
    <3>1. g[s] = Glue(g[s \ {Max(s)}], seq[Max(s)])
      BY <1>1, <1>2, <2>1 DEF Fold, Upto
    <3>2. g[s \ {Max(s)}] \in S /\ seq[Max(s)] \in S
      <4>1. Max(s) \in 1 .. n /\ s \ {Max(s)} \in Upto(n, k)
        BY <1>1, <2>0, <2>1, Smaller
      <4>2. \A i \in 1 .. n : seq[i] \in S
        BY <1>1 DEF n
      <4> QED
        BY <2>0, <4>1, <4>2
    <3> QED
      BY <3>1, <3>2
  <2>2. g[{}] = base
    BY <1>2 DEF Fold
  <2> QED
    BY <2>0, <2>1, <2>2 DEF Good
<1>6. n \in Good
  BY <1>1, <1>4, <1>5, Induction
<1> QED
  BY <1>1, <1>3, <1>6, UptoGrows

-----------------------------------------------------------------------------
(* Texts.  A text that begins and ends with ink is what strip returns and   *)
(* what strip leaves alone, and joining such texts makes another.          *)
Trimmed == {t \in Text : t # <<>> /\ t[1] \notin Whitespace /\ t[Len(t)] \notin Whitespace}

LEMMA InkedIsIn ==
    ASSUME NEW t \in Text
    PROVE  /\ Len(t) \in Nat /\ DOMAIN t = 1 .. Len(t)
           /\ Inked(t) \in SUBSET Nat /\ \A i \in Inked(t) : i \in 1 .. Len(t) /\ t[i] \notin Whitespace
           /\ ~Blank(t) => /\ Min(Inked(t)) \in Inked(t) /\ Max(Inked(t)) \in Inked(t)
                           /\ \A i \in Inked(t) : Min(Inked(t)) <= i /\ i <= Max(Inked(t))
<1>1. Len(t) \in Nat /\ DOMAIN t = 1 .. Len(t)
  BY DEF Text
<1>2. Inked(t) \in SUBSET Nat /\ \A i \in Inked(t) : i \in 1 .. Len(t) /\ t[i] \notin Whitespace
  BY <1>1 DEF Inked
<1>3. \A i \in Inked(t) : i <= Len(t)
  BY <1>1, <1>2
<1> QED
  BY <1>1, <1>2, <1>3, MaxIsIn, MinIsIn DEF Blank

(* A stretch of a text. *)
LEMMA Stretch ==
    ASSUME NEW t \in Text, NEW i \in 1 .. Len(t), NEW j \in i .. Len(t)
    PROVE  /\ SubSeq(t, i, j) \in Text /\ Len(SubSeq(t, i, j)) = j - i + 1
           /\ \A k \in 1 .. j - i + 1 : SubSeq(t, i, j)[k] = t[i + k - 1]
BY DEF Text

LEMMA StripTrims ==
    ASSUME NEW t \in Text
    PROVE  /\ Strip(t) \in Text /\ RStrip(t) \in Text
           /\ ~Blank(t) => Strip(t) \in Trimmed /\ IsIn(Strip(t), t)
<1>1. CASE Blank(t)
  BY <1>1 DEF Strip, RStrip, Text
<1>2. CASE ~Blank(t)
  <2> DEFINE i == Min(Inked(t))
             j == Max(Inked(t))
  <2>1. /\ Len(t) \in Nat /\ i \in 1 .. Len(t) /\ j \in i .. Len(t)
        /\ t[i] \notin Whitespace /\ t[j] \notin Whitespace
    BY <1>2, InkedIsIn
  <2>2. Strip(t) = SubSeq(t, i, j) /\ RStrip(t) = SubSeq(t, 1, j)
    BY <1>2 DEF Strip, RStrip
  <2> HIDE DEF i, j
  <2>3. RStrip(t) \in Text
    BY <2>1, <2>2, Stretch
  <2>4. /\ Strip(t) \in Text /\ Len(Strip(t)) = j - i + 1
        /\ Strip(t)[1] = t[i] /\ Strip(t)[j - i + 1] = t[j]
    BY <2>1, <2>2, Stretch
  <2>5. Strip(t) \in Trimmed
    BY <2>1, <2>4 DEF Trimmed, Text
  <2>6. IsIn(Strip(t), t)
    <3>1. i - 1 \in 0 .. Len(t) - Len(Strip(t))
      BY <2>1, <2>4
    <3>2. SubSeq(t, (i - 1) + 1, (i - 1) + Len(Strip(t))) = Strip(t)
      BY <2>1, <2>2, <2>4
    <3> QED
      BY <3>1, <3>2 DEF IsIn
  <2> QED
    BY <2>3, <2>5, <2>6 DEF Trimmed
<1> QED
  BY <1>1, <1>2

LEMMA TrimmedIsStripped ==
    ASSUME NEW t \in Trimmed
    PROVE  Strip(t) = t /\ ~Blank(t)
<1>1. t \in Text /\ Len(t) \in Nat /\ 1 \in 1 .. Len(t)
  BY DEF Trimmed, Text
<1>2. 1 \in Inked(t) /\ Len(t) \in Inked(t) /\ ~Blank(t)
  BY <1>1 DEF Trimmed, Inked, Blank, Text
<1>3. Min(Inked(t)) = 1 /\ Max(Inked(t)) = Len(t)
  <2>1. /\ Min(Inked(t)) \in 1 .. Len(t) /\ Max(Inked(t)) \in 1 .. Len(t)
        /\ Min(Inked(t)) <= 1 /\ Len(t) <= Max(Inked(t))
    BY <1>1, <1>2, InkedIsIn
  <2> QED
    BY <1>1, <2>1
<1>4. SubSeq(t, 1, Len(t)) = t
  BY <1>1 DEF Text
<1> QED
  BY <1>2, <1>3, <1>4 DEF Strip

LEMMA GlueIsClosed ==
    /\ \A t, u \in Text : Glue(t, u) \in Text
    /\ \A t, u \in Trimmed : Glue(t, u) \in Trimmed
<1>1. ASSUME NEW t \in Text, NEW u \in Text
      PROVE  /\ Glue(t, u) \in Text /\ Len(Glue(t, u)) = Len(t) + 1 + Len(u)
             /\ \A i \in 1 .. Len(t) : Glue(t, u)[i] = t[i]
             /\ \A i \in 1 .. Len(u) : Glue(t, u)[Len(t) + 1 + i] = u[i]
  <2>1. "\n" \in Chars
    BY DEF Chars
  <2>2. ASSUME NEW newline \in Chars
        PROVE  LET both == t \o <<newline>> \o u
               IN  /\ both \in Text /\ Len(both) = Len(t) + 1 + Len(u)
                   /\ \A i \in 1 .. Len(t) : both[i] = t[i]
                   /\ \A i \in 1 .. Len(u) : both[Len(t) + 1 + i] = u[i]
    BY DEF Text
  <2> QED
    BY <2>1, <2>2 DEF Glue
<1>2. ASSUME NEW t \in Trimmed, NEW u \in Trimmed PROVE Glue(t, u) \in Trimmed
  <2>1. t \in Text /\ u \in Text /\ Len(t) \in Nat \ {0} /\ Len(u) \in Nat \ {0}
    BY DEF Trimmed, Text
  <2>2. 1 \in 1 .. Len(t) /\ Len(u) \in 1 .. Len(u)
    BY <2>1
  <2>3. /\ Glue(t, u) \in Text /\ Len(Glue(t, u)) = Len(t) + 1 + Len(u)
        /\ Glue(t, u)[1] = t[1] /\ Glue(t, u)[Len(t) + 1 + Len(u)] = u[Len(u)]
    BY <1>1, <2>1, <2>2
  <2>4. Glue(t, u) # <<>>
    BY <2>1, <2>3 DEF Text
  <2> QED
    BY <2>3, <2>4 DEF Trimmed
<1> QED
  BY <1>1, <1>2

(* join of the texts of a block. *)
LEMMA JoinStays ==
    ASSUME NEW S, NEW texts \in Seq(S), texts # <<>>, \A t, u \in S : Glue(t, u) \in S
    PROVE  Join(texts) \in S
<1>1. Head(texts) \in S /\ Tail(texts) \in Seq(S)
  OBVIOUS
<1>2. Join(texts) = FoldLeft(Glue, Head(texts), Tail(texts))
  BY DEF Join, FoldLeft, MapThenFoldSet, Glue
<1> QED
  BY <1>1, <1>2, FoldStays

LEMMA JoinType == \A texts \in Seq(Text) : Join(texts) \in Text
<1>1. Join(<<>>) = <<>> /\ <<>> \in Text
  <2>1. Join(<<>>) = <<>>
    BY DEF Join
  <2> QED
    BY <2>1 DEF Text
<1> QED
  BY <1>1, JoinStays, GlueIsClosed

LEMMA JoinTrimmed == \A texts \in Seq(Trimmed) : texts # <<>> => Join(texts) \in Trimmed
BY JoinStays, GlueIsClosed

-----------------------------------------------------------------------------
(* What extract_title returns, whatever the LLM answered.                  *)
LEMMA EntitiesType ==
    ASSUME NEW raw \in [Fields \cup {"tramite"} -> Text \cup {Null, NotAString}] \cup {Null, NotADict},
           NEW source
    PROVE  ValidateEntities(raw, source) \in Entities
<1>1. ASSUME NEW v \in Text \cup {Null, NotAString}
      PROVE  Verbatim(v, source) \in Text \cup {Null} /\ OfClosedList(v) \in Text \cup {Null}
  <2>1. IsString(v) => Strip(v) \in Text
    BY StripTrims DEF IsString
  <2> QED
    BY <2>1, TextAssumption DEF Verbatim, OfClosedList
<1>2. CASE raw \in {Null, NotADict}
  BY <1>2 DEF ValidateEntities, NoEntities, Entities
<1>3. CASE raw \notin {Null, NotADict}
  <2>1. \A f \in Fields \cup {"tramite"} : raw[f] \in Text \cup {Null, NotAString}
    BY <1>3
  <2> QED
    BY <1>1, <1>3, <2>1 DEF ValidateEntities, Entities
<1> QED
  BY <1>2, <1>3

(* The first characters of a long text, cut after the last ink. *)
LEMMA CutIsPrefix ==
    ASSUME NEW text \in Trimmed, Len(text) > TitleLength
    PROVE  LET cut == RStrip(SubSeq(text, 1, TitleLength))
           IN  /\ cut \in Text /\ Len(cut) \in 1 .. TitleLength
               /\ IsPrefix(cut, text) /\ cut[1] \notin Whitespace /\ cut[Len(cut)] \notin Whitespace
<1> DEFINE first == SubSeq(text, 1, TitleLength)
           j == Max(Inked(first))
<1>1. /\ text \in Text /\ Len(text) \in Nat /\ text[1] \notin Whitespace
      /\ TitleLength \in 1 .. Len(text) /\ 1 \in 1 .. Len(text)
  BY TextAssumption DEF Trimmed, Text
<1>2. /\ first \in Text /\ Len(first) = TitleLength
      /\ \A k \in 1 .. TitleLength : first[k] = text[k]
  BY <1>1, Stretch
<1>3. 1 \in Inked(first) /\ ~Blank(first)
  <2>1. DOMAIN first = 1 .. TitleLength /\ first[1] = text[1] /\ 1 \in 1 .. TitleLength
    BY <1>1, <1>2, InkedIsIn
  <2> HIDE DEF first
  <2> QED
    BY <1>1, <2>1 DEF Inked, Blank
<1>4. j \in 1 .. TitleLength /\ first[j] \notin Whitespace
  BY <1>2, <1>3, InkedIsIn
<1>5. RStrip(first) = SubSeq(first, 1, j)
  BY <1>3 DEF RStrip
<1> HIDE DEF first, j
<1>6. /\ RStrip(first) \in Text /\ Len(RStrip(first)) = j
      /\ \A k \in 1 .. j : RStrip(first)[k] = text[k]
  BY <1>1, <1>2, <1>4, <1>5, Stretch
<1>7. IsPrefix(RStrip(first), text)
  <2>1. RStrip(first) = SubSeq(text, 1, j)
    BY <1>1, <1>2, <1>4, <1>5 DEF first, Text
  <2> QED
    BY <1>1, <1>4, <1>6, <2>1 DEF IsPrefix, Text
<1> QED
  BY <1>1, <1>2, <1>4, <1>6, <1>7 DEF first

LEMMA FallbackIsShort ==
    ASSUME NEW raw \in Trimmed, NEW t, t = FallbackTitle(raw)
    PROVE  /\ t \in Text /\ ~Blank(t)
           /\ t # raw => /\ Last(t) = "..." /\ Len(t) <= TitleLength + 1 /\ Len(raw) > TitleLength
                         /\ IsPrefix(Front(t), raw) /\ Last(Front(t)) \notin Whitespace
<1>1. Strip(raw) = raw /\ ~Blank(raw) /\ raw \in Text /\ Len(raw) \in Nat /\ TitleLength \in Nat
  BY TrimmedIsStripped, TextAssumption DEF Trimmed, Text
<1>2. CASE Len(raw) <= TitleLength
  BY <1>1, <1>2 DEF FallbackTitle
<1>3. CASE Len(raw) > TitleLength
  <2> DEFINE cut == RStrip(SubSeq(raw, 1, TitleLength))
  <2>1. /\ cut \in Text /\ Len(cut) \in 1 .. TitleLength
        /\ IsPrefix(cut, raw) /\ cut[1] \notin Whitespace /\ cut[Len(cut)] \notin Whitespace
    BY <1>3, CutIsPrefix
  <2>2. t = Append(cut, "...")
    BY <1>1, <1>3 DEF FallbackTitle
  <2> HIDE DEF cut
  <2>3. "..." \in Chars
    BY DEF Chars
  <2>4. /\ t \in Text /\ Len(t) = Len(cut) + 1 /\ t[Len(t)] = "..." /\ t[1] = cut[1]
        /\ SubSeq(t, 1, Len(cut)) = cut
    BY <2>1, <2>2, <2>3 DEF Text
  <2>5. ~Blank(t)
    BY <2>1, <2>4 DEF Blank, Inked, Text
  <2>6. Front(t) = cut
    BY <2>1, <2>4 DEF Front
  <2> QED
    BY <1>1, <1>3, <2>1, <2>4, <2>5, <2>6 DEF Last
<1> QED
  BY <1>1, <1>2, <1>3

LEMMA FallbackType ==
    ASSUME NEW raw \in Text
    PROVE  FallbackTitle(raw) \in Text
<1>1. CASE Blank(raw)
  <2>1. Strip(raw) = <<>> /\ <<>> \in Text
    BY <1>1 DEF Strip, Text
  <2> QED
    BY <2>1, TextAssumption DEF FallbackTitle
<1>2. CASE ~Blank(raw)
  <2>1. Strip(raw) \in Trimmed
    BY <1>2, StripTrims
  <2>2. FallbackTitle(Strip(raw)) = FallbackTitle(raw)
    BY <2>1, TrimmedIsStripped DEF FallbackTitle
  <2> QED
    BY <2>1, <2>2, FallbackIsShort
<1> QED
  BY <1>1, <1>2

LEMMA ExtractType ==
    ASSUME NEW messages \in Seq(Text), NEW answer \in Answers \cup {Null}
    PROVE  /\ ExtractTitle(messages, answer).title \in Text
           /\ ExtractTitle(messages, answer).entities \in Entities \cup {Null}
<1>1. Join(messages) \in Text
  BY JoinType
<1>2. CASE Usable(answer)
  <2>1. /\ answer.title \in Text
        /\ answer.entities \in [Fields \cup {"tramite"} -> Text \cup {Null, NotAString}] \cup {Null, NotADict}
    BY <1>2 DEF Usable, IsString, Answers
  <2>2. ExtractTitle(messages, answer) =
          [title |-> Strip(answer.title), entities |-> ValidateEntities(answer.entities, Join(messages))]
    BY <1>2 DEF ExtractTitle
  <2>3. Strip(answer.title) \in Text
    BY <2>1, StripTrims
  <2>4. ValidateEntities(answer.entities, Join(messages)) \in Entities
    BY <2>1, EntitiesType
  <2> QED
    BY <2>2, <2>3, <2>4
<1>3. CASE ~Usable(answer)
  BY <1>1, <1>3, FallbackType DEF ExtractTitle
<1> QED
  BY <1>2, <1>3

-----------------------------------------------------------------------------
(* The sessions that may still be recorded: the one in Redis and those that *)
(* the attempts have in hand.  Their messages, like those of the tasks and *)
(* of the open block, are not filed for good.                              *)
Copies == {session} \cup {work[a].session : a \in Attempts}
Alive == {s \in Copies : s # Null /\ s.worker}
InHand == UNION {Range(s.wamids) : s \in Alive}
Pending == tasks \cup Range(buffer) \cup InHand

(* A message that is still under way has its row, and waits in one place.  *)
Placed ==
    /\ \A m \in Pending : row[m] # Null
    /\ IsInjective(buffer) /\ \A s \in Alive : IsInjective(s.wamids)
    /\ tasks \cap Range(buffer) = {} /\ tasks \cap InHand = {} /\ Range(buffer) \cap InHand = {}

Carried == \A a \in Attempts : a \in Underway <=> work[a].session # Null

TypeInv == TypeOK /\ Carried /\ Placed

(* What no step changes in a session. *)
Same(s, r) ==
    /\ s.title = r.title /\ s.entities = r.entities /\ s.messages = r.messages
    /\ s.wamids = r.wamids /\ s.answer = r.answer

LEMMA RowFields ==
    ASSUME TypeInv, NEW m \in Messages, row[m] # Null
    PROVE  row[m] \in Rows /\ row[m].body \in Text /\ row[m].creation \in 0 .. Len(log)
<1>1. row[m] \in Rows
  BY DEF TypeInv, TypeOK
<1> QED
  BY <1>1 DEF TypeInv, TypeOK, Rows

LEMMA AliveAreSessions ==
    ASSUME TypeOK
    PROVE  /\ \A s \in Alive : s \in Sessions /\ s.wamids \in Seq(Messages) /\ s.messages \in Seq(Text)
           /\ \A a \in Attempts : work[a] \in Works /\ work[a].session \in Sessions \cup {Null}
<1>1. ASSUME NEW a \in Attempts PROVE work[a] \in Works /\ work[a].session \in Sessions \cup {Null}
  BY DEF TypeOK, Works
<1>2. ASSUME NEW s \in Alive PROVE s \in Sessions
  BY <1>1 DEF TypeOK, Alive, Copies
<1> QED
  BY <1>1, <1>2 DEF Sessions

LEMMA PendingAreMessages == ASSUME TypeOK PROVE Pending \subseteq Messages
<1>1. \A s \in Seq(Messages) : Range(s) \subseteq Messages
  BY DEF Range
<1> QED
  BY <1>1, AliveAreSessions DEF TypeOK, Pending, InHand

LEMMA BlockType ==
    ASSUME TypeInv
    PROVE  Block(buffer) \in Seq(Text) /\ Len(Block(buffer)) = Len(buffer)
<1>1. /\ buffer \in Seq(Messages) /\ Len(buffer) \in Nat /\ DOMAIN buffer = 1 .. Len(buffer)
      /\ \A i \in 1 .. Len(buffer) : buffer[i] \in Messages /\ buffer[i] \in Pending
  BY DEF TypeInv, TypeOK, Pending, Range
<1>2. \A i \in 1 .. Len(buffer) : Body(buffer[i]) \in Text
  <2>1. ASSUME NEW i \in 1 .. Len(buffer) PROVE Body(buffer[i]) \in Text
    <3>1. row[buffer[i]].body \in Text
      BY <1>1, RowFields DEF TypeInv, Placed
    <3> QED
      BY <3>1, StripTrims DEF Body
  <2> QED
    BY <2>1
<1> QED
  BY <1>1, <1>2 DEF Block

(* What an attempt does to the sessions: its copy is that of Redis when it *)
(* begins, and stays what it is until it is over.                          *)
LEMMA AttemptStep ==
    ASSUME TypeInv, NEW a \in Attempts, Finish(a)
    PROVE  /\ work' \in [Attempts -> Works] /\ \A b \in Attempts \ {a} : work'[b] = work[b]
           /\ \/ Begin(a) /\ work'[a].session = session
              \/ a \in Underway /\ work'[a].session \in {work[a].session, Null}
           /\ work'[a].at \notin {"idle", "done"} <=> work'[a].session # Null
           /\ session' \in {session, Null, work[a].session}
           /\ UNCHANGED <<tasks, buffer, options>>
<1>1. /\ work \in [Attempts -> Works] /\ work[a] \in Works /\ session \in Sessions \cup {Null}
      /\ a \in Underway <=> work[a].session # Null
  BY DEF TypeInv, TypeOK, Carried
<1>2. CASE Begin(a)
  <2>1. work' = [work EXCEPT ![a] = [work[a] EXCEPT !.at = IF session.user THEN "post" ELSE "clear",
                                                   !.session = session]]
    BY <1>1, <1>2 DEF Begin
  <2>2. session # Null /\ UNCHANGED <<tasks, buffer, options, session>>
    BY <1>2 DEF Begin
  <2>3. [work[a] EXCEPT !.at = IF session.user THEN "post" ELSE "clear", !.session = session] \in Works
    BY <1>1 DEF Works
  <2>4. work'[a].session = session /\ work'[a].at \notin {"idle", "done"}
    BY <1>1, <2>1 DEF Works
  <2> QED
    BY <1>1, <1>2, <2>1, <2>2, <2>3, <2>4
<1>3. ASSUME NEW label \in {"post", "clear", "log", "refresh"}, work[a].at \notin {"idle", "done"},
             work' = [work EXCEPT ![a].at = label] \/ work' = [work EXCEPT ![a].at = label, ![a].created = TRUE]
      PROVE  /\ work' \in [Attempts -> Works] /\ \A b \in Attempts \ {a} : work'[b] = work[b]
             /\ a \in Underway /\ work'[a].session = work[a].session
             /\ work'[a].at \notin {"idle", "done"} <=> work'[a].session # Null
  <2>1. \/ work' = [work EXCEPT ![a] = [work[a] EXCEPT !.at = label]]
        \/ work' = [work EXCEPT ![a] = [work[a] EXCEPT !.at = label, !.created = TRUE]]
    BY <1>1, <1>3
  <2>2. /\ [work[a] EXCEPT !.at = label] \in Works
        /\ [work[a] EXCEPT !.at = label, !.created = TRUE] \in Works
    BY <1>1 DEF Works
  <2>3. work'[a].session = work[a].session /\ work'[a].at = label /\ a \in Underway
    BY <1>1, <1>3, <2>1 DEF Works, Underway
  <2> QED
    BY <1>1, <2>1, <2>2, <2>3
<1>4. ASSUME work[a].at \notin {"idle", "done"}, work' = [work EXCEPT ![a] = Over(@)]
      PROVE  /\ work' \in [Attempts -> Works] /\ \A b \in Attempts \ {a} : work'[b] = work[b]
             /\ a \in Underway /\ work'[a].session = Null
             /\ work'[a].at \notin {"idle", "done"} <=> work'[a].session # Null
  <2>1. Over(work[a]) \in Works /\ Over(work[a]).session = Null /\ Over(work[a]).at = "done"
    BY <1>1 DEF Over, Works
  <2> QED
    BY <1>1, <1>4, <2>1 DEF Underway
<1>5. CASE Created(a) \/ CreationFails(a) \/ ClearSession(a)
  BY <1>3, <1>5 DEF Created, CreationFails, ClearSession, Goto
<1>6. CASE Record(a)
  BY <1>3, <1>4, <1>6 DEF Record, Goto
<1>7. CASE RefreshSession(a)
  BY <1>4, <1>7 DEF RefreshSession
<1> QED
  BY <1>2, <1>5, <1>6, <1>7 DEF Finish

LEMMA CrashStep ==
    ASSUME TypeInv, Crash
    PROVE  /\ work' \in [Attempts -> Works] /\ \A a \in Attempts : a \notin Underway'
           /\ \A a \in Attempts : work'[a].session = Null
           /\ tasks' = {} /\ UNCHANGED <<row, buffer, session, options, log, tickets, rivals>>
<1>1. ASSUME NEW a \in Attempts
      PROVE  work'[a] \in Works /\ work'[a].at \in {"idle", "done"} /\ work'[a].session = Null
  <2>1. work[a] \in Works /\ (a \in Underway <=> work[a].session # Null)
    BY DEF TypeInv, TypeOK, Carried
  <2>2. Over(work[a]) \in Works /\ Over(work[a]).at = "done" /\ Over(work[a]).session = Null
    BY <2>1 DEF Over, Works
  <2> QED
    BY <2>1, <2>2 DEF Crash, Underway
<1>2. work' = [a \in Attempts |-> work'[a]]
  BY DEF Crash
<1> QED
  BY <1>1, <1>2 DEF Crash, Underway

(* A session that may be recorded after a step could be before, but for   *)
(* that of a block that closes.                                            *)
LEMMA AliveStep ==
    ASSUME TypeInv, [Next]_vars, NEW s \in Alive'
    PROVE  \/ \E r \in Alive : Same(s, r)
           \/ \E answer \in Replies, user \in BOOLEAN : CloseBlock(answer, user) /\ s = session'
<1>1. \A r \in Alive : Same(r, r)
  BY DEF Same
<1>2. \A r \in Copies : r = Null \/ ~r.worker \/ r \in Alive
  BY DEF Alive
<1>3. s # Null /\ s.worker /\ (s = session' \/ \E a \in Attempts : s = work'[a].session)
  BY DEF Alive, Copies
<1>4. /\ session \in Copies /\ session \in Sessions \cup {Null} /\ \A a \in Attempts : work[a].session \in Copies
  BY DEF Copies, TypeInv, TypeOK
<1>5. CASE UNCHANGED work /\ session' \in {session, Null}
  BY <1>1, <1>2, <1>3, <1>4, <1>5
<1>6. ASSUME UNCHANGED work, session # Null, session' = [session EXCEPT !.step = "priority"]
      PROVE  \E r \in Alive : Same(s, r)
  <2>1. session'.worker = session.worker /\ Same(session', session)
    BY <1>4, <1>6 DEF Sessions, Same
  <2> QED
    BY <1>1, <1>2, <1>3, <1>4, <1>6, <2>1
<1>7. ASSUME NEW answer \in Replies, NEW user \in BOOLEAN, CloseBlock(answer, user)
      PROVE  s = session' \/ \E r \in Alive : Same(s, r)
  <2>1. UNCHANGED work
    BY <1>7 DEF CloseBlock, filing
  <2> QED
    BY <1>1, <1>2, <1>3, <1>4, <2>1
<1>8. ASSUME NEW a \in Attempts, Finish(a) PROVE \E r \in Alive : Same(s, r)
  <2>1. s \in {session, work[a].session} \cup {work[b].session : b \in Attempts}
    BY <1>3, <1>8, AttemptStep
  <2> QED
    BY <1>1, <1>2, <1>3, <1>4, <2>1
<1>9. CASE Crash
  BY <1>1, <1>2, <1>3, <1>4, <1>9, CrashStep
<1> QED
  BY <1>5, <1>6, <1>7, <1>8, <1>9
     DEF Next, Store, Process, ClientSearch, DiscardBlock, ChooseClient, filing, vars

(* What Log does to the rows and the log, of whichever session it is.      *)
LEMMA LogKeeps ==
    ASSUME TypeInv, NEW a \in Underway, NEW status \in {"created", "failed"}, Log(a, status)
    PROVE  /\ row' \in [Messages -> Rows \cup {Null}]
           /\ \A m \in Messages : /\ row'[m] = Null <=> row[m] = Null
                                  /\ row'[m] # Null => /\ row'[m].body = row[m].body
                                                       /\ row'[m].creation \in 0 .. Len(log')
           /\ log' \in Seq(Creations) /\ Len(log) <= Len(log') /\ Len(log) \in Nat
           /\ \A i \in 1 .. Len(log) : log'[i] = log[i]
<1> DEFINE s == work[a].session
           entry == [status |-> status, title |-> s.title, entities |-> EntitiesFrom(s),
                     ticket |-> IF status = "created" THEN a ELSE Null]
<1>1. /\ a \in Attempts /\ s # Null /\ s \in Sessions /\ s \in Copies
      /\ log \in Seq(Creations) /\ Len(log) \in Nat
      /\ row \in [Messages -> Rows \cup {Null}] /\ Null \notin Rows
  BY AliveAreSessions, ExtractionAssumption DEF TypeInv, TypeOK, Carried, Underway, Copies
<1>2. \A m \in Messages : row[m] # Null => row[m].body \in Text /\ row[m].creation \in 0 .. Len(log)
  BY RowFields
<1>3. CASE UNCHANGED <<log, row>>
  BY <1>1, <1>2, <1>3
<1>4. CASE s.worker /\ log' = Append(log, entry) /\ Link(s.wamids, Len(log) + 1)
  <2>1. entry \in Creations
    BY <1>1 DEF Creations, Sessions, EntitiesFrom
  <2> HIDE DEF entry
  <2>2. /\ log' \in Seq(Creations) /\ Len(log') = Len(log) + 1
        /\ \A i \in 1 .. Len(log) : log'[i] = log[i]
    BY <1>1, <1>4, <2>1
  <2>3. \A m \in Range(s.wamids) : row[m] # Null
    BY <1>1, <1>4 DEF TypeInv, Placed, Pending, InHand, Alive
  <2>4. ASSUME NEW m \in Messages
        PROVE  /\ row'[m] \in Rows \cup {Null}
               /\ row'[m] = Null <=> row[m] = Null
               /\ row'[m] # Null => /\ row'[m].body = row[m].body
                                    /\ row'[m].creation \in 0 .. Len(log')
    <3>1. CASE m \in Range(s.wamids)
      <4>1. row[m] \in Rows /\ row'[m] = [row[m] EXCEPT !.creation = Len(log) + 1]
        BY <1>1, <1>4, <2>3, <3>1 DEF Link
      <4>2. row'[m] \in Rows /\ row'[m].body = row[m].body /\ row'[m].creation = Len(log) + 1
        BY <1>1, <4>1 DEF Rows
      <4> QED
        BY <1>1, <2>2, <2>3, <3>1, <4>2
    <3>2. CASE m \notin Range(s.wamids)
      BY <1>1, <1>2, <1>4, <2>2, <3>2 DEF Link
    <3> QED
      BY <3>1, <3>2
  <2>5. row' = [m \in Messages |-> row'[m]]
    BY <1>4 DEF Link
  <2>6. row' \in [Messages -> Rows \cup {Null}]
    BY <2>4, <2>5
  <2> QED
    BY <1>1, <2>2, <2>4, <2>6
<1> QED
  BY <1>3, <1>4 DEF Log

(* The rows and the log, in a step of an attempt. *)
LEMMA AttemptKeeps ==
    ASSUME TypeInv, NEW a \in Attempts, Finish(a)
    PROVE  /\ row' \in [Messages -> Rows \cup {Null}]
           /\ \A m \in Messages : /\ row'[m] = Null <=> row[m] = Null
                                  /\ row'[m] # Null => /\ row'[m].body = row[m].body
                                                       /\ row'[m].creation \in 0 .. Len(log')
           /\ log' \in Seq(Creations) /\ Len(log) <= Len(log') /\ Len(log) \in Nat
           /\ \A i \in 1 .. Len(log) : log'[i] = log[i]
<1>1. CASE Record(a)
  <2>1. a \in Underway /\ \E status \in {"created", "failed"} : Log(a, status)
    BY <1>1 DEF Record, Underway
  <2> QED
    BY <2>1, LogKeeps
<1>2. CASE UNCHANGED <<row, log>>
  <2>1. Len(log) \in Nat /\ \A m \in Messages : row[m] # Null => row[m].creation \in 0 .. Len(log)
    BY RowFields DEF TypeInv, TypeOK
  <2> QED
    BY <1>2, <2>1 DEF TypeInv, TypeOK
<1> QED
  BY <1>1, <1>2 DEF Finish, Begin, Created, CreationFails, ClearSession, RefreshSession

(* Steps that only take messages away.                                     *)
LEMMA StaysPlaced ==
    ASSUME TypeInv, TypeOK', \A m \in Messages : row[m] # Null => row'[m] # Null,
           tasks' \subseteq tasks, buffer' \in {buffer, <<>>},
           \A s \in Alive' : \E r \in Alive : Same(s, r)
    PROVE  Placed'
<1>1. tasks' \subseteq tasks /\ Range(buffer)' \subseteq Range(buffer) /\ InHand' \subseteq InHand
  <2>1. \A s \in Alive' : Range(s.wamids) \subseteq InHand
    BY DEF InHand, Same
  <2> QED
    BY <2>1 DEF Range, InHand
<1>2. Pending' \subseteq Pending /\ Pending \subseteq Messages
  BY <1>1, PendingAreMessages DEF Pending, TypeInv
<1>3. IsInjective(buffer)'
  BY DEF TypeInv, Placed, IsInjective
<1>4. (\A s \in Alive : IsInjective(s.wamids))'
  BY DEF TypeInv, Placed, Same
<1> QED
  BY <1>1, <1>2, <1>3, <1>4 DEF TypeInv, Placed

LEMMA StoreType == ASSUME TypeInv, NEW m \in Messages, NEW body \in Bodies, Store(m, body) PROVE TypeInv'
<1>1. [body |-> body, creation |-> 0] \in Rows
  BY ExtractionAssumption DEF Rows
<1>2. /\ row' = [row EXCEPT ![m] = [body |-> body, creation |-> 0]] /\ tasks' = tasks \cup {m}
      /\ row[m] = Null /\ UNCHANGED <<buffer, session, options, work, log, tickets, rivals>>
  BY DEF Store, filing
<1>3. TypeOK'
  <2>1. row \in [Messages -> Rows \cup {Null}] /\ Len(log) \in Nat
    BY DEF TypeInv, TypeOK
  <2>2. row' \in [Messages -> Rows \cup {Null}] /\ row'[m] = [body |-> body, creation |-> 0]
    BY <1>1, <1>2, <2>1
  <2>3. \A n \in Messages : row'[n] # Null => row'[n].creation <= Len(log)
    <3>1. \A n \in Messages \ {m} : row'[n] = row[n]
      BY <1>2, <2>1
    <3> QED
      BY <2>1, <2>2, <3>1 DEF TypeInv, TypeOK
  <2> QED
    BY <1>2, <2>2, <2>3 DEF TypeInv, TypeOK
<1>4. Placed'
  <2>1. UNCHANGED <<Range(buffer), InHand, Alive>> /\ m \notin Pending
    BY <1>2 DEF InHand, Alive, Copies, TypeInv, Placed
  <2>2. \A n \in Pending' : row'[n] # Null
    <3>1. Pending' = Pending \cup {m} /\ Pending \subseteq Messages
      BY <1>2, <2>1, PendingAreMessages DEF Pending, TypeInv
    <3>2. row'[m] # Null /\ \A n \in Messages \ {m} : row'[n] = row[n]
      BY <1>1, <1>2, ExtractionAssumption DEF TypeInv, TypeOK
    <3> QED
      BY <2>1, <3>1, <3>2 DEF TypeInv, Placed
  <2> QED
    BY <1>2, <2>1, <2>2 DEF TypeInv, Placed, Pending
<1> QED
  BY <1>2, <1>3, <1>4 DEF TypeInv, Carried, Underway

LEMMA ProcessType == ASSUME TypeInv, NEW m \in Messages, Process(m) PROVE TypeInv'
<1>1. /\ m \in tasks /\ tasks' = tasks \ {m} /\ buffer' \in {buffer, Append(buffer, m)}
      /\ UNCHANGED <<row, session, options, work, log, tickets, rivals>>
  BY DEF Process, filing
<1>2. buffer \in Seq(Messages) /\ buffer' \in Seq(Messages)
  <2>1. buffer \in Seq(Messages)
    BY DEF TypeInv, TypeOK
  <2> QED
    BY <1>1, <2>1
<1>3. TypeOK' /\ Carried'
  BY <1>1, <1>2 DEF TypeInv, TypeOK, Carried, Underway
<1>4. CASE buffer' = buffer
  <2>1. UNCHANGED Alive /\ \A s \in Alive : Same(s, s)
    BY <1>1 DEF Alive, Copies, Same
  <2> QED
    BY <1>1, <1>3, <1>4, <2>1, StaysPlaced DEF TypeInv
<1>5. CASE buffer' = Append(buffer, m)
  <2>1. UNCHANGED <<InHand, Alive>> /\ m \notin Range(buffer) /\ m \notin InHand
    BY <1>1 DEF InHand, Alive, Copies, TypeInv, Placed
  <2>2. /\ Len(buffer) \in Nat /\ DOMAIN buffer = 1 .. Len(buffer)
        /\ DOMAIN buffer' = 1 .. Len(buffer) + 1 /\ buffer'[Len(buffer) + 1] = m
        /\ \A i \in 1 .. Len(buffer) : buffer'[i] = buffer[i] /\ buffer[i] # m
    BY <1>2, <1>5, <2>1 DEF Range
  <2>3. Range(buffer)' = Range(buffer) \cup {m}
    BY <2>2 DEF Range
  <2>4. IsInjective(buffer)'
    <3>1. ASSUME NEW i \in DOMAIN buffer', NEW j \in DOMAIN buffer', buffer'[i] = buffer'[j] PROVE i = j
      BY <2>2, <3>1 DEF TypeInv, Placed, IsInjective
    <3> QED
      BY <3>1 DEF IsInjective
  <2>5. Pending' = Pending
    BY <1>1, <2>1, <2>3 DEF Pending
  <2> QED
    BY <1>1, <1>3, <2>1, <2>3, <2>4, <2>5 DEF TypeInv, Placed
<1> QED
  BY <1>1, <1>4, <1>5

LEMMA CloseBlockType ==
    ASSUME TypeInv, NEW answer \in Replies, NEW user \in BOOLEAN, CloseBlock(answer, user)
    PROVE  TypeInv'
<1> DEFINE extracted == ExtractTitle(Block(buffer), answer)
<1>1. /\ buffer # <<>> /\ buffer' = <<>>
      /\ session' = [step |-> "client", title |-> extracted.title, entities |-> extracted.entities,
                     messages |-> Block(buffer), wamids |-> buffer, worker |-> TRUE, user |-> user,
                     answer |-> answer]
      /\ UNCHANGED <<row, tasks, options, work, log, tickets, rivals>>
  BY DEF CloseBlock, filing
<1>2. answer \in Answers \cup {Null} /\ Block(buffer) \in Seq(Text) /\ buffer \in Seq(Messages)
  BY ExtractionAssumption, BlockType DEF TypeInv, TypeOK
<1>3. extracted.title \in Text /\ extracted.entities \in Entities \cup {Null}
  BY <1>2, ExtractType
<1> HIDE DEF extracted
<1>4. session' \in Sessions /\ session'.wamids = buffer
  BY <1>1, <1>2, <1>3 DEF Sessions
<1>5. TypeOK' /\ Carried'
  BY <1>1, <1>2, <1>4 DEF TypeInv, TypeOK, Carried, Underway
<1>6. Alive' \subseteq Alive \cup {session'}
  BY <1>1 DEF Alive, Copies
<1>7. /\ Range(buffer)' = {} /\ InHand' \subseteq InHand \cup Range(buffer) /\ IsInjective(buffer)'
      /\ \A s \in Alive' : IsInjective(s.wamids)
  BY <1>1, <1>4, <1>6 DEF Range, InHand, IsInjective, TypeInv, Placed
<1>8. Pending' \subseteq Pending
  BY <1>1, <1>7 DEF Pending
<1>9. Placed'
  BY <1>1, <1>7, <1>8 DEF TypeInv, Placed
<1> QED
  BY <1>5, <1>9 DEF TypeInv

LEMMA OptionsFit ==
    ASSUME NEW found \in Nat \ {0}
    PROVE  LET titles == ClientOptions(found)
           IN  titles \in Seq({"client", NoClient}) /\ Len(titles) \in 2 .. 10 /\ Last(titles) = NoClient
<1> DEFINE n == Min({found, MaxClientMatches})
           titles == ClientOptions(found)
<1>1. n \in 1 .. 9
  <2>1. {found, 9} \in SUBSET Nat /\ {found, 9} # {}
    OBVIOUS
  <2>2. n \in {found, 9} /\ n <= found /\ n <= 9
    BY <2>1, MinIsIn DEF MaxClientMatches
  <2> QED
    BY <2>2
<1>2. titles = Append([i \in 1 .. n |-> "client"], NoClient)
  BY DEF ClientOptions
<1> HIDE DEF n, titles
<1>3. ASSUME NEW S, NEW a \in S, NEW b \in S
      PROVE  LET s == Append([i \in 1 .. n |-> a], b)
             IN  s \in Seq(S) /\ Len(s) = n + 1 /\ s[n + 1] = b
  <2>1. [i \in 1 .. n |-> a] \in Seq(S) /\ Len([i \in 1 .. n |-> a]) = n
    BY <1>1
  <2> QED
    BY <1>1, <2>1
<1>4. titles \in Seq({"client", NoClient}) /\ Len(titles) = n + 1 /\ titles[n + 1] = NoClient
  <2>1. "client" \in {"client", NoClient} /\ NoClient \in {"client", NoClient}
    OBVIOUS
  <2> QED
    BY <1>2, <1>3, <2>1
<1> QED
  BY <1>1, <1>4 DEF Last, titles

(* The options are either those of before or those of a search that fit.   *)
LEMMA SearchOffers ==
    ASSUME NEW m \in Messages, NEW found \in Matches, ClientSearch(m, found)
    PROVE  \/ UNCHANGED options
           \/ /\ options'.kind \in {"buttons", "list"} /\ options'.titles \in Seq({"client", NoClient})
              /\ options' = [kind |-> options'.kind, titles |-> options'.titles]
              /\ Last(options'.titles) = NoClient
<1> DEFINE titles == ClientOptions(found)
<1>1. SUFFICES ASSUME found > 0, options' = IF Len(titles) <= 3 THEN SendButtons(titles) ELSE SendList(titles)
               PROVE  /\ options'.kind \in {"buttons", "list"} /\ options'.titles \in Seq({"client", NoClient})
                      /\ options' = [kind |-> options'.kind, titles |-> options'.titles]
                      /\ Last(options'.titles) = NoClient
  BY DEF ClientSearch
<1>2. titles \in Seq({"client", NoClient}) /\ Len(titles) \in 2 .. 10 /\ Last(titles) = NoClient
  BY <1>1, OptionsFit, ExtractionAssumption
<1> HIDE DEF titles
<1>3. ASSUME NEW n \in 2 .. 10, Len(titles) = n
      PROVE  options'.kind \in {"buttons", "list"} /\ options' = [kind |-> options'.kind, titles |-> titles]
  <2>1. n <= 3 => options' = SendButtons(titles) /\ n \in 1 .. 3
    BY <1>1, <1>3
  <2>2. n > 3 => options' = SendList(titles) /\ n \in 1 .. 10
    BY <1>1, <1>3
  <2> QED
    BY <1>3, <2>1, <2>2 DEF SendButtons, SendList
<1> QED
  BY <1>2, <1>3
LEMMA SearchType ==
    ASSUME TypeInv, NEW m \in Messages, NEW found \in Matches, ClientSearch(m, found)
    PROVE  TypeInv'
<1>1. /\ tasks' \subseteq tasks /\ session \in Sessions /\ session' \in {session, [session EXCEPT !.step = "priority"]}
      /\ UNCHANGED <<row, buffer, work, log, tickets, rivals>>
  BY DEF ClientSearch, TypeInv, TypeOK, filing
<1>2. session' \in Sessions
  BY <1>1 DEF Sessions
<1>3. options' \in [kind : {"none", "buttons", "list", "ValueError"}, titles : Seq({"client", NoClient})]
  <2>1. CASE UNCHANGED options
    BY <2>1 DEF TypeInv, TypeOK
  <2>2. CASE /\ options'.kind \in {"buttons", "list"} /\ options'.titles \in Seq({"client", NoClient})
             /\ options' = [kind |-> options'.kind, titles |-> options'.titles]
    BY <2>2
  <2> QED
    BY <2>1, <2>2, SearchOffers
<1>4. TypeOK' /\ Carried'
  BY <1>1, <1>2, <1>3 DEF TypeInv, TypeOK, Carried, Underway
<1>5. \A s \in Alive' : \E r \in Alive : Same(s, r)
  <2>1. ~ \E answer \in Replies, user \in BOOLEAN : CloseBlock(answer, user)
    BY <1>1 DEF CloseBlock
  <2>2. Next
    BY DEF Next
  <2> QED
    BY <2>1, <2>2, AliveStep
<1>6. Placed'
  BY <1>1, <1>4, <1>5, StaysPlaced
<1> QED
  BY <1>4, <1>6 DEF TypeInv

LEMMA ChooseType == ASSUME TypeInv, ChooseClient PROVE TypeInv'
<1>1. /\ session \in Sessions /\ session' = [session EXCEPT !.step = "priority"]
      /\ UNCHANGED <<row, tasks, buffer, options, work, log, tickets, rivals>>
  BY DEF ChooseClient, TypeInv, TypeOK, filing
<1>2. session' \in Sessions
  BY <1>1 DEF Sessions
<1>3. TypeOK' /\ Carried'
  BY <1>1, <1>2 DEF TypeInv, TypeOK, Carried, Underway
<1>4. \A s \in Alive' : \E r \in Alive : Same(s, r)
  <2>1. ~ \E answer \in Replies, user \in BOOLEAN : CloseBlock(answer, user)
    BY <1>1 DEF CloseBlock
  <2>2. Next
    BY DEF Next
  <2> QED
    BY <2>1, <2>2, AliveStep
<1>5. Placed'
  BY <1>1, <1>3, <1>4, StaysPlaced
<1> QED
  BY <1>3, <1>5 DEF TypeInv

LEMMA FinishType == ASSUME TypeInv, NEW a \in Attempts, Finish(a) PROVE TypeInv'
<1>1. /\ row' \in [Messages -> Rows \cup {Null}]
      /\ \A m \in Messages : /\ row'[m] = Null <=> row[m] = Null
                             /\ row'[m] # Null => row'[m].creation \in 0 .. Len(log')
      /\ log' \in Seq(Creations)
  BY AttemptKeeps
<1>2. /\ work' \in [Attempts -> Works] /\ \A b \in Attempts \ {a} : work'[b] = work[b]
      /\ work'[a].at \notin {"idle", "done"} <=> work'[a].session # Null
      /\ session' \in {session, Null, work[a].session}
      /\ UNCHANGED <<tasks, buffer, options>>
  BY AttemptStep
<1>3. rivals' \subseteq Attempts
  <2>1. CASE Begin(a)
    BY <2>1 DEF Begin, Underway, TypeInv, TypeOK
  <2>2. CASE UNCHANGED rivals
    BY <2>2 DEF TypeInv, TypeOK
  <2> QED
    BY <2>1, <2>2 DEF Finish, Created, CreationFails, ClearSession, Record, RefreshSession
<1>4. \A t \in tickets' : t.id \in Attempts /\ t.title \in Text
  <2>1. CASE Created(a) \/ CreationFails(a)
    <3>1. a \in Underway
      BY <2>1 DEF Created, CreationFails, Underway
    <3>2. work[a].session \in Sessions
      BY <3>1, AliveAreSessions DEF TypeInv, Carried
    <3>3. Ticket(a).id = a /\ Ticket(a).title \in Text
      BY <3>2 DEF Ticket, Sessions
    <3> QED
      BY <2>1, <3>3 DEF Created, CreationFails, TypeInv, TypeOK
  <2>2. CASE UNCHANGED tickets
    BY <2>2 DEF TypeInv, TypeOK
  <2> QED
    BY <2>1, <2>2 DEF Finish, Begin, ClearSession, Record, RefreshSession
<1>5. TypeOK'
  <2>1. session' \in Sessions \cup {Null}
    BY <1>2, AliveAreSessions DEF TypeInv, TypeOK
  <2>2. \A m \in Messages : row'[m] # Null => row'[m].creation <= Len(log')
    BY <1>1
  <2> QED
    BY <1>1, <1>2, <1>3, <1>4, <2>1, <2>2 DEF TypeInv, TypeOK
<1>6. Carried'
  BY <1>2 DEF TypeInv, Carried, Underway
<1>7. \A s \in Alive' : \E r \in Alive : Same(s, r)
  <2>1. ~ \E answer \in Replies, user \in BOOLEAN : CloseBlock(answer, user)
    BY <1>2 DEF CloseBlock
  <2>2. Next
    BY DEF Next
  <2> QED
    BY <2>1, <2>2, AliveStep
<1>8. Placed'
  BY <1>1, <1>2, <1>5, <1>7, StaysPlaced
<1> QED
  BY <1>5, <1>6, <1>8 DEF TypeInv

(* A step that adds no message and closes no block. *)
LEMMA ShrinkType ==
    ASSUME TypeInv, UNCHANGED <<row, session, options, log, tickets, rivals>>,
           tasks' \subseteq tasks, buffer' \in {buffer, <<>>}, Crash \/ UNCHANGED work
    PROVE  TypeInv'
<1>1. /\ work' \in [Attempts -> Works] /\ Carried'
      /\ \A a \in Attempts : work'[a].session \in {work[a].session, Null}
  <2>1. CASE Crash
    BY <2>1, CrashStep DEF Carried
  <2>2. CASE UNCHANGED work
    BY <2>2 DEF TypeInv, TypeOK, Carried, Underway
  <2> QED
    BY <2>1, <2>2
<1>2. TypeOK'
  <2>1. <<>> \in Seq(Messages)
    OBVIOUS
  <2> QED
    BY <1>1, <2>1 DEF TypeInv, TypeOK
<1>3. Alive' \subseteq Alive /\ \A s \in Alive : Same(s, s)
  BY <1>1 DEF Alive, Copies, Same
<1> QED
  BY <1>1, <1>2, <1>3, StaysPlaced DEF TypeInv

LEMMA TypeStep == ASSUME TypeInv, [Next]_vars PROVE TypeInv'
<1>1. CASE UNCHANGED vars
  BY <1>1, ShrinkType DEF vars
<1>2. CASE DiscardBlock
  BY <1>2, ShrinkType DEF DiscardBlock, filing
<1>3. CASE Crash
  BY <1>3, ShrinkType DEF Crash
<1> QED
  BY <1>1, <1>2, <1>3, StoreType, ProcessType, SearchType, CloseBlockType, ChooseType, FinishType DEF Next

LEMMA InitType == Init => TypeInv
<1>1. SUFFICES ASSUME Init PROVE TypeInv
  OBVIOUS
<1>2. session \in Sessions \cup {Null} /\ (session # Null => ~session.worker)
  BY <1>1, ExtractionAssumption DEF Init
<1>3. /\ work \in [Attempts -> Works]
      /\ \A a \in Attempts : work[a].session = Null /\ work[a].at = "idle"
  BY <1>1 DEF Init, Works
<1>4. TypeOK
  <2>1. options \in [kind : {"none", "buttons", "list", "ValueError"}, titles : Seq({"client", NoClient})]
    BY <1>1 DEF Init, NoOptions
  <2>2. /\ row \in [Messages -> Rows \cup {Null}] /\ \A m \in Messages : row[m] = Null
        /\ tasks = {} /\ buffer \in Seq(Messages) /\ log \in Seq(Creations) /\ tickets = {} /\ rivals = {}
    BY <1>1 DEF Init
  <2> QED
    BY <1>2, <1>3, <2>1, <2>2 DEF TypeOK
<1>5. Carried
  BY <1>3 DEF Carried, Underway
<1>6. Alive = {}
  BY <1>2, <1>3 DEF Alive, Copies
<1>7. Placed
  BY <1>1, <1>6 DEF Init, Placed, Pending, InHand, Range, IsInjective
<1> QED
  BY <1>4, <1>5, <1>7 DEF TypeInv

LEMMA TypeInvariant == Spec => []TypeInv
<1>1. TypeInv /\ [Next]_vars => TypeInv'
  BY TypeStep
<1> QED
  BY <1>1, InitType, PTL DEF Spec

(* Every variable keeps its type, the title and the entities of a session   *)
(* included: whatever the LLM answers, extract_title returns a title that   *)
(* is a text and entities that are texts or missing.                       *)
THEOREM TypeCorrect == Spec => []TypeOK
BY TypeInvariant, PTL DEF TypeInv

(* For a search with any number of matches, what is sent is within Meta's   *)
(* limits and ends with the way out.                                       *)
THEOREM OptionsAreOffered == Spec => []Offered
<1>1. Init => Offered
  BY DEF Init, Offered, NoOptions
<1>2. Offered /\ [Next]_vars => Offered'
  <2>1. SUFFICES ASSUME Offered, [Next]_vars PROVE Offered'
    OBVIOUS
  <2>2. CASE UNCHANGED options
    BY <2>1, <2>2 DEF Offered
  <2>3. ASSUME NEW m \in Messages, NEW found \in Matches, ClientSearch(m, found) PROVE Offered'
    BY <2>2, <2>3, SearchOffers DEF Offered
  <2> QED
    BY <2>1, <2>2, <2>3 DEF Next, Store, Process, CloseBlock, DiscardBlock, ChooseClient, Crash,
       Finish, Begin, Created, CreationFails, ClearSession, Record, RefreshSession, vars
<1> QED
  BY <1>1, <1>2, PTL DEF Spec

-----------------------------------------------------------------------------
(* No message of an open block is blank, and what a step keeps of a session *)
(* it keeps of its title, in Redis and in the hands of an attempt.         *)
Written == \A m \in Range(buffer) : ~Blank(row[m].body)

TitledIn(s) ==
    LET t == s.title
        raw == Join(s.messages)
    IN  /\ ~Blank(t)
        /\ Usable(s.answer) => IsIn(t, s.answer.title)
        /\ ~Usable(s.answer) /\ t # raw =>
              /\ Last(t) = "..." /\ Len(t) <= TitleLength + 1 /\ Len(raw) > TitleLength
              /\ IsPrefix(Front(t), raw) /\ Last(Front(t)) \notin Whitespace

LEMMA WrittenTexts ==
    ASSUME TypeInv, Written, buffer # <<>>
    PROVE  Join(Block(buffer)) \in Trimmed
<1>1. /\ buffer \in Seq(Messages) /\ Len(buffer) \in Nat /\ DOMAIN buffer = 1 .. Len(buffer)
      /\ \A i \in 1 .. Len(buffer) : buffer[i] \in Messages /\ buffer[i] \in Range(buffer)
  BY DEF TypeInv, TypeOK, Range
<1>2. \A i \in 1 .. Len(buffer) : Body(buffer[i]) \in Trimmed
  <2>1. ASSUME NEW i \in 1 .. Len(buffer) PROVE Body(buffer[i]) \in Trimmed
    <3>1. row[buffer[i]].body \in Text /\ ~Blank(row[buffer[i]].body)
      BY <1>1, RowFields DEF TypeInv, Placed, Pending, Written
    <3> QED
      BY <3>1, StripTrims DEF Body
  <2> QED
    BY <2>1
<1>3. Block(buffer) \in Seq(Trimmed) /\ Block(buffer) # <<>>
  BY <1>1, <1>2 DEF Block
<1> QED
  BY <1>3, JoinTrimmed

LEMMA TitledBlock ==
    ASSUME TypeInv, Written, NEW answer \in Replies, NEW user \in BOOLEAN, CloseBlock(answer, user)
    PROVE  TitledIn(session')
<1> DEFINE raw == Join(Block(buffer))
           t == ExtractTitle(Block(buffer), answer).title
<1>1. buffer # <<>> /\ raw \in Trimmed /\ answer \in Answers \cup {Null}
  BY WrittenTexts, ExtractionAssumption DEF CloseBlock
<1>2. session'.answer = answer /\ session'.title = t /\ Join(session'.messages) = raw
  BY DEF CloseBlock
<1>3. Usable(answer) => ~Blank(t) /\ IsIn(t, answer.title)
  <2>1. SUFFICES ASSUME Usable(answer) PROVE ~Blank(t) /\ IsIn(t, answer.title)
    OBVIOUS
  <2>2. answer.title \in Text /\ ~Blank(answer.title) /\ t = Strip(answer.title)
    BY <1>1, <2>1 DEF Usable, IsString, Answers, ExtractTitle
  <2> HIDE DEF t
  <2> QED
    BY <2>2, StripTrims, TrimmedIsStripped
<1>4. ~Usable(answer) => t = FallbackTitle(raw)
  BY DEF ExtractTitle
<1> HIDE DEF t, raw
<1>5. ~Usable(answer) =>
        /\ ~Blank(t)
        /\ t # raw => /\ Last(t) = "..." /\ Len(t) <= TitleLength + 1 /\ Len(raw) > TitleLength
                      /\ IsPrefix(Front(t), raw) /\ Last(Front(t)) \notin Whitespace
  BY <1>1, <1>4, FallbackIsShort
<1> QED
  BY <1>2, <1>3, <1>5 DEF TitledIn
LEMMA WrittenStep == ASSUME TypeInv, Written, [Next]_vars PROVE Written'
<1>1. CASE UNCHANGED <<row, buffer>>
  BY <1>1 DEF Written, Range
<1>2. CASE buffer' = <<>>
  BY <1>2 DEF Written, Range
<1>3. ASSUME NEW m \in Messages, NEW body \in Bodies, Store(m, body) PROVE Written'
  <2>1. /\ row' = [row EXCEPT ![m] = [body |-> body, creation |-> 0]] /\ row[m] = Null
        /\ row \in [Messages -> Rows \cup {Null}] /\ UNCHANGED buffer
    BY <1>3 DEF Store, TypeInv, TypeOK
  <2>2. m \notin Range(buffer) /\ Range(buffer) \subseteq Messages
    BY <2>1, PendingAreMessages DEF TypeInv, Placed, Pending
  <2>3. \A n \in Range(buffer) : row'[n] = row[n]
    BY <2>1, <2>2
  <2> QED
    BY <2>1, <2>3 DEF Written, Range
<1>4. ASSUME NEW m \in Messages, Process(m) PROVE Written'
  <2>1. CASE ~Blank(row[m].body) /\ buffer' = Append(buffer, m) /\ UNCHANGED row
    <3>1. buffer \in Seq(Messages)
      BY DEF TypeInv, TypeOK
    <3>2. \A n \in Range(buffer)' : n \in Range(buffer) \/ n = m
      BY <2>1, <3>1 DEF Range
    <3> QED
      BY <2>1, <3>2 DEF Written
  <2> QED
    BY <1>1, <1>4, <2>1 DEF Process
<1>5. ASSUME NEW a \in Attempts, Finish(a) PROVE Written'
  <2>1. \A m \in Range(buffer) : row'[m] # Null /\ row'[m].body = row[m].body
    BY <1>5, AttemptKeeps, PendingAreMessages DEF TypeInv, Placed, Pending
  <2>2. UNCHANGED buffer
    BY <1>5, AttemptStep
  <2> QED
    BY <2>1, <2>2 DEF Written, Range
<1> QED
  BY <1>1, <1>2, <1>3, <1>4, <1>5
     DEF Next, ClientSearch, CloseBlock, DiscardBlock, ChooseClient, Crash, vars

LEMMA TitledStep ==
    ASSUME TypeInv, Written, \A s \in Alive : TitledIn(s), [Next]_vars
    PROVE  \A s \in Alive' : TitledIn(s)
<1>1. ASSUME NEW s \in Alive' PROVE TitledIn(s)
  <2>1. ASSUME NEW r \in Alive, Same(s, r) PROVE TitledIn(s)
    BY <2>1 DEF Same, TitledIn
  <2> QED
    BY <1>1, <2>1, AliveStep, TitledBlock
<1> QED
  BY <1>1

(* Whatever the LLM answers, or fails to, every block has a title: its own, *)
(* or the beginning of the block, cut after ink.                           *)
THEOREM BlocksAreTitled == Spec => []Titled
<1> DEFINE Inv == Written /\ \A s \in Alive : TitledIn(s)
<1>1. Init => Inv
  <2>1. SUFFICES ASSUME Init PROVE Written /\ Alive = {}
    OBVIOUS
  <2> QED
    BY <2>1, ExtractionAssumption DEF Init, Written, Alive, Copies, Range
<1>2. TypeInv /\ Inv /\ [Next]_vars => Inv'
  BY WrittenStep, TitledStep
<1>3. Inv => Titled
  BY DEF Titled, TitledIn, Current, Alive, Copies
<1> HIDE DEF Inv
<1> QED
  BY <1>1, <1>2, <1>3, TypeInvariant, PTL DEF Spec

-----------------------------------------------------------------------------
(* Reconstructible.  Every copy of a session keeps the texts of the rows it *)
(* names (Kept).  An attempt has no ticket and no row before it posts       *)
(* (Fresh), later no ticket but its own (Own); while it is no rival it is   *)
(* the only one under way (Alone), and once it has cleared the session no   *)
(* other session names its messages (Cleared).  So what is linked to the    *)
(* row of such an attempt's ticket is not linked again (Unfiled).           *)
Kept == \A s \in Alive : s.messages = Block(s.wamids)

Fresh ==
    \A a \in Attempts : work[a].at \in {"idle", "post"} =>
      /\ ~work[a].created
      /\ \A t \in tickets : t.id # a
      /\ \A n \in DOMAIN log : log[n].ticket # a
Own == \A a \in Underway : \A t \in tickets : t.id = a => t = Ticket(a)
Alone == \A a \in Underway \ rivals : Underway = {a}
Cleared ==
    \A a \in Underway \ rivals :
      work[a].at = "log" /\ work[a].created /\ Current /\ work[a].session.worker =>
        Range(session.wamids) \cap Range(work[a].session.wamids) = {}

Linked(n) == {m \in Messages : row[m] # Null /\ row[m].creation = n}
Unfiled == \A n \in DOMAIN log : log[n].ticket \notin rivals \cup {Null} => Linked(n) \cap Pending = {}

Discipline == Fresh /\ Own /\ Alone /\ Cleared
RecInv == Kept /\ Discipline /\ Unfiled /\ Reconstructible

LEMMA OrderOfRange ==
    ASSUME NEW S, NEW s \in Seq(S), IsInjective(s)
    PROVE  s \in SetToSeqs(Range(s))
<1>1. Len(s) \in Nat /\ DOMAIN s = 1 .. Len(s) /\ s \in [1 .. Len(s) -> Range(s)]
  BY DEF Range
<1>2. s \in Bijection(1 .. Len(s), Range(s))
  BY <1>1 DEF Bijection, Injection, Surjection, Range
<1>3. Cardinality(Range(s)) = Len(s)
  <2>1. IsFiniteSet(1 .. Len(s)) /\ Cardinality(1 .. Len(s)) = Len(s)
    BY <1>1, FS_Interval
  <2> QED
    BY <1>2, <2>1, FS_Bijection DEF ExistsBijection
<1>4. \A i, j \in 1 .. Len(s) : i # j => s[i] # s[j]
  BY <1>1 DEF IsInjective
<1> QED
  BY <1>1, <1>3, <1>4 DEF SetToSeqs

(* Tickets filed before stay as they are: their rows keep body and link.    *)
(* No step changes what a row says, nor a row of the log. *)
LEMMA BodiesStay ==
    ASSUME TypeInv, [Next]_vars
    PROVE  /\ \A m \in Messages : row[m] # Null => row'[m] # Null /\ row'[m].body = row[m].body
           /\ Len(log) \in Nat /\ Len(log) <= Len(log') /\ DOMAIN log = 1 .. Len(log)
           /\ \A i \in 1 .. Len(log) : log'[i] = log[i]
<1>1. Len(log) \in Nat /\ DOMAIN log = 1 .. Len(log)
  BY DEF TypeInv, TypeOK
<1>2. ASSUME NEW m \in Messages, NEW body \in Bodies, Store(m, body)
      PROVE  UNCHANGED log /\ \A n \in Messages : row[n] # Null => row'[n] = row[n]
  BY <1>2 DEF Store, filing, TypeInv, TypeOK
<1>3. CASE UNCHANGED <<row, log>>
  BY <1>1, <1>3
<1>4. ASSUME NEW a \in Attempts, Finish(a)
      PROVE  /\ \A m \in Messages : row[m] # Null => row'[m] # Null /\ row'[m].body = row[m].body
             /\ Len(log) <= Len(log') /\ \A i \in 1 .. Len(log) : log'[i] = log[i]
  BY <1>4, AttemptKeeps
<1> QED
  BY <1>1, <1>2, <1>3, <1>4
     DEF Next, Process, ClientSearch, CloseBlock, DiscardBlock, ChooseClient, Crash, filing, vars

(* From where to where an attempt goes. *)
LEMMA AttemptMoves ==
    ASSUME TypeInv, NEW a \in Attempts, Finish(a)
    PROVE  /\ work'[a].at # "idle" /\ (work'[a].at = "post" => Begin(a))
           /\ work'[a].at = "log" => ClearSession(a) \/ CreationFails(a)
<1> DEFINE w == work[a]
<1>1. work \in [Attempts -> Works] /\ w \in Works
  BY DEF TypeInv, TypeOK
<1>2. ASSUME NEW v, work' = [work EXCEPT ![a] = v] PROVE work'[a] = v
  BY <1>1, <1>2
<1>3. ASSUME NEW label, NEW s, NEW c
      PROVE  /\ [w EXCEPT !.at = label, !.session = s].at = label
             /\ [w EXCEPT !.at = label, !.created = c].at = label
             /\ [w EXCEPT !.at = label].at = label
             /\ Over(w).at = "done"
  BY <1>1 DEF Works, Over
<1>4. CASE Begin(a)
  <2> DEFINE label == IF session.user THEN "post" ELSE "clear"
             v == [w EXCEPT !.at = label, !.session = session]
  <2>1. work' = [work EXCEPT ![a] = v]
    BY <1>1, <1>4 DEF Begin
  <2>2. v.at = label /\ label \in {"post", "clear"}
    BY <1>3
  <2> HIDE DEF v
  <2>3. work'[a] = v
    BY <1>2, <2>1
  <2> QED
    BY <1>4, <2>2, <2>3
<1>5. CASE Created(a)
  <2> DEFINE v == [w EXCEPT !.at = "clear", !.created = TRUE]
  <2>1. work' = [work EXCEPT ![a] = v]
    BY <1>1, <1>5 DEF Created
  <2>2. v.at = "clear"
    BY <1>3
  <2> HIDE DEF v
  <2>3. work'[a] = v
    BY <1>2, <2>1
  <2> QED
    BY <2>2, <2>3
<1>6. ASSUME NEW label, Goto(a, label) PROVE work'[a].at = label
  <2>1. work' = [work EXCEPT ![a] = [w EXCEPT !.at = label]]
    BY <1>1, <1>6 DEF Goto
  <2> QED
    BY <1>2, <1>3, <2>1
<1>7. ASSUME work' = [work EXCEPT ![a] = Over(@)] PROVE work'[a].at = "done"
  BY <1>2, <1>3, <1>7
<1>8. CASE CreationFails(a) \/ ClearSession(a)
  <2>1. work'[a].at = "log"
    BY <1>6, <1>8 DEF CreationFails, ClearSession
  <2> QED
    BY <1>8, <2>1
<1>9. CASE Record(a) \/ RefreshSession(a)
  <2>1. work'[a].at \in {"refresh", "done"}
    BY <1>6, <1>7, <1>9 DEF Record, RefreshSession
  <2> QED
    BY <2>1
<1> QED
  BY <1>4, <1>5, <1>8, <1>9 DEF Finish

(* Only Created marks an attempt. *)
LEMMA AttemptMarks ==
    ASSUME TypeInv, NEW a \in Attempts, Finish(a), ~Created(a)
    PROVE  work'[a].created = work[a].created
<1>1. work \in [Attempts -> Works] /\ DOMAIN work[a] = {"at", "session", "created"}
  BY DEF TypeInv, TypeOK, Works
<1>2. \E v : work' = [work EXCEPT ![a] = v] /\ v.created = work[a].created
  <2>1. CASE Begin(a)
    <3> DEFINE v == [work[a] EXCEPT !.at = IF session.user THEN "post" ELSE "clear", !.session = session]
    <3>1. work' = [work EXCEPT ![a] = v]
      BY <1>1, <2>1 DEF Begin
    <3>2. v.created = work[a].created
      BY <1>1
    <3> QED
      BY <3>1, <3>2
  <2>2. ASSUME NEW label, Goto(a, label) PROVE \E v : work' = [work EXCEPT ![a] = v] /\ v.created = work[a].created
    <3> DEFINE v == [work[a] EXCEPT !.at = label]
    <3>1. work' = [work EXCEPT ![a] = v]
      BY <1>1, <2>2 DEF Goto
    <3>2. v.created = work[a].created
      BY <1>1
    <3> QED
      BY <3>1, <3>2
  <2>3. ASSUME work' = [work EXCEPT ![a] = Over(@)]
        PROVE  \E v : work' = [work EXCEPT ![a] = v] /\ v.created = work[a].created
    <3>1. work' = [work EXCEPT ![a] = Over(work[a])]
      BY <1>1, <2>3
    <3>2. Over(work[a]).created = work[a].created
      BY <1>1 DEF Over
    <3> QED
      BY <3>1, <3>2
  <2> QED
    BY <2>1, <2>2, <2>3 DEF Finish, CreationFails, ClearSession, Record, RefreshSession
<1> QED
  BY <1>1, <1>2

(* What an attempt does to the tickets and to the log. *)
LEMMA AttemptFiles ==
    ASSUME TypeInv, NEW a \in Attempts, Finish(a)
    PROVE  /\ \/ UNCHANGED tickets
              \/ work[a].at = "post" /\ tickets' = tickets \cup {Ticket(a)} /\ UNCHANGED <<row, log, rivals>>
           /\ \/ UNCHANGED <<row, log>>
              \/ /\ Record(a) /\ work[a].session.worker /\ Link(work[a].session.wamids, Len(log) + 1)
                 /\ DOMAIN log' = 1 .. Len(log) + 1
                 /\ log'[Len(log) + 1].entities = EntitiesFrom(work[a].session)
                 /\ log'[Len(log) + 1].ticket = IF work[a].created THEN a ELSE Null
           /\ rivals \subseteq rivals' /\ (Begin(a) \/ UNCHANGED rivals)
<1>1. CASE Begin(a) \/ Created(a) \/ CreationFails(a) \/ ClearSession(a) \/ RefreshSession(a)
  BY <1>1 DEF Begin, Created, CreationFails, ClearSession, RefreshSession
<1>2. CASE Record(a)
  <2>1. UNCHANGED <<tickets, rivals>> /\ Len(log) \in Nat /\ log \in Seq(Creations)
    BY <1>2 DEF Record, TypeInv, TypeOK
  <2>2. PICK status \in {"created", "failed"} :
          Log(a, status) /\ (status = "created" <=> work[a].created)
    BY <1>2 DEF Record
  <2>3. CASE UNCHANGED <<row, log>>
    BY <2>1, <2>3
  <2>4. ASSUME NEW entry, entry.entities = EntitiesFrom(work[a].session),
               entry.ticket = IF status = "created" THEN a ELSE Null, log' = Append(log, entry)
        PROVE  /\ DOMAIN log' = 1 .. Len(log) + 1
               /\ log'[Len(log) + 1].entities = EntitiesFrom(work[a].session)
               /\ log'[Len(log) + 1].ticket = IF work[a].created THEN a ELSE Null
    <3>1. DOMAIN log' = 1 .. Len(log) + 1 /\ log'[Len(log) + 1] = entry
      BY <2>1, <2>4
    <3>2. (IF status = "created" THEN a ELSE Null) = IF work[a].created THEN a ELSE Null
      BY <2>2
    <3> QED
      BY <2>4, <3>1, <3>2
  <2> QED
    BY <1>2, <2>1, <2>2, <2>3, <2>4 DEF Log
<1> QED
  BY <1>1, <1>2 DEF Finish

LEMMA CrashEnds ==
    ASSUME TypeInv, Crash
    PROVE  \A a \in Attempts : work'[a].at \in {"idle", "post"} => work'[a] = work[a]
<1>1. ASSUME NEW a \in Attempts PROVE Over(work[a]).at = "done"
  BY DEF Over, TypeInv, TypeOK, Works
<1> QED
  BY <1>1 DEF Crash

LEMMA FreshStep == ASSUME TypeInv, Fresh, [Next]_vars PROVE Fresh'
<1>1. CASE UNCHANGED <<work, tickets, log>>
  BY <1>1 DEF Fresh
<1>2. CASE Crash
  BY <1>2, CrashEnds, CrashStep DEF Fresh
<1>3. ASSUME NEW a \in Attempts, Finish(a), NEW b \in Attempts, work'[b].at \in {"idle", "post"}
      PROVE  /\ ~work'[b].created
             /\ \A t \in tickets' : t.id # b
             /\ \A n \in DOMAIN log' : log'[n].ticket # b
  <2>1. CASE b = a
    <3>1. Begin(a) /\ work[a].at = "idle" /\ ~Created(a)
      BY <1>3, <2>1, AttemptMoves DEF Begin, Created
    <3>2. work'[a].created = work[a].created
      BY <1>3, <3>1, AttemptMarks
    <3> QED
      BY <2>1, <3>1, <3>2 DEF Begin, Fresh
  <2>2. CASE b # a
    <3>1. work'[b] = work[b] /\ ~work[b].created
      BY <1>3, <2>2, AttemptStep DEF Fresh
    <3>2. \A t \in tickets : t.id # b
      BY <1>3, <3>1 DEF Fresh
    <3>3. Ticket(a).id # b /\ Null # b
      BY <2>2, ExtractionAssumption DEF Ticket
    <3>4. \A t \in tickets' : t.id # b
      BY <1>3, <3>2, <3>3, AttemptFiles
    <3>5. ASSUME NEW n \in DOMAIN log' PROVE log'[n].ticket # b
      <4>1. CASE n \in DOMAIN log
        BY <1>3, <3>1, <4>1, BodiesStay DEF Fresh
      <4>2. CASE n \notin DOMAIN log
        <5>1. n = Len(log) + 1 /\ log'[n].ticket \in {a, Null}
          BY <1>3, <3>5, <4>2, AttemptFiles, BodiesStay
        <5> QED
          BY <2>2, <3>3, <5>1
      <4> QED
        BY <4>1, <4>2
    <3> QED
      BY <3>1, <3>4, <3>5
  <2> QED
    BY <2>1, <2>2
<1> QED
  BY <1>1, <1>2, <1>3
     DEF Fresh, Next, Store, Process, ClientSearch, CloseBlock, DiscardBlock, ChooseClient, filing, vars

LEMMA OwnStep == ASSUME TypeInv, Fresh, Own, [Next]_vars PROVE Own'
<1>1. CASE UNCHANGED <<work, tickets>>
  BY <1>1 DEF Own, Ticket, Underway
<1>2. CASE Crash
  BY <1>2, CrashStep DEF Own, Underway
<1>3. ASSUME NEW a \in Attempts, Finish(a), NEW b \in Underway', NEW t \in tickets', t.id = b
      PROVE  t = Ticket(b)'
  <2>1. b \in Attempts
    BY DEF Underway
  <2>2. CASE b # a
    <3>1. work'[b] = work[b] /\ b \in Underway /\ Ticket(b)' = Ticket(b)
      BY <1>3, <2>1, <2>2, AttemptStep DEF Underway, Ticket
    <3>2. t \in tickets
      BY <1>3, <2>2, AttemptFiles DEF Ticket
    <3> QED
      BY <1>3, <3>1, <3>2 DEF Own
  <2>3. CASE b = a /\ Begin(a)
    BY <1>3, <2>3 DEF Begin, Fresh
  <2>4. CASE b = a /\ a \in Underway /\ work'[a].session \in {work[a].session, Null}
    <3>1. work'[a].session = work[a].session
      BY <1>3, <2>4, AttemptStep DEF Underway
    <3>2. Ticket(a)' = Ticket(a)
      BY <3>1 DEF Ticket
    <3>3. t \in tickets \/ t = Ticket(a)
      BY <1>3, AttemptFiles
    <3> QED
      BY <1>3, <2>4, <3>2, <3>3 DEF Own
  <2> QED
    BY <1>3, <2>2, <2>3, <2>4, AttemptStep
<1> QED
  BY <1>1, <1>2, <1>3
     DEF Own, Next, Store, Process, ClientSearch, CloseBlock, DiscardBlock, ChooseClient, filing, vars

LEMMA AloneStep == ASSUME TypeInv, Alone, [Next]_vars PROVE Alone'
<1>1. CASE UNCHANGED <<work, rivals>>
  BY <1>1 DEF Alone, Underway
<1>2. CASE Crash
  BY <1>2, CrashStep DEF Alone, Underway
<1>3. ASSUME NEW a \in Attempts, Finish(a) PROVE Alone'
  <2>1. CASE Begin(a)
    <3>1. Underway' \subseteq Underway \cup {a}
      BY <1>3, AttemptStep DEF Underway
    <3> QED
      BY <2>1, <3>1 DEF Begin, Alone
  <2>2. CASE a \in Underway /\ UNCHANGED rivals
    <3>1. Underway' \subseteq Underway
      BY <1>3, <2>2, AttemptStep DEF Underway
    <3> QED
      BY <2>2, <3>1 DEF Alone
  <2> QED
    BY <1>3, <2>1, <2>2, AttemptStep, AttemptFiles
<1> QED
  BY <1>1, <1>2, <1>3
     DEF Next, Store, Process, ClientSearch, CloseBlock, DiscardBlock, ChooseClient, filing, vars

LEMMA ClearedStep == ASSUME TypeInv, Fresh, Alone, Cleared, [Next]_vars PROVE Cleared'
<1>1. SUFFICES ASSUME NEW b \in Underway', b \notin rivals', work'[b].at = "log", work'[b].created,
                      Current', work'[b].session.worker
               PROVE  Range(session'.wamids) \cap Range(work'[b].session.wamids) = {}
  BY DEF Cleared
<1>2. b \in Attempts
  BY DEF Underway
<1>3. CASE UNCHANGED <<work, rivals, session>>
  BY <1>1, <1>3 DEF Cleared, Underway, Current
<1>4. ASSUME UNCHANGED <<work, rivals>>, session # Null, session' = [session EXCEPT !.step = "priority"]
      PROVE  Range(session'.wamids) \cap Range(work'[b].session.wamids) = {}
  <2>1. session'.wamids = session.wamids /\ session'.worker = session.worker
    BY <1>4 DEF TypeInv, TypeOK, Sessions
  <2> QED
    BY <1>1, <1>4, <2>1 DEF Cleared, Underway, Current
<1>5. ASSUME NEW answer \in Replies, NEW user \in BOOLEAN, CloseBlock(answer, user)
      PROVE  Range(session'.wamids) \cap Range(work'[b].session.wamids) = {}
  <2>1. UNCHANGED work /\ session'.wamids = buffer /\ Underway' = Underway
    BY <1>5 DEF CloseBlock, filing, Underway
  <2>2. work[b].session \in Alive
    BY <1>1, <1>2, <2>1 DEF Alive, Copies, TypeInv, Carried
  <2> QED
    BY <2>1, <2>2 DEF TypeInv, Placed, InHand
<1>6. CASE Crash
  BY <1>1, <1>2, <1>6, CrashStep
<1>7. ASSUME NEW a \in Attempts, Finish(a) PROVE FALSE
  <2>1. CASE b = a
    <3>1. ~ClearSession(a)
      BY <1>1 DEF ClearSession, Current
    <3>2. CreationFails(a)
      BY <1>1, <1>7, <2>1, <3>1, AttemptMoves
    <3>3. work[a].at = "post" /\ ~work[a].created
      BY <3>2 DEF CreationFails, Fresh
    <3>4. ~Created(a)
      <4>1. Created(a) => work'[a].at = "clear"
        BY DEF Created, TypeInv, TypeOK, Works
      <4> QED
        BY <1>1, <2>1, <4>1
    <3> QED
      BY <1>1, <1>7, <2>1, <3>3, <3>4, AttemptMarks
  <2>2. CASE b # a
    <3>1. b \in Underway /\ b \notin rivals
      BY <1>1, <1>2, <1>7, <2>2, AttemptStep, AttemptFiles DEF Underway
    <3>2. ~Begin(a)
      BY <1>1, <3>1 DEF Begin
    <3> QED
      BY <1>7, <2>2, <3>1, <3>2, AttemptStep DEF Alone
  <2> QED
    BY <2>1, <2>2
<1> QED
  BY <1>3, <1>4, <1>5, <1>6, <1>7
     DEF Next, Store, Process, ClientSearch, DiscardBlock, ChooseClient, filing, vars

LEMMA KeptStep == ASSUME TypeInv, Kept, [Next]_vars PROVE Kept'
<1> DEFINE Texts(wamids) == [i \in DOMAIN wamids |-> Strip(row'[wamids[i]].body)]
<1>1. ASSUME NEW s \in Alive' PROVE s.messages = Texts(s.wamids)
  <2>1. ASSUME NEW r \in Alive, Same(s, r) PROVE s.messages = Texts(s.wamids)
    <3>1. \A i \in DOMAIN r.wamids : r.wamids[i] \in Pending /\ r.wamids[i] \in Messages
      BY PendingAreMessages DEF Pending, InHand, Range, TypeInv
    <3>2. \A i \in DOMAIN r.wamids : row'[r.wamids[i]].body = row[r.wamids[i]].body
      BY <3>1, BodiesStay DEF TypeInv, Placed
    <3>3. Texts(r.wamids) = Block(r.wamids)
      BY <3>2 DEF Block, Body
    <3> QED
      BY <2>1, <3>3 DEF Kept, Same
  <2>2. ASSUME NEW answer \in Replies, NEW user \in BOOLEAN, CloseBlock(answer, user)
        PROVE  session'.messages = Texts(session'.wamids)
    <3>1. session'.messages = Block(buffer) /\ session'.wamids = buffer /\ UNCHANGED row
      BY <2>2 DEF CloseBlock
    <3> QED
      BY <3>1 DEF Block, Body
  <2> QED
    BY <2>1, <2>2, AliveStep
<1> QED
  BY <1>1 DEF Kept, Block, Body

-----------------------------------------------------------------------------
(* What is linked to the row of such a ticket stays linked to it ... *)
LEMMA LinkedStays ==
    ASSUME TypeInv, [Next]_vars, NEW n \in DOMAIN log, Linked(n) \cap Pending = {}
    PROVE  Linked(n)' = Linked(n)
<1>1. /\ Len(log) \in Nat /\ n \in 1 .. Len(log) /\ row \in [Messages -> Rows \cup {Null}]
      /\ Null \notin Rows
  BY ExtractionAssumption DEF TypeInv, TypeOK
<1>2. CASE UNCHANGED row
  BY <1>2 DEF Linked
<1>3. ASSUME NEW m \in Messages, NEW body \in Bodies, Store(m, body) PROVE Linked(n)' = Linked(n)
  <2>1. row' = [row EXCEPT ![m] = [body |-> body, creation |-> 0]] /\ row[m] = Null
    BY <1>3 DEF Store
  <2>2. row'[m].creation = 0 /\ \A k \in Messages \ {m} : row'[k] = row[k]
    BY <1>1, <2>1
  <2>3. \A k \in Messages : (row'[k] # Null /\ row'[k].creation = n) <=> (row[k] # Null /\ row[k].creation = n)
    BY <1>1, <2>1, <2>2
  <2> QED
    BY <2>3 DEF Linked
<1>4. ASSUME NEW a \in Attempts, Record(a), work[a].session.worker,
             Link(work[a].session.wamids, Len(log) + 1)
      PROVE  Linked(n)' = Linked(n)
  <2> DEFINE named == Range(work[a].session.wamids)
  <2>1. work[a].session \in Alive /\ named \subseteq Pending /\ named \subseteq Messages
    <3>1. work[a].session \in Alive
      BY <1>4 DEF Record, Alive, Copies, TypeInv, Carried, Underway
    <3> QED
      BY <3>1, PendingAreMessages DEF InHand, Pending, TypeInv
  <2>2. \A k \in Messages \ named : row'[k] = row[k]
    BY <1>4 DEF Link
  <2>3. ASSUME NEW k \in named PROVE row'[k].creation # n /\ k \notin Linked(n)
    <3>1. row[k] # Null /\ row[k] \in Rows
      BY <1>1, <2>1 DEF TypeInv, Placed
    <3>2. row'[k] = [row[k] EXCEPT !.creation = Len(log) + 1]
      BY <1>4, <2>1 DEF Link
    <3> QED
      BY <1>1, <2>1, <3>1, <3>2 DEF Rows
  <2>4. \A k \in Messages : k \in Linked(n)' <=> k \in Linked(n)
    BY <2>2, <2>3 DEF Linked
  <2> QED
    BY <2>4 DEF Linked
<1>5. ASSUME NEW a \in Attempts, Finish(a) PROVE Linked(n)' = Linked(n)
  BY <1>2, <1>4, <1>5, AttemptFiles
<1> QED
  BY <1>2, <1>3, <1>5
     DEF Next, Process, ClientSearch, CloseBlock, DiscardBlock, ChooseClient, Crash, filing, vars

(* ... because nothing that is filed comes under way again. *)
LEMMA PendingStep ==
    ASSUME TypeInv, [Next]_vars
    PROVE  \A m \in Pending' : m \in Pending \/ row[m] = Null
<1>1. \A s \in Alive' : Range(s.wamids) \subseteq Pending
  <2>1. ASSUME NEW s \in Alive', NEW r \in Alive, Same(s, r) PROVE Range(s.wamids) \subseteq Pending
    BY <2>1 DEF Same, InHand, Pending
  <2>2. ASSUME NEW answer \in Replies, NEW user \in BOOLEAN, CloseBlock(answer, user)
        PROVE  Range(session'.wamids) \subseteq Pending
    BY <2>2 DEF CloseBlock, Pending
  <2> QED
    BY <2>1, <2>2, AliveStep
<1>2. InHand' \subseteq Pending
  BY <1>1 DEF InHand
<1>3. \A m \in tasks' : m \in tasks \/ row[m] = Null
  <2>1. ASSUME NEW a \in Attempts, Finish(a) PROVE UNCHANGED tasks
    BY <2>1, AttemptStep
  <2> QED
    BY <2>1 DEF Next, Store, Process, ClientSearch, CloseBlock, DiscardBlock, ChooseClient, Crash, vars
<1>4. Range(buffer)' \subseteq Range(buffer) \cup tasks
  <2>1. CASE buffer' \in {buffer, <<>>}
    BY <2>1 DEF Range
  <2>2. ASSUME NEW m \in tasks, buffer' = Append(buffer, m) PROVE Range(buffer)' \subseteq Range(buffer) \cup tasks
    <3>1. buffer \in Seq(Messages) /\ m \in Messages
      BY DEF TypeInv, TypeOK
    <3> QED
      BY <2>2, <3>1 DEF Range
  <2>3. ASSUME NEW a \in Attempts, Finish(a) PROVE UNCHANGED buffer
    BY <2>3, AttemptStep
  <2> QED
    BY <2>1, <2>2, <2>3
       DEF Next, Store, Process, ClientSearch, CloseBlock, DiscardBlock, ChooseClient, Crash, vars
<1> QED
  BY <1>2, <1>3, <1>4 DEF Pending

(* The row of a ticket whose attempt was alone names what nobody else does. *)
LEMMA RecordFiles ==
    ASSUME TypeInv, Alone, Cleared, NEW a \in Attempts, a \notin rivals, Record(a),
           work[a].created, work[a].session.worker, NEW last, last = Len(log) + 1,
           Link(work[a].session.wamids, last)
    PROVE  /\ Linked(last)' = Range(work[a].session.wamids)
           /\ Linked(last)' \cap Pending' = {}
<1> DEFINE s == work[a].session
<1>1. a \in Underway /\ Underway = {a} /\ work[a].at = "log" /\ s # Null /\ s \in Alive
  BY DEF Record, Underway, Alone, TypeInv, Carried, Alive, Copies
<1>2. /\ row \in [Messages -> Rows \cup {Null}] /\ Len(log) \in Nat
      /\ \A m \in Messages : row[m] # Null => row[m].creation \in 0 .. Len(log)
  BY RowFields DEF TypeInv, TypeOK
<1>3. /\ Range(s.wamids) \subseteq InHand /\ Range(s.wamids) \subseteq Messages
      /\ \A m \in Range(s.wamids) : row[m] \in Rows
  <2>1. Range(s.wamids) \subseteq InHand /\ Range(s.wamids) \subseteq Pending
    BY <1>1 DEF InHand, Pending
  <2> QED
    BY <1>2, <2>1, PendingAreMessages DEF TypeInv, Placed
<1>4. \A m \in Range(s.wamids) : row'[m] # Null /\ row'[m].creation = last
  <2>1. ASSUME NEW m \in Range(s.wamids) PROVE row'[m] \in Rows /\ row'[m].creation = last
    <3>1. row[m] \in Rows /\ row'[m] = [row[m] EXCEPT !.creation = last]
      BY <1>3 DEF Link
    <3> QED
      BY <1>2, <3>1 DEF Rows
  <2> QED
    BY <2>1, ExtractionAssumption
<1>5. Linked(last)' = Range(s.wamids)
  <2>1. \A m \in Messages \ Range(s.wamids) : row'[m] = row[m]
    BY DEF Link
  <2>2. \A m \in Messages \ Range(s.wamids) : row'[m] # Null => row'[m].creation # last
    BY <1>2, <2>1
  <2>3. \A m \in Messages : (row'[m] # Null /\ row'[m].creation = last) <=> m \in Range(s.wamids)
    BY <1>4, <2>2
  <2> QED
    BY <1>3, <2>3 DEF Linked
<1>6. Finish(a) /\ UNCHANGED <<tasks, buffer, session>>
  BY DEF Finish, Record
<1>7. work'[a].session = Null
  <2>1. work' = [work EXCEPT ![a] = Over(@)] /\ work \in [Attempts -> Works]
    BY DEF Record, TypeInv, TypeOK
  <2>2. work'[a] = Over(work[a])
    BY <2>1
  <2> QED
    BY <2>1, <2>2 DEF Over, Works
<1>8. ASSUME NEW r \in Alive' PROVE Range(r.wamids) \cap Range(s.wamids) = {}
  <2>1. r = session /\ Current
    <3>1. \A b \in Attempts \ {a} : work'[b].session = Null
      BY <1>1, <1>6, AttemptStep DEF TypeInv, Carried
    <3> QED
      BY <1>6, <1>7, <3>1 DEF Alive, Copies, Current
  <2> QED
    BY <1>1, <2>1 DEF Cleared
<1>9. InHand' \cap Range(s.wamids) = {}
  BY <1>8 DEF InHand
<1>10. tasks \cap Range(s.wamids) = {} /\ Range(buffer) \cap Range(s.wamids) = {}
  BY <1>3 DEF TypeInv, Placed
<1>11. Pending' \cap Range(s.wamids) = {}
  BY <1>6, <1>9, <1>10 DEF Pending, Range
<1> QED
  BY <1>5, <1>11

LEMMA UnfiledStep ==
    ASSUME TypeInv, Alone, Cleared, Unfiled, [Next]_vars
    PROVE  Unfiled'
<1>1. SUFFICES ASSUME NEW n \in DOMAIN log', log'[n].ticket \notin rivals' \cup {Null}
               PROVE  Linked(n)' \cap Pending' = {}
  BY DEF Unfiled, Linked
<1>2. rivals \subseteq rivals'
  <2>1. ASSUME NEW a \in Attempts, Finish(a) PROVE rivals \subseteq rivals'
    BY <2>1, AttemptFiles
  <2> QED
    BY <2>1 DEF Next, Store, Process, ClientSearch, CloseBlock, DiscardBlock, ChooseClient, Crash, filing, vars
<1>3. CASE n \in DOMAIN log
  <2>1. log[n].ticket \notin rivals \cup {Null}
    BY <1>1, <1>2, <1>3, BodiesStay
  <2>2. Linked(n) \cap Pending = {} /\ \A m \in Linked(n) : row[m] # Null
    BY <1>3, <2>1 DEF Unfiled, Linked
  <2>3. Linked(n)' = Linked(n)
    BY <1>3, <2>2, LinkedStays
  <2> QED
    BY <2>2, <2>3, PendingStep
<1>4. CASE n \notin DOMAIN log
  <2>1. PICK a \in Attempts : Finish(a)
    BY <1>1, <1>4 DEF Next, Store, Process, ClientSearch, CloseBlock, DiscardBlock, ChooseClient, Crash, filing, vars
  <2>2. /\ Record(a) /\ work[a].session.worker /\ Link(work[a].session.wamids, Len(log) + 1)
        /\ n = Len(log) + 1 /\ log'[n].ticket = IF work[a].created THEN a ELSE Null
    BY <1>1, <1>4, <2>1, AttemptFiles, BodiesStay
  <2>3. work[a].created /\ a \notin rivals
    BY <1>1, <1>2, <2>2
  <2> QED
    BY <2>2, <2>3, RecordFiles
<1> QED
  BY <1>3, <1>4

LEMMA RebuildsStep ==
    ASSUME TypeInv, Kept, Discipline, Unfiled, Reconstructible, [Next]_vars
    PROVE  Reconstructible'
<1>1. SUFFICES ASSUME NEW n \in DOMAIN log', NEW t \in tickets', log'[n].ticket = t.id, t.id \notin rivals'
               PROVE  Rebuilds(t, n)'
  BY DEF Reconstructible
<1>2. rivals \subseteq rivals' /\ (t \in tickets \/ \E a \in Attempts : Finish(a) /\ work[a].at = "post"
                                                      /\ t = Ticket(a) /\ UNCHANGED log)
  <2>1. ASSUME NEW a \in Attempts, Finish(a)
        PROVE  /\ rivals \subseteq rivals'
               /\ t \in tickets \/ (work[a].at = "post" /\ t = Ticket(a) /\ UNCHANGED log)
    <3>1. t \in tickets'
      BY <1>1
    <3>2. rivals \subseteq rivals'
      BY <2>1, AttemptFiles
    <3>3. \/ UNCHANGED tickets
          \/ work[a].at = "post" /\ tickets' = tickets \cup {Ticket(a)} /\ UNCHANGED log
      BY <2>1, AttemptFiles
    <3> QED
      BY <3>1, <3>2, <3>3
  <2> QED
    BY <1>1, <2>1 DEF Next, Store, Process, ClientSearch, CloseBlock, DiscardBlock, ChooseClient, Crash, filing, vars
<1>3. t \in tickets
  <2>1. ASSUME NEW a \in Attempts, work[a].at = "post", t = Ticket(a), UNCHANGED log PROVE FALSE
    <3>1. t.id = a
      BY <2>1 DEF Ticket
    <3> QED
      BY <1>1, <2>1, <3>1 DEF Discipline, Fresh
  <2> QED
    BY <1>2, <2>1
<1>4. t.id \in Attempts /\ t.id # Null
  BY <1>3, ExtractionAssumption DEF TypeInv, TypeOK
<1>5. CASE n \in DOMAIN log
  <2>1. log'[n] = log[n]
    BY <1>5, BodiesStay
  <2>2. log[n].ticket = t.id /\ t.id \notin rivals
    BY <1>1, <1>2, <2>1
  <2>3. Linked(n)' = Linked(n)
    BY <1>4, <1>5, <2>2, LinkedStays DEF Unfiled
  <2>4. PICK order \in SetToSeqs(Linked(n)) :
          t.description = BuildDescription([i \in DOMAIN order |-> Strip(row[order[i]].body)], log[n].entities)
    BY <1>3, <1>5, <2>2 DEF Reconstructible, Rebuilds, Linked
  <2>5. \A i \in DOMAIN order : row'[order[i]].body = row[order[i]].body
    BY <2>4, BodiesStay DEF SetToSeqs, Linked
  <2>6. [i \in DOMAIN order |-> Strip(row'[order[i]].body)] = [i \in DOMAIN order |-> Strip(row[order[i]].body)]
    BY <2>5
  <2>7. /\ order \in SetToSeqs(Linked(n)')
        /\ t.description = BuildDescription([i \in DOMAIN order |-> Strip(row'[order[i]].body)], log'[n].entities)
    BY <2>1, <2>3, <2>4, <2>6
  <2> QED
    BY <2>7 DEF Rebuilds, Linked
<1>6. CASE n \notin DOMAIN log
  <2>1. PICK a \in Attempts : Finish(a)
    BY <1>1, <1>6 DEF Next, Store, Process, ClientSearch, CloseBlock, DiscardBlock, ChooseClient, Crash, filing, vars
  <2> DEFINE s == work[a].session
  <2>2. /\ Record(a) /\ s.worker /\ Link(s.wamids, Len(log) + 1) /\ n = Len(log) + 1
        /\ log'[n].entities = EntitiesFrom(s) /\ log'[n].ticket = IF work[a].created THEN a ELSE Null
    BY <1>1, <1>6, <2>1, AttemptFiles, BodiesStay
  <2>3. t.id = a /\ work[a].created /\ a \notin rivals /\ a \in Underway
    BY <1>1, <1>2, <1>4, <2>2 DEF Record, Underway
  <2>4. t.description = BuildDescription(s.messages, EntitiesFrom(s))
    BY <1>3, <2>3 DEF Discipline, Own, Ticket
  <2>5. s \in Alive /\ s.wamids \in Seq(Messages) /\ IsInjective(s.wamids) /\ s.messages = Block(s.wamids)
    <3>1. s \in Alive
      BY <2>2, <2>3 DEF Alive, Copies, TypeInv, Carried, Underway
    <3> QED
      BY <3>1, AliveAreSessions DEF TypeInv, Placed, Kept
  <2>6. Linked(n)' = Range(s.wamids)
    BY <2>2, <2>3, RecordFiles DEF Discipline
  <2>7. s.wamids \in SetToSeqs(Linked(n)')
    BY <2>5, <2>6, OrderOfRange
  <2>8. s.messages = [i \in DOMAIN s.wamids |-> Strip(row'[s.wamids[i]].body)]
    <3>1. \A i \in DOMAIN s.wamids : s.wamids[i] \in Pending /\ s.wamids[i] \in Messages
      BY <2>5, PendingAreMessages DEF Pending, InHand, Range, TypeInv
    <3>2. \A i \in DOMAIN s.wamids : row'[s.wamids[i]].body = row[s.wamids[i]].body
      BY <3>1, BodiesStay DEF TypeInv, Placed
    <3> QED
      BY <2>5, <3>2 DEF Block, Body
  <2>9. t.description = BuildDescription([i \in DOMAIN s.wamids |-> Strip(row'[s.wamids[i]].body)], log'[n].entities)
    BY <2>2, <2>4, <2>8
  <2> HIDE DEF s
  <2> QED
    BY <2>7, <2>9 DEF Rebuilds, Linked
<1> QED
  BY <1>5, <1>6

(* The description of a ticket can be rebuilt from every row of its, for   *)
(* good: whatever attempts failed before it, whatever is killed, and       *)
(* whatever else is filed later; provided that no other attempt of the     *)
(* phone was under way at the same time (two of them move the links).      *)
THEOREM DescriptionsCanBeRebuilt == Spec => []Reconstructible
<1>1. Init => RecInv
  <2>1. SUFFICES ASSUME Init PROVE RecInv
    OBVIOUS
  <2>2. \A a \in Attempts : work[a].session = Null /\ work[a].at = "idle" /\ ~work[a].created
    BY <2>1 DEF Init
  <2>3. Alive = {} /\ Underway = {} /\ tickets = {} /\ log = <<>>
    BY <2>1, <2>2, ExtractionAssumption DEF Init, Alive, Copies, Underway
  <2> QED
    BY <2>2, <2>3 DEF RecInv, Kept, Discipline, Fresh, Own, Alone, Cleared, Unfiled, Reconstructible
<1>2. TypeInv /\ RecInv /\ [Next]_vars => RecInv'
  <2>1. SUFFICES ASSUME TypeInv, RecInv, [Next]_vars PROVE RecInv'
    OBVIOUS
  <2>2. Kept' /\ Fresh' /\ Own' /\ Alone' /\ Cleared'
    BY <2>1, KeptStep, FreshStep, OwnStep, AloneStep, ClearedStep DEF RecInv, Discipline
  <2>3. Unfiled' /\ Reconstructible'
    BY <2>1, UnfiledStep, RebuildsStep DEF RecInv, Discipline
  <2> QED
    BY <2>2, <2>3 DEF RecInv, Discipline
<1>3. RecInv => Reconstructible
  BY DEF RecInv
<1> QED
  BY <1>1, <1>2, <1>3, TypeInvariant, PTL DEF Spec

-----------------------------------------------------------------------------
(* OnlyWritten.  First what Collapse makes of each beginning of a text, and  *)
(* where each of its characters ends up.                                    *)
Upon(g, t, domain) == [n \in domain |-> IF n = 0 THEN <<>> ELSE Squeeze(g[n - 1], t[n])]

LEMMA CollapseExists ==
    ASSUME NEW t, NEW n \in Nat
    PROVE  \E g : g = Upon(g, t, 0 .. n)
<1> DEFINE Good == {k \in Nat : \E g : g = Upon(g, t, 0 .. k)}
<1>1. 0 \in Good
  <2> DEFINE g == [k \in 0 .. 0 |-> <<>>]
  <2>1. g = Upon(g, t, 0 .. 0)
    BY DEF Upon
  <2> QED
    BY <2>1
<1>2. ASSUME NEW k \in Good PROVE k + 1 \in Good
  <2>1. PICK g : g = Upon(g, t, 0 .. k)
    OBVIOUS
  <2> DEFINE h == Upon(g, t, 0 .. k + 1)
  <2>2. k \in Nat
    OBVIOUS
  <2>3. \A i \in 0 .. k : h[i] = g[i]
    BY <2>1, <2>2 DEF Upon
  <2>4. ASSUME NEW i \in 0 .. k + 1, i # 0 PROVE h[i] = Squeeze(h[i - 1], t[i])
    <3>1. i - 1 \in 0 .. k
      BY <2>2, <2>4
    <3>2. h[i] = Squeeze(g[i - 1], t[i])
      BY <2>4 DEF Upon
    <3> QED
      BY <2>3, <3>1, <3>2
  <2>5. h[0] = <<>>
    BY <2>2 DEF Upon
  <2>6. h = Upon(h, t, 0 .. k + 1)
    BY <2>4, <2>5 DEF Upon
  <2> QED
    BY <2>2, <2>6
<1> QED
  BY <1>1, <1>2, Induction

Space == " "

(* c is t with its blanks squeezed, the n-th character of t at place at[n]. *)
Blankish(t, n) == t[n] \in Whitespace

Squeezed(t, c, at) ==
    /\ c \in Text /\ at \in [0 .. Len(t) -> Nat] /\ at[0] = 0 /\ at[Len(t)] = Len(c)
    /\ \A n \in 1 .. Len(t) :
         /\ at[n] = IF Blankish(t, n) /\ n > 1 /\ Blankish(t, n - 1) THEN at[n - 1] ELSE at[n - 1] + 1
         /\ at[n] \in 1 .. Len(c)
         /\ c[at[n]] = IF Blankish(t, n) THEN Space ELSE t[n]
    /\ \A k \in 1 .. Len(c) : \E n \in 1 .. Len(t) : at[n] = k

(* One character more. *)
EndsBlank(u) == Len(u) # 0 /\ u[Len(u)] = Space

LEMMA SpaceIs == Space \in Chars /\ Space \in Whitespace
BY DEF Space, Chars, Whitespace

LEMMA Appended ==
    ASSUME NEW u \in Text, NEW d \in Chars
    PROVE  /\ Append(u, d) \in Text /\ Len(Append(u, d)) = Len(u) + 1 /\ Append(u, d)[Len(u) + 1] = d
           /\ \A k \in 1 .. Len(u) : Append(u, d)[k] = u[k]
BY DEF Text

LEMMA SqueezeIs ==
    ASSUME NEW u \in Text, NEW c \in Chars
    PROVE  Squeeze(u, c) = IF c \notin Whitespace THEN Append(u, c)
                           ELSE IF EndsBlank(u) THEN u ELSE Append(u, Space)
<1>1. u # <<>> <=> Len(u) # 0
  BY DEF Text
<1> QED
  BY <1>1 DEF Squeeze, EndsBlank, Last, Space

LEMMA OneMoreCharacter ==
    ASSUME NEW u \in Text, NEW c \in Chars
    PROVE  /\ Squeeze(u, c) \in Text /\ Len(u) \in Nat /\ Len(Squeeze(u, c)) \in Nat \ {0}
           /\ Len(Squeeze(u, c)) = IF c \in Whitespace /\ EndsBlank(u) THEN Len(u) ELSE Len(u) + 1
           /\ Squeeze(u, c)[Len(Squeeze(u, c))] = IF c \in Whitespace THEN Space ELSE c
           /\ \A k \in 1 .. Len(u) : Squeeze(u, c)[k] = u[k]
<1>0. Len(u) \in Nat
  BY DEF Text
<1>4. CASE c \notin Whitespace
  <2>1. Squeeze(u, c) = Append(u, c)
    BY <1>4, SqueezeIs
  <2>2. /\ Append(u, c) \in Text /\ Len(Append(u, c)) = Len(u) + 1 /\ Append(u, c)[Len(u) + 1] = c
        /\ \A k \in 1 .. Len(u) : Append(u, c)[k] = u[k]
    BY Appended
  <2> QED
    BY <1>0, <1>4, <2>1, <2>2
<1>5. CASE c \in Whitespace /\ EndsBlank(u)
  <2>1. Squeeze(u, c) = u
    BY <1>5, SqueezeIs
  <2> QED
    BY <1>0, <1>5, <2>1 DEF EndsBlank
<1>6. CASE c \in Whitespace /\ ~EndsBlank(u)
  <2>1. Squeeze(u, c) = Append(u, Space)
    BY <1>6, SqueezeIs
  <2>2. /\ Append(u, Space) \in Text /\ Len(Append(u, Space)) = Len(u) + 1 /\ Append(u, Space)[Len(u) + 1] = Space
        /\ \A k \in 1 .. Len(u) : Append(u, Space)[k] = u[k]
    BY SpaceIs, Appended
  <2> QED
    BY <1>0, <1>6, <2>1, <2>2
<1> QED
  BY <1>4, <1>5, <1>6

LEMMA CollapseSqueezes ==
    ASSUME NEW t \in Text
    PROVE  \E at : Squeezed(t, Collapse(t), at)
<1>1. Len(t) \in Nat /\ \A n \in 1 .. Len(t) : t[n] \in Chars
  BY DEF Text
<1>0. <<>> \in Text /\ Len(<<>>) = 0
  BY DEF Text
<1> DEFINE g == CHOOSE f : f = Upon(f, t, 0 .. Len(t))
           at == [n \in 0 .. Len(t) |-> Len(g[n])]
<1>2. g = Upon(g, t, 0 .. Len(t)) /\ Collapse(t) = g[Len(t)]
  <2>1. g = Upon(g, t, 0 .. Len(t))
    BY <1>1, CollapseExists
  <2>2. Collapse(t) = g[Len(t)]
    BY DEF Collapse, Upon
  <2> QED
    BY <2>1, <2>2
<1> HIDE DEF g
<1>3. g[0] = <<>> /\ \A n \in 1 .. Len(t) : n - 1 \in 0 .. Len(t) /\ g[n] = Squeeze(g[n - 1], t[n])
  BY <1>1, <1>2 DEF Upon
<1>4. \A n \in 0 .. Len(t) : g[n] \in Text
  <2> DEFINE Good == {n \in Nat : n <= Len(t) => g[n] \in Text}
  <2>1. 0 \in Good
    BY <1>0, <1>3
  <2>2. ASSUME NEW n \in Good PROVE n + 1 \in Good
    <3>1. CASE n + 1 <= Len(t)
      <4>1. n + 1 \in 1 .. Len(t) /\ n <= Len(t) /\ (n + 1) - 1 = n /\ g[n] \in Text
        BY <1>1, <3>1
      <4>2. g[n + 1] = Squeeze(g[n], t[n + 1])
        BY <1>3, <4>1
      <4> QED
        BY <1>1, <4>1, <4>2, OneMoreCharacter
    <3> QED
      BY <3>1
  <2>3. \A n \in Nat : n \in Good
    BY <2>1, <2>2, Induction
  <2> QED
    BY <1>1, <2>3
<1>5. ASSUME NEW n \in 1 .. Len(t)
      PROVE  /\ Len(g[n]) \in Nat \ {0} /\ Len(g[n - 1]) \in Nat
             /\ Len(g[n]) = IF Blankish(t, n) /\ EndsBlank(g[n - 1])
                            THEN Len(g[n - 1]) ELSE Len(g[n - 1]) + 1
             /\ g[n][Len(g[n])] = IF Blankish(t, n) THEN Space ELSE t[n]
             /\ \A k \in 1 .. Len(g[n - 1]) : g[n][k] = g[n - 1][k]
  <2>1. g[n - 1] \in Text /\ t[n] \in Chars /\ g[n] = Squeeze(g[n - 1], t[n])
    BY <1>1, <1>3, <1>4
  <2> DEFINE u == g[n - 1]
             c == t[n]
  <2>2. /\ Squeeze(u, c) \in Text /\ Len(u) \in Nat /\ Len(Squeeze(u, c)) \in Nat \ {0}
        /\ Len(Squeeze(u, c)) = IF c \in Whitespace /\ EndsBlank(u) THEN Len(u) ELSE Len(u) + 1
        /\ Squeeze(u, c)[Len(Squeeze(u, c))] = IF c \in Whitespace THEN Space ELSE c
        /\ \A k \in 1 .. Len(u) : Squeeze(u, c)[k] = u[k]
    <3>1. u \in Text /\ c \in Chars
      BY <2>1
    <3> HIDE DEF u, c
    <3> QED
      BY <3>1, OneMoreCharacter
  <2>3. g[n] = Squeeze(u, c)
    BY <2>1
  <2> QED
    BY <2>2, <2>3 DEF Blankish
<1>6. ASSUME NEW n \in 1 .. Len(t)
      PROVE  Len(g[n]) = IF Blankish(t, n) /\ n > 1 /\ Blankish(t, n - 1) THEN Len(g[n - 1]) ELSE Len(g[n - 1]) + 1
  <2>1. CASE n = 1
    <3>1. Len(g[0]) = 0 /\ ~EndsBlank(g[0])
      BY <1>0, <1>3 DEF EndsBlank
    <3> QED
      BY <1>5, <2>1, <3>1
  <2>2. CASE n > 1
    <3>1. n - 1 \in 1 .. Len(t)
      BY <1>1, <2>2
    <3>2. /\ Len(g[n - 1]) \in Nat \ {0}
          /\ g[n - 1][Len(g[n - 1])] = IF Blankish(t, n - 1) THEN Space ELSE t[n - 1]
      BY <1>5, <3>1
    <3>3. EndsBlank(g[n - 1]) <=> Blankish(t, n - 1)
      BY <3>2, SpaceIs DEF Blankish, EndsBlank
    <3> QED
      BY <1>5, <2>2, <3>3
  <2> QED
    BY <2>1, <2>2
(* A beginning is never changed, and each place is some character's. *)
<1>7. ASSUME NEW n \in 0 .. Len(t)
      PROVE  \A m \in 0 .. Len(t) : n <= m =>
               Len(g[n]) <= Len(g[m]) /\ \A k \in 1 .. Len(g[n]) : g[m][k] = g[n][k]
  <2> DEFINE Grown(m) == Len(g[n]) <= Len(g[m]) /\ \A k \in 1 .. Len(g[n]) : g[m][k] = g[n][k]
             Good == {d \in Nat : n + d <= Len(t) => Grown(n + d)}
  <2>1. 0 \in Good
    BY <1>4 DEF Text
  <2>2. ASSUME NEW d \in Good PROVE d + 1 \in Good
    <3>1. CASE n + (d + 1) <= Len(t)
      <4>1. PICK m \in 1 .. Len(t) : m = n + (d + 1)
        BY <1>1, <3>1
      <4>2. m - 1 = n + d /\ Len(g[n]) \in Nat /\ Grown(n + d)
        BY <1>1, <1>4, <3>1, <4>1 DEF Text
      <4>4. Len(g[m - 1]) \in Nat /\ Len(g[m]) >= Len(g[m - 1]) /\ \A k \in 1 .. Len(g[m - 1]) : g[m][k] = g[m - 1][k]
        BY <1>5
      <4>3. Grown(n + (d + 1))
        BY <4>1, <4>2, <4>4
      <4> QED
        BY <4>3
    <3> QED
      BY <3>1
  <2>3. \A d \in Nat : d \in Good
    BY <2>1, <2>2, Induction
  <2>4. ASSUME NEW m \in 0 .. Len(t), n <= m PROVE Grown(m)
    <3>1. m - n \in Nat /\ n + (m - n) = m
      BY <1>1, <2>4
    <3> QED
      BY <1>1, <2>3, <3>1
  <2> QED
    BY <2>4
<1>8. ASSUME NEW k \in 1 .. Len(g[Len(t)]) PROVE \E n \in 1 .. Len(t) : Len(g[n]) = k
  <2> DEFINE Reaching == {n \in 0 .. Len(t) : Len(g[n]) >= k}
  <2>1. Len(t) \in Reaching /\ Reaching \in SUBSET Nat
    BY <1>1, <1>4 DEF Text
  <2>2. PICK n \in Reaching : \A m \in Reaching : n <= m
    BY <2>1, Least
  <2>3. n # 0
    BY <1>3, <2>2
  <2>4. n \in 1 .. Len(t) /\ n - 1 \in 0 .. Len(t) /\ n - 1 \notin Reaching
    BY <1>1, <2>2, <2>3
  <2>5. Len(g[n - 1]) < k /\ Len(g[n]) >= k
    BY <1>5, <2>2, <2>4
  <2>6. Len(g[n]) <= Len(g[n - 1]) + 1
    BY <1>5, <2>4
  <2> QED
    BY <1>5, <2>4, <2>5, <2>6
<1>9. Squeezed(t, Collapse(t), at)
  <2>1. \A n \in 0 .. Len(t) : at[n] = Len(g[n]) /\ Len(g[n]) \in Nat
    BY <1>4 DEF Text
  <2>2. /\ Collapse(t) \in Text /\ at \in [0 .. Len(t) -> Nat] /\ at[0] = 0
        /\ at[Len(t)] = Len(Collapse(t))
    BY <1>1, <1>2, <1>3, <1>4, <2>1
  <2>3. ASSUME NEW n \in 1 .. Len(t)
        PROVE  /\ at[n] = IF Blankish(t, n) /\ n > 1 /\ Blankish(t, n - 1) THEN at[n - 1] ELSE at[n - 1] + 1
               /\ at[n] \in 1 .. Len(Collapse(t))
               /\ Collapse(t)[at[n]] = IF Blankish(t, n) THEN Space ELSE t[n]
    <3>1. n \in 0 .. Len(t) /\ n - 1 \in 0 .. Len(t) /\ Len(t) \in 0 .. Len(t) /\ n <= Len(t)
      BY <1>1
    <3>2. Len(g[n]) \in 1 .. Len(g[Len(t)]) /\ g[Len(t)][Len(g[n])] = g[n][Len(g[n])]
      <4>1. Len(g[n]) <= Len(g[Len(t)]) /\ \A k \in 1 .. Len(g[n]) : g[Len(t)][k] = g[n][k]
        BY <1>7, <3>1
      <4>2. Len(g[n]) \in Nat \ {0} /\ Len(g[Len(t)]) \in Nat
        BY <1>5, <2>1, <3>1
      <4>3. Len(g[n]) \in 1 .. Len(g[n]) /\ Len(g[n]) \in 1 .. Len(g[Len(t)])
        BY <4>1, <4>2
      <4> QED
        BY <4>1, <4>3
    <3>3. at[n] = Len(g[n]) /\ at[n - 1] = Len(g[n - 1])
      BY <2>1, <3>1
    <3>4. g[n][Len(g[n])] = IF Blankish(t, n) THEN Space ELSE t[n]
      BY <1>5
    <3> HIDE DEF at
    <3>5. at[n] = IF Blankish(t, n) /\ n > 1 /\ Blankish(t, n - 1) THEN at[n - 1] ELSE at[n - 1] + 1
      BY <1>6, <3>3
    <3>6. at[n] \in 1 .. Len(Collapse(t))
      BY <1>2, <3>2, <3>3
    <3>7. Collapse(t)[at[n]] = IF Blankish(t, n) THEN Space ELSE t[n]
      BY <1>2, <3>2, <3>3, <3>4
    <3> QED
      BY <3>5, <3>6, <3>7
  <2>4. \A k \in 1 .. Len(Collapse(t)) : \E n \in 1 .. Len(t) : at[n] = k
    BY <1>2, <1>8, <2>1
  <2> HIDE DEF at
  <2> QED
    BY <2>2, <2>3, <2>4 DEF Squeezed
<1> QED
  BY <1>9

-----------------------------------------------------------------------------
LEMMA Grows ==
    ASSUME NEW t \in Text, NEW c, NEW at, Squeezed(t, c, at), NEW m \in 0 .. Len(t), NEW n \in m .. Len(t)
    PROVE  at[m] \in Nat /\ at[n] \in Nat /\ at[m] <= at[n]
<1>1. /\ Len(t) \in Nat /\ at \in [0 .. Len(t) -> Nat]
      /\ \A k \in 1 .. Len(t) : at[k - 1] <= at[k]
  <2>1. Len(t) \in Nat /\ at \in [0 .. Len(t) -> Nat]
    BY DEF Text, Squeezed
  <2>2. ASSUME NEW k \in 1 .. Len(t) PROVE at[k - 1] <= at[k]
    <3>1. k - 1 \in 0 .. Len(t) /\ k \in 0 .. Len(t)
      BY <2>1
    <3>2. at[k] \in {at[k - 1], at[k - 1] + 1}
      BY DEF Squeezed
    <3> QED
      BY <2>1, <3>1, <3>2
  <2> QED
    BY <2>1, <2>2
<1> DEFINE Good == {d \in Nat : m + d <= Len(t) => at[m] <= at[m + d]}
<1>2. 0 \in Good
  BY <1>1
<1>3. ASSUME NEW d \in Good PROVE d + 1 \in Good
  <2>1. SUFFICES ASSUME m + (d + 1) <= Len(t) PROVE at[m] <= at[m + (d + 1)]
    OBVIOUS
  <2>2. PICK k \in 1 .. Len(t) : k = m + (d + 1)
    BY <1>1, <2>1
  <2>3. k - 1 = m + d /\ at[m] <= at[m + d] /\ m \in 0 .. Len(t) /\ k - 1 \in 0 .. Len(t) /\ k \in 0 .. Len(t)
    BY <1>1, <2>1, <2>2
  <2>4. at[k - 1] <= at[k] /\ at[k - 1] \in Nat /\ at[k] \in Nat /\ at[m] \in Nat
    BY <1>1, <2>3
  <2>5. at[m] <= at[k - 1]
    BY <2>3
  <2>6. at[m] <= at[k]
    BY <2>4, <2>5
  <2> QED
    BY <2>2, <2>6
<1>4. \A d \in Nat : d \in Good
  BY <1>2, <1>3, Induction
<1>5. PICK d \in Nat : m + d = n
  <2>1. n - m \in Nat /\ m + (n - m) = n
    BY <1>1
  <2> QED
    BY <2>1
<1>6. d \in Good /\ m + d <= Len(t)
  BY <1>1, <1>4, <1>5
<1>7. at[m] <= at[n]
  BY <1>5, <1>6
<1> QED
  BY <1>1, <1>7

(* i and j are next to each other in S. *)
Neighbours(S, i, j) == i < j /\ \A k \in S : ~(i < k /\ k < j)

(* The blanks between two inked characters take one place. *)
LEMMA Gap ==
    ASSUME NEW t \in Text, NEW c, NEW at, Squeezed(t, c, at),
           NEW i \in Inked(t), NEW j \in Inked(t), Neighbours(Inked(t), i, j)
    PROVE  /\ at[i] \in Nat /\ at[j] \in Nat
           /\ at[j] = IF j = i + 1 THEN at[i] + 1 ELSE at[i] + 2
<1>1. /\ Len(t) \in Nat /\ DOMAIN t = 1 .. Len(t) /\ i \in 1 .. Len(t) /\ j \in 1 .. Len(t) /\ i < j
      /\ ~Blankish(t, i) /\ ~Blankish(t, j)
  BY InkedIsIn DEF Neighbours, Blankish
<1>2. ASSUME NEW m \in 1 .. Len(t), i < m, m < j PROVE Blankish(t, m)
  BY <1>1, <1>2 DEF Neighbours, Inked, Blankish
<1>3. at \in [0 .. Len(t) -> Nat]
  BY DEF Squeezed
<1>4. ASSUME NEW n \in 1 .. Len(t)
      PROVE  at[n] = IF Blankish(t, n) /\ n > 1 /\ Blankish(t, n - 1) THEN at[n - 1] ELSE at[n - 1] + 1
  BY DEF Squeezed
<1> DEFINE Good == {d \in Nat : i + d + 1 < j => at[i + d + 1] = at[i] + 1}
<1>5. 0 \in Good
  <2>1. SUFFICES ASSUME i + 1 < j PROVE at[i + 1] = at[i] + 1
    BY <1>1
  <2>2. PICK m \in 1 .. Len(t) : m = i + 1
    BY <1>1, <2>1
  <2>3. m - 1 = i
    BY <1>1, <2>2
  <2>4. at[m] = at[m - 1] + 1
    BY <1>1, <1>4, <2>3
  <2> QED
    BY <2>2, <2>3, <2>4
<1>6. ASSUME NEW d \in Good PROVE d + 1 \in Good
  <2>1. SUFFICES ASSUME i + (d + 1) + 1 < j PROVE at[i + (d + 1) + 1] = at[i] + 1
    OBVIOUS
  <2>2. PICK m \in 1 .. Len(t) : m = i + (d + 1) + 1
    BY <1>1, <2>1
  <2>3. m - 1 = i + d + 1 /\ m - 1 \in 1 .. Len(t) /\ i < m - 1 /\ m - 1 < j /\ m > 1 /\ i < m /\ m < j
    BY <1>1, <2>1, <2>2
  <2>4. Blankish(t, m) /\ Blankish(t, m - 1)
    BY <1>2, <2>3
  <2>5. at[m] = at[m - 1]
    BY <1>4, <2>3, <2>4
  <2>6. at[m - 1] = at[i] + 1
    BY <1>1, <2>3
  <2> QED
    BY <2>2, <2>5, <2>6
<1>7. \A d \in Nat : d \in Good
  BY <1>5, <1>6, Induction
<1>8. j - 1 \in 0 .. Len(t) /\ i \in 0 .. Len(t) /\ j \in 0 .. Len(t)
  BY <1>1
<1>9. at[j] = at[j - 1] + 1
  BY <1>1, <1>4
<1>10. CASE j = i + 1
  <2>1. j - 1 = i
    BY <1>1, <1>10
  <2> QED
    BY <1>3, <1>8, <1>9, <1>10, <2>1
<1>11. CASE j # i + 1
  <2>1. j - i - 2 \in Nat /\ i + (j - i - 2) + 1 = j - 1 /\ j - 1 < j
    BY <1>1, <1>11
  <2>2. j - i - 2 \in Good
    BY <1>7, <2>1
  <2>3. at[j - 1] = at[i] + 1
    BY <2>1, <2>2
  <2> QED
    BY <1>3, <1>8, <1>9, <1>11, <2>3
<1> QED
  BY <1>10, <1>11

-----------------------------------------------------------------------------
(* w spells p: the inked characters of p in their order, those that are next *)
(* to each other together, others with one space between them.               *)
Spells(p, w, at) ==
    /\ at \in [Inked(p) -> 1 .. Len(w)]
    /\ \A i \in Inked(p) : w[at[i]] = p[i]
    /\ \A k \in 1 .. Len(w) : IF w[k] \in Whitespace THEN w[k] = Space ELSE \E i \in Inked(p) : at[i] = k
    /\ \A i, j \in Inked(p) : i < j => at[i] < at[j]
    /\ \A i, j \in Inked(p) :
         Neighbours(Inked(p), i, j) => at[j] = IF j = i + 1 THEN at[i] + 1 ELSE at[i] + 2

LEMMA CollapseSpells ==
    ASSUME NEW p \in Text
    PROVE  Collapse(p) \in Text /\ \E at : Spells(p, Collapse(p), at)
<1> DEFINE w == Collapse(p)
<1>1. PICK at : Squeezed(p, w, at)
  BY CollapseSqueezes
<1> HIDE DEF w
<1>2. /\ Len(p) \in Nat /\ \A i \in Inked(p) : i \in 1 .. Len(p) /\ ~Blankish(p, i)
      /\ \A i \in 1 .. Len(p) : i \in Inked(p) <=> ~Blankish(p, i)
  BY InkedIsIn DEF Inked, Blankish
<1>3. w \in Text /\ at \in [0 .. Len(p) -> Nat] /\ Len(w) \in Nat
  BY <1>1 DEF Squeezed, Text
<1>4. ASSUME NEW n \in 1 .. Len(p)
      PROVE  /\ at[n] = IF Blankish(p, n) /\ n > 1 /\ Blankish(p, n - 1) THEN at[n - 1] ELSE at[n - 1] + 1
             /\ at[n] \in 1 .. Len(w)
             /\ w[at[n]] = IF Blankish(p, n) THEN Space ELSE p[n]
  BY <1>1 DEF Squeezed
<1> DEFINE there == [i \in Inked(p) |-> at[i]]
<1>5. there \in [Inked(p) -> 1 .. Len(w)]
  BY <1>2, <1>4
<1>6. \A i \in Inked(p) : w[there[i]] = p[i]
  BY <1>2, <1>4
<1>7. ASSUME NEW k \in 1 .. Len(w)
      PROVE  IF w[k] \in Whitespace THEN w[k] = Space ELSE \E i \in Inked(p) : there[i] = k
  <2>1. PICK n \in 1 .. Len(p) : at[n] = k
    BY <1>1 DEF Squeezed
  <2>2. w[k] = IF Blankish(p, n) THEN Space ELSE p[n]
    BY <1>4, <2>1
  <2>3. CASE Blankish(p, n)
    BY <2>2, <2>3, SpaceIs
  <2>4. CASE ~Blankish(p, n)
    <3>1. n \in Inked(p) /\ there[n] = k /\ w[k] \notin Whitespace
      BY <1>2, <2>1, <2>2, <2>4 DEF Blankish
    <3> QED
      BY <3>1
  <2> QED
    BY <2>3, <2>4
<1>8. ASSUME NEW i \in Inked(p), NEW j \in Inked(p), i < j PROVE there[i] < there[j]
  <2>1. j \in 1 .. Len(p) /\ i \in 0 .. Len(p) /\ j - 1 \in i .. Len(p) /\ ~Blankish(p, j)
    BY <1>2, <1>8
  <2>2. at[j] = at[j - 1] + 1 /\ at[i] \in Nat /\ at[j - 1] \in Nat /\ at[i] <= at[j - 1]
    BY <1>1, <1>4, <2>1, Grows
  <2> QED
    BY <2>2
<1>9. ASSUME NEW i \in Inked(p), NEW j \in Inked(p), Neighbours(Inked(p), i, j)
      PROVE  there[j] = IF j = i + 1 THEN there[i] + 1 ELSE there[i] + 2
  BY <1>1, <1>9, Gap
<1> HIDE DEF there
<1>10. Spells(p, w, there)
  BY <1>5, <1>6, <1>7, <1>8, <1>9 DEF Spells
<1> QED
  BY <1>3, <1>10 DEF w

(* What is spelled has ink where there is some to spell. *)
LEMMA SpelledInk ==
    ASSUME NEW p \in Text, NEW w \in Text, NEW at, Spells(p, w, at)
    PROVE  /\ \A i \in Inked(p) : at[i] \in Inked(w) /\ at[i] \in Nat
           /\ \A k \in Inked(w) : \E i \in Inked(p) : at[i] = k
           /\ Blank(p) <=> Blank(w)
<1>1. DOMAIN w = 1 .. Len(w) /\ Len(w) \in Nat /\ \A k \in Inked(w) : k \in 1 .. Len(w) /\ w[k] \notin Whitespace
  BY InkedIsIn
<1>2. \A i \in Inked(p) : at[i] \in 1 .. Len(w) /\ w[at[i]] = p[i] /\ p[i] \notin Whitespace
  BY InkedIsIn DEF Spells
<1>3. \A i \in Inked(p) : at[i] \in Inked(w) /\ at[i] \in Nat
  BY <1>1, <1>2 DEF Inked
<1>4. \A k \in Inked(w) : \E i \in Inked(p) : at[i] = k
  BY <1>1 DEF Spells
<1> QED
  BY <1>3, <1>4 DEF Blank

LEMMA Shift ==
    ASSUME NEW a \in Nat \ {0}, NEW b \in Nat, NEW x \in a .. b
    PROVE  x - a + 1 \in 1 .. b - a + 1 /\ a + (x - a + 1) - 1 = x
OBVIOUS

LEMMA Between ==
    ASSUME NEW d \in Nat, NEW n \in Nat, NEW x \in Nat, NEW y \in 1 .. n, NEW z \in 1 .. n,
           d + y < x, x < d + z
    PROVE  \E k \in 1 .. n : d + k = x /\ y < k /\ k < z
<1>1. x - d \in 1 .. n /\ d + (x - d) = x /\ y < x - d /\ x - d < z
  OBVIOUS
<1> QED
  BY <1>1

LEMMA StripSpells ==
    ASSUME NEW p \in Text, NEW w \in Text, NEW at, Spells(p, w, at)
    PROVE  \E there : Spells(p, Strip(w), there)
<1>1. CASE Blank(w)
  <2>1. Strip(w) = <<>> /\ Len(<<>>) = 0 /\ Inked(p) = {}
    BY <1>1, SpelledInk DEF Strip, Blank
  <2>2. [i \in {} |-> 0] \in [{} -> 1 .. 0]
    OBVIOUS
  <2>3. Spells(p, Strip(w), [i \in {} |-> 0])
    BY <2>1, <2>2 DEF Spells
  <2> QED
    BY <2>3
<1>2. CASE ~Blank(w)
  <2> DEFINE a == Min(Inked(w))
             b == Max(Inked(w))
             u == Strip(w)
             there == [i \in Inked(p) |-> at[i] - a + 1]
  <2>1. /\ Len(w) \in Nat /\ a \in 1 .. Len(w) /\ b \in a .. Len(w)
        /\ \A k \in Inked(w) : k \in a .. b
    <3>1. /\ Len(w) \in Nat /\ a \in Inked(w) /\ b \in Inked(w)
          /\ \A k \in Inked(w) : k \in 1 .. Len(w) /\ a <= k /\ k <= b
      BY <1>2, InkedIsIn
    <3> HIDE DEF a, b
    <3> QED
      BY <3>1
  <2>2. u = SubSeq(w, a, b)
    BY <1>2 DEF Strip
  <2> HIDE DEF a, b, u
  <2>3. Len(u) = b - a + 1 /\ \A k \in 1 .. b - a + 1 : u[k] = w[a + k - 1]
    BY <2>1, <2>2, Stretch
  <2>4. \A i \in Inked(p) : /\ at[i] \in Nat /\ at[i] \in a .. b /\ there[i] = at[i] - a + 1
                            /\ there[i] \in 1 .. Len(u) /\ a + there[i] - 1 = at[i]
    <3>1. ASSUME NEW i \in Inked(p)
          PROVE  /\ at[i] \in Nat /\ at[i] \in a .. b /\ there[i] = at[i] - a + 1
                 /\ there[i] \in 1 .. Len(u) /\ a + there[i] - 1 = at[i]
      <4>1. at[i] \in Nat /\ at[i] \in a .. b
        BY <2>1, SpelledInk
      <4>2. there[i] = at[i] - a + 1
        OBVIOUS
      <4> HIDE DEF there
      <4>3. at[i] - a + 1 \in 1 .. b - a + 1 /\ a + (at[i] - a + 1) - 1 = at[i]
        BY <2>1, <4>1, Shift
      <4> QED
        BY <2>3, <4>1, <4>2, <4>3
    <3> QED
      BY <3>1
  <2>5. there \in [Inked(p) -> 1 .. Len(u)]
    BY <2>4
  <2>6. \A i \in Inked(p) : u[there[i]] = p[i]
    <3>1. \A i \in Inked(p) : u[there[i]] = w[at[i]]
      BY <2>3, <2>4
    <3> QED
      BY <3>1 DEF Spells
  <2>7. ASSUME NEW k \in 1 .. Len(u)
        PROVE  IF u[k] \in Whitespace THEN u[k] = Space ELSE \E i \in Inked(p) : there[i] = k
    <3>1. PICK m \in 1 .. Len(w) : m = a + k - 1
      BY <2>1, <2>3
    <3>2. u[k] = w[m]
      BY <2>3, <3>1
    <3>3. CASE w[m] \in Whitespace
      BY <3>2, <3>3 DEF Spells
    <3>4. CASE w[m] \notin Whitespace
      <4>1. PICK i \in Inked(p) : at[i] = m
        BY <3>4 DEF Spells
      <4>2. there[i] = k
        BY <2>1, <2>3, <2>4, <3>1, <4>1
      <4> QED
        BY <3>2, <3>4, <4>2
    <3> QED
      BY <3>3, <3>4
  <2>8. ASSUME NEW i \in Inked(p), NEW j \in Inked(p), i < j PROVE there[i] < there[j]
    <3>1. at[i] < at[j]
      BY <2>8 DEF Spells
    <3> QED
      BY <2>1, <2>4, <3>1
  <2>9. ASSUME NEW i \in Inked(p), NEW j \in Inked(p), Neighbours(Inked(p), i, j)
        PROVE  there[j] = IF j = i + 1 THEN there[i] + 1 ELSE there[i] + 2
    <3>1. at[j] = IF j = i + 1 THEN at[i] + 1 ELSE at[i] + 2
      BY <2>9 DEF Spells
    <3>2. /\ at[i] \in Nat /\ at[j] \in Nat
          /\ there[i] = at[i] - a + 1 /\ there[j] = at[j] - a + 1
      BY <2>4
    <3> HIDE DEF there
    <3>3. CASE j = i + 1
      BY <2>1, <3>1, <3>2, <3>3
    <3>4. CASE j # i + 1
      BY <2>1, <3>1, <3>2, <3>4
    <3> QED
      BY <3>3, <3>4
  <2> HIDE DEF there
  <2>10. Spells(p, u, there)
    BY <2>5, <2>6, <2>7, <2>8, <2>9 DEF Spells
  <2> QED
    BY <2>10 DEF u
<1> QED
  BY <1>1, <1>2

LEMMA InIs ==
    ASSUME NEW u \in Text, NEW w \in Text
    PROVE  IsIn(u, w) <=> \E d \in Nat : d + Len(u) <= Len(w) /\ \A k \in 1 .. Len(u) : w[d + k] = u[k]
<1>1. Len(u) \in Nat /\ Len(w) \in Nat
  BY DEF Text
<1>2. ASSUME NEW d \in Nat, d + Len(u) <= Len(w)
      PROVE  SubSeq(w, d + 1, d + Len(u)) = u <=> \A k \in 1 .. Len(u) : w[d + k] = u[k]
  <2> DEFINE v == SubSeq(w, d + 1, d + Len(u))
  <2>1. Len(v) = Len(u) /\ \A k \in 1 .. Len(u) : v[k] = w[d + k]
    BY <1>1, <1>2 DEF Text
  <2>2. v \in Text
    BY <1>1, <1>2 DEF Text
  <2> HIDE DEF v
  <2>3. v = u <=> Len(v) = Len(u) /\ \A k \in 1 .. Len(u) : v[k] = u[k]
    BY <2>2 DEF Text
  <2>4. v = u <=> \A k \in 1 .. Len(u) : w[d + k] = u[k]
    BY <2>1, <2>3
  <2> QED
    BY <2>4 DEF v
<1>3. \A d : d \in 0 .. Len(w) - Len(u) <=> d \in Nat /\ d + Len(u) <= Len(w)
  BY <1>1
<1> QED
  BY <1>2, <1>3 DEF IsIn

(* The ink of p is found in q in its order, and together where it is        *)
(* together: what both spell need not be looked at.                         *)
Occurs(p, q) ==
    \E f \in [Inked(p) -> Inked(q)] :
      /\ \A i \in Inked(p) : p[i] = q[f[i]]
      /\ \A i, j \in Inked(p) : Neighbours(Inked(p), i, j) =>
            Neighbours(Inked(q), f[i], f[j]) /\ (j = i + 1 <=> f[j] = f[i] + 1)

LEMMA Found ==
    ASSUME NEW p \in Text, NEW q \in Text, NEW u \in Text, NEW w \in Text,
           NEW ap, Spells(p, u, ap), NEW aq, Spells(q, w, aq), IsIn(u, w)
    PROVE  Occurs(p, q)
<1>1. PICK d \in Nat : d + Len(u) <= Len(w) /\ \A k \in 1 .. Len(u) : w[d + k] = u[k]
  BY InIs
<1>2. /\ Len(u) \in Nat /\ Len(w) \in Nat
      /\ \A i \in Inked(p) : i \in Nat /\ ap[i] \in 1 .. Len(u) /\ u[ap[i]] = p[i] /\ p[i] \notin Whitespace
      /\ \A i \in Inked(q) : i \in Nat /\ aq[i] \in 1 .. Len(w) /\ w[aq[i]] = q[i] /\ q[i] \notin Whitespace
  BY InkedIsIn DEF Spells
<1> DEFINE f == [i \in Inked(p) |-> CHOOSE m \in Inked(q) : aq[m] = d + ap[i]]
<1>3. ASSUME NEW i \in Inked(p)
      PROVE  f[i] \in Inked(q) /\ aq[f[i]] = d + ap[i] /\ p[i] = q[f[i]]
  <2>1. w[d + ap[i]] = p[i] /\ d + ap[i] \in 1 .. Len(w) /\ p[i] \notin Whitespace
    BY <1>1, <1>2
  <2>2. \E m \in Inked(q) : aq[m] = d + ap[i]
    BY <2>1 DEF Spells
  <2>3. f[i] \in Inked(q) /\ aq[f[i]] = d + ap[i]
    BY <2>2
  <2> HIDE DEF f
  <2> QED
    BY <1>2, <2>1, <2>3
<1>4. f \in [Inked(p) -> Inked(q)]
  BY <1>3
<1> HIDE DEF f
<1>5. ASSUME NEW i \in Inked(p), NEW j \in Inked(p), Neighbours(Inked(p), i, j)
      PROVE  Neighbours(Inked(q), f[i], f[j]) /\ (j = i + 1 <=> f[j] = f[i] + 1)
  <2>1. /\ i < j /\ f[i] \in Inked(q) /\ f[j] \in Inked(q) /\ f[i] \in Nat /\ f[j] \in Nat
        /\ aq[f[i]] = d + ap[i] /\ aq[f[j]] = d + ap[j] /\ ap[i] \in 1 .. Len(u) /\ ap[j] \in 1 .. Len(u)
        /\ i \in Nat /\ j \in Nat
    BY <1>2, <1>3, <1>5 DEF Neighbours
  <2>2. ap[j] = IF j = i + 1 THEN ap[i] + 1 ELSE ap[i] + 2
    BY <1>5 DEF Spells
  <2>3. f[i] < f[j]
    <3>1. ap[i] < ap[j]
      BY <2>1 DEF Spells
    <3>2. CASE f[j] = f[i]
      BY <1>2, <2>1, <3>1, <3>2
    <3>3. CASE f[j] < f[i]
      <4>1. aq[f[j]] < aq[f[i]]
        BY <2>1, <3>3 DEF Spells
      <4> QED
        BY <1>1, <1>2, <2>1, <3>1, <4>1
    <3> QED
      BY <2>1, <3>2, <3>3
  <2>4. ASSUME NEW m \in Inked(q), f[i] < m, m < f[j] PROVE FALSE
    <3>1. aq[f[i]] < aq[m] /\ aq[m] < aq[f[j]] /\ aq[m] \in Nat
      BY <1>2, <2>1, <2>4 DEF Spells
    <3>2. PICK k \in 1 .. Len(u) : d + k = aq[m] /\ ap[i] < k /\ k < ap[j]
      <4> DEFINE x == aq[m]
                 y == ap[i]
                 z == ap[j]
                 n == Len(u)
      <4>1. n \in Nat /\ x \in Nat /\ y \in 1 .. n /\ z \in 1 .. n /\ d + y < x /\ x < d + z
        BY <1>2, <2>1, <3>1
      <4> HIDE DEF x, y, z, n
      <4>2. \E k \in 1 .. n : d + k = x /\ y < k /\ k < z
        BY <4>1, Between
      <4> QED
        BY <4>2 DEF x, y, z, n
    <3>3. u[k] = q[m] /\ q[m] \notin Whitespace
      BY <1>1, <1>2, <3>2
    <3>4. PICK l \in Inked(p) : ap[l] = k
      BY <3>3 DEF Spells
    <3>5. l \in Nat /\ ~(i < l /\ l < j)
      BY <1>2, <1>5 DEF Neighbours
    <3>6. CASE l = i \/ l = j
      BY <2>1, <3>2, <3>4, <3>6
    <3>7. CASE l < i
      <4>1. ap[l] < ap[i]
        BY <3>7 DEF Spells
      <4> QED
        BY <2>1, <3>2, <3>4, <4>1
    <3>8. CASE j < l
      <4>1. ap[j] < ap[l]
        BY <3>8 DEF Spells
      <4> QED
        BY <2>1, <3>2, <3>4, <4>1
    <3> QED
      BY <2>1, <3>5, <3>6, <3>7, <3>8
  <2>5. Neighbours(Inked(q), f[i], f[j])
    BY <2>3, <2>4 DEF Neighbours
  <2>6. aq[f[j]] = IF f[j] = f[i] + 1 THEN aq[f[i]] + 1 ELSE aq[f[i]] + 2
    BY <2>1, <2>5 DEF Spells
  <2>7. j = i + 1 <=> f[j] = f[i] + 1
    BY <1>1, <1>2, <2>1, <2>2, <2>6
  <2> QED
    BY <2>5, <2>7
<1> QED
  BY <1>3, <1>4, <1>5 DEF Occurs

(* The one before i, and the one after what ends before place k. *)
LEMMA Before ==
    ASSUME NEW S \in SUBSET Nat, NEW i \in S, NEW a \in S, a < i
    PROVE  \E j \in S : Neighbours(S, j, i) /\ a <= j
<1> DEFINE T == {j \in S : j < i}
<1>1. i \in Nat /\ a \in T /\ \A m \in S : m \in Nat
  OBVIOUS
<1>2. T \in SUBSET Nat /\ T # {} /\ \A m \in T : m <= i
  <2>1. T \in SUBSET Nat
    OBVIOUS
  <2>2. ASSUME NEW m \in T PROVE m <= i
    BY <1>1
  <2>3. T # {}
    BY <1>1
  <2> QED
    BY <2>1, <2>2, <2>3
<1>3. PICK j \in T : \A m \in T : m <= j
  BY <1>1, <1>2, MaxIsIn
<1>4. j \in S /\ j < i /\ j \in Nat /\ a <= j /\ \A k \in S : k < i => k <= j
  BY <1>1, <1>3
<1>5. \A k \in S : ~(j < k /\ k < i)
  BY <1>1, <1>4
<1> QED
  BY <1>4, <1>5 DEF Neighbours

LEMMA Around ==
    ASSUME NEW p \in Text, NEW u \in Text, NEW ap, Spells(p, u, ap), u \in Trimmed,
           NEW k \in 1 .. Len(u), u[k] \in Whitespace
    PROVE  \E i, j \in Inked(p) : Neighbours(Inked(p), i, j) /\ j # i + 1 /\ k = ap[i] + 1
<1> DEFINE T == {j \in Inked(p) : k < ap[j]}
<1>1. /\ Len(u) \in Nat /\ Inked(p) \in SUBSET Nat
      /\ \A i \in Inked(p) : i \in Nat /\ ap[i] \in 1 .. Len(u) /\ u[ap[i]] \notin Whitespace
  BY InkedIsIn DEF Spells
<1>2. \E a, b \in Inked(p) : ap[a] = 1 /\ ap[b] = Len(u)
  <2>1. 1 \in 1 .. Len(u) /\ Len(u) \in 1 .. Len(u) /\ u[1] \notin Whitespace /\ u[Len(u)] \notin Whitespace
    BY DEF Trimmed, Text
  <2> QED
    BY <2>1 DEF Spells
<1>3. PICK a \in Inked(p), b \in Inked(p) : ap[a] = 1 /\ ap[b] = Len(u)
  BY <1>2
<1>4. 1 < k /\ k < Len(u)
  <2>1. k # 1 /\ k # Len(u)
    BY <1>1, <1>3
  <2> QED
    BY <1>1, <2>1
<1>5. T \in SUBSET Nat /\ T # {}
  BY <1>1, <1>3, <1>4
<1>6. PICK j \in T : \A m \in T : j <= m
  BY <1>5, Least
<1>7. a < j
  <2>1. ap[a] < ap[j] /\ j \in Inked(p)
    BY <1>1, <1>3, <1>4
  <2>2. ASSUME j < a PROVE FALSE
    <3>1. ap[j] < ap[a]
      BY <2>1, <2>2 DEF Spells
    <3> QED
      BY <1>1, <2>1, <3>1
  <2>3. j # a
    BY <1>1, <2>1
  <2> QED
    BY <1>1, <2>1, <2>2, <2>3
<1>8. PICK i \in Inked(p) : Neighbours(Inked(p), i, j)
  BY <1>1, <1>7, Before
<1>9. i < j /\ i \notin T /\ j \in Inked(p)
  BY <1>1, <1>6, <1>8 DEF Neighbours
<1>10. ap[i] < k /\ k < ap[j] /\ ap[i] \in Nat /\ ap[j] \in Nat
  <2>1. ap[i] # k
    BY <1>1
  <2> QED
    BY <1>1, <1>9, <2>1
<1>11. ap[j] = IF j = i + 1 THEN ap[i] + 1 ELSE ap[i] + 2
  BY <1>8, <1>9 DEF Spells
<1>12. j # i + 1 /\ k = ap[i] + 1
  BY <1>10, <1>11
<1> QED
  BY <1>8, <1>9, <1>12

LEMMA FoundBack ==
    ASSUME NEW p \in Text, NEW q \in Text, NEW u \in Text, NEW w \in Text,
           NEW ap, Spells(p, u, ap), NEW aq, Spells(q, w, aq), u \in Trimmed, Occurs(p, q)
    PROVE  IsIn(u, w)
<1>1. PICK f \in [Inked(p) -> Inked(q)] :
        /\ \A i \in Inked(p) : p[i] = q[f[i]]
        /\ \A i, j \in Inked(p) : Neighbours(Inked(p), i, j) =>
              Neighbours(Inked(q), f[i], f[j]) /\ (j = i + 1 <=> f[j] = f[i] + 1)
  BY DEF Occurs
<1>2. /\ Len(u) \in Nat \ {0} /\ Len(w) \in Nat /\ Inked(p) \in SUBSET Nat
      /\ \A i \in Inked(p) : i \in Nat /\ ap[i] \in 1 .. Len(u) /\ u[ap[i]] = p[i] /\ p[i] \notin Whitespace
      /\ \A i \in Inked(q) : i \in Nat /\ aq[i] \in 1 .. Len(w) /\ w[aq[i]] = q[i] /\ q[i] \notin Whitespace
  BY InkedIsIn DEF Spells, Trimmed, Text
<1>3. \E a, b \in Inked(p) : ap[a] = 1 /\ ap[b] = Len(u)
  <2>1. 1 \in 1 .. Len(u) /\ Len(u) \in 1 .. Len(u) /\ u[1] \notin Whitespace /\ u[Len(u)] \notin Whitespace
    BY DEF Trimmed, Text
  <2> QED
    BY <2>1 DEF Spells
<1>4. PICK a \in Inked(p), b \in Inked(p) : ap[a] = 1 /\ ap[b] = Len(u)
  BY <1>3
<1>5. PICK d \in Nat : aq[f[a]] = d + 1
  <2>1. aq[f[a]] - 1 \in Nat /\ aq[f[a]] = (aq[f[a]] - 1) + 1
    BY <1>2, <1>4
  <2> QED
    BY <2>1
(* All of it is d places further on. *)
<1>6. \A i \in Inked(p) : aq[f[i]] = d + ap[i]
  <2> DEFINE Off == {i \in Inked(p) : aq[f[i]] # d + ap[i]}
  <2>1. SUFFICES ASSUME Off # {} PROVE FALSE
    OBVIOUS
  <2>2. PICK i \in Off : \A m \in Off : i <= m
    BY <1>2, <2>1, Least
  <2>3. a < i
    <3>1. i # a
      BY <1>4, <1>5
    <3>2. ASSUME i < a PROVE FALSE
      <4>1. ap[i] < ap[a]
        BY <3>2 DEF Spells
      <4> QED
        BY <1>2, <1>4, <4>1
    <3> QED
      BY <1>2, <3>1, <3>2
  <2>4. PICK j \in Inked(p) : Neighbours(Inked(p), j, i)
    BY <1>2, <2>3, Before
  <2>5. j < i /\ j \notin Off
    BY <1>2, <2>2, <2>4 DEF Neighbours
  <2>6. aq[f[j]] = d + ap[j]
    BY <2>5
  <2>7. /\ ap[i] = IF i = j + 1 THEN ap[j] + 1 ELSE ap[j] + 2
        /\ Neighbours(Inked(q), f[j], f[i]) /\ (i = j + 1 <=> f[i] = f[j] + 1)
    BY <1>1, <2>4 DEF Spells
  <2>8. aq[f[i]] = IF f[i] = f[j] + 1 THEN aq[f[j]] + 1 ELSE aq[f[j]] + 2
    BY <1>1, <2>7 DEF Spells
  <2>9. aq[f[i]] = d + ap[i]
    BY <1>2, <2>6, <2>7, <2>8
  <2> QED
    BY <2>9
<1>7. d + Len(u) <= Len(w)
  BY <1>1, <1>2, <1>4, <1>6
<1>8. ASSUME NEW k \in 1 .. Len(u) PROVE w[d + k] = u[k]
  <2>1. CASE u[k] \notin Whitespace
    <3>1. PICK i \in Inked(p) : ap[i] = k
      BY <2>1 DEF Spells
    <3>2. f[i] \in Inked(q) /\ q[f[i]] = p[i] /\ u[k] = p[i] /\ aq[f[i]] = d + k
      BY <1>1, <1>2, <1>6, <3>1
    <3>3. w[aq[f[i]]] = q[f[i]]
      BY <1>2, <3>2
    <3> QED
      BY <3>2, <3>3
  <2>2. CASE u[k] \in Whitespace
    <3>1. PICK i \in Inked(p), j \in Inked(p) : Neighbours(Inked(p), i, j) /\ j # i + 1 /\ k = ap[i] + 1
      BY <2>2, Around
    <3>2. f[i] \in Inked(q) /\ f[j] \in Inked(q) /\ Neighbours(Inked(q), f[i], f[j]) /\ f[j] # f[i] + 1
      BY <1>1, <3>1
    <3>3. aq[f[j]] = aq[f[i]] + 2 /\ aq[f[i]] = d + ap[i]
      BY <1>6, <3>2 DEF Spells
    <3>4. PICK l \in 1 .. Len(w) : l = d + k
      BY <1>2, <1>7
    <3>5. aq[f[i]] < l /\ l < aq[f[j]]
      <4>2. ap[i] \in Nat /\ aq[f[i]] \in Nat
        BY <1>2, <3>2
      <4>1. aq[f[i]] + 1 = l
        BY <3>1, <3>3, <3>4, <4>2
      <4> QED
        BY <3>3, <4>1, <4>2
    <3>6. ASSUME NEW m \in Inked(q), aq[m] = l PROVE FALSE
      <4>1. m \in Nat /\ f[i] \in Nat /\ f[j] \in Nat /\ ~(f[i] < m /\ m < f[j])
        BY <1>2, <3>2 DEF Neighbours
      <4>2. m # f[i] /\ m # f[j]
        BY <1>2, <3>2, <3>5, <3>6
      <4>3. CASE m < f[i]
        <5>1. aq[m] < aq[f[i]]
          BY <3>2, <4>3 DEF Spells
        <5> QED
          BY <1>2, <3>2, <3>5, <3>6, <5>1
      <4>4. CASE f[j] < m
        <5>1. aq[f[j]] < aq[m]
          BY <3>2, <4>4 DEF Spells
        <5> QED
          BY <1>2, <3>2, <3>5, <3>6, <5>1
      <4> QED
        BY <4>1, <4>2, <4>3, <4>4
    <3>7. w[l] = Space
      BY <3>6 DEF Spells
    <3>8. u[k] = Space
      BY <2>2 DEF Spells
    <3> QED
      BY <3>4, <3>7, <3>8
  <2> QED
    BY <2>1, <2>2
<1> QED
  BY <1>7, <1>8, InIs

-----------------------------------------------------------------------------
(* The letters of a text are the ink of its plain form. *)
LEMMA PlainCharacter ==
    ASSUME NEW c \in Chars
    PROVE  /\ Unmarked(CaseFold(c)) \in Chars
           /\ Unmarked(CaseFold(c)) \in Whitespace <=> c \in Whitespace \cup {"'"}
           /\ c \notin Whitespace \cup {"'"} => Unmarked(CaseFold(c)) = Letter(c)
BY DEF Chars, Whitespace, Unmarked, CaseFold, Letter

LEMMA PlainIs ==
    ASSUME NEW t \in Text
    PROVE  /\ Plain(t) \in Text /\ Inked(Plain(t)) = Letters(t)
           /\ \A i \in Letters(t) : Plain(t)[i] = Letter(t[i])
<1>1. Len(t) \in Nat /\ DOMAIN t = 1 .. Len(t) /\ \A i \in 1 .. Len(t) : t[i] \in Chars
  BY DEF Text
<1>2. Plain(t) = [i \in 1 .. Len(t) |-> Unmarked(CaseFold(t[i]))]
  BY <1>1 DEF Plain
<1>3. \A i \in 1 .. Len(t) : Plain(t)[i] = Unmarked(CaseFold(t[i])) /\ Plain(t)[i] \in Chars
  BY <1>1, <1>2, PlainCharacter
<1>4. Plain(t) \in [1 .. Len(t) -> Chars]
  BY <1>2, <1>3
<1>5. Plain(t) \in Text /\ DOMAIN Plain(t) = 1 .. Len(t)
  BY <1>1, <1>4 DEF Text
<1>6. \A i \in 1 .. Len(t) :
        /\ Plain(t)[i] \in Whitespace <=> t[i] \in Whitespace \cup {"'"}
        /\ t[i] \notin Whitespace \cup {"'"} => Plain(t)[i] = Letter(t[i])
  BY <1>1, <1>3, PlainCharacter
<1> QED
  BY <1>1, <1>5, <1>6 DEF Inked, Letters

LEMMA AppearsIs ==
    ASSUME NEW v \in Text, NEW t \in Text
    PROVE  AppearsIn(v, t) <=> Occurs(Plain(v), Plain(t))
<1>1. \A i, j : /\ Consecutive(v, i, j) <=> Neighbours(Letters(v), i, j)
                /\ Consecutive(t, i, j) <=> Neighbours(Letters(t), i, j)
  BY DEF Consecutive, Neighbours
<1>2. /\ Inked(Plain(v)) = Letters(v) /\ \A i \in Letters(v) : Plain(v)[i] = Letter(v[i])
      /\ Inked(Plain(t)) = Letters(t) /\ \A i \in Letters(t) : Plain(t)[i] = Letter(t[i])
  BY PlainIs
<1>3. ASSUME NEW f \in [Letters(v) -> Letters(t)]
      PROVE  (\A i \in Letters(v) : Plain(v)[i] = Plain(t)[f[i]])
               <=> \A i \in Letters(v) : Letter(v[i]) = Letter(t[f[i]])
  BY <1>2
<1> QED
  BY <1>1, <1>2, <1>3 DEF AppearsIn, Occurs

(* The test of validate_entities, without its normal forms. *)
LEMMA NormalFormsAgree ==
    ASSUME NEW v \in Text, NEW t \in Text
    PROVE  IsIn(Normalize(v), Normalize(t)) <=> AppearsIn(v, t)
<1> DEFINE p == Plain(v)
           q == Plain(t)
           cp == Collapse(p)
           cq == Collapse(q)
<1>1. p \in Text /\ q \in Text
  BY PlainIs
<1> HIDE DEF p, q
<1>2. cp \in Text /\ cq \in Text
  BY <1>1, CollapseSpells
<1>3. PICK ap, aq : Spells(p, cp, ap) /\ Spells(q, cq, aq)
  BY <1>1, CollapseSpells
<1> HIDE DEF cp, cq
<1>4. Blank(p) <=> Blank(cp)
  BY <1>1, <1>2, <1>3, SpelledInk
<1> DEFINE u == Strip(cp)
           w == Strip(cq)
<1>5. u \in Text /\ w \in Text
  BY <1>2, StripTrims
<1>6. PICK bp, bq : Spells(p, u, bp) /\ Spells(q, w, bq)
  BY <1>1, <1>2, <1>3, StripSpells
<1>7. CASE ~Blank(p)
  <2>1. u \in Trimmed
    BY <1>2, <1>4, <1>7, StripTrims
  <2> HIDE DEF u, w
  <2>2. IsIn(u, w) <=> Occurs(p, q)
    BY <1>1, <1>5, <1>6, <2>1, Found, FoundBack
  <2> QED
    BY <2>2, AppearsIs DEF Normalize, p, q, cp, cq, u, w
<1>8. CASE Blank(p)
  <2>1. u = <<>> /\ Len(u) = 0 /\ Inked(p) = {}
    BY <1>4, <1>8 DEF Strip, Blank
  <2>2. 0 + Len(u) <= Len(w) /\ \A k \in 1 .. Len(u) : w[0 + k] = u[k]
    <3>1. Len(w) \in Nat
      BY <1>5 DEF Text
    <3> HIDE DEF u, w
    <3> QED
      BY <2>1, <3>1
  <2>3. IsIn(u, w)
    BY <1>5, <2>2, InIs
  <2>4. Occurs(p, q)
    <3>1. [i \in {} |-> 0] \in [{} -> Inked(q)]
      OBVIOUS
    <3> QED
      BY <2>1, <3>1 DEF Occurs
  <2> QED
    BY <2>3, <2>4, AppearsIs DEF Normalize, p, q, cp, cq, u, w
<1> QED
  BY <1>7, <1>8

(* The blanks around a datum do not count. *)
LEMMA Moved ==
    ASSUME NEW u, NEW v, NEW t, NEW d \in Nat, Letters(u) \in SUBSET Nat, Letters(v) \in SUBSET Nat,
           \A k \in Letters(u) : k + d \in Letters(v) /\ u[k] = v[k + d],
           \A i \in Letters(v) : i - d \in Letters(u) /\ (i - d) + d = i,
           AppearsIn(u, t)
    PROVE  AppearsIn(v, t)
<1>1. PICK at \in [Letters(u) -> Letters(t)] :
        /\ \A k \in Letters(u) : Letter(u[k]) = Letter(t[at[k]])
        /\ \A k, l \in Letters(u) : Consecutive(u, k, l) =>
              Consecutive(t, at[k], at[l]) /\ (l = k + 1 <=> at[l] = at[k] + 1)
  BY DEF AppearsIn
<1> DEFINE there == [i \in Letters(v) |-> at[i - d]]
<1>2. \A i \in Letters(v) : /\ i - d \in Letters(u) /\ i - d \in Nat /\ i \in Nat /\ there[i] = at[i - d]
                            /\ u[i - d] = v[i]
  <2>1. ASSUME NEW i \in Letters(v) PROVE u[i - d] = v[i] /\ i - d \in Letters(u)
    <3>1. i - d \in Letters(u) /\ (i - d) + d = i
      OBVIOUS
    <3>2. u[i - d] = v[(i - d) + d]
      BY <3>1
    <3> QED
      BY <3>1, <3>2
  <2> QED
    BY <2>1
<1>3. there \in [Letters(v) -> Letters(t)]
  BY <1>2
<1>4. \A i \in Letters(v) : Letter(v[i]) = Letter(t[there[i]])
  BY <1>1, <1>2
<1>5. ASSUME NEW i \in Letters(v), NEW j \in Letters(v), Consecutive(v, i, j)
      PROVE  Consecutive(t, there[i], there[j]) /\ (j = i + 1 <=> there[j] = there[i] + 1)
  <2>1. i - d \in Letters(u) /\ j - d \in Letters(u) /\ i \in Nat /\ j \in Nat
    BY <1>2
  <2>2. Consecutive(u, i - d, j - d)
    <3>1. i - d < j - d
      BY <1>5, <2>1 DEF Consecutive
    <3>2. ASSUME NEW k \in Letters(u), i - d < k, k < j - d PROVE FALSE
      <4>1. k + d \in Letters(v) /\ k \in Nat
        OBVIOUS
      <4>2. i < k + d /\ k + d < j
        BY <2>1, <3>2, <4>1
      <4> QED
        BY <1>5, <4>1, <4>2 DEF Consecutive
    <3> QED
      BY <3>1, <3>2 DEF Consecutive
  <2>3. j - d = (i - d) + 1 <=> j = i + 1
    BY <2>1
  <2> QED
    BY <1>1, <1>2, <2>1, <2>2, <2>3
<1> HIDE DEF there
<1> QED
  BY <1>3, <1>4, <1>5 DEF AppearsIn

LEMMA MovedBack ==
    ASSUME NEW u, NEW v, NEW t, NEW d \in Nat, Letters(u) \in SUBSET Nat, Letters(v) \in SUBSET Nat,
           \A k \in Letters(u) : k + d \in Letters(v) /\ u[k] = v[k + d],
           \A i \in Letters(v) : i - d \in Letters(u) /\ (i - d) + d = i,
           AppearsIn(v, t)
    PROVE  AppearsIn(u, t)
<1>1. PICK at \in [Letters(v) -> Letters(t)] :
        /\ \A k \in Letters(v) : Letter(v[k]) = Letter(t[at[k]])
        /\ \A k, l \in Letters(v) : Consecutive(v, k, l) =>
              Consecutive(t, at[k], at[l]) /\ (l = k + 1 <=> at[l] = at[k] + 1)
  BY DEF AppearsIn
<1> DEFINE there == [k \in Letters(u) |-> at[k + d]]
<1>2. \A k \in Letters(u) : /\ k + d \in Letters(v) /\ k \in Nat /\ there[k] = at[k + d]
                            /\ u[k] = v[k + d]
  OBVIOUS
<1>3. there \in [Letters(u) -> Letters(t)]
  BY <1>2
<1>4. \A k \in Letters(u) : Letter(u[k]) = Letter(t[there[k]])
  BY <1>1, <1>2
<1>5. ASSUME NEW i \in Letters(u), NEW j \in Letters(u), Consecutive(u, i, j)
      PROVE  Consecutive(t, there[i], there[j]) /\ (j = i + 1 <=> there[j] = there[i] + 1)
  <2>1. i + d \in Letters(v) /\ j + d \in Letters(v) /\ i \in Nat /\ j \in Nat
    BY <1>2
  <2>2. Consecutive(v, i + d, j + d)
    <3>1. i + d < j + d
      BY <1>5, <2>1 DEF Consecutive
    <3>2. ASSUME NEW k \in Letters(v), i + d < k, k < j + d PROVE FALSE
      <4>1. k - d \in Letters(u) /\ k \in Nat
        OBVIOUS
      <4>2. i < k - d /\ k - d < j
        BY <2>1, <3>2, <4>1
      <4> QED
        BY <1>5, <4>1, <4>2 DEF Consecutive
    <3> QED
      BY <3>1, <3>2 DEF Consecutive
  <2>3. j + d = (i + d) + 1 <=> j = i + 1
    BY <2>1
  <2> QED
    BY <1>1, <1>2, <2>1, <2>2, <2>3
<1> HIDE DEF there
<1> QED
  BY <1>3, <1>4, <1>5 DEF AppearsIn

LEMMA StripAppears ==
    ASSUME NEW v \in Text, ~Blank(v), NEW t
    PROVE  AppearsIn(Strip(v), t) <=> AppearsIn(v, t)
<1> DEFINE a == Min(Inked(v))
           b == Max(Inked(v))
           u == Strip(v)
<1>1. /\ Len(v) \in Nat /\ DOMAIN v = 1 .. Len(v) /\ a \in 1 .. Len(v) /\ b \in a .. Len(v)
      /\ \A i \in Letters(v) : i \in a .. b
  <2>1. /\ Len(v) \in Nat /\ DOMAIN v = 1 .. Len(v) /\ a \in Inked(v) /\ b \in Inked(v)
        /\ \A k \in Inked(v) : k \in 1 .. Len(v) /\ a <= k /\ k <= b
    BY InkedIsIn
  <2>2. Letters(v) \subseteq Inked(v)
    BY DEF Letters, Inked
  <2> HIDE DEF a, b
  <2> QED
    BY <2>1, <2>2
<1>2. u = SubSeq(v, a, b)
  BY DEF Strip
<1> HIDE DEF a, b, u
<1>3. u \in Text /\ Len(u) = b - a + 1 /\ \A k \in 1 .. b - a + 1 : u[k] = v[a + k - 1]
  BY <1>1, <1>2, Stretch
<1>4. PICK d \in Nat : a = d + 1
  <2>1. a - 1 \in Nat /\ a = (a - 1) + 1
    BY <1>1
  <2> QED
    BY <2>1
<1>5. DOMAIN u = 1 .. b - d /\ \A k \in 1 .. b - d : u[k] = v[k + d] /\ k + d \in 1 .. Len(v)
  <2>1. DOMAIN u = 1 .. Len(u) /\ Len(u) = b - d
    BY <1>1, <1>3, <1>4 DEF Text
  <2>2. \A k \in 1 .. b - d : k \in 1 .. b - a + 1 /\ a + k - 1 = k + d /\ k + d \in 1 .. Len(v)
    BY <1>1, <1>4
  <2>3. ASSUME NEW k \in 1 .. b - d PROVE u[k] = v[k + d]
    <3>1. u[k] = v[a + k - 1] /\ a + k - 1 = k + d
      BY <1>3, <2>2
    <3> QED
      BY <3>1
  <2> QED
    BY <2>1, <2>2, <2>3
<1>6. \A k \in Letters(u) : k \in Nat /\ k + d \in Letters(v) /\ u[k] = v[k + d]
  BY <1>1, <1>5 DEF Letters
<1>7. ASSUME NEW i \in Letters(v) PROVE i \in Nat /\ i - d \in Letters(u) /\ (i - d) + d = i
  <2>1. i \in a .. b
    BY <1>1
  <2>2. PICK k \in 1 .. b - d : k = i - d /\ k + d = i
    BY <1>1, <1>4, <2>1
  <2>3. k \in Letters(u)
    BY <1>5, <2>2 DEF Letters
  <2> QED
    BY <1>1, <2>1, <2>2, <2>3
<1>8. Letters(u) \in SUBSET Nat /\ Letters(v) \in SUBSET Nat
  BY <1>6, <1>7
<1> QED
  BY <1>6, <1>7, <1>8, Moved, MovedBack DEF u

LEMMA VerbatimIs ==
    ASSUME NEW v \in Text \cup {Null, NotAString}, NEW source \in Text
    PROVE  Verbatim(v, source) # Null <=> IsString(v) /\ ~Blank(v) /\ AppearsIn(v, source)
<1>1. SUFFICES ASSUME IsString(v), ~Blank(v)
               PROVE  Verbatim(v, source) # Null <=> AppearsIn(v, source)
  BY DEF Verbatim
<1>2. v \in Text /\ Strip(v) \in Text
  BY <1>1, StripTrims DEF IsString
<1>3. IsIn(Normalize(Strip(v)), Normalize(source)) <=> AppearsIn(v, source)
  BY <1>1, <1>2, NormalFormsAgree, StripAppears
<1>4. Strip(v) # Null
  BY <1>2, TextAssumption
<1> QED
  BY <1>1, <1>3, <1>4 DEF Verbatim

(* What a session holds of an answer is what was validated against its texts. *)
Validated(s) ==
    Usable(s.answer) => s.entities = ValidateEntities(s.answer.entities, Join(s.messages))

LEMMA ValidatedBlock ==
    ASSUME NEW answer \in Replies, NEW user \in BOOLEAN, CloseBlock(answer, user)
    PROVE  Validated(session')
<1>1. session'.answer = answer /\ session'.entities = ExtractTitle(Block(buffer), answer).entities
      /\ session'.messages = Block(buffer)
  BY DEF CloseBlock
<1>2. Usable(answer) =>
        ExtractTitle(Block(buffer), answer).entities = ValidateEntities(answer.entities, Join(Block(buffer)))
  BY DEF ExtractTitle
<1> QED
  BY <1>1, <1>2 DEF Validated

LEMMA ValidatedStep ==
    ASSUME TypeInv, \A s \in Alive : Validated(s), [Next]_vars
    PROVE  \A s \in Alive' : Validated(s)
<1>1. ASSUME NEW s \in Alive' PROVE Validated(s)
  <2>1. ASSUME NEW r \in Alive, Same(s, r) PROVE Validated(s)
    BY <2>1 DEF Same, Validated
  <2> QED
    BY <1>1, <2>1, AliveStep, ValidatedBlock
<1> QED
  BY <1>1

(* For every text a worker may write and every answer of the LLM: a datum   *)
(* is kept exactly if its letters appear in the block.  The normal forms    *)
(* that validate_entities compares lose nothing and invent nothing.         *)
THEOREM OnlyWrittenIsKept == Spec => []OnlyWritten
<1> DEFINE Inv == \A s \in Alive : Validated(s)
<1>1. Init => Inv
  <2>1. SUFFICES ASSUME Init PROVE Alive = {}
    OBVIOUS
  <2> QED
    BY <2>1, ExtractionAssumption DEF Init, Alive, Copies
<1>2. TypeInv /\ Inv => OnlyWritten
  <2> DEFINE reply == session.answer
  <2>1. SUFFICES ASSUME TypeInv, Inv, Current, Usable(reply), reply.entities \notin {Null, NotADict},
                        NEW f \in Fields
                 PROVE  session.entities[f] # Null
                          <=> /\ IsString(reply.entities[f]) /\ ~Blank(reply.entities[f])
                              /\ AppearsIn(reply.entities[f], Join(session.messages))
    BY DEF OnlyWritten
  <2>2. session.messages \in Seq(Text) /\ reply \in Answers
    BY <2>1 DEF TypeInv, TypeOK, Current, Sessions, Usable
  <2>3. Join(session.messages) \in Text
    BY <2>2, JoinType
  <2>4. reply.entities[f] \in Text \cup {Null, NotAString}
    BY <2>1, <2>2 DEF Answers
  <2>5. Validated(session)
    BY <2>1 DEF Current, Alive, Copies
  <2>6. session.entities[f] = Verbatim(reply.entities[f], Join(session.messages))
    BY <2>1, <2>5, TextAssumption DEF Validated, ValidateEntities
  <2> QED
    BY <2>3, <2>4, <2>6, VerbatimIs
<1>3. TypeInv /\ Inv /\ [Next]_vars => Inv'
  BY ValidatedStep
<1> HIDE DEF Inv
<1> QED
  BY <1>1, <1>2, <1>3, TypeInvariant, PTL DEF Spec
=============================================================================
