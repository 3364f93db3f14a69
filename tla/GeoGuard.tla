------------------------------ MODULE GeoGuard ------------------------------
(***************************************************************************)
(* What the collection does to a text before it is stored: the signals of  *)
(* geo_guard.py that it was written for machines, the quality of an item   *)
(* (cleaning.py), and the masking of personal numbers.  A text is what the *)
(* detectors count in it; a walk adds one signal after the other.          *)
(* Scores are integers: 100 for 1.0, and 10000 where weights multiply.     *)
(***************************************************************************)
EXTENDS Integers, Sequences, FiniteSets, FiniteSetsExt, SequencesExt, Filters

CONSTANTS
    Shapes,         \* how many words and characters a text has, and what it cites
    Hosts,          \* where it comes from
    Patterns,       \* how often each signal is found in it to begin with
    MaxSignals      \* bound on the signals that are added to a text

\* How much of each signal makes a difference.
Signals ==
    [marker |-> 3, transition |-> 2, even |-> 2, introTitle |-> 1,
     keyword |-> 3, titleKeyword |-> 2, hidden |-> 2, repeated |-> 1,
     citation |-> 3, generic |-> 2, mention |-> 1, injection |-> 1,
     template |-> 3, anonymous |-> 1, translated |-> 2]

ASSUME GeoAssumption ==
    /\ Shapes \subseteq [words : Nat, length : Nat, cites : {"nothing", "doi", "link"}]
    /\ Hosts \subseteq [rank : {"none", "high", "low", "public", "other"}, parts : Nat,
                        digits : BOOLEAN, long : BOOLEAN]
    /\ Patterns \subseteq [DOMAIN Signals -> Nat] /\ MaxSignals \in Nat

VARIABLE geo        \* the text: its shape, host, and the signals found in it

geoVars == <<geo>>

When(condition, score) == IF condition THEN score ELSE 0
Capped100(score) == Min({score, 100})

-----------------------------------------------------------------------------
(* The seven layers. *)

AiScore(g) ==
    Capped100((IF g.found.marker >= 3 THEN 50 ELSE When(g.found.marker >= 1, 20))
              + When(g.found.transition >= 2, 30) + 15 * g.found.even
              + When(g.found.introTitle >= 1, 10))

\* Keywords are counted per hundred words.
StuffingScore(g) ==
    Capped100((IF 100 * g.found.keyword > 3 * g.shape.words THEN When(g.shape.words > 0, 50)
               ELSE When(200 * g.found.keyword > 3 * g.shape.words, 20))
              + When(g.found.titleKeyword >= 2, 30) + When(g.found.hidden >= 2, 50)
              + When(g.found.repeated >= 1 /\ g.shape.words > 50, 20))

CitationScore(g) ==
    Capped100((IF g.found.citation >= 3 THEN 60 ELSE When(g.found.citation >= 1, 30))
              + When(g.found.generic >= 2 /\ g.shape.cites # "link", 40)
              + When(g.found.mention >= 1 /\ g.shape.cites = "nothing" /\ g.shape.length > 200, 20))

Injected(g) == g.found.injection >= 1

FarmScore(g) ==
    Capped100((IF g.found.template >= 3 THEN 50 ELSE When(g.found.template >= 1, 20))
              + (IF g.shape.words < 100 /\ g.found.template >= 2 THEN 30
                 ELSE When(g.shape.words < 50, 40))
              + When(g.found.anonymous >= 1, 10))

\* A host is of a list, of a public suffix, or is judged by its name.
Credibility(host) ==
    CASE host.rank = "none" -> 50
      [] host.rank = "high" -> 95
      [] host.rank = "low" -> 30
      [] host.rank = "public" -> 85
      [] host.rank = "other" ->
            Max({10, 60 - When(host.parts > 3, 10) - When(host.digits, 20) - When(host.long, 10)})

TranslatedScore(g) == When(g.found.translated >= 2, 50)

GeoScore(g) ==
    Min({10000, AiScore(g) * 25 + StuffingScore(g) * 15 + CitationScore(g) * 20
                + When(Injected(g), 2500) + FarmScore(g) * 10 + TranslatedScore(g) * 5
                + (100 - Credibility(g.host)) * 15})

Threshold == 6000
Flagged(g) == GeoScore(g) >= Threshold

-----------------------------------------------------------------------------
(* Quality. *)

\* _assess_quality, of a title, the characters and the metadata of an item.
Assess(titled, length, fields) ==
    LET complete == When(titled, 2000) + (IF length > 50 THEN 2000 ELSE 40 * length)
        lengthScore == IF length < 50 THEN 6 * length
                       ELSE IF length <= 500 THEN 3000
                       ELSE Max({2100, 3000 - ((length - 500) * 3) \div 5})
    IN  complete + lengthScore + 600 * Min({fields, 5})

MinQuality == 3000

\* Mutant of GoodEnough: the whole of the score is taken off.
GoodEnoughWholly(quality, g) ==
    IF Flagged(g) THEN quality * (10000 - GeoScore(g)) >= MinQuality * 10000
    ELSE quality >= MinQuality

\* A flagged item loses up to 40 % of its quality, and then has to be good enough.
GoodEnough(quality, g) ==
    IF Flagged(g) THEN quality * (100000 - 4 * GeoScore(g)) >= MinQuality * 100000
    ELSE quality >= MinQuality

-----------------------------------------------------------------------------
(* Masking.  0..9 are digits, CheckX is what an identity card may end in, and    *)
(* Star is what hides one of them.                                          *)

Star == 10
CheckX == 11
Numerals == (0..9) \union {CheckX}

IsPhone(s) == Len(s) = 11 /\ s[1] = 1 /\ s[2] \in 3..9 /\ \A k \in 3..11 : s[k] \in 0..9
IsIdCard(s) == Len(s) = 18 /\ (\A k \in 1..17 : s[k] \in 0..9) /\ s[18] \in Numerals

\* re.sub: matches are found from the left, and do not overlap: of a longer run of
\* digits, a phone that begins within another one stays as it is.
Masked(s, starts, size, first, last) ==
    LET found == MatchesIn(s, starts, size)[Len(s)]
    IN  [k \in DOMAIN s |-> IF \E n \in found : k - n + 1 \in first..last THEN Star ELSE s[k]]

Phones(s) == {n \in 1..(Len(s) - 10) : IsPhone(SubSeq(s, n, n + 10))}
IdCards(s) == {n \in 1..(Len(s) - 17) : IsIdCard(SubSeq(s, n, n + 17))}

MaskPhone(s) == Masked(s, Phones(s), 11, 4, 7)
MaskIdCard(s) == Masked(s, IdCards(s), 18, 7, 14)

MaskPii(s) == MaskIdCard(MaskPhone(s))

-----------------------------------------------------------------------------

NothingFound == [signal \in DOMAIN Signals |-> 0]

GeoInit == geo \in [shape : Shapes, host : Hosts, found : Patterns, more : 0..MaxSignals]

AddSignal(signal) ==
    /\ geo.found[signal] < Signals[signal]
    /\ geo.more > 0
    /\ geo' = [geo EXCEPT !.found[signal] = @ + 1, !.more = @ - 1]

GeoNext == \E signal \in DOMAIN Signals : AddSignal(signal)

-----------------------------------------------------------------------------
(* Properties. *)

(* The guard weighs and does not judge: an item whose own quality is a half *)
(* is kept whatever the guard says of it; and no detector has it flagged    *)
(* alone, not even a prompt injection from the worst of hosts               *)
(* (geo_guard.py:293-308, cleaning.py:216-222).                             *)
GuardOnlyWeighs ==
    /\ \A quality \in {5000, 7500, 10000} : GoodEnough(quality, geo)
    /\ Flagged(geo) =>
        Cardinality({score \in {<<1, AiScore(geo)>>, <<2, StuffingScore(geo)>>, <<3, CitationScore(geo)>>,
                                <<4, When(Injected(geo), 1)>>, <<5, FarmScore(geo)>>,
                                <<6, TranslatedScore(geo)>>} : score[2] > 0}) >= 2

(* One more signal never makes a text look less suspicious, whatever the    *)
(* others are (it is asked while the walk that adds them goes on).  There   *)
(* is one exception in the code: a text under 50 words loses 0.01 with its  *)
(* second template, which takes it from the rule for very short texts to    *)
(* the weaker one for short texts (geo_guard.py:543).                       *)
SignalsOnlyRaise ==
    geo.more > 0 => \A signal \in {s \in DOMAIN Signals : geo.found[s] < Signals[s]} :
        LET more == [geo EXCEPT !.found[signal] = @ + 1]
        IN  \/ GeoScore(more) >= GeoScore(geo)
            \/ geo.shape.words < 50 /\ signal = "template" /\ geo.found.template = 1
=============================================================================
