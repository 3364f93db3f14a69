-------------------------------- MODULE Texts --------------------------------
(***************************************************************************)
(* How texts and tables are cut up: the three chunkers of the RAG agent,   *)
(* the parent and child chunks, headers and rows of the ingestion agent.   *)
(* A text grows by one character at a time, and a row of headers by one    *)
(* cell, so that every short text and every short row is a state.          *)
(***************************************************************************)
EXTENDS Integers, FiniteSets, FiniteSetsExt, Filters, Functions

CONSTANTS
    Size, Overlap,          \* chunk_size and chunk_overlap
    MaxParent,              \* bound of a parent chunk
    ChildSize, ChildOverlap,
    MaxText, MaxColumns     \* bounds of what is typed

ASSUME TextsAssumption ==
    /\ {Size, ChildSize, MaxParent} \subseteq Nat \ {0}
    /\ Overlap \in 0..(Size - 1) /\ ChildOverlap \in Nat
    /\ MaxText \in Nat /\ MaxColumns \in Nat

VARIABLES
    typed,  \* the text: its characters, each with its place
    cells   \* the first row of a table

textVars == <<typed, cells>>

Letter == "letter"
Newline == "newline"
Stop == "stop"          \* the end of a sentence, one character
Characters == {Letter, Newline, Stop}

Blank(t) == \A n \in DOMAIN t : t[n][1] = Newline
Piece(t, from, to) == SubSeq(t, from, Min({to, Len(t)}))

-----------------------------------------------------------------------------
(* Fixed-size chunks. *)

\* Mutant of Advance: the overlap is added.
AdvancePast(size, overlap) == size + overlap

\* The next window starts where the overlap of this one does.
Advance(size, overlap) == Max({1, size - overlap})

Windows(t, size, overlap) ==
    LET step == Advance(size, overlap)
        count == IF Len(t) <= size THEN 1 ELSE 1 + (Len(t) - size + step - 1) \div step
    IN  [n \in 1..count |-> Piece(t, 1 + (n - 1) * step, (n - 1) * step + size)]

FixedChunks(t) == IF Blank(t) THEN <<>> ELSE Windows(t, Size, Overlap)

-----------------------------------------------------------------------------
(* Pieces of a text, and pieces merged. *)

\* str.split, up to each place: where a separator is found the open piece ends.
SplitUpto(t, found, size) ==
    LET upto[n \in 0..Len(t)] ==
          IF n = 0 THEN [done |-> <<>>, open |-> <<>>]
          ELSE LET before == upto[n - 1]
               IN  IF n \in found THEN [done |-> Append(before.done, before.open), open |-> <<>>]
                   ELSE IF \E m \in found : n - m \in 0..(size - 1) THEN before
                   ELSE [before EXCEPT !.open = Append(@, t[n])]
    IN  upto

Starts(t, sep) ==
    {n \in 1..(Len(t) + 1 - Len(sep)) : \A k \in DOMAIN sep : t[n + k - 1][1] = sep[k]}

Split(t, sep) ==
    LET found == MatchesIn(t, Starts(t, sep), Len(sep))[Len(t)]
        all == SplitUpto(t, found, Len(sep))[Len(t)]
    IN  Append(all.done, all.open)

NonEmpty(pieces) == Keep(pieces, Range(pieces) \ {<<>>})
Pieces(t, sep) ==
    NonEmpty(IF sep = <<>> THEN [n \in 1..Len(t) |-> <<t[n]>>] ELSE Split(t, sep))

\* The separator put back between two pieces has the place 0.
Glue(sep) == [n \in 1..Len(sep) |-> <<sep[n], 0>>]

Flushed(merge) == IF merge.buffer = <<>> THEN merge.out ELSE Append(merge.out, merge.buffer)

\* Small pieces are merged as long as they fit.
MergeUpto(pieces, sep, bound) ==
    LET upto[n \in 0..Len(pieces)] ==
          IF n = 0 THEN [out |-> <<>>, buffer |-> <<>>]
          ELSE LET before == upto[n - 1]
                   joined == IF before.buffer = <<>> THEN pieces[n] ELSE before.buffer \o Glue(sep) \o pieces[n]
               IN  IF Len(joined) <= bound THEN [before EXCEPT !.buffer = joined]
                   ELSE [out |-> Flushed(before), buffer |-> pieces[n]]
    IN  upto

Merged(pieces, sep, bound) == Flushed(MergeUpto(pieces, sep, bound)[Len(pieces)])

-----------------------------------------------------------------------------
(* Recursive chunks: by paragraphs, lines, sentences and characters. *)

Paragraph == <<Newline, Newline>>
Line == <<Newline>>
Sentence == <<Stop>>
SingleCharacter == <<>>

\* A text that fits is a chunk unless it is blank; one that does not is cut at a
\* separator, and its parts go the same way with the finer separators.
ChunksBy(t, sep, Finer(_)) ==
    IF Len(t) <= Size THEN (IF Blank(t) THEN <<>> ELSE <<t>>)
    ELSE LET parts == Merged(Pieces(t, sep), sep, Size)
         IN  JoinOf([n \in 1..Len(parts) |-> Finer(parts[n])])

ByWindows(t) == IF Len(t) <= Size /\ ~Blank(t) THEN <<t>> ELSE FixedChunks(t)
ByCharacters(t) == ChunksBy(t, SingleCharacter, ByWindows)
BySentences(t) == ChunksBy(t, Sentence, ByCharacters)
ByLines(t) == ChunksBy(t, Line, BySentences)
RecursiveChunks(t) == ChunksBy(t, Paragraph, ByLines)

-----------------------------------------------------------------------------
(* Semantic chunks: units that end with their separator, merged. *)

Ended(pieces, sep) ==
    NonEmpty([n \in 1..Len(pieces) |->
        IF n < Len(pieces) /\ pieces[n] # <<>> THEN pieces[n] \o Glue(sep) ELSE pieces[n]])

UnitsBy(units, sep) ==
    JoinOf([n \in 1..Len(units) |->
        IF 2 * Len(units[n]) > 3 * Size THEN Ended(Split(units[n], sep), sep) ELSE <<units[n]>>])

Units(t) == UnitsBy(UnitsBy(UnitsBy(<<t>>, Paragraph), Line), Sentence)

\* The last units of a chunk that fit into the overlap.
Carried(units) ==
    LET fits == {n \in 0..Len(units) :
                    Len(JoinOf(SubSeq(units, n + 1, Len(units)))) <= Overlap}
    IN  SubSeq(units, Min(fits) + 1, Len(units))

\* The chunk under way is full when the next unit does not fit.
GatherUpto(units) ==
    LET upto[n \in 0..Len(units)] ==
          IF n = 0 THEN [out |-> <<>>, now |-> <<>>]
          ELSE LET before == upto[n - 1]
                   chunk == JoinOf(before.now)
               IN  IF Blank(units[n]) THEN before
                   ELSE IF Len(chunk \o units[n]) > Size /\ before.now # <<>>
                        THEN [out |-> Append(before.out, chunk), now |-> Append(Carried(before.now), units[n])]
                        ELSE [before EXCEPT !.now = Append(@, units[n])]
    IN  upto

SemanticChunks(t) ==
    LET all == GatherUpto(Units(t))[Len(Units(t))]
    IN  IF all.now = <<>> THEN all.out ELSE Append(all.out, JoinOf(all.now))

-----------------------------------------------------------------------------
(* Parent and child chunks of the ingestion agent. *)

Parents(t) == Merged(Pieces(t, Line), Line, MaxParent)
Children(parent) == Windows(parent, ChildSize, ChildOverlap)
ChildChunks(t) ==
    LET parents == Parents(t)
    IN  JoinOf([n \in 1..Len(parents) |-> Children(parents[n])])

-----------------------------------------------------------------------------
(* Headers.  A name is a sequence; a suffix _n is one more element, whether *)
(* it was written so or was added.                                          *)

Names == {<<>>, <<"h">>, <<"h", 1>>}

\* _grid_to_table: an empty cell is named after its column, a repeated name
\* gets a number.
Headers(row) ==
    LET bases == [n \in 1..Len(row) |-> IF row[n] = <<>> THEN <<"col", n - 1>> ELSE row[n]]
        times(n) == Cardinality({m \in 1..(n - 1) : bases[m] = bases[n]})
    IN  [n \in 1..Len(row) |-> IF times(n) = 0 THEN bases[n] ELSE Append(bases[n], times(n))]

-----------------------------------------------------------------------------

TextsInit == typed = <<>> /\ cells = <<>>

TypeCharacter ==
    /\ cells = <<>> /\ Len(typed) < MaxText
    /\ \E c \in Characters : typed' = Append(typed, <<c, Len(typed) + 1>>)
    /\ UNCHANGED cells

AddColumn ==
    /\ typed = <<>> /\ Len(cells) < MaxColumns
    /\ \E name \in Names : cells' = Append(cells, name)
    /\ UNCHANGED typed

TextsNext == TypeCharacter \/ AddColumn

TextsSpec == TextsInit /\ [][TextsNext]_textVars

-----------------------------------------------------------------------------
(* Properties. *)

Places(chunk) == {chunk[n][2] : n \in {m \in DOMAIN chunk : chunk[m][1] = Letter}}
Covers(chunks, t) == UNION {Places(chunks[n]) : n \in DOMAIN chunks} = Places(t)

\* No chunker loses a letter, of whatever text: the windows meet, what does not
\* fit is carried over, and pieces too long for one separator go to the next.
ChunksCoverText ==
    /\ Covers(FixedChunks(typed), typed)
    /\ Covers(RecursiveChunks(typed), typed)
    /\ Covers(SemanticChunks(typed), typed)
    /\ Covers(ChildChunks(typed), typed)

\* What the embedding model gets is no longer than it was asked to be; of the
\* recursive chunks, none repeats what another has.
ChunksFit ==
    LET chunks == RecursiveChunks(typed)
    IN  /\ \A n \in DOMAIN chunks : Len(chunks[n]) <= Size
        /\ \A m, n \in DOMAIN chunks : m # n => Places(chunks[m]) \cap Places(chunks[n]) = {}
        /\ \A n \in DOMAIN FixedChunks(typed) : Len(FixedChunks(typed)[n]) <= Size
        /\ \A n \in DOMAIN ChildChunks(typed) : Len(ChildChunks(typed)[n]) <= ChildSize

\* The keys of a row are "deduplicated" headers (_grid_to_table): two columns
\* never share a name, or one would hide the other's values.  It takes titles
\* that are not numbered already: a, a, a_1 gives a_1 twice.
HeadersDistinct == (\A n \in DOMAIN cells : Len(cells[n]) < 2) => IsInjective(Headers(cells))

\* Every letter reaches the index, in chunks that the model can take, and every
\* column keeps a key of its own.
TextsSurvive == ChunksCoverText /\ ChunksFit /\ HeadersDistinct
=============================================================================
