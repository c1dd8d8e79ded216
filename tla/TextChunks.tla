------------------------------ MODULE TextChunks ------------------------------
(***************************************************************************)
(* Where a chunk model cuts a text (chunking.py) and the rows it makes of  *)
(* the pieces (execution/chunk.py).  A text is a sequence of letters:      *)
(* 0 a line break, 1 a blank, 2 a full stop, more for anything else; a     *)
(* token of the token strategy is one letter.                              *)
(***************************************************************************)
EXTENDS Integers, Sequences, FiniteSets, SequencesExt

Blank == {0, 1}
\* _RECURSIVE_SEPARATORS: paragraphs, lines, sentences, words, anywhere.
Separators == << <<0, 0>>, <<0>>, <<2, 1>>, <<1>>, <<>> >>

\* `separator` stands in `text` behind its first `at` letters.
StandsAt(separator, text, at) ==
    at + Len(separator) <= Len(text) /\ SubSeq(text, at + 1, at + Len(separator)) = separator
Places(separator, text) == {at \in 0..Len(text) : StandsAt(separator, text, at)}
Least(S) == CHOOSE x \in S : \A y \in S : x <= y

\* How far a text is blank from its start, and the text without blanks at its ends.
Indent(text) == Least({n \in 0..Len(text) : n = Len(text) \/ text[n + 1] \notin Blank})
Strip(text) == LET kept == SubSeq(text, Indent(text) + 1, Len(text))
               IN  SubSeq(kept, 1, Len(kept) - Indent(Reverse(kept)))

------------------------------------------------------------------------------
(* _recurse: pieces of at most `size` letters that make up the text again.  *)

\* The parts between separators, each with the separator that ends it.
RECURSIVE Parts(_, _)
Parts(text, separator) ==
    IF Places(separator, text) = {} THEN IF text = <<>> THEN <<>> ELSE <<text>>
    ELSE LET end == Least(Places(separator, text)) + Len(separator)
         IN  <<SubSeq(text, 1, end)>> \o Parts(SubSeq(text, end + 1, Len(text)), separator)

Cut(text, size) == [i \in 1..((Len(text) + size - 1) \div size) |->
                      SubSeq(text, (i - 1) * size + 1, (IF i * size < Len(text) THEN i * size ELSE Len(text)))]

RECURSIVE Recurse(_, _, _)
Recurse(text, size, from) ==
    IF Len(text) <= size THEN IF text = <<>> THEN <<>> ELSE <<text>>
    ELSE LET k == Least({j \in from..Len(Separators) : Places(Separators[j], text) # {}})
             parts == Parts(text, Separators[k])
         IN  IF Separators[k] = <<>> THEN Cut(text, size)
             ELSE FlattenSeq([i \in DOMAIN parts |-> Recurse(parts[i], size, k + 1)])

------------------------------------------------------------------------------
(* _merge_with_overlap: pieces are packed, and the end of a chunk is        *)
(* carried into the next one from a separator on, if one is near.           *)

Distance(a, b) == IF a < b THEN b - a ELSE a - b
\* The places behind a separator between half and twice the overlap from the end.
Candidates(text, overlap, separator) ==
    LET earliest == IF Len(text) > 2 * overlap THEN Len(text) - 2 * overlap ELSE 0
        latest == Len(text) - (IF overlap >= 2 THEN overlap \div 2 ELSE 1)
    IN  {at + Len(separator) : at \in {p \in Places(separator, text) : p >= earliest /\ p < latest}}
OverlapTail(text, overlap) ==
    LET near(k) == Candidates(text, overlap, Separators[k])
        found == {k \in 1..(Len(Separators) - 1) : near(k) # {}}
        target == Len(text) - overlap
        start == CHOOSE p \in near(Least(found)) : \A q \in near(Least(found)) :
                    \/ Distance(p, target) < Distance(q, target)
                    \/ Distance(p, target) = Distance(q, target) /\ p <= q
    IN  CASE overlap <= 0 \/ text = <<>> -> <<>>
          [] overlap > 0 /\ text # <<>> /\ overlap >= Len(text) -> text
          [] overlap > 0 /\ overlap < Len(text) ->
               SubSeq(text, (IF found = {} THEN target ELSE start) + 1, Len(text))

\* _append_chunk: a chunk that is more than blanks, from its first letter on.
Appended(chunks, start, text) ==
    IF Strip(text) = <<>> THEN chunks
    ELSE Append(chunks, [start |-> start + Indent(text), text |-> Strip(text)])
Merge(splits, size, overlap) ==
    LET Pack(packed, split) ==
            LET tail == OverlapTail(packed.current, overlap)
            IN  IF packed.current # <<>> /\ Len(packed.current) + Len(split) > size
                THEN [chunks |-> Appended(packed.chunks, packed.start, packed.current),
                      start |-> packed.position - Len(tail), current |-> tail \o split,
                      position |-> packed.position + Len(split)]
                ELSE [packed EXCEPT !.start = IF packed.current = <<>> THEN packed.position ELSE @,
                                    !.current = @ \o split, !.position = @ + Len(split)]
        end == FoldLeft(Pack, [chunks |-> <<>>, start |-> 0, current |-> <<>>, position |-> 0], splits)
    IN  Appended(end.chunks, end.start, end.current)

\* _split_tokens: windows of `size` tokens, each `size - overlap` behind the one before.
Windows(text, size, overlap) ==
    LET step == size - overlap
        last == Least({n \in 0..Len(text) : n * step + size >= Len(text)})
        window(n) == SubSeq(text, n * step + 1,
                            IF n * step + size < Len(text) THEN n * step + size ELSE Len(text))
        windows == [i \in 1..(last + 1) |->
                      [start |-> (i - 1) * step + Indent(window(i - 1)), text |-> Strip(window(i - 1))]]
    IN  SelectSeq(windows, LAMBDA w : w.text # <<>>)

------------------------------------------------------------------------------
(* The rows.                                                                *)

\* _find_headings and _section_at: the last heading at or before `start`, if any; `matches` are
\* what the pattern finds, in order, and a name of blanks names nothing.
Section(matches, start) ==
    LET before == SelectSeq(matches, LAMBDA h : h.name # "" /\ h.at <= start)
    IN  IF before = <<>> THEN "" ELSE before[Len(before)].name

\* render_metadata_block: a line for every declared field that is not NULL, and a rule.
Line(field) == IF field = <<>> THEN <<>> ELSE field \o <<0>>
MetadataBlock(fields) ==
    LET lines == FlattenSeq([i \in DOMAIN fields |-> Line(fields[i])])
    IN  IF lines = <<>> THEN <<>> ELSE lines \o <<9, 0>>

\* split_text: an error when what the block leaves is no room for text and overlap.
Refused(text, config, block) ==
    Strip(text) # <<>> /\ config.overlap >= config.size - Len(block)
Pieces(text, config, block) ==
    LET size == config.size - Len(block)
    IN  IF Strip(text) = <<>> THEN <<>>
        ELSE IF config.strategy = "tokens" THEN Windows(text, size, config.overlap)
        ELSE Merge(Recurse(text, size, 1), size, config.overlap)
ChunkRows(text, config, fields, matches) ==
    LET block == MetadataBlock(fields)
        pieces == Pieces(text, config, block)
    IN  [i \in DOMAIN pieces |->
           [index |-> i - 1, count |-> Len(pieces), text |-> block \o pieces[i].text,
            start |-> pieces[i].start, piece |-> pieces[i].text,
            section |-> IF config.strategy = "tokens" THEN "" ELSE Section(matches, pieces[i].start)]]

------------------------------------------------------------------------------
(* What a chunk model promises.                                             *)

\* Cutting loses nothing and invents nothing: what _recurse returns is the text again, every chunk
\* is a slice of the text at the offset it claims, every letter that is not blank is in one, and
\* the chunks come in the order of the text (chunking.py:74-113, 147-311).
RowsCover(rows, text) ==
    LET Covers(r) == (r.start + 1)..(r.start + Len(r.piece))
    IN  /\ \A i \in DOMAIN rows :
              /\ rows[i].piece # <<>> /\ Strip(rows[i].piece) = rows[i].piece
              /\ StandsAt(rows[i].piece, text, rows[i].start)
        /\ \A p \in DOMAIN text : text[p] \notin Blank => \E i \in DOMAIN rows : p \in Covers(rows[i])
        /\ \A i, j \in DOMAIN rows : i < j =>
              /\ rows[i].start <= rows[j].start
              /\ rows[i].start + Len(rows[i].piece) <= rows[j].start + Len(rows[j].piece)
NothingLost(text, size) == Strip(text) # <<>> => FlattenSeq(Recurse(text, size, 1)) = text

\* The block counts against the size: a chunk without overlap, and every window of tokens, fits
\* chunk_size with its block, and overlap adds at most what may be carried (chunking.py:86-96, execution/chunk.py:128).
RowsFit(rows, config) ==
    \A i \in DOMAIN rows :
       Len(rows[i].text) <= config.size + (IF config.strategy = "tokens" THEN 0 ELSE 2 * config.overlap)

\* A chunk is attributed to the section its first letter is in: the heading it names stands at or
\* before that letter, and no other heading stands between the two (chunking.py:116-144).
RowsAttributed(rows, matches) ==
    LET named == {k \in DOMAIN matches : matches[k].name # ""}
    IN  \A i \in DOMAIN rows :
           IF rows[i].section = "" THEN \A k \in named : matches[k].at > rows[i].start
           ELSE \E k \in named : /\ matches[k].name = rows[i].section /\ matches[k].at <= rows[i].start
                                 /\ \A l \in named : matches[l].at <= rows[i].start => l <= k

RowsSound(rows, text, config, matches) ==
    /\ RowsCover(rows, text)
    /\ RowsFit(rows, config)
    /\ config.strategy = "recursive" => RowsAttributed(rows, matches)
ChunksSound(text, config, fields, matches) ==
    ~Refused(text, config, MetadataBlock(fields)) =>
       /\ NothingLost(text, config.size - Len(MetadataBlock(fields)))
       /\ RowsSound(ChunkRows(text, config, fields, matches), text, config, matches)
==============================================================================
