------------------------------- MODULE Lines -------------------------------
(***************************************************************************)
(* Which lines a change report names: engine/change_line_ranges.go, which  *)
(* derives the lines an edit changed, and engine/cumulative_report.go,     *)
(* which finds them again after later runs.                                *)
(*                                                                         *)
(* Both are pure functions, so a behaviour is one input and its result,    *)
(* and the properties compare the result with a definition that does not   *)
(* compute it: every longest alignment, and the bytes themselves.          *)
(*                                                                         *)
(* A text is a sequence of letters, NL among them, where bytes matter, and *)
(* a sequence of lines, each a letter, where only lines do.  Positions     *)
(* count from zero and a range excludes its end, as in the code.           *)
(***************************************************************************)
EXTENDS Integers, Sequences, FiniteSets, FiniteSetsExt, SequencesExt

CONSTANTS Letters,    \* what a line, or a byte other than NL, can be
          NL,         \* the newline
          MaxLines,   \* bound: lines of a text in a comparison
          MaxRow,     \* bound: lines of a text a report row is traced through
          MaxBytes,   \* bound: bytes of a text that is edited
          MaxNew,     \* bound: bytes that one replacement puts in
          CellLimit   \* cumulativeLineCellLimit

ASSUME NewlineAssumption == NL \notin Letters

VARIABLES input, result
vars == <<input, result>>

Texts(alphabet, n) == BoundedSeq(alphabet, n)

-----------------------------------------------------------------------------
(* Longest alignments. *)

(* The tables of the code: the longest common subsequence of the first i and
   j lines, and of what follows them. *)
Prefix(a, b) ==
    LET p[i \in 0 .. Len(a), j \in 0 .. Len(b)] ==
          IF i = 0 \/ j = 0 THEN 0
          ELSE IF a[i] = b[j] THEN p[i - 1, j - 1] + 1
          ELSE Max({p[i - 1, j], p[i, j - 1]})
    IN p
Suffix(a, b) ==
    LET s[i \in 0 .. Len(a), j \in 0 .. Len(b)] ==
          IF i = Len(a) \/ j = Len(b) THEN 0
          ELSE IF a[i + 1] = b[j + 1] THEN s[i + 1, j + 1] + 1
          ELSE Max({s[i + 1, j], s[i, j + 1]})
    IN s

(* The reference: a set of pairs of equal lines in which both sides grow. *)
Alignments(a, b) ==
    LET pairs == {p \in (DOMAIN a) \X (DOMAIN b) : a[p[1]] = b[p[2]]}
    IN {s \in SUBSET pairs :
          \A p, q \in s : p = q \/ (p[1] < q[1] /\ p[2] < q[2])
                                \/ (q[1] < p[1] /\ q[2] < p[2])}
Longest(a, b) ==
    LET all == Alignments(a, b)
        n == Max({Cardinality(s) : s \in all})
    IN {s \in all : Cardinality(s) = n}

-----------------------------------------------------------------------------
(* cumulativeLineMapping: which lines are surely unchanged, surely removed or
   surely added.  What is neither is unknown. *)
Mapping(size, forward, removed, added) ==
    [size |-> size, forward |-> forward, removed |-> removed, added |-> added]

Unchanged(a) == Mapping(Len(a), {<<i, i>> : i \in DOMAIN a}, {}, {})
(* One side empty, or too much to align: absence alone is certain. *)
ByAbsence(a, b) ==
    Mapping(Len(a), {}, {i \in DOMAIN a : a[i] \notin Range(b)},
            {j \in DOMAIN b : b[j] \notin Range(a)})
Partners(a, b, i) ==
    LET p == Prefix(a, b)
        s == Suffix(a, b)
    IN {j \in DOMAIN b : a[i] = b[j]
                         /\ p[i - 1, j - 1] + 1 + s[i, j] = p[Len(a), Len(b)]}
(* Variant: a single partner is enough. *)
OnePartner(a, b, i) == TRUE
(* No longest alignment leaves the line out. *)
Forced(a, b, i) ==
    LET p == Prefix(a, b)
        s == Suffix(a, b)
    IN \A j \in 0 .. Len(b) : p[i - 1, j] + s[i, j] # p[Len(a), Len(b)]
ByAlignment(a, b) ==
    Mapping(Len(a),
            {q \in (DOMAIN a) \X (DOMAIN b) :
               Partners(a, b, q[1]) = {q[2]} /\ Forced(a, b, q[1])},
            {i \in DOMAIN a : Partners(a, b, i) = {}},
            {j \in DOMAIN b : \A i \in DOMAIN a : j \notin Partners(a, b, i)})
LineMapping(a, b) ==
    IF a = b THEN Unchanged(a)
    ELSE IF a = <<>> \/ b = <<>> \/ Len(a) > CellLimit \div Len(b)
    THEN ByAbsence(a, b)
    ELSE ByAlignment(a, b)

-----------------------------------------------------------------------------
(* cumulativeReportRange: where a recorded change is still seen between the
   initial and the accepted contents, line by line, or that it is gone. *)
Unknown == [known |-> FALSE, lines |-> {}]
(* Variant: what is unknown is passed over. *)
MappedWhereKnown(from, to, m) ==
    IF from = 0 \/ to < from \/ to > m.size THEN [known |-> from = 0, lines |-> {}]
    ELSE [known |-> TRUE,
          lines |-> {q[2] : q \in {q \in m.forward : q[1] \in from .. to}}]
MappedRange(from, to, m) ==
    LET image == {q \in m.forward : q[1] \in from .. to}
    IN IF from = 0 /\ to = 0 THEN [known |-> TRUE, lines |-> {}]
       ELSE IF \/ from = 0 \/ to < from \/ to > m.size
               \/ ~((from .. to) \ {q[1] : q \in image} \subseteq m.removed)
            THEN Unknown
            ELSE [known |-> TRUE, lines |-> {q[2] : q \in image}]
(* Variant: a line taken out is not looked for in the accepted text. *)
GoneByAdditions(span, oldMap, newMap, comparison) ==
    LET old == MappedRange(span.before[1], span.before[2], oldMap)
        new == MappedRange(span.after[1], span.after[2], newMap)
        before == old.lines \cap comparison.removed
        after == new.lines \cap comparison.added
    IN [before |-> before, after |-> after,
        gone |-> /\ old.known /\ new.known /\ before = {} /\ after = {}
                 /\ new.lines \subseteq {q[2] : q \in comparison.forward}]
ReportRange(span, oldMap, newMap, comparison) ==
    LET old == MappedRange(span.before[1], span.before[2], oldMap)
        new == MappedRange(span.after[1], span.after[2], newMap)
        nowhere == [before |-> {}, after |-> {}, gone |-> FALSE]
        before == old.lines \cap comparison.removed
        after == new.lines \cap comparison.added
    IN IF span.before = <<0, 0>> /\ span.after = <<0, 0>> THEN nowhere
       ELSE IF ~old.known \/ ~new.known THEN nowhere
       ELSE [before |-> before, after |-> after,
             gone |-> /\ before = {} /\ after = {}
                      /\ old.lines \subseteq {q[1] : q \in comparison.forward}
                      /\ new.lines \subseteq {q[2] : q \in comparison.forward}]

(* heldLineMappings: where lines that wait for a decision are now.  They were
   recorded in the text the attempt read, or in its candidate; a range is
   shown only if all of it is surely unchanged. *)
Exact(range, size) ==
    IF range[1] = 0 \/ range[2] > size THEN {} ELSE range[1] .. range[2]
Image(lines, m) ==
    IF lines \subseteq {q[1] : q \in m.forward}
    THEN {q[2] : q \in {q \in m.forward : q[1] \in lines}} ELSE {}
HeldRanges(span, old, new, base, final) ==
    LET recorded == {Exact(span.before, Len(old)),
                     Image(Exact(span.after, Len(new)), LineMapping(new, old))}
        In(target) == UNION {Image(r, LineMapping(old, target)) : r \in recorded}
    IN [before |-> In(base), after |-> In(final)]

-----------------------------------------------------------------------------
(* Bytes: changedByteBlocks and changedLineRange. *)
Cut(text, from, to) == SubSeq(text, from + 1, to)
(* lineTokens: lines with their newline. *)
LineEnds(text) == {k \in DOMAIN text : text[k] = NL \/ k = Len(text)}
LineTokens(text) ==
    LET ends == SetToSortSeq(LineEnds(text), <)
    IN [n \in DOMAIN ends |->
          Cut(text, IF n = 1 THEN 0 ELSE ends[n - 1], ends[n])]
LineOf(text, at) == Cardinality({k \in 1 .. at : text[k] = NL}) + 1

Block(oldStart, oldEnd, newStart, newEnd) ==
    [oldStart |-> oldStart, oldEnd |-> oldEnd,
     newStart |-> newStart, newEnd |-> newEnd]
(* commonByteEdges: the common prefix first, then what is left of the common
   suffix. *)
CommonPrefix(a, b) ==
    Max({n \in 0 .. Min({Len(a), Len(b)}) : Cut(a, 0, n) = Cut(b, 0, n)})
(* Variant: the suffix may overlap the prefix. *)
OverlappingSuffix(a, b) ==
    Max({n \in 0 .. Min({Len(a), Len(b)}) : Cut(a, Len(a) - n, Len(a))
                                            = Cut(b, Len(b) - n, Len(b))})
CommonSuffix(a, b) ==
    LET left == Min({Len(a), Len(b)}) - CommonPrefix(a, b)
    IN Max({n \in 0 .. left : Cut(a, Len(a) - n, Len(a))
                              = Cut(b, Len(b) - n, Len(b))})
Trimmed(a, b, block) ==
    LET old == Cut(a, block.oldStart, block.oldEnd)
        new == Cut(b, block.newStart, block.newEnd)
        p == CommonPrefix(old, new)
        s == CommonSuffix(old, new)
    IN Block(block.oldStart + p, block.oldEnd - s,
             block.newStart + p, block.newEnd - s)

(* The walk through the table: which lines are kept. *)
Kept(a, b) ==
    LET s == Suffix(a, b)
        n == Len(a)
        m == Len(b)
        walk[i \in 0 .. n, j \in 0 .. m] ==
          IF i = n \/ j = m THEN <<>>
          ELSE IF a[i + 1] = b[j + 1]
               THEN <<<<i + 1, j + 1>>>> \o walk[i + 1, j + 1]
          ELSE IF s[i + 1, j] >= s[i, j + 1] THEN walk[i + 1, j]
          ELSE walk[i, j + 1]
    IN walk[0, 0]
BytesOf(tokens, n) ==
    FoldFunction(LAMBDA t, size : Len(t) + size, 0, SubSeq(tokens, 1, n))

ChangedByteBlocks(a, b) ==
    LET p == CommonPrefix(a, b)
        s == CommonSuffix(a, b)
        old == LineTokens(Cut(a, p, Len(a) - s))
        new == LineTokens(Cut(b, p, Len(b) - s))
        kept == Kept(old, new)
        gap(k) ==  \* between the kept lines k and k + 1
          Block(p + BytesOf(old, IF k = 0 THEN 0 ELSE kept[k][1]),
                IF k = Len(kept) THEN Len(a) - s
                ELSE p + BytesOf(old, kept[k + 1][1] - 1),
                p + BytesOf(new, IF k = 0 THEN 0 ELSE kept[k][2]),
                IF k = Len(kept) THEN Len(b) - s
                ELSE p + BytesOf(new, kept[k + 1][2] - 1))
        gaps == {gap(k) : k \in 0 .. Len(kept)}
    IN IF old = <<>> \/ new = <<>>
       THEN {Block(p, Len(a) - s, p, Len(b) - s)}
       ELSE {Trimmed(a, b, g) : g \in {g \in gaps : g.oldStart # g.oldEnd
                                                \/ g.newStart # g.newEnd}}

(* changedLineRange: the lines that the bytes touch; none on the side where
   whole lines were put in or taken out. *)
ChangedLines(text, from, to, opposite) ==
    LET boundary == from = 0 \/ text[from] = NL
        whole == opposite # <<>> /\ opposite[Len(opposite)] = NL
    IN IF from < to THEN <<LineOf(text, from), LineOf(text, to - 1)>>
       ELSE IF boundary /\ (whole \/ from = Len(text)) THEN <<0, 0>>
       ELSE <<LineOf(text, from), LineOf(text, from)>>

-----------------------------------------------------------------------------
(* verifiedEditLineRanges: where the fragments of the edits are in the source
   and in the candidate.  Edits are in the order of the source and do not
   overlap; an edit is [at, size, fragments], a fragment [at, old, new] with
   its place in the edit, or the whole edit when it was not divided. *)
Growth(fragments) ==
    FoldFunction(LAMBDA f, n : Len(f.new) - Len(f.old) + n, 0, fragments)
Before(s, k) == SubSeq(s, 1, k - 1)
OffsetOf(edits, k) ==
    FoldFunction(LAMBDA e, n : Growth(e.fragments) + n, 0, Before(edits, k))

Span(text, candidate, at, shift, block) ==
    LET oldStart == at + block.oldStart
        oldEnd == at + block.oldEnd
        newStart == at + shift + block.newStart
        newEnd == at + shift + block.newEnd
    IN [bytes |-> Block(oldStart, oldEnd, newStart, newEnd),
        before |-> ChangedLines(text, oldStart, oldEnd,
                                Cut(candidate, newStart, newEnd)),
        after |-> ChangedLines(candidate, newStart, newEnd,
                               Cut(text, oldStart, oldEnd))]
EditRanges(text, candidate, edits) ==
    UNION {LET e == edits[k]
               f == e.fragments[n]
               shift == OffsetOf(edits, k) + Growth(Before(e.fragments, n))
           IN {Span(text, candidate, e.at + f.at, shift, block) :
                 block \in ChangedByteBlocks(f.old, f.new)} :
             <<k, n>> \in {q \in (DOMAIN edits) \X (1 .. 2) :
                          q[2] \in DOMAIN edits[q[1]].fragments}}

(* applyEdits, with the pieces in order. *)
Replaced(text, pieces) ==
    LET r[k \in 0 .. Len(pieces)] ==  \* the pieces after the first k
          IF k = Len(pieces) THEN text
          ELSE LET p == pieces[k + 1] IN
               Cut(r[k + 1], 0, p.at) \o p.new
               \o Cut(r[k + 1], p.at + Len(p.old), Len(r[k + 1]))
    IN r[0]
Pieces(edits) ==
    FlattenSeq([k \in DOMAIN edits |->
      [n \in DOMAIN edits[k].fragments |->
         [edits[k].fragments[n] EXCEPT !.at = @ + edits[k].at]]])

-----------------------------------------------------------------------------
(* Inputs.  A row's recorded change is a region of the text its attempt read;
   the initial and the accepted text may be anything. *)
Alphabet == Letters \cup {NL}
Regions(n) == {r \in (0 .. n) \X (0 .. n) : r[1] <= r[2]}
LineSpan(from, size) == IF size = 0 THEN <<0, 0>> ELSE <<from + 1, from + size>>

Comparisons ==
    \E a, b \in Texts(Letters, MaxLines) :
      input = [kind |-> "comparison", a |-> a, b |-> b]
Rows ==
    \E base, final, old \in Texts(Letters, MaxRow), put \in Texts(Letters, 1) :
      \E r \in Regions(Len(old)) :
        input = [kind |-> "row", base |-> base, final |-> final, old |-> old,
                 new |-> Cut(old, 0, r[1]) \o put \o Cut(old, r[2], Len(old)),
                 span |-> [before |-> LineSpan(r[1], r[2] - r[1]),
                           after |-> LineSpan(r[1], Len(put))]]

Piece(text, from, to, new) == [at |-> from, old |-> Cut(text, from, to),
                               new |-> new]
(* The text to replace must be found, and found once. *)
Places(old, text) == {at \in 0 .. Len(text) - Len(old) :
                        Cut(text, at, at + Len(old)) = old}
(* One edit in one or two fragments, or two edits. *)
EditsOf(text) ==
    LET put == Texts(Alphabet, MaxNew)
        real(p) == /\ p.old # <<>> /\ p.old # p.new
                   /\ Places(p.old, text) = {p.at}
        one == {p \in {Piece(text, r[1], r[2], n) :
                         r \in Regions(Len(text)), n \in put} : real(p)}
        two == {q \in one \X one : q[1].at + Len(q[1].old) <= q[2].at}
        edit(at, size, fragments) ==
          [at |-> at, size |-> size, fragments |->
             [n \in DOMAIN fragments |-> [fragments[n] EXCEPT !.at = @ - at]]]
    IN {<<edit(p.at, Len(p.old), <<p>>)>> : p \in one}
       \cup {<<edit(0, Len(text), q)>> : q \in two}
       \cup {<<edit(q[1].at, Len(q[1].old), <<q[1]>>),
               edit(q[2].at, Len(q[2].old), <<q[2]>>)>> : q \in two}
Edits == \E text \in Texts(Alphabet, MaxBytes) : \E edits \in EditsOf(text) :
           input = [kind |-> "edit", text |-> text, edits |-> edits]

Nothing == [kind |-> "none"]
Init == (Comparisons \/ Rows \/ Edits) /\ result = Nothing

Compare == /\ input.kind = "comparison"
           /\ result' = [kind |-> "comparison",
                         mapping |-> LineMapping(input.a, input.b)]
Trace == /\ input.kind = "row"
         /\ result' = [kind |-> "row", row |->
              ReportRange(input.span, LineMapping(input.old, input.base),
                          LineMapping(input.new, input.final),
                          LineMapping(input.base, input.final)),
              held |-> HeldRanges(input.span, input.old, input.new,
                                  input.base, input.final)]
Locate == /\ input.kind = "edit"
          /\ LET candidate == Replaced(input.text, Pieces(input.edits)) IN
             result' = [kind |-> "edit", candidate |-> candidate,
                        spans |-> EditRanges(input.text, candidate,
                                             input.edits)]
Next == result = Nothing /\ (Compare \/ Trace \/ Locate) /\ UNCHANGED input

Spec == Init /\ [][Next]_vars

-----------------------------------------------------------------------------
(* Properties. *)

(* What all longest alignments agree on. *)
Sure(a, b) == LET longest == Longest(a, b)
              IN {p \in UNION longest : \A s \in longest : p \in s}
Lost(line, a, b) == \A s \in Longest(a, b) : \A p \in s : p[1] # line

(* A line is said to be unchanged, removed or added exactly when every
   longest alignment says so; when the texts are too long to be aligned, only
   what no alignment could contradict is said. *)
MappingJustified ==
    result.kind = "comparison" =>
      LET a == input.a
          b == input.b
          m == result.mapping
          longest == Longest(a, b)
          forced == Sure(a, b)
          removed == {i \in DOMAIN a : \A p \in UNION longest : p[1] # i}
          added == {j \in DOMAIN b : \A p \in UNION longest : p[2] # j}
      IN /\ m.forward \subseteq forced
         /\ m.removed \subseteq removed /\ m.added \subseteq added
         /\ a = b \/ b = <<>> \/ Len(a) <= CellLimit \div Len(b) =>
              m.forward = forced /\ m.removed = removed /\ m.added = added

(* A report names a line of the initial or the accepted text as changed only
   if the two differ there, and as held only if it is surely one of the lines
   recorded; it drops a recorded change only if no line of it is still to be
   seen: each line it put in is surely gone from the accepted text or surely
   one of the initial text, each line it took out was surely not in the
   initial text or surely is still in the accepted one. *)
RowsJustified ==
    result.kind = "row" =>
      LET old == input.old
          new == input.new
          base == input.base
          final == input.final
          In(side) == (side[1] .. side[2]) \ {0}
          either == UNION Longest(base, final)
          Recorded(line) ==
            \/ line \in In(input.span.before)
            \/ \E k \in In(input.span.after) : <<k, line>> \in Sure(new, old)
      IN /\ \A p \in either : /\ p[1] \notin result.row.before
                              /\ p[2] \notin result.row.after
         /\ result.row.gone =>
              \A k \in In(input.span.after) :
                \/ Lost(k, new, final)
                \/ \E p \in Sure(base, final) : <<k, p[2]>> \in Sure(new, final)
         /\ result.row.gone =>
              \A k \in In(input.span.before) :
                \/ Lost(k, old, base)
                \/ \E p \in Sure(base, final) : <<k, p[1]>> \in Sure(old, base)
         /\ \A j \in result.held.before :
              \E p \in Sure(old, base) : p[2] = j /\ Recorded(p[1])
         /\ \A j \in result.held.after :
              \E p \in Sure(old, final) : p[2] = j /\ Recorded(p[1])

(* The changed bytes, taken together, make the candidate out of the source,
   and every line of the source that no range names is a line of the
   candidate, unless the newline before it was taken away. *)
Place(x) == x.bytes.oldStart + x.bytes.newStart
Ordered(spans) == SetToSortSeq(spans, LAMBDA x, y : Place(x) < Place(y))
RangesExact ==
    result.kind = "edit" =>
      LET text == input.text
          candidate == result.candidate
          spans == result.spans
          pieces == [k \in 1 .. Cardinality(spans) |->
                       LET x == Ordered(spans)[k].bytes IN
                       [at |-> x.oldStart,
                        old |-> Cut(text, x.oldStart, x.oldEnd),
                        new |-> Cut(candidate, x.newStart, x.newEnd)]]
          Named(line) ==
            \E x \in spans : line \in x.before[1] .. x.before[2]
          Shift(at) ==
            FoldFunction(LAMBDA p, n :
              (IF p.at + Len(p.old) <= at THEN Len(p.new) - Len(p.old) ELSE 0)
              + n, 0, pieces)
      IN /\ Replaced(text, pieces) = candidate
         /\ \A to \in LineEnds(text) :
              LET line == LineOf(text, to - 1)
                  from == Max({0} \cup {k \in LineEnds(text) : k < to})
                  at == from + Shift(from)
                  tail == at + to - from
              IN \/ Named(line)
                 \/ \E x \in spans : from \in x.bytes.oldStart + 1 .. x.bytes.oldEnd
                 \/ /\ Cut(candidate, at, tail) = Cut(text, from, to)
                    /\ at = 0 \/ candidate[at] = NL
                    /\ tail \in LineEnds(candidate)
=============================================================================
