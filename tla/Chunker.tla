------------------------------ MODULE Chunker ------------------------------
(***************************************************************************)
(* The chunker of the Wiki (anda_brain/src/wiki/chunk.rs): it cuts the     *)
(* normalised Markdown of a version into the ranges retrieval serves and   *)
(* citations name.                                                         *)
(*                                                                         *)
(* A document is a sequence of lines.  A line is a record                  *)
(*                                                                         *)
(*   [kind, level, title, chars, width]                                    *)
(*                                                                         *)
(* of chars characters of width bytes each and a newline.  The kind is     *)
(* what the byte tests of scan_lines, parse_heading and FenceTracker find  *)
(* at its start: "blank", "text", "table" (a leading |), "heading" (level  *)
(* and title), or a run of backticks or tildes, whose length is level.     *)
(* Offsets are bytes from the start of the document, and a draft covers    *)
(* the bytes from start up to, not including, end.                         *)
(***************************************************************************)
EXTENDS Naturals, Sequences, FiniteSets, SequencesExt

CONSTANTS
  Lines,      \* the lines documents are made of
  MaxLines,   \* bound on the lines of a document
  TargetMin,  \* CHUNK_TARGET_MIN
  TargetMax,  \* CHUNK_TARGET_MAX
  HardMax,    \* CHUNK_HARD_MAX
  AtomicMax,  \* CHUNK_ATOMIC_MAX
  MaxChunks   \* MAX_CHUNKS_PER_VERSION

VARIABLES
  doc,        \* the content given to the service, as lines
  plan        \* the ChunkPlan made of it, <<>> before

chunkVars == <<doc, plan>>

Fences == {"backtick", "tilde"}
Size(line) == line.chars * line.width + 1

\* normalize_content: what is left of a document has neither leading nor trailing blank lines.
Normalize(d) ==
  LET kept == {i \in DOMAIN d : d[i].kind # "blank"}
  IN  IF kept = {} THEN <<>> ELSE SubSeq(d, Min(kept), Max(kept))

-----------------------------------------------------------------------------
(***************************************************************************)
(* Scanning lines.                                                         *)
(***************************************************************************)
NoFence == [kind |-> "none", level |-> 0]
IsRun(line) == line.kind \in Fences /\ line.level >= 3
FenceOf(line) == [kind |-> line.kind, level |-> line.level]

\* FenceTracker::feed: a fence is closed by a run of its own character, at least as long.
Feed(fence, line) ==
  IF fence = NoFence
  THEN IF IsRun(line) THEN FenceOf(line) ELSE NoFence
  ELSE IF line.kind = fence.kind /\ line.level >= fence.level THEN NoFence ELSE fence

\* scan_lines: where a line lies, whether it is in a fence (the delimiters are), and
\* whether it is a section boundary.
Scanned(acc, line) ==
  LET inFence == acc.fence # NoFence \/ IsRun(line)
  IN  [fence |-> Feed(acc.fence, line),
       end   |-> acc.end + Size(line),
       infos |-> Append(acc.infos,
          [start    |-> acc.end,
           end      |-> acc.end + Size(line),
           width    |-> line.width,
           title    |-> line.title,
           level    |-> line.level,
           blank    |-> line.kind = "blank",
           inFence  |-> inFence,
           table    |-> ~inFence /\ line.kind = "table",
           boundary |-> ~inFence /\ line.kind = "heading" /\ line.level <= 3])]

ScanLines(d) == FoldLeft(Scanned, [fence |-> NoFence, end |-> 0, infos |-> <<>>], d).infos

-----------------------------------------------------------------------------
(***************************************************************************)
(* Sections of units.  A unit is a run of lines up to a blank line outside *)
(* a fence, and it keeps the blank lines that follow it.                   *)
(***************************************************************************)
UnitOf(info) ==
  [start |-> info.start, end |-> info.end, lines |-> <<info>>]

Grow(unit, info) ==
  [unit EXCEPT !.end = info.end, !.lines = Append(@, info)]

\* A fence, or rows that are mostly a table, is kept in one piece.
Atomic(unit) ==
  LET rows == SelectSeq(unit.lines, LAMBDA l : ~l.blank)
      table == SelectSeq(rows, LAMBDA l : l.table)
  IN  (\E i \in DOMAIN unit.lines : unit.lines[i].inFence) \/ 2 * Len(table) > Len(rows)

Truncate(s, n) == SubSeq(s, 1, IF n < Len(s) THEN n ELSE Len(s))

\* A boundary starts a section and, with it, a unit.
StartSection(acc, info) ==
  [sections |-> IF acc.units = <<>> THEN acc.sections
                ELSE Append(acc.sections, [path |-> acc.stack, units |-> acc.units]),
   stack    |-> Append(Truncate(acc.stack, info.level - 1), info.title),
   units    |-> <<UnitOf(info)>>,
   broken   |-> FALSE]

\* A line joins the open unit unless a blank line outside a fence has ended it.
NextLine(acc, info) ==
  IF info.boundary THEN StartSection(acc, info)
  ELSE [acc EXCEPT
         !.units = IF @ = <<>> \/ (acc.broken /\ ~info.blank) THEN Append(@, UnitOf(info))
                   ELSE Append(Front(@), Grow(Last(@), info)),
         !.broken = info.blank /\ ~info.inFence]

SplitSections(infos) ==
  LET acc == FoldLeft(NextLine,
               [sections |-> <<>>, stack |-> <<>>, units |-> <<>>, broken |-> FALSE], infos)
  IN  Append(acc.sections, [path |-> acc.stack, units |-> acc.units])

-----------------------------------------------------------------------------
(***************************************************************************)
(* Packing the units of a section into drafts.                             *)
(***************************************************************************)
Draft(path, from, to, forced) == [path |-> path, start |-> from, end |-> to, forced |-> forced]
Length(r) == r.end - r.start

\* floor_char_boundary, in a line that holds the position.
FloorCharBoundary(info, pos) ==
  info.start + ((pos - info.start) \div info.width) * info.width

\* The pieces cut off a line that is longer than the cap, at character boundaries.
CutLine(acc, info, cap) ==
  LET cuts[from \in Nat] ==
        LET cut == FloorCharBoundary(info, from + cap)
        IN  IF info.end - from <= cap \/ cut <= from THEN <<>>
            ELSE <<<<from, cut>>>> \o cuts[cut]
      pieces == cuts[acc.from]
  IN  [from   |-> IF pieces = <<>> THEN acc.from ELSE Last(pieces)[2],
       pieces |-> acc.pieces \o pieces]

\* force_split: pieces of at most cap bytes, at line boundaries where there are some.
ForceSplit(path, lines, cap) ==
  LET Fits(acc, info) == info.end - acc.from <= cap \/ info.start = acc.from
      Step(acc, info) ==
        CutLine(IF Fits(acc, info) THEN acc
                ELSE [from   |-> info.start,
                      pieces |-> Append(acc.pieces, <<acc.from, info.start>>)],
                info, cap)
      acc == FoldLeft(Step, [from |-> Head(lines).start, pieces |-> <<>>], lines)
      all == IF acc.from < Last(lines).end
             THEN Append(acc.pieces, <<acc.from, Last(lines).end>>) ELSE acc.pieces
  IN  [i \in DOMAIN all |-> Draft(path, all[i][1], all[i][2], TRUE)]

\* The closure of pack_section: one draft, or the pieces of a range beyond its cap.
Close(path, range) ==
  LET cap == IF range.atomic THEN AtomicMax ELSE HardMax
  IN  IF Length(range) > cap THEN ForceSplit(path, range.lines, cap)
      ELSE <<Draft(path, range.start, range.end, FALSE)>>

\* Units are joined while the range stays within the target; a joined range is not atomic.
RangeOf(unit) ==
  [start |-> unit.start, end |-> unit.end, lines |-> unit.lines, atomic |-> Atomic(unit)]

JoinsUpToAtomicMax(range, unit) == Length(range) + Length(unit) <= AtomicMax

Joins(range, unit) == Length(range) + Length(unit) <= TargetMax

JoinedRange(range, unit) ==
  [range EXCEPT !.end = unit.end, !.lines = @ \o unit.lines, !.atomic = FALSE]

PackSection(section) ==
  LET Step(acc, unit) ==
        IF Joins(acc.range, unit)
        THEN [acc EXCEPT !.range = JoinedRange(@, unit)]
        ELSE [range |-> RangeOf(unit), drafts |-> acc.drafts \o Close(section.path, acc.range)]
      acc == FoldLeft(Step, [range |-> RangeOf(Head(section.units)), drafts |-> <<>>],
                      Tail(section.units))
  IN  acc.drafts \o Close(section.path, acc.range)

-----------------------------------------------------------------------------
(***************************************************************************)
(* Merging drafts.                                                         *)
(***************************************************************************)
Common(p, q) ==
  Max({n \in 0..(IF Len(p) < Len(q) THEN Len(p) ELSE Len(q)) :
         SubSeq(p, 1, n) = SubSeq(q, 1, n)})

Siblings(p, q) ==
  \/ p = q
  \/ /\ Common(p, q) >= 1
     /\ Len(p) <= Common(p, q) + 1
     /\ Len(q) <= Common(p, q) + 1

Mergeable(a, b) ==
  /\ Length(a) < TargetMin
  /\ ~a.forced /\ ~b.forced
  /\ b.end - a.start <= TargetMax
  /\ Siblings(a.path, b.path)

\* What a merged draft is about is what both sections are about.
MergedUnderFirst(a, b) == Draft(a.path, a.start, b.end, a.forced \/ b.forced)

Merged(a, b) ==
  Draft(SubSeq(a.path, 1, Common(a.path, b.path)), a.start, b.end, a.forced \/ b.forced)

MergeSmallSiblings(drafts) ==
  LET Step(acc, b) == IF Mergeable(Last(acc), b)
                      THEN Append(Front(acc), Merged(Last(acc), b))
                      ELSE Append(acc, b)
  IN  FoldLeft(Step, <<Head(drafts)>>, Tail(drafts))

\* halve_adjacent: pairs are merged whatever they are, an odd last one stays.
HalveAdjacent(drafts) ==
  [i \in 1..((Len(drafts) + 1) \div 2) |->
     IF 2 * i <= Len(drafts) THEN Merged(drafts[2 * i - 1], drafts[2 * i])
     ELSE drafts[2 * i - 1]]

\* Drafts are halved until they are few enough.
Capped(all) ==
  LET halved[n \in Nat] == IF n = 0 THEN all ELSE HalveAdjacent(halved[n - 1])
  IN  halved[Min({n \in 0..Len(all) : Len(halved[n]) <= MaxChunks})]

\* chunk_markdown; anchors number the drafts and are left out.
ChunkMarkdown(content) ==
  IF content = <<>> THEN [drafts |-> <<>>, capped |-> FALSE]
  ELSE LET packed == FlattenSeq([i \in DOMAIN SplitSections(ScanLines(content)) |->
                                   PackSection(SplitSections(ScanLines(content))[i])])
           merged == MergeSmallSiblings(packed)
       IN  [drafts |-> Capped(merged), capped |-> Len(merged) > MaxChunks]

-----------------------------------------------------------------------------
Init ==
  /\ doc \in BoundedSeq(Lines, MaxLines)
  /\ plan = <<>>

\* A version is chunked once, when it is committed or its chunks are rebuilt.
Chunk ==
  /\ plan = <<>>
  /\ plan' = <<ChunkMarkdown(Normalize(doc))>>
  /\ UNCHANGED doc

Next == Chunk
Spec == Init /\ [][Next]_chunkVars

-----------------------------------------------------------------------------
(***************************************************************************)
(* Properties.                                                             *)
(***************************************************************************)
content == Normalize(doc)
drafts == plan[1].drafts
infos == ScanLines(content)
Within(l, d) == infos[l].start < d.end /\ d.start < infos[l].end

\* The boundaries a line is under: those that no later one of their level, or of a
\* higher section, has ended.
InForce(l) ==
  {h \in 1..l : /\ infos[h].boundary
                /\ \A k \in (h + 1)..l : infos[k].boundary => infos[k].level > infos[h].level}

\* The heading path a reader finds for a line.
PathAt(l) ==
  LET heads == SetToSortSeq(InForce(l), <)
  IN  [i \in DOMAIN heads |-> infos[heads[i]].title]

\* A heading skips a level when it has fewer sections above it than its level says.
Skips(h) ==
  /\ infos[h].boundary
  /\ Cardinality({k \in InForce(h - 1) : infos[k].level < infos[h].level}) < infos[h].level - 1

\* A heading skipped a level since the last top heading before the line.
SkippedBefore(l) ==
  LET top == {h \in 1..l : infos[h].boundary /\ infos[h].level = 1}
  IN  \E h \in 1..l : (\A t \in top : h > t) /\ Skips(h)

\* Chunks tile the content: contiguous, none empty, from the first byte to the last.
Tiles ==
  LET n == Len(drafts)
  IN  /\ (n = 0) <=> (content = <<>>)
      /\ n > 0 => drafts[1].start = 0 /\ drafts[n].end = Last(infos).end
      /\ \A i \in 1..n : drafts[i].start < drafts[i].end
      /\ \A i \in 1..(n - 1) : drafts[i].end = drafts[i + 1].start

\* The units of all the sections, a fence or a table with the lines it is not parted from.
Units ==
  LET sections == SplitSections(infos)
  IN  UNION {Range(sections[i].units) : i \in DOMAIN sections}

\* A hit is bounded: only a range within one atomic unit passes the hard bound, and none
\* the atomic one, unless the cap on the number of chunks has merged them.
HitsAreBounded ==
  ~plan[1].capped =>
     \A i \in DOMAIN drafts :
        /\ Length(drafts[i]) <= AtomicMax
        /\ Length(drafts[i]) > HardMax =>
             \E u \in Units : Atomic(u) /\ u.start <= drafts[i].start /\ drafts[i].end <= u.end

\* No cut falls within an atomic unit that fits the atomic bound.
FencesStayWhole ==
  \A u \in Units :
     Atomic(u) /\ Length(u) <= AtomicMax =>
        \E i \in DOMAIN drafts : drafts[i].start <= u.start /\ u.end <= drafts[i].end

\* A chunk is labelled with no heading some line of it is not under, where headings
\* do not skip a level (the code keeps one of the same level above one that does).
LabelsAreHonest ==
  \A i \in DOMAIN drafts : \A l \in DOMAIN infos :
     Within(l, drafts[i]) /\ ~SkippedBefore(l) => IsPrefix(drafts[i].path, PathAt(l))

\* The first chunk has text.
FirstHasText ==
  drafts # <<>> => \E l \in DOMAIN infos : ~infos[l].blank /\ Within(l, drafts[1])

\* Whatever a document holds, its chunks tile it, a single hit stays bounded, a code fence
\* or table that fits is never cut, a chunk is only cited under headings all of it is
\* under (unless a heading skipped a level), and a version has at most
\* MAX_CHUNKS_PER_VERSION (chunk.rs:3-6, 25-33, 508-512).
ChunksAreExact ==
  plan # <<>> =>
     /\ Tiles
     /\ HitsAreBounded
     /\ FencesStayWhole
     /\ LabelsAreHonest
     /\ FirstHasText
     /\ Len(drafts) <= MaxChunks
=============================================================================
