---------------------------- MODULE TextPreview ----------------------------
(***************************************************************************)
(* The preview of a text: finding in it (FilePreviewDialog of              *)
(* src/frontend/src/components/FileDialogs), marking what is found in the  *)
(* part that is in view (components/TextEditor), and reading a table of    *)
(* separated values (csv).                                                 *)
(*                                                                         *)
(* A text is a sequence of characters; positions count from 0 and -1 is    *)
(* nowhere, as in the code.                                                *)
(***************************************************************************)
EXTENDS Integers, SequencesExt

CONSTANTS
  Sources,         \* the texts that are previewed, as they are and rendered:
                   \* records with fields raw and rendered
  Lower,           \* for the characters that have one, their lower case: one character or more
  Needles,         \* what is looked for: a bound
  Rows,            \* the rows of the tables that are previewed: a bound
  TableRows,       \* how many of them a table has at most: a bound
  MaxRows, MaxColumns, MaxCellCharacters, MaxCharacters   \* the limits of csv

Newline == "\n"
Return == "\r"
Quote == "\""

VARIABLES
  source,          \* the text that is previewed
  rich,            \* whether it is rendered, or shown as it is
  findOpen, findQuery,
  findIndex,       \* which of the matches is the current one,
  findStart,       \* and its position
  table            \* the table that is previewed, its separator and how its lines end

previewVars == <<source, rich, findOpen, findQuery, findIndex, findStart, table>>

NoText == [raw |-> <<>>, rendered |-> <<>>]
NoTable == [rows |-> <<>>, separator |-> "", lineEnd |-> <<>>, ended |-> FALSE]

-----------------------------------------------------------------------------
\* Finding.

Slice(s, from, to) == SubSeq(s, from + 1, to)
StartsAt(s, query, i) == i + Len(query) <= Len(s) /\ Slice(s, i, i + Len(query)) = query

\* String.indexOf.
IndexOf(s, query, from) ==
  LET found == {i \in from .. Len(s) - 1 : StartsAt(s, query, i)} IN
  IF found = {} THEN -1 ELSE CHOOSE i \in found : \A k \in found : i <= k

\* The matches that do not overlap, one after the other; -1 beyond the last.
MatchList(s, query) ==
  LET match[k \in 0 .. Len(s)] ==
        IF k = 0 THEN IndexOf(s, query, 0)
        ELSE IF match[k - 1] = -1 THEN -1
        ELSE IndexOf(s, query, match[k - 1] + Len(query))
  IN match

MatchSet(s, query) ==
  IF query = <<>> THEN {}
  ELSE {MatchList(s, query)[k] : k \in 0 .. Len(s)} \ {-1}

\* String.toLocaleLowerCase, which may change the length of a text.
Lowered(c) == IF c \in DOMAIN Lower THEN Lower[c] ELSE <<c>>
LowerCase(s) == FlattenSeq([i \in DOMAIN s |-> Lowered(s[i])])

Greatest(S) == IF S = {} THEN -1 ELSE CHOOSE i \in S : \A k \in S : k <= i
Least(S) == IF S = {} THEN -1 ELSE CHOOSE i \in S : \A k \in S : i <= k

Searchable == LowerCase(IF rich THEN source.rendered ELSE source.raw)
ActiveQuery == IF findOpen THEN findQuery ELSE <<>>
NormalizedQuery == LowerCase(ActiveQuery)
Found == MatchSet(Searchable, NormalizedQuery)

PreviousMatch(before) == Greatest({i \in Found : i < before})

\* Mutant: the same number of matches from the same place on is no change.
MutStartAgain ==
  IF Cardinality(Found') # Cardinality(Found) \/ Least(Found') # Least(Found)
     \/ NormalizedQuery' # NormalizedQuery
  THEN findIndex' = (IF Found' = {} THEN -1 ELSE 0) /\ findStart' = Least(Found')
  ELSE UNCHANGED <<findIndex, findStart>>

\* The effect that starts again at the first match, when the query, the text or
\* what was found has changed.
StartAgain ==
  IF NormalizedQuery' # NormalizedQuery \/ Searchable' # Searchable
  THEN findIndex' = (IF Found' = {} THEN -1 ELSE 0) /\ findStart' = Least(Found')
  ELSE UNCHANGED <<findIndex, findStart>>

\* Another file, or other text of the same one.
OpenText(s) ==
  /\ table = NoTable /\ source' = s /\ rich' \in BOOLEAN /\ findOpen' = FALSE /\ findQuery' = <<>>
  /\ StartAgain /\ UNCHANGED table

Reload(s) ==
  /\ source # NoText
  /\ source' = s
  /\ UNCHANGED <<rich, findOpen, findQuery, table>> /\ StartAgain

\* Rendered in the dialog, as it is on the whole screen.
FullScreenText ==
  /\ rich /\ rich' = FALSE
  /\ UNCHANGED <<source, findOpen, findQuery, table>> /\ StartAgain

ShowFind ==
  /\ source # NoText /\ findOpen' = TRUE
  /\ UNCHANGED <<source, rich, findQuery, table>> /\ StartAgain

HideFind ==
  /\ findOpen /\ findOpen' = FALSE
  /\ UNCHANGED <<source, rich, findQuery, table>> /\ StartAgain

TypeQuery(q) ==
  /\ findOpen /\ findQuery' = q
  /\ UNCHANGED <<source, rich, findOpen, table>> /\ StartAgain

MoveFind(direction) ==
  /\ findOpen /\ Found # {}
  /\ LET next == IndexOf(Searchable, NormalizedQuery, findStart + Len(NormalizedQuery))
         previous == PreviousMatch(findStart)
     IN findStart' = IF direction = 1
                     THEN IF next = -1 THEN Least(Found) ELSE next
                     ELSE IF previous = -1 THEN Greatest(Found) ELSE previous
  /\ LET count == Cardinality(Found) IN
     findIndex' = (findIndex + direction + count) % count
  /\ UNCHANGED <<source, rich, findOpen, findQuery, table>>

-----------------------------------------------------------------------------
\* Marking.

\* What the editor holds: every line ends with one character, however it did.
Document ==
  LET s == source.raw IN
  FlattenSeq([i \in DOMAIN s |-> IF s[i] = Return THEN <<Newline>>
                                ELSE IF s[i] = Newline /\ i > 1 /\ s[i - 1] = Return THEN <<>>
                                ELSE <<s[i]>>])

\* The editor looks for the query again in the ranges that are in view, and in as
\* much around each as a match can reach.
MatchesIn(range) ==
  LET n == Len(NormalizedQuery)
      searchFrom == IF range.from - n + 1 > 0 THEN range.from - n + 1 ELSE 0
      searchTo == IF range.to + n - 1 < Len(Document) THEN range.to + n - 1 ELSE Len(Document)
      there == MatchSet(LowerCase(Slice(Document, searchFrom, searchTo)), NormalizedQuery)
  IN {i \in {searchFrom + k : k \in there} : i + n > range.from /\ i < range.to}

Added(visible) ==
  LET added[k \in 0 .. Len(visible)] ==
        IF k = 0 THEN {}
        ELSE added[k - 1] \cup {i \in MatchesIn(visible[k]) : i > Greatest(added[k - 1])}
  IN added

Marks(visible) == Added(visible)[Len(visible)]

\* The mark that is shown as the current one: from and to are those of the dialog,
\* which are positions in the text it searches, with the length that was typed.
CurrentMarks(visible) ==
  {i \in Marks(visible) : i = findStart /\ i + Len(NormalizedQuery) = findStart + Len(ActiveQuery)}

\* The dialog walks over the pieces of rendered text, in the order of the page; a
\* match that goes on in the next piece is marked there again.
WalkStart ==
  [node |-> 1, offset |-> 0, match |-> IndexOf(Searchable, NormalizedQuery, 0), marks |-> {}]

WalkOn(lengths, w) ==
  LET n == Len(NormalizedQuery)
      end == w.offset + lengths[w.node]
      next == [w EXCEPT !.node = @ + 1, !.offset = end]
      mark == [from |-> IF w.match > w.offset THEN w.match ELSE w.offset,
               to |-> IF w.match + n < end THEN w.match + n ELSE end,
               current |-> w.match = findStart]
  IN IF w.match = -1 \/ w.match >= end THEN next
     ELSE IF w.match + n > end THEN [next EXCEPT !.marks = @ \cup {mark}]
     ELSE [w EXCEPT !.marks = @ \cup {mark},
                    !.match = IndexOf(Searchable, NormalizedQuery, w.match + n)]

LongestWalk == Len(source.rendered) + Len(Searchable)
Walked(lengths) ==
  LET after[k \in 0 .. LongestWalk] ==
        IF k = 0 THEN WalkStart
        ELSE IF after[k - 1].node > Len(lengths) THEN after[k - 1]
        ELSE WalkOn(lengths, after[k - 1])
  IN after

RenderedMarks(lengths) == Walked(lengths)[LongestWalk].marks

\* The view begins and ends with a line, unless a line is very long.
LineStarts == {0} \cup {i \in 1 .. Len(Document) : Document[i] = Newline}
LineEnds == {Len(Document)} \cup {i - 1 : i \in LineStarts \ {0}}

-----------------------------------------------------------------------------
\* Reading separated values.

FirstLine(s) ==
  LET ends == {i \in DOMAIN s : s[i] = Newline} IN
  IF ends = {} THEN s ELSE SubSeq(s, 1, Least(ends) - 1)
Occurrences(c, s) == Cardinality({i \in DOMAIN s : s[i] = c})
SeparatorFor(s) ==
  IF Occurrences(";", FirstLine(s)) > Occurrences(",", FirstLine(s)) THEN ";" ELSE ","

CutTo(s, n) == IF Len(s) > n THEN SubSeq(s, 1, n) ELSE s

PushField(p) ==
  [p EXCEPT !.row = IF Len(@) < MaxColumns THEN Append(@, CutTo(p.field, MaxCellCharacters)) ELSE @,
            !.truncated = @ \/ Len(p.row) >= MaxColumns \/ Len(p.field) > MaxCellCharacters,
            !.field = <<>>]

\* Mutant: the last row that fits counts as cut.
MutPushRow(p) ==
  LET q == PushField(p) IN
  [q EXCEPT !.rows = IF Len(@) < MaxRows THEN Append(@, q.row) ELSE @,
            !.truncated = @ \/ Len(q.rows) + 1 >= MaxRows,
            !.row = <<>>]

PushRow(p) ==
  LET q == PushField(p) IN
  [q EXCEPT !.rows = IF Len(@) < MaxRows THEN Append(@, q.row) ELSE @,
            !.truncated = @ \/ Len(q.rows) >= MaxRows,
            !.row = <<>>]

\* The loop of parseCsv over one character; a pair of quotes or of line ends is
\* read at once, and "stop" leaves the loop.
ReadCharacter(input, separator, p, i) ==
  LET c == input[i]
      second == IF i < Len(input) THEN input[i + 1] ELSE ""
      last == IF c = Return /\ second = Newline THEN i + 1 ELSE i
      pushed == PushRow(p)
  IN IF p.stop \/ i <= p.read THEN p
     ELSE IF c = Quote /\ p.quoted /\ second = Quote
          THEN [p EXCEPT !.field = Append(@, Quote), !.read = i + 1]
     ELSE IF c = Quote THEN [p EXCEPT !.quoted = ~@]
     ELSE IF p.quoted THEN [p EXCEPT !.field = Append(@, c)]
     ELSE IF c = separator THEN PushField(p)
     ELSE IF c \in {Newline, Return}
          THEN [pushed EXCEPT !.read = last, !.stop = Len(pushed.rows) >= MaxRows,
                              !.truncated = @ \/ (Len(pushed.rows) >= MaxRows /\ last < Len(input))]
     ELSE [p EXCEPT !.field = Append(@, c)]

Unread(cut) ==
  [rows |-> <<>>, row |-> <<>>, field |-> <<>>, quoted |-> FALSE, read |-> 0,
   stop |-> FALSE, truncated |-> cut]

\* Where the parser is after each character.
Reading(input, separator, cut) ==
  LET after[i \in 0 .. Len(input)] ==
        IF i = 0 THEN Unread(cut) ELSE ReadCharacter(input, separator, after[i - 1], i)
  IN after

ParseCsv(s) ==
  LET input == CutTo(s, MaxCharacters)
      end == Reading(input, SeparatorFor(input), Len(s) > MaxCharacters)[Len(input)]
  IN IF end.field # <<>> \/ end.row # <<>> THEN PushRow(end) ELSE end

\* Another table is previewed: it is written a row at a time.
OpenTable(style) ==
  /\ table = NoTable /\ source = NoText
  /\ table' = style
  /\ UNCHANGED <<source, rich, findOpen, findQuery, findIndex, findStart>>

AddRow(row) ==
  /\ table # NoTable /\ Len(table.rows) < TableRows
  /\ table' = [table EXCEPT !.rows = Append(@, row)]
  /\ UNCHANGED <<source, rich, findOpen, findQuery, findIndex, findStart>>

\* The text of a table: what has to be quoted is quoted.
Field(f, separator) ==
  IF ToSet(f) \cap {separator, Quote, Newline, Return} = {} THEN f
  ELSE <<Quote>> \o FlattenSeq([i \in DOMAIN f |-> IF f[i] = Quote THEN <<Quote, Quote>> ELSE <<f[i]>>])
       \o <<Quote>>
Joined(parts, between) ==
  FlattenSeq([i \in DOMAIN parts |-> IF i = 1 THEN parts[i] ELSE between \o parts[i]])
TableText(t) ==
  LET line(row) == Joined([i \in DOMAIN row |-> Field(row[i], t.separator)], <<t.separator>>) IN
  Joined([i \in DOMAIN t.rows |-> line(t.rows[i])], t.lineEnd) \o (IF t.ended THEN t.lineEnd ELSE <<>>)

-----------------------------------------------------------------------------
TableStyles ==
  [rows : {<<>>}, separator : {",", ";"}, lineEnd : {<<Newline>>, <<Return, Newline>>}, ended : BOOLEAN]

PreviewInit ==
  /\ source = NoText /\ rich = FALSE
  /\ findOpen = FALSE /\ findQuery = <<>> /\ findIndex = -1 /\ findStart = -1
  /\ table = NoTable

PreviewNext ==
  \/ \E s \in Sources : OpenText(s) \/ Reload(s)
  \/ FullScreenText \/ ShowFind \/ HideFind
  \/ \E q \in Needles : TypeQuery(q)
  \/ \E direction \in {1, -1} : MoveFind(direction)
  \/ \E style \in TableStyles : OpenTable(style)
  \/ \E row \in Rows : AddRow(row)

-----------------------------------------------------------------------------
OverlapsItself(q) == \E n \in 1 .. Len(q) - 1 : SubSeq(q, 1, n) = SubSeq(q, Len(q) - n + 1, Len(q))

\* What can be in view: a range, or two with something hidden between them.
Views ==
  LET ranges == {r \in [from : 0 .. Len(Document), to : LineEnds] :
                   r.from < r.to /\ (r.from \in LineStarts \/ ~OverlapsItself(NormalizedQuery))} IN
  {<<r>> : r \in ranges} \cup {v \in ranges \X ranges : v[1].to < v[2].from}

\* The ways a rendered text can be cut into pieces.
Offsets(lengths) ==
  LET offset[k \in 0 .. Len(lengths)] == IF k = 0 THEN 0 ELSE offset[k - 1] + lengths[k]
  IN offset
Cuts(length) ==
  {c \in UNION {[1 .. k -> 1 .. length] : k \in 0 .. length} : Offsets(c)[Len(c)] = length}

KeepsLength(s) == \A i \in DOMAIN s : Len(Lowered(s[i])) = 1
InView(i, view) ==
  \E range \in ToSet(view) : i + Len(NormalizedQuery) > range.from /\ i < range.to

\* The number that is shown is the number of the match that is current, after
\* any sequence of steps back and forth, other queries and other texts.  What is
\* marked, although the editor looks by itself in what is in view and a rendered text
\* is in pieces, are the matches of the text that is shown, if that text is as long in
\* lower case; and the current mark is at the current match.  (The editor holds a text
\* whose lines end by one character, so its matches are those that are counted, at the
\* positions that are gone through, only in a text without a carriage return; and
\* it shows no current mark for a query that is longer in lower case.)
FindAgrees ==
  LET Reached(i) == i .. i + Len(NormalizedQuery) - 1 IN
  /\ IF Found = {} THEN findIndex = -1 /\ findStart = -1
     ELSE findIndex \in 0 .. Cardinality(Found) - 1
          /\ findStart = MatchList(Searchable, NormalizedQuery)[findIndex]
  /\ ~rich /\ KeepsLength(Document) => \A view \in Views :
       /\ Marks(view) = {i \in MatchSet(LowerCase(Document), NormalizedQuery) : InView(i, view)}
       /\ Document = source.raw =>
            /\ Marks(view) = {i \in Found : InView(i, view)}
            /\ KeepsLength(ActiveQuery) =>
                 CurrentMarks(view) = {i \in Found : i = findStart /\ InView(i, view)}
  /\ rich /\ KeepsLength(source.rendered) /\ NormalizedQuery # <<>> =>
     \A lengths \in Cuts(Len(source.rendered)) :
       LET marked(marks) == UNION {m.from .. m.to - 1 : m \in marks} IN
       /\ marked(RenderedMarks(lengths)) = UNION {Reached(i) : i \in Found}
       /\ marked({m \in RenderedMarks(lengths) : m.current}) =
            IF Found = {} THEN {} ELSE Reached(findStart)

\* What is read from the text of a table is the table, whatever its fields
\* hold, up to the limits; and it is said to be cut exactly if it is.  A last row of
\* one empty field is no row, and the separator shows in the first line.
Limited(rows) ==
  LET cells(row) == [i \in DOMAIN row |-> CutTo(row[i], MaxCellCharacters)] IN
  [i \in DOMAIN CutTo(rows, MaxRows) |-> CutTo(cells(rows[i]), MaxColumns)]

CsvReadsBack ==
  LET s == TableText(table) IN
  table # NoTable /\ table.rows # <<>> /\ Last(table.rows) # <<<<>>>>
    /\ SeparatorFor(s) = table.separator
  /\ Len(s) <= MaxCharacters =>
    /\ ParseCsv(s).rows = Limited(table.rows)
    /\ ParseCsv(s).truncated <=> Limited(table.rows) # table.rows
=============================================================================
