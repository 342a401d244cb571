----------------------------- MODULE TextProofs -----------------------------
(***************************************************************************)
(* Proofs about the preview of a text or a table (TextPreview), for every  *)
(* text, query and table: what is counted, gone through and marked are the *)
(* same matches, and a table is read as it is written.                     *)
(***************************************************************************)
EXTENDS WebPages, SequenceTheorems, FunctionTheorems, FiniteSetTheorems, WellFoundedInduction, TLAPS

-----------------------------------------------------------------------------
(***************************************************************************)
(* Induction and recursion.  The theorems of the library on them take      *)
(* operators, which stand for formulas; these take sets and functions.     *)
(***************************************************************************)

\* A set of numbers has a smallest one.
LEMMA SmallestOf ==
  ASSUME NEW T \in SUBSET Nat, T # {}
  PROVE  \E n \in T : \A m \in T : n <= m
<1> DEFINE less == {ss \in Nat \X Nat : ss[1] < ss[2]}
<1>1. IsWellFoundedOn(less, Nat)
  BY NatLessThanWellFounded, Zenon DEF OpToRel
<1>2. \A n, m \in Nat : m < n => <<m, n>> \in less
  OBVIOUS
<1> HIDE DEF less
<1>3. PICK n \in T : \A m \in T : <<m, n>> \notin less
  BY <1>1, WFMin, Zenon
<1>4. ASSUME NEW m \in T PROVE n <= m
  <2>1. m \in Nat /\ n \in Nat /\ ~(m < n)
    BY <1>2, <1>3
  <2>2. QED
    BY <2>1
<1>5. QED
  BY <1>4

\* A set that holds 0 and with each number the next one holds every number.
LEMMA Induction ==
  ASSUME NEW T, 0 \in T, \A n \in Nat : n \in T => n + 1 \in T
  PROVE  Nat \subseteq T
<1> SUFFICES ASSUME Nat \ T # {} PROVE FALSE
  OBVIOUS
<1>1. PICK n \in Nat \ T : \A m \in Nat \ T : n <= m
  BY SmallestOf
<1>2. n - 1 \in T /\ n - 1 \in Nat /\ n = (n - 1) + 1
  <2>1. n # 0
    BY <1>1
  <2>2. n - 1 \in Nat /\ ~(n <= n - 1) /\ n = (n - 1) + 1
    BY <2>1
  <2>3. QED
    BY <1>1, <2>2
<1>3. QED
  BY <1>2

\* The values that a step makes one of another, from a on, are a function.
Iterates(f, N, S, a, step) ==
  f \in [0 .. N -> S] /\ f[0] = a /\ \A k \in 1 .. N : f[k] = step[<<f[k - 1], k>>]

\* A step and a first value make such a function.
LEMMA Recursion ==
  ASSUME NEW N \in Nat, NEW S, NEW a \in S, NEW step \in [S \X (1 .. N) -> S]
  PROVE  \E f : Iterates(f, N, S, a, step)
<1> DEFINE Good(n, f) == f[0] = a /\ \A k \in 1 .. n : f[k] = step[<<f[k - 1], k>>]
           T == {n \in Nat : n <= N => \E f \in [0 .. n -> S] : Good(n, f)}
<1>1. 0 \in T
  <2>1. Good(0, [k \in 0 .. 0 |-> a]) /\ [k \in 0 .. 0 |-> a] \in [0 .. 0 -> S]
    OBVIOUS
  <2>2. QED
    BY <2>1
<1>2. ASSUME NEW n \in T, n + 1 <= N PROVE \E f \in [0 .. n + 1 -> S] : Good(n + 1, f)
  <2>1. PICK f \in [0 .. n -> S] : Good(n, f)
    BY <1>2
  <2> DEFINE g == [k \in 0 .. n + 1 |-> IF k = n + 1 THEN step[<<f[n], n + 1>>] ELSE f[k]]
  <2>2. g \in [0 .. n + 1 -> S]
    BY <1>2
  <2>3. g[0] = a
    BY <2>1
  <2>4. ASSUME NEW k \in 1 .. n + 1 PROVE g[k] = step[<<g[k - 1], k>>]
    <3>1. CASE k = n + 1
      <4>1. k - 1 = n /\ g[n] = f[n] /\ g[k] = step[<<f[n], n + 1>>]
        BY <3>1
      <4>2. QED
        BY <3>1, <4>1
    <3>2. CASE k # n + 1
      <4>1. k \in 1 .. n /\ g[k] = f[k] /\ g[k - 1] = f[k - 1]
        BY <3>2
      <4>2. QED
        BY <4>1, <2>1
    <3>3. QED
      BY <3>1, <3>2
  <2>5. QED
    BY <2>2, <2>3, <2>4
<1>3. Nat \subseteq T
  <2>1. \A n \in Nat : n \in T => n + 1 \in T
    BY <1>2
  <2> HIDE DEF T
  <2>2. QED
    BY <1>1, <2>1, Induction
<1>4. QED
  <2>1. N \in T
    BY <1>3
  <2>2. QED
    BY <2>1 DEF Iterates

-----------------------------------------------------------------------------
(***************************************************************************)
(* Sequences end to end.                                                   *)
(***************************************************************************)

\* A sequence that is one after another.
Joins(u, s, t) ==
  /\ Len(s) \in Nat /\ Len(t) \in Nat /\ Len(u) = Len(s) + Len(t)
  /\ \A i \in 1 .. Len(s) : i \in 1 .. Len(u) /\ u[i] = s[i]
  /\ \A i \in 1 .. Len(t) : Len(s) + i \in 1 .. Len(u) /\ u[Len(s) + i] = t[i]

\* A function on 1 .. n is a sequence of length n.
LEMMA SeqFrom ==
  ASSUME NEW S, NEW n \in Nat, NEW f \in [1 .. n -> S]
  PROVE  f \in Seq(S) /\ Len(f) = n
OBVIOUS

\* A concatenation joins its parts.
LEMMA ConcatIs ==
  ASSUME NEW S, NEW s \in Seq(S), NEW t \in Seq(S)
  PROVE  Joins(s \o t, s, t) /\ s \o t \in Seq(S)
<1> DEFINE u == s \o t
<1>1. Len(s) \in Nat /\ Len(t) \in Nat
  OBVIOUS
<1>2. /\ u \in Seq(S) /\ Len(u) = Len(s) + Len(t)
      /\ \A i \in 1 .. Len(s) + Len(t) : u[i] = IF i <= Len(s) THEN s[i] ELSE t[i - Len(s)]
  BY ConcatProperties, Zenon
<1> HIDE DEF u
<1>3. ASSUME NEW i \in 1 .. Len(s) PROVE i \in 1 .. Len(u) /\ u[i] = s[i]
  BY <1>1, <1>2
<1>4. ASSUME NEW i \in 1 .. Len(t) PROVE Len(s) + i \in 1 .. Len(u) /\ u[Len(s) + i] = t[i]
  <2>1. Len(s) + i \in 1 .. Len(s) + Len(t) /\ ~(Len(s) + i <= Len(s)) /\ (Len(s) + i) - Len(s) = i
    BY <1>1
  <2>2. QED
    BY <1>2, <2>1
<1>5. Joins(u, s, t)
  BY <1>1, <1>2, <1>3, <1>4 DEF Joins
<1>6. QED
  BY <1>2, <1>5 DEF u

\* Where each of the parts of a sequence ends.
Ends(parts, b) ==
  /\ b \in [0 .. Len(parts) -> Nat] /\ b[0] = 0
  /\ \A k \in 1 .. Len(parts) : b[k] = b[k - 1] + Len(parts[k])

\* A sequence of these parts.
Consists(s, parts, b) ==
  /\ Ends(parts, b) /\ Len(s) = b[Len(parts)]
  /\ \A k \in 1 .. Len(parts) : \A j \in 1 .. Len(parts[k]) : s[b[k - 1] + j] = parts[k][j]

\* FlattenSeq makes a sequence that consists of the parts.
LEMMA FlattenIs ==
  ASSUME NEW S, NEW parts \in Seq(Seq(S))
  PROVE  /\ Text!FlattenSeq(parts) \in Seq(S)
         /\ \E b : Consists(Text!FlattenSeq(parts), parts, b)
<1> DEFINE N == Len(parts)
           step == [x \in Seq(S) \X (1 .. N) |-> x[1] \o parts[x[2]]]
<1>1. N \in Nat /\ <<>> \in Seq(S) /\ \A k \in 1 .. N : parts[k] \in Seq(S)
  OBVIOUS
<1> HIDE DEF N
<1>2. step \in [Seq(S) \X (1 .. N) -> Seq(S)]
  BY <1>1
<1>3. \A s \in Seq(S), k \in 1 .. N : step[<<s, k>>] = s \o parts[k]
  OBVIOUS
<1> HIDE DEF step
<1>4. PICK f : Iterates(f, N, Seq(S), <<>>, step)
  BY <1>1, <1>2, Recursion, Zenon
<1>5. f \in [0 .. N -> Seq(S)] /\ f[0] = <<>>
  BY <1>4 DEF Iterates
<1>6. \A k \in 1 .. N : k - 1 \in 0 .. N /\ f[k - 1] \in Seq(S) /\ f[k] \in Seq(S)
  BY <1>1, <1>5
<1>7. \A k \in 1 .. N : f[k] = f[k - 1] \o parts[k]
  BY <1>4, <1>3, <1>6 DEF Iterates
<1>8. \A k \in 1 .. N : Joins(f[k], f[k - 1], parts[k])
  BY <1>1, <1>6, <1>7, ConcatIs
<1> DEFINE b == [k \in 0 .. N |-> Len(f[k])]
<1>9. Ends(parts, b)
  <2>1. b \in [0 .. N -> Nat] /\ b[0] = 0
    BY <1>5, <1>1
  <2>2. ASSUME NEW k \in 1 .. N PROVE b[k] = b[k - 1] + Len(parts[k])
    <3>1. Len(f[k]) = Len(f[k - 1]) + Len(parts[k])
      BY <1>8 DEF Joins
    <3>2. b[k] = Len(f[k]) /\ b[k - 1] = Len(f[k - 1])
      BY <1>1, <1>6
    <3>3. QED
      BY <3>1, <3>2
  <2>3. QED
    BY <2>1, <2>2, Zenon DEF Ends, N
<1>10. ASSUME NEW k \in 1 .. N, NEW j \in 1 .. Len(parts[k])
      PROVE  f[N][b[k - 1] + j] = parts[k][j]
  <2> DEFINE x == Len(f[k - 1]) + j
             T == {m \in Nat : k + m <= N => x \in 1 .. Len(f[k + m]) /\ f[k + m][x] = parts[k][j]}
  <2>1. Len(parts[k]) \in Nat /\ Len(f[k - 1]) \in Nat
    BY <1>1, <1>6, LenProperties
  <2>2. 0 \in T
    <3>1. x \in 1 .. Len(f[k]) /\ f[k][x] = parts[k][j]
      BY <1>8, Zenon DEF Joins
    <3>2. k + 0 = k
      OBVIOUS
    <3> HIDE DEF x
    <3>3. QED
      BY <3>1, <3>2
  <2>3. ASSUME NEW m \in Nat, m \in T PROVE m + 1 \in T
    <3> DEFINE next == k + (m + 1)
    <3> HIDE DEF x
    <3>1. SUFFICES ASSUME next <= N PROVE x \in 1 .. Len(f[next]) /\ f[next][x] = parts[k][j]
      OBVIOUS
    <3>2. next \in 1 .. N /\ next - 1 = k + m /\ k + m <= N
      BY <3>1, <1>1
    <3>3. x \in 1 .. Len(f[k + m]) /\ f[k + m][x] = parts[k][j]
      BY <2>3, <3>2
    <3> HIDE DEF next
    <3>4. x \in 1 .. Len(f[next - 1]) /\ f[next - 1][x] = parts[k][j]
      BY <3>2, <3>3
    <3>5. QED
      BY <3>2, <3>4, <1>8, Zenon DEF Joins
  <2>4. Nat \subseteq T
    <3> HIDE DEF T
    <3>1. QED
      BY <2>2, <2>3, Induction
  <2>5. N - k \in Nat /\ k + (N - k) = N
    BY <1>1
  <2>6. f[N][x] = parts[k][j]
    <3> HIDE DEF x
    <3>1. \A m \in Nat : k + m <= N => f[k + m][x] = parts[k][j]
      BY <2>4
    <3>2. k + (N - k) <= N
      BY <2>5, <1>1
    <3>3. f[k + (N - k)][x] = parts[k][j]
      BY <2>5, <3>1, <3>2
    <3>4. QED
      BY <2>5, <3>3
  <2>7. b[k - 1] = Len(f[k - 1])
    BY <1>6
  <2>8. QED
    BY <2>6, <2>7
<1>11. Text!FlattenSeq(parts) = f[N]
  <2>1. CASE N = 0
    <3>1. Text!FlattenSeq(parts) = parts /\ parts = <<>>
      BY <2>1 DEF Text!FlattenSeq, N
    <3>2. QED
      BY <1>5, <2>1, <3>1
  <2>2. CASE N # 0
    <3> DEFINE flat == [k \in 1 .. N |-> f[k]]
    <3>1. flat = [i \in 1 .. N |-> IF i = 1 THEN parts[i] ELSE flat[i - 1] \o parts[i]]
      <4>1. f[1] = parts[1]
        <5>1. 1 \in 1 .. N /\ 1 - 1 = 0
          BY <1>1, <2>2
        <5>2. f[1] = <<>> \o parts[1] /\ parts[1] \in Seq(S)
          BY <5>1, <1>1, <1>5, <1>7
        <5>3. QED
          BY <5>2, ConcatEmptySeq
      <4>2. ASSUME NEW i \in 1 .. N, i # 1 PROVE f[i] = flat[i - 1] \o parts[i]
        <5>1. i - 1 \in 1 .. N
          BY <1>1, <4>2
        <5>2. QED
          BY <5>1, <1>7
      <4>3. \A i \in 1 .. N : f[i] = IF i = 1 THEN parts[i] ELSE flat[i - 1] \o parts[i]
        BY <4>1, <4>2
      <4>4. QED
        BY <4>3
    <3> HIDE DEF flat
    <3>2. PICK g : /\ g = [i \in 1 .. N |-> IF i = 1 THEN parts[i] ELSE g[i - 1] \o parts[i]]
                   /\ Text!FlattenSeq(parts) = g[N]
      BY <3>1, <2>2, Zenon DEF Text!FlattenSeq, N
    <3> DEFINE T == {k \in Nat : k + 1 <= N => g[k + 1] = f[k + 1]}
    <3>3. f[1] = parts[1]
      <4>1. 1 \in 1 .. N /\ flat[1] = f[1]
        BY <1>1, <2>2 DEF flat
      <4>2. QED
        BY <3>1, <4>1
    <3>4. 0 \in T
      <4>1. 1 \in 1 .. N
        BY <1>1, <2>2
      <4>2. g[1] = parts[1]
        BY <3>2, <4>1
      <4>3. QED
        BY <3>3, <4>2
    <3>5. ASSUME NEW k \in Nat, k \in T PROVE k + 1 \in T
      <4>1. SUFFICES ASSUME (k + 1) + 1 <= N PROVE g[(k + 1) + 1] = f[(k + 1) + 1]
        OBVIOUS
      <4>2. (k + 1) + 1 \in 1 .. N /\ (k + 1) + 1 # 1 /\ ((k + 1) + 1) - 1 = k + 1 /\ k + 1 <= N
        BY <1>1, <4>1
      <4>3. g[(k + 1) + 1] = g[k + 1] \o parts[(k + 1) + 1]
        BY <3>2, <4>2
      <4>4. f[(k + 1) + 1] = f[k + 1] \o parts[(k + 1) + 1]
        BY <1>7, <4>2
      <4>5. QED
        BY <3>5, <4>2, <4>3, <4>4
    <3>6. Nat \subseteq T
      <4> HIDE DEF T
      <4>1. QED
        BY <3>4, <3>5, Induction
    <3>7. N - 1 \in Nat /\ (N - 1) + 1 = N
      BY <1>1, <2>2
    <3>8. N - 1 \in T /\ (N - 1) + 1 <= N
      BY <1>1, <3>6, <3>7
    <3>9. QED
      BY <3>2, <3>7, <3>8
  <2>3. QED
    BY <2>1, <2>2
<1>12. f[N] \in Seq(S) /\ Len(f[N]) = b[N]
  BY <1>1, <1>5
<1> HIDE DEF b
<1>13. Consists(Text!FlattenSeq(parts), parts, b)
  BY <1>9, <1>10, <1>11, <1>12, Zenon DEF Consists, N
<1>14. QED
  BY <1>11, <1>12, <1>13

-----------------------------------------------------------------------------
(***************************************************************************)
(* Reading a table.                                                        *)
(***************************************************************************)

\* What texts are made of.  The provers do not know that a literal is a string.
Characters == STRING \cup {Text!Quote, Text!Newline, Text!Return, ",", ";"}
Separators == {",", ";"}

Parser ==
  [rows : Seq(Seq(Seq(Characters))), row : Seq(Seq(Characters)), field : Seq(Characters),
   quoted : BOOLEAN, read : Nat, stop : BOOLEAN, truncated : BOOLEAN]

\* Where the parser is after each character of an input.
Reads(R, input, separator) ==
  /\ R \in [0 .. Len(input) -> Parser]
  /\ \A i \in 1 .. Len(input) : R[i] = Text!ReadCharacter(input, separator, R[i - 1], i)

\* It goes on after i characters with this.
At(R, i, rows, row, field, quoted, cut) ==
  /\ R[i].rows = rows /\ R[i].row = row /\ R[i].field = field /\ R[i].quoted = quoted
  /\ R[i].truncated = cut /\ ~R[i].stop /\ R[i].read <= i

\* A text that is cut is a text.
LEMMA CutIsTyped ==
  ASSUME NEW S, NEW s \in Seq(S), NEW n \in Nat
  PROVE  Text!CutTo(s, n) \in Seq(S)
<1>1. Len(s) \in Nat /\ \A i \in 1 .. Len(s) : s[i] \in S
  OBVIOUS
<1>2. CASE Len(s) > n
  <2>1. SubSeq(s, 1, n) \in Seq(S)
    BY <1>1, <1>2, SubSeqProperties
  <2>2. QED
    BY <1>2, <2>1 DEF Text!CutTo
<1>3. CASE ~(Len(s) > n)
  BY <1>3 DEF Text!CutTo
<1>4. QED
  BY <1>2, <1>3

\* What pushing a field, or a row, makes of the parser.
Pushed(row, field) ==
  IF Len(row) < MaxColumns THEN Append(row, Text!CutTo(field, MaxCellCharacters)) ELSE row
CutBy(row, field) == Len(row) >= MaxColumns \/ Len(field) > MaxCellCharacters

\* A row with another field is a row.
LEMMA PushedIsTyped ==
  ASSUME NEW row \in Seq(Seq(Characters)), NEW field \in Seq(Characters)
  PROVE  Pushed(row, field) \in Seq(Seq(Characters))
<1>1. Text!CutTo(field, MaxCellCharacters) \in Seq(Characters)
  BY CutIsTyped, TextAssumption
<1>2. QED
  BY <1>1, AppendProperties DEF Pushed

\* A parser with these parts.
Has(q, rows, row, field, quoted, read, stop, truncated) ==
  /\ q \in Parser /\ q.rows = rows /\ q.row = row /\ q.field = field
  /\ q.quoted = quoted /\ q.read = read /\ q.stop = stop /\ q.truncated = truncated

\* The parser that has pushed.
HasPushed(q, p, rows, row, truncated) ==
  Has(q, rows, row, <<>>, p.quoted, p.read, p.stop, truncated)

\* What PushField does to the state of the parser.
LEMMA PushFieldIs ==
  ASSUME NEW p \in Parser
  PROVE  HasPushed(Text!PushField(p), p, p.rows, Pushed(p.row, p.field),
                   p.truncated \/ CutBy(p.row, p.field))
<1>1. p.row \in Seq(Seq(Characters)) /\ p.field \in Seq(Characters) /\ <<>> \in Seq(Characters)
  BY DEF Parser
<1>2. Pushed(p.row, p.field) \in Seq(Seq(Characters))
  BY <1>1, PushedIsTyped
<1>3. ASSUME NEW row \in Seq(Seq(Characters)), NEW truncated \in BOOLEAN, NEW field \in Seq(Characters)
      PROVE  Has([p EXCEPT !.row = row, !.truncated = truncated, !.field = field],
                 p.rows, row, field, p.quoted, p.read, p.stop, truncated)
  BY DEF Parser, Has
<1> DEFINE truncated == p.truncated \/ CutBy(p.row, p.field)
<1>4. Text!PushField(p) =
        [p EXCEPT !.row = Pushed(p.row, p.field), !.truncated = truncated, !.field = <<>>]
  BY Zenon DEF Text!PushField, Pushed, CutBy
<1>5. truncated \in BOOLEAN
  OBVIOUS
<1> HIDE DEF truncated
<1>6. Has([p EXCEPT !.row = Pushed(p.row, p.field), !.truncated = truncated, !.field = <<>>],
          p.rows, Pushed(p.row, p.field), <<>>, p.quoted, p.read, p.stop, truncated)
  BY <1>1, <1>2, <1>3, <1>5, Zenon
<1>7. QED
  BY <1>4, <1>6 DEF HasPushed, truncated

\* What PushRow does to the state of the parser.
LEMMA PushRowIs ==
  ASSUME NEW p \in Parser
  PROVE  HasPushed(Text!PushRow(p), p,
                   IF Len(p.rows) < MaxRows THEN Append(p.rows, Pushed(p.row, p.field)) ELSE p.rows, <<>>,
                   p.truncated \/ CutBy(p.row, p.field) \/ Len(p.rows) >= MaxRows)
<1> DEFINE rows == IF Len(p.rows) < MaxRows THEN Append(p.rows, Pushed(p.row, p.field)) ELSE p.rows
           truncated == p.truncated \/ CutBy(p.row, p.field) \/ Len(p.rows) >= MaxRows
           q == Text!PushField(p)
<1>1. /\ p.rows \in Seq(Seq(Seq(Characters))) /\ p.row \in Seq(Seq(Characters))
      /\ p.field \in Seq(Characters) /\ <<>> \in Seq(Seq(Characters))
  BY DEF Parser
<1>2. Pushed(p.row, p.field) \in Seq(Seq(Characters))
  BY <1>1, PushedIsTyped
<1>3. rows \in Seq(Seq(Seq(Characters)))
  BY <1>1, <1>2, AppendProperties
<1>4. /\ q \in Parser /\ q.rows = p.rows /\ q.row = Pushed(p.row, p.field) /\ q.field = <<>>
      /\ q.quoted = p.quoted /\ q.read = p.read /\ q.stop = p.stop
      /\ q.truncated = (p.truncated \/ CutBy(p.row, p.field))
  BY PushFieldIs DEF HasPushed, Has
<1>5. Text!PushRow(p) = [q EXCEPT !.rows = rows, !.truncated = truncated, !.row = <<>>]
  <2>1. Text!PushRow(p) =
          [q EXCEPT !.rows = IF Len(q.rows) < MaxRows THEN Append(q.rows, q.row) ELSE q.rows,
                    !.truncated = q.truncated \/ Len(q.rows) >= MaxRows, !.row = <<>>]
    BY Zenon DEF Text!PushRow
  <2>2. (q.truncated \/ Len(q.rows) >= MaxRows) = truncated
    BY <1>4
  <2> HIDE DEF q, truncated
  <2>3. QED
    BY <1>4, <2>1, <2>2
<1>6. truncated \in BOOLEAN
  OBVIOUS
<1> HIDE DEF q, rows, truncated
<1>7. ASSUME NEW all \in Seq(Seq(Seq(Characters))), NEW row \in Seq(Seq(Characters)),
             NEW cut \in BOOLEAN
      PROVE  Has([q EXCEPT !.rows = all, !.truncated = cut, !.row = row],
                 all, row, q.field, q.quoted, q.read, q.stop, cut)
  BY <1>4 DEF Parser, Has
<1>8. Has([q EXCEPT !.rows = rows, !.truncated = truncated, !.row = <<>>],
          rows, <<>>, q.field, q.quoted, q.read, q.stop, truncated)
  BY <1>1, <1>3, <1>6, <1>7, Zenon
<1>9. QED
  BY <1>4, <1>5, <1>8 DEF HasPushed, rows, truncated

\* Reading a character keeps the type of the parser's state.
LEMMA ReadIsTyped ==
  ASSUME NEW input \in Seq(Characters), NEW separator, NEW p \in Parser, NEW i \in 1 .. Len(input)
  PROVE  Text!ReadCharacter(input, separator, p, i) \in Parser
<1>1. input[i] \in Characters /\ i \in Nat
  BY ElementOfSeq
<1>2. Text!PushField(p) \in Parser /\ Text!PushRow(p) \in Parser
  BY PushFieldIs, PushRowIs DEF HasPushed, Has
<1>3. p.field \in Seq(Characters) /\ Text!Quote \in Characters
  BY DEF Parser, Characters
<1>4. Append(p.field, input[i]) \in Seq(Characters) /\ Append(p.field, Text!Quote) \in Seq(Characters)
  BY <1>1, <1>3, AppendProperties
<1>5. /\ [p EXCEPT !.field = Append(@, Text!Quote), !.read = i + 1] \in Parser
      /\ [p EXCEPT !.quoted = ~@] \in Parser
      /\ [p EXCEPT !.field = Append(@, input[i])] \in Parser
  <2>1. i + 1 \in Nat
    BY <1>1
  <2>2. ASSUME NEW field \in Seq(Characters), NEW read \in Nat, NEW quoted \in BOOLEAN
        PROVE  /\ [p EXCEPT !.field = field, !.read = read] \in Parser
               /\ [p EXCEPT !.quoted = quoted] \in Parser
               /\ [p EXCEPT !.field = field] \in Parser
    BY DEF Parser
  <2>3. (~p.quoted) \in BOOLEAN
    OBVIOUS
  <2>4. QED
    BY <1>4, <2>1, <2>2, <2>3
<1>6. ASSUME NEW q \in Parser, NEW last \in Nat, NEW stop \in BOOLEAN, NEW cut \in BOOLEAN
      PROVE  [q EXCEPT !.read = last, !.stop = stop, !.truncated = @ \/ cut] \in Parser
  BY DEF Parser
<1> DEFINE second == IF i < Len(input) THEN input[i + 1] ELSE ""
           last == IF input[i] = Text!Return /\ second = Text!Newline THEN i + 1 ELSE i
           pushed == Text!PushRow(p)
           ended == [pushed EXCEPT !.read = last, !.stop = Len(pushed.rows) >= MaxRows,
                                   !.truncated = @ \/ (Len(pushed.rows) >= MaxRows /\ last < Len(input))]
<1>7. Text!ReadCharacter(input, separator, p, i) \in
        {p, Text!PushField(p), ended, [p EXCEPT !.field = Append(@, Text!Quote), !.read = i + 1],
         [p EXCEPT !.quoted = ~@], [p EXCEPT !.field = Append(@, input[i])]}
  BY Zenon DEF Text!ReadCharacter
<1>8. ended \in Parser
  <2>1. last \in Nat
    <3> HIDE DEF second
    <3>1. QED
      BY <1>1
  <2> DEFINE stop == Len(pushed.rows) >= MaxRows
             cut == stop /\ last < Len(input)
  <2>2. stop \in BOOLEAN /\ cut \in BOOLEAN
    OBVIOUS
  <2> HIDE DEF last, pushed
  <2>3. pushed \in Parser
    BY <1>2 DEF pushed
  <2>4. ended = [pushed EXCEPT !.read = last, !.stop = stop, !.truncated = @ \/ cut]
    OBVIOUS
  <2> HIDE DEF stop, cut
  <2>5. [pushed EXCEPT !.read = last, !.stop = stop, !.truncated = @ \/ cut] \in Parser
    BY <1>6, <2>1, <2>2, <2>3, Zenon
  <2>6. QED
    BY <2>4, <2>5
<1> HIDE DEF ended
<1>9. QED
  BY <1>2, <1>5, <1>7, <1>8, Zenon

\* The characters are read one after the other.
LEMMA ReadingIs ==
  ASSUME NEW input \in Seq(Characters), NEW separator, NEW cut \in BOOLEAN
  PROVE  /\ Reads(Text!Reading(input, separator, cut), input, separator)
         /\ At(Text!Reading(input, separator, cut), 0, <<>>, <<>>, <<>>, FALSE, cut)
<1> DEFINE N == Len(input)
           step == [x \in Parser \X (1 .. N) |-> Text!ReadCharacter(input, separator, x[1], x[2])]
<1>1. N \in Nat /\ Text!Unread(cut) \in Parser
  BY DEF Text!Unread, Parser
<1>2. step \in [Parser \X (1 .. N) -> Parser]
  BY ReadIsTyped
<1>3. \A p \in Parser, i \in 1 .. N : step[<<p, i>>] = Text!ReadCharacter(input, separator, p, i)
  OBVIOUS
<1> HIDE DEF step, N
<1>4. PICK f : Iterates(f, N, Parser, Text!Unread(cut), step)
  BY <1>1, <1>2, Recursion, Zenon
<1>5. /\ f \in [0 .. N -> Parser] /\ f[0] = Text!Unread(cut)
      /\ \A i \in 1 .. N : f[i] = step[<<f[i - 1], i>>]
  BY <1>4 DEF Iterates
<1>6. \A i \in 1 .. N : f[i - 1] \in Parser
  BY <1>1, <1>5
<1>7. \A i \in 0 .. N :
        f[i] = IF i = 0 THEN Text!Unread(cut) ELSE Text!ReadCharacter(input, separator, f[i - 1], i)
  <2>1. \A i \in 0 .. N : i # 0 => i \in 1 .. N
    BY <1>1
  <2>2. QED
    BY <1>3, <1>5, <1>6, <2>1, Zenon
<1>8. f = [i \in 0 .. N |->
             IF i = 0 THEN Text!Unread(cut) ELSE Text!ReadCharacter(input, separator, f[i - 1], i)]
  BY <1>5, <1>7, Zenon
<1> DEFINE g == Text!Reading(input, separator, cut)
<1>9. g = [i \in 0 .. N |->
             IF i = 0 THEN Text!Unread(cut) ELSE Text!ReadCharacter(input, separator, g[i - 1], i)]
  BY <1>8, Zenon DEF Text!Reading, N
<1> HIDE DEF g
<1> DEFINE T == {n \in Nat : n <= N => g[n] = f[n]}
<1>10. 0 \in T
  BY <1>1, <1>5, <1>9
<1>11. ASSUME NEW n \in Nat, n \in T PROVE n + 1 \in T
  <2>1. SUFFICES ASSUME n + 1 <= N PROVE g[n + 1] = f[n + 1]
    OBVIOUS
  <2>2. n + 1 \in 0 .. N /\ n + 1 # 0 /\ (n + 1) - 1 = n /\ n <= N
    BY <1>1, <2>1
  <2>3. g[n] = f[n]
    BY <1>11, <2>2
  <2>4. g[n + 1] = Text!ReadCharacter(input, separator, g[n], n + 1)
    BY <1>9, <2>2
  <2>5. f[n + 1] = Text!ReadCharacter(input, separator, f[n], n + 1)
    BY <1>8, <2>2
  <2>6. QED
    BY <2>3, <2>4, <2>5
<1>12. \A n \in 0 .. N : g[n] = f[n]
  <2>1. Nat \subseteq T
    <3> HIDE DEF T
    <3>1. QED
      BY <1>10, <1>11, Induction
  <2>2. QED
    BY <2>1, <1>1
<1>13. g \in [0 .. N -> Parser]
  BY <1>5, <1>9, <1>12
<1>14. ASSUME NEW i \in 1 .. N PROVE g[i] = Text!ReadCharacter(input, separator, g[i - 1], i)
  <2>1. i \in 0 .. N /\ i # 0
    BY <1>1
  <2>2. QED
    BY <1>9, <2>1
<1>15. g[0] = Text!Unread(cut)
  BY <1>1, <1>9
<1>16. At(g, 0, <<>>, <<>>, <<>>, FALSE, cut)
  BY <1>15 DEF At, Text!Unread
<1>17. QED
  BY <1>13, <1>14, <1>16 DEF Reads, N, g

\* A parser is before character i + 1 of an input.
Before(R, input, separator, i) ==
  /\ input \in Seq(Characters) /\ separator \in Separators /\ Reads(R, input, separator)
  /\ i \in Nat /\ i < Len(input)

\* Before a character its place is within the text.
LEMMA BeforeIs ==
  ASSUME NEW R, NEW input, NEW separator, NEW i, Before(R, input, separator, i)
  PROVE  Len(input) \in Nat /\ i \in Nat /\ i < Len(input)
BY LenProperties DEF Before

\* The next state is made from this one by reading the next character.
LEMMA NextRead ==
  ASSUME NEW R, NEW input, NEW separator, NEW i, Before(R, input, separator, i)
  PROVE  /\ i + 1 \in 1 .. Len(input) /\ R[i] \in Parser /\ R[i + 1] \in Parser
         /\ R[i + 1] = Text!ReadCharacter(input, separator, R[i], i + 1)
<1>1. Len(input) \in Nat /\ i \in Nat /\ i < Len(input)
  BY BeforeIs
<1>2. R \in [0 .. Len(input) -> Parser]
  BY DEF Before, Reads
<1>3. i \in 0 .. Len(input) /\ i + 1 \in 0 .. Len(input) /\ i + 1 \in 1 .. Len(input) /\ (i + 1) - 1 = i
  BY <1>1
<1>4. R[i + 1] = Text!ReadCharacter(input, separator, R[(i + 1) - 1], i + 1)
  BY <1>3, Zenon DEF Before, Reads
<1>5. QED
  BY <1>2, <1>3, <1>4

\* The characters that the parser tells apart.
LEMMA LiteralsDiffer ==
  /\ Text!Quote # Text!Newline /\ Text!Quote # Text!Return /\ Text!Newline # Text!Return
  /\ \A separator \in Separators :
        separator # Text!Quote /\ separator # Text!Newline /\ separator # Text!Return
  /\ "" # Text!Quote /\ "" # Text!Newline
BY Zenon DEF Text!Quote, Text!Newline, Text!Return, Separators

\* A quote that does not belong to a pair.
LEMMA ReadQuote ==
  ASSUME NEW R, NEW input, NEW separator, NEW i, Before(R, input, separator, i),
         NEW rows, NEW row, NEW field, NEW quoted \in BOOLEAN, NEW cut,
         At(R, i, rows, row, field, quoted, cut), input[i + 1] = Text!Quote,
         quoted => i + 1 = Len(input) \/ input[i + 2] # Text!Quote
  PROVE  At(R, i + 1, rows, row, field, ~quoted, cut)
<1> DEFINE p == R[i]
           second == IF i + 1 < Len(input) THEN input[(i + 1) + 1] ELSE ""
<1>1. p \in Parser /\ R[i + 1] = Text!ReadCharacter(input, separator, p, i + 1) /\ i \in Nat
  BY NextRead DEF Before
<1>2. ~p.stop /\ ~(i + 1 <= p.read) /\ p.quoted = quoted
  BY <1>1 DEF At, Parser
<1>3. ~(quoted /\ second = Text!Quote)
  <2>1. i + 2 = (i + 1) + 1
    BY <1>1
  <2>2. CASE i + 1 = Len(input)
    <3>1. ~(i + 1 < Len(input))
      BY <2>2, BeforeIs
    <3>2. second = ""
      BY <3>1
    <3>3. QED
      BY <3>2, LiteralsDiffer
  <2>3. CASE i + 1 # Len(input)
    <3>1. i + 1 < Len(input)
      BY <2>3, BeforeIs
    <3>2. second = input[i + 2]
      BY <2>1, <3>1
    <3>3. QED
      BY <2>3, <3>2
  <2>4. QED
    BY <2>2, <2>3
<1>4. R[i + 1] = [p EXCEPT !.quoted = ~@]
  BY <1>1, <1>2, <1>3, Zenon DEF Text!ReadCharacter
<1>5. QED
  <2> HIDE DEF second
  <2>1. p.read <= i + 1
    BY <1>1, <1>2 DEF At, Parser
  <2>2. QED
    BY <1>1, <1>4, <2>1 DEF At, Parser

\* A character of a field.
LEMMA ReadPlain ==
  ASSUME NEW R, NEW input, NEW separator, NEW i, Before(R, input, separator, i),
         NEW rows, NEW row, NEW field, NEW quoted \in BOOLEAN, NEW cut,
         At(R, i, rows, row, field, quoted, cut), input[i + 1] # Text!Quote,
         ~quoted => input[i + 1] \notin {separator, Text!Newline, Text!Return}
  PROVE  At(R, i + 1, rows, row, Append(field, input[i + 1]), quoted, cut)
<1> DEFINE p == R[i]
<1>1. p \in Parser /\ R[i + 1] = Text!ReadCharacter(input, separator, p, i + 1) /\ i \in Nat
  BY NextRead DEF Before
<1>2. ~p.stop /\ ~(i + 1 <= p.read) /\ p.quoted = quoted
  BY <1>1 DEF At, Parser
<1>3. R[i + 1] = [p EXCEPT !.field = Append(@, input[i + 1])]
  BY <1>1, <1>2, Zenon DEF Text!ReadCharacter
<1>4. p.read <= i + 1
  BY <1>1, <1>2 DEF At, Parser
<1>5. QED
  BY <1>1, <1>3, <1>4 DEF At, Parser

\* A pair of quotes in quotes.
LEMMA ReadPair ==
  ASSUME NEW R, NEW input, NEW separator, NEW i, Before(R, input, separator, i),
         NEW rows, NEW row, NEW field, NEW cut,
         At(R, i, rows, row, field, TRUE, cut), i + 2 <= Len(input),
         input[i + 1] = Text!Quote, input[i + 2] = Text!Quote
  PROVE  At(R, i + 2, rows, row, Append(field, Text!Quote), TRUE, cut)
<1> DEFINE p == R[i]
           second == IF i + 1 < Len(input) THEN input[(i + 1) + 1] ELSE ""
<1>1. p \in Parser /\ R[i + 1] = Text!ReadCharacter(input, separator, p, i + 1) /\ i \in Nat
  BY NextRead DEF Before
<1>2. ~p.stop /\ ~(i + 1 <= p.read) /\ p.quoted
  BY <1>1 DEF At, Parser
<1>3. (i + 1) + 1 = i + 2 /\ Len(input) \in Nat
  BY <1>1, BeforeIs
<1>4. i + 1 < Len(input)
  BY <1>1, <1>3
<1>5. second = Text!Quote
  BY <1>4, <1>3
<1> DEFINE q == [p EXCEPT !.field = Append(@, Text!Quote), !.read = (i + 1) + 1]
<1>6. R[i + 1] = q
  BY <1>1, <1>2, <1>5, Zenon DEF Text!ReadCharacter
<1>7. Before(R, input, separator, i + 1)
  <2>1. i + 1 \in Nat
    BY <1>1
  <2>2. QED
    BY <1>4, <2>1 DEF Before
<1>8. /\ q.rows = rows /\ q.row = row /\ q.field = Append(field, Text!Quote) /\ q.quoted = TRUE
      /\ q.truncated = cut /\ ~q.stop /\ q.read = i + 2
  BY <1>1, <1>3 DEF At, Parser
<1> HIDE DEF q
<1>9. R[(i + 1) + 1] = Text!ReadCharacter(input, separator, R[i + 1], (i + 1) + 1)
  BY <1>7, NextRead
<1>10. (i + 1) + 1 <= q.read
  BY <1>1, <1>3, <1>8
<1>11. R[i + 2] = q
  BY <1>3, <1>6, <1>9, <1>10, Zenon DEF Text!ReadCharacter
<1>12. QED
  BY <1>1, <1>8, <1>11 DEF At

\* A separator between two fields.
LEMMA ReadSeparator ==
  ASSUME NEW R, NEW input, NEW separator, NEW i, Before(R, input, separator, i),
         NEW rows, NEW row, NEW field, NEW cut,
         At(R, i, rows, row, field, FALSE, cut), input[i + 1] = separator
  PROVE  At(R, i + 1, rows, Pushed(row, field), <<>>, FALSE, cut \/ CutBy(row, field))
<1> DEFINE p == R[i]
<1>1. p \in Parser /\ R[i + 1] = Text!ReadCharacter(input, separator, p, i + 1) /\ i \in Nat
  BY NextRead DEF Before
<1>2. ~p.stop /\ ~(i + 1 <= p.read) /\ p.quoted = FALSE
  BY <1>1 DEF At, Parser
<1>3. separator # Text!Quote
  BY LiteralsDiffer DEF Before
<1>4. R[i + 1] = Text!PushField(p)
  BY <1>1, <1>2, <1>3, Zenon DEF Text!ReadCharacter
<1>5. HasPushed(R[i + 1], p, p.rows, Pushed(p.row, p.field), p.truncated \/ CutBy(p.row, p.field))
  BY <1>1, <1>4, PushFieldIs
<1>6. p.read <= i + 1
  BY <1>1, <1>2 DEF At, Parser
<1>7. QED
  BY <1>1, <1>2, <1>5, <1>6 DEF At, HasPushed, Has

\* The rows with one more, whether something is cut then, and the parser after its line.
WithRow(rows, row, field) == IF Len(rows) < MaxRows THEN Append(rows, Pushed(row, field)) ELSE rows
CutAfter(rows, row, field, cut) == cut \/ CutBy(row, field) \/ Len(rows) >= MaxRows
Ended(R, input, i, rows, cut) ==
  IF Len(rows) >= MaxRows
  THEN Has(R[i], rows, <<>>, <<>>, FALSE, i, TRUE, cut \/ i < Len(input))
  ELSE At(R, i, rows, <<>>, <<>>, FALSE, cut)

\* The end of a line.
LEMMA ReadLineEnd ==
  ASSUME NEW R, NEW input, NEW separator, NEW i, Before(R, input, separator, i),
         NEW rows, NEW row, NEW field, NEW cut,
         At(R, i, rows, row, field, FALSE, cut), NEW n \in {1, 2}, i + n <= Len(input),
         input[i + n] = Text!Newline, n = 2 => input[i + 1] = Text!Return
  PROVE  Ended(R, input, i + n, WithRow(rows, row, field), CutAfter(rows, row, field, cut))
<1> DEFINE p == R[i]
           second == IF i + 1 < Len(input) THEN input[(i + 1) + 1] ELSE ""
           pushed == Text!PushRow(p)
           all == IF Len(rows) < MaxRows THEN Append(rows, Pushed(row, field)) ELSE rows
           truncated == cut \/ CutBy(row, field) \/ Len(rows) >= MaxRows
           stop == Len(all) >= MaxRows
           q == [pushed EXCEPT !.read = i + n, !.stop = Len(pushed.rows) >= MaxRows,
                               !.truncated = @ \/ (Len(pushed.rows) >= MaxRows /\ i + n < Len(input))]
<1>1. p \in Parser /\ R[i + 1] = Text!ReadCharacter(input, separator, p, i + 1) /\ i \in Nat
  BY NextRead DEF Before
<1>2. ~p.stop /\ ~(i + 1 <= p.read) /\ p.quoted = FALSE
  BY <1>1 DEF At, Parser
<1>3. (i + 1) + 1 = i + 2 /\ Len(input) \in Nat /\ i + n \in Nat
  BY <1>1, BeforeIs
<1>4. /\ input[i + 1] \in {Text!Newline, Text!Return} /\ input[i + 1] # Text!Quote
      /\ input[i + 1] # separator
  <2>1. input[i + 1] \in {Text!Newline, Text!Return}
    OBVIOUS
  <2>2. QED
    BY <2>1, LiteralsDiffer DEF Before
<1>5. (IF input[i + 1] = Text!Return /\ second = Text!Newline THEN (i + 1) + 1 ELSE i + 1) = i + n
  <2>1. CASE n = 1
    BY <2>1, LiteralsDiffer
  <2>2. CASE n = 2
    <3>1. i + 1 < Len(input)
      BY <1>1, <1>3, <2>2
    <3>2. second = Text!Newline
      BY <1>3, <2>2, <3>1
    <3>3. QED
      BY <1>3, <2>2, <3>2
  <2>3. QED
    BY <2>1, <2>2
<1>6. R[i + 1] = q
  BY <1>1, <1>2, <1>4, <1>5, Zenon DEF Text!ReadCharacter
<1>7. HasPushed(pushed, p, all, <<>>, truncated)
  <2>1. p.rows = rows /\ p.row = row /\ p.field = field /\ p.truncated = cut
    BY DEF At
  <2>2. HasPushed(pushed, p,
                   IF Len(p.rows) < MaxRows THEN Append(p.rows, Pushed(p.row, p.field)) ELSE p.rows, <<>>,
                   p.truncated \/ CutBy(p.row, p.field) \/ Len(p.rows) >= MaxRows)
    BY <1>1, PushRowIs
  <2>3. QED
    BY <2>1, <2>2
<1>8. /\ pushed \in Parser /\ pushed.rows = all /\ pushed.row = <<>> /\ pushed.field = <<>>
      /\ pushed.quoted = FALSE /\ pushed.truncated = truncated
  <2> HIDE DEF pushed, all, truncated
  <2>1. QED
    BY <1>2, <1>7 DEF HasPushed, Has
<1>9. Has(q, all, <<>>, <<>>, FALSE, i + n, stop, truncated \/ (stop /\ i + n < Len(input)))
  <2> DEFINE now == Len(pushed.rows) >= MaxRows
             left == now /\ i + n < Len(input)
  <2>1. now \in BOOLEAN /\ left \in BOOLEAN /\ now = stop /\ left = (stop /\ i + n < Len(input))
    BY <1>8
  <2>2. q = [pushed EXCEPT !.read = i + n, !.stop = now, !.truncated = @ \/ left]
    OBVIOUS
  <2> HIDE DEF now, left, pushed, all, truncated, q
  <2>3. Has([pushed EXCEPT !.read = i + n, !.stop = now, !.truncated = @ \/ left],
            all, <<>>, <<>>, FALSE, i + n, now, truncated \/ left)
    BY <1>3, <1>8, <2>1 DEF Has, Parser
  <2> HIDE DEF stop
  <2>4. QED
    BY <2>1, <2>2, <2>3
<1>10. truncated \in BOOLEAN /\ stop \in BOOLEAN
  OBVIOUS
<1> HIDE DEF p, pushed, all, truncated, q
<1>11. R[i + n] = q
  <2>1. CASE n = 1
    BY <1>6, <2>1
  <2>2. CASE n = 2
    <3>1. Before(R, input, separator, i + 1)
      <4>1. i + 1 \in Nat /\ i + 1 < Len(input)
        BY <1>1, <1>3, <2>2
      <4>2. QED
        BY <4>1 DEF Before
    <3>2. R[(i + 1) + 1] = Text!ReadCharacter(input, separator, R[i + 1], (i + 1) + 1)
      BY <3>1, NextRead
    <3>3. (i + 1) + 1 <= q.read
      BY <1>1, <1>9, <2>2 DEF Has
    <3>4. R[(i + 1) + 1] = q
      BY <1>6, <3>2, <3>3, Zenon DEF Text!ReadCharacter
    <3>5. QED
      BY <1>3, <2>2, <3>4
  <2>3. QED
    BY <2>1, <2>2
<1>12. CASE stop
  BY <1>9, <1>11, <1>12 DEF all, truncated, Ended, WithRow, CutAfter
<1>13. CASE ~stop
  <2>1. At(R, i + n, all, <<>>, <<>>, FALSE, truncated)
    <3> HIDE DEF stop
    <3>1. truncated = (truncated \/ (stop /\ i + n < Len(input)))
      BY <1>13, <1>10
    <3>2. stop = FALSE
      BY <1>13, <1>10
    <3>3. Has(R[i + n], all, <<>>, <<>>, FALSE, i + n, FALSE, truncated)
      BY <1>9, <1>11, <3>1, <3>2
    <3>4. i + n <= i + n
      BY <1>3
    <3>5. QED
      BY <3>3, <3>4 DEF At, Has
  <2>2. QED
    BY <1>13, <2>1 DEF all, truncated, Ended, WithRow, CutAfter
<1>14. QED
  BY <1>12, <1>13

\* What has stopped reads nothing.
LEMMA Stopped ==
  ASSUME NEW R, NEW input \in Seq(Characters), NEW separator, Reads(R, input, separator),
         NEW i \in 0 .. Len(input), R[i].stop
  PROVE  R[Len(input)] = R[i]
<1> DEFINE N == Len(input)
           T == {n \in Nat : i + n <= N => R[i + n] = R[i]}
<1>1. N \in Nat /\ i \in Nat /\ i <= N
  BY LenProperties
<1> HIDE DEF N
<1>2. 0 \in T
  BY <1>1
<1>3. ASSUME NEW n \in Nat, n \in T PROVE n + 1 \in T
  <2>1. SUFFICES ASSUME i + (n + 1) <= N PROVE R[i + (n + 1)] = R[i]
    OBVIOUS
  <2>2. i + (n + 1) \in 1 .. N /\ (i + (n + 1)) - 1 = i + n /\ i + n <= N
    BY <1>1, <2>1
  <2>3. R[i + n] = R[i]
    BY <1>3, <2>2
  <2>4. R[i + (n + 1)] = Text!ReadCharacter(input, separator, R[(i + (n + 1)) - 1], i + (n + 1))
    BY <2>2, Zenon DEF Reads, N
  <2>5. R[i + (n + 1)] = Text!ReadCharacter(input, separator, R[i], i + (n + 1))
    BY <2>2, <2>3, <2>4
  <2>6. QED
    BY <2>5, Zenon DEF Text!ReadCharacter
<1>4. Nat \subseteq T
  <2> HIDE DEF T
  <2>1. QED
    BY <1>2, <1>3, Induction
<1>5. N - i \in Nat /\ i + (N - i) = N
  BY <1>1
<1>6. N - i \in T /\ i + (N - i) <= N
  <2>1. i + (N - i) <= N
    BY <1>1, <1>5
  <2>2. N - i \in T
    <3> HIDE DEF T
    <3>1. QED
      BY <1>4, <1>5
  <2>3. QED
    BY <2>1, <2>2
<1>7. R[i + (N - i)] = R[i]
  BY <1>6
<1>8. QED
  BY <1>5, <1>7 DEF N

\* The first part of a sequence grows by one.
LEMMA PrefixIs ==
  ASSUME NEW S, NEW s \in Seq(S)
  PROVE  /\ SubSeq(s, 1, 0) = <<>> /\ SubSeq(s, 1, Len(s)) = s
         /\ \A k \in 0 .. Len(s) - 1 : SubSeq(s, 1, k + 1) = Append(SubSeq(s, 1, k), s[k + 1])
<1>1. SubSeq(s, 1, 0) = <<>>
  BY SubSeqEmpty
<1>2. SubSeq(s, 1, Len(s)) = s
  BY SubSeqFull
<1>3. ASSUME NEW k \in 0 .. Len(s) - 1
      PROVE  SubSeq(s, 1, k + 1) = Append(SubSeq(s, 1, k), s[k + 1])
  <2> DEFINE t == SubSeq(s, 1, k)  u == SubSeq(s, 1, k + 1)
  <2>1. Len(s) \in Nat /\ k \in Nat /\ k + 1 <= Len(s) /\ (\A i \in 1 .. Len(s) : s[i] \in S)
    BY LenProperties, ElementOfSeq
  <2>2. /\ t \in Seq(S) /\ Len(t) = k /\ \A i \in 1 .. k : t[i] = s[i]
        /\ u \in Seq(S) /\ Len(u) = k + 1 /\ \A i \in 1 .. k + 1 : u[i] = s[i]
    BY <2>1, SubSeqProperties
  <2>3. s[k + 1] \in S
    BY <2>1
  <2> HIDE DEF t, u
  <2> DEFINE v == Append(t, s[k + 1])
  <2>4. v \in Seq(S) /\ Len(v) = k + 1 /\ (\A i \in 1 .. k : v[i] = t[i]) /\ v[k + 1] = s[k + 1]
    BY <2>2, <2>3, AppendProperties
  <2> HIDE DEF v
  <2>5. \A i \in 1 .. k + 1 : u[i] = v[i]
    <3>1. ASSUME NEW i \in 1 .. k + 1 PROVE u[i] = v[i]
      <4>1. CASE i = k + 1
        BY <2>1, <2>2, <2>4, <4>1
      <4>2. CASE i # k + 1
        <5>1. i \in 1 .. k
          BY <2>1, <4>2
        <5>2. QED
          BY <2>2, <2>4, <5>1
      <4>3. QED
        BY <4>1, <4>2
    <3>2. QED
      BY <3>1
  <2>6. u = v
    BY <2>2, <2>4, <2>5, SeqEqual
  <2>7. QED
    BY <2>6 DEF u, v, t
<1>4. QED
  BY <1>1, <1>2, <1>3

\* A part that comes later ends later.
LEMMA EndsGrow ==
  ASSUME NEW parts, NEW b, Ends(parts, b), Len(parts) \in Nat,
         \A k \in 1 .. Len(parts) : Len(parts[k]) \in Nat,
         NEW j \in 0 .. Len(parts), NEW k \in j .. Len(parts)
  PROVE  b[j] <= b[k] /\ b[j] \in Nat /\ b[k] \in Nat
<1> DEFINE N == Len(parts)
           T == {n \in Nat : j + n <= N => b[j] <= b[j + n]}
<1>1. N \in Nat /\ b \in [0 .. N -> Nat] /\ j \in Nat /\ j <= N /\ k \in Nat /\ k <= N /\ j <= k
  BY DEF Ends
<1>2. \A i \in 1 .. N : b[i] = b[i - 1] + Len(parts[i])
  BY DEF Ends
<1> HIDE DEF N
<1>3. \A i \in 1 .. N : b[i] \in Nat /\ b[i - 1] \in Nat /\ b[i - 1] <= b[i]
  <2>1. ASSUME NEW i \in 1 .. N PROVE b[i] \in Nat /\ b[i - 1] \in Nat /\ b[i - 1] <= b[i]
    <3>1. i \in 0 .. N /\ i - 1 \in 0 .. N
      BY <1>1
    <3>2. b[i] \in Nat /\ b[i - 1] \in Nat /\ Len(parts[i]) \in Nat
      BY <1>1, <3>1 DEF N
    <3>3. QED
      BY <1>2, <3>2
  <2>2. QED
    BY <2>1
<1>4. 0 \in T
  BY <1>1
<1>5. ASSUME NEW n \in Nat, n \in T PROVE n + 1 \in T
  <2>1. SUFFICES ASSUME j + (n + 1) <= N PROVE b[j] <= b[j + (n + 1)]
    OBVIOUS
  <2>2. j + (n + 1) \in 1 .. N /\ (j + (n + 1)) - 1 = j + n /\ j + n <= N /\ j \in 0 .. N
    BY <1>1, <2>1
  <2>3. b[j] <= b[j + n]
    BY <1>5, <2>2
  <2>4. b[j + (n + 1)] \in Nat /\ b[j + n] \in Nat /\ b[j + n] <= b[j + (n + 1)] /\ b[j] \in Nat
    BY <1>1, <1>3, <2>2
  <2>5. QED
    BY <2>3, <2>4
<1>6. Nat \subseteq T
  <2> HIDE DEF T
  <2>1. QED
    BY <1>4, <1>5, Induction
<1>7. k - j \in Nat /\ j + (k - j) = k
  BY <1>1
<1>8. b[j] <= b[j + (k - j)]
  <2>1. \A n \in Nat : j + n <= N => b[j] <= b[j + n]
    BY <1>6
  <2>2. QED
    BY <1>1, <1>7, <2>1
<1>9. QED
  BY <1>1, <1>7, <1>8

\* A text holds another from a position on.
Holds(input, o, s) ==
  /\ o \in Nat /\ Len(s) \in Nat /\ Len(input) \in Nat /\ o + Len(s) <= Len(input)
  /\ \A x \in 1 .. Len(s) : input[o + x] = s[x]

\* A text that holds two texts joined holds each at its place.
LEMMA HoldsJoin ==
  ASSUME NEW input, NEW o, NEW u, NEW s, NEW t, Holds(input, o, u), Joins(u, s, t)
  PROVE  Holds(input, o, s) /\ Holds(input, o + Len(s), t)
<1>1. /\ o \in Nat /\ Len(s) \in Nat /\ Len(t) \in Nat /\ Len(input) \in Nat
      /\ Len(u) = Len(s) + Len(t) /\ o + Len(u) <= Len(input)
  BY DEF Holds, Joins
<1>2. Holds(input, o, s)
  <2>1. \A x \in 1 .. Len(s) : x \in 1 .. Len(u) /\ u[x] = s[x]
    BY DEF Joins
  <2>2. \A x \in 1 .. Len(s) : input[o + x] = s[x]
    BY <2>1 DEF Holds
  <2>3. QED
    BY <1>1, <2>2 DEF Holds
<1>3. Holds(input, o + Len(s), t)
  <2>1. ASSUME NEW x \in 1 .. Len(t) PROVE input[(o + Len(s)) + x] = t[x]
    <3>1. Len(s) + x \in 1 .. Len(u) /\ u[Len(s) + x] = t[x]
      BY DEF Joins
    <3>2. input[o + (Len(s) + x)] = t[x]
      BY <3>1 DEF Holds
    <3>3. o + (Len(s) + x) = (o + Len(s)) + x
      BY <1>1
    <3>4. QED
      BY <3>2, <3>3
  <2>2. o + Len(s) \in Nat /\ (o + Len(s)) + Len(t) <= Len(input)
    BY <1>1
  <2>3. QED
    BY <1>1, <2>1, <2>2 DEF Holds
<1>4. QED
  BY <1>2, <1>3

\* A text that holds the parts of another holds each at its place.
LEMMA HoldsPart ==
  ASSUME NEW input, NEW o, NEW s, NEW parts, NEW b, Holds(input, o, s), Consists(s, parts, b),
         Len(parts) \in Nat, \A i \in 1 .. Len(parts) : Len(parts[i]) \in Nat,
         NEW k \in 1 .. Len(parts)
  PROVE  /\ Holds(input, o + b[k - 1], parts[k])
         /\ b[k - 1] \in Nat /\ b[k] = b[k - 1] + Len(parts[k]) /\ b[k] <= Len(s)
<1> DEFINE N == Len(parts)
<1>1. /\ k - 1 \in 0 .. N /\ k \in (k - 1) .. N /\ k \in 0 .. N /\ N \in k .. N
  OBVIOUS
<1>2. Ends(parts, b) /\ Len(s) = b[N] /\ \A j \in 1 .. Len(parts[k]) : s[b[k - 1] + j] = parts[k][j]
  BY DEF Consists
<1>3. b[k - 1] \in Nat /\ b[k] \in Nat /\ b[k] <= b[N] /\ b[N] \in Nat
  BY <1>1, <1>2, EndsGrow
<1>4. b[k] = b[k - 1] + Len(parts[k]) /\ Len(parts[k]) \in Nat
  BY <1>2 DEF Ends
<1>5. o \in Nat /\ Len(input) \in Nat /\ o + Len(s) <= Len(input)
  BY DEF Holds
<1>6. ASSUME NEW j \in 1 .. Len(parts[k]) PROVE input[(o + b[k - 1]) + j] = parts[k][j]
  <2>1. b[k - 1] + j \in 1 .. Len(s)
    BY <1>2, <1>3, <1>4
  <2>2. input[o + (b[k - 1] + j)] = parts[k][j]
    BY <1>2, <2>1 DEF Holds
  <2>3. o + (b[k - 1] + j) = (o + b[k - 1]) + j
    BY <1>3, <1>5
  <2>4. QED
    BY <2>2, <2>3
<1>7. o + b[k - 1] \in Nat /\ (o + b[k - 1]) + Len(parts[k]) <= Len(input)
  <2>1. \A x, y, z, l \in Nat : y + z <= l => (o + y) + z <= o + l
    BY <1>5
  <2>2. (o + b[k - 1]) + Len(parts[k]) <= o + Len(s) /\ o + Len(s) \in Nat
    BY <1>2, <1>3, <1>4, <1>5, <2>1
  <2>3. QED
    BY <1>3, <1>4, <1>5, <2>2
<1>8. QED
  BY <1>2, <1>3, <1>4, <1>5, <1>6, <1>7 DEF Holds

\* A field in quotes: each of its quotes is a pair.
Doubled(f) == [i \in DOMAIN f |-> IF f[i] = Text!Quote THEN <<Text!Quote, Text!Quote>> ELSE <<f[i]>>]

\* A text that is a quoted field.
QuotedField(u, f) ==
  \E v, w, b :
    Joins(u, v, <<Text!Quote>>) /\ Joins(v, <<Text!Quote>>, w) /\ Consists(w, Doubled(f), b)

\* The pieces that a field in quotes consists of: a pair of quotes or a character.
LEMMA DoubledIs ==
  ASSUME NEW f \in Seq(Characters)
  PROVE  /\ Doubled(f) \in Seq(Seq(Characters)) /\ Len(Doubled(f)) = Len(f) /\ Len(f) \in Nat
         /\ \A i \in 1 .. Len(f) :
              IF f[i] = Text!Quote
              THEN /\ Len(Doubled(f)[i]) = 2 /\ Doubled(f)[i][1] = Text!Quote
                   /\ Doubled(f)[i][2] = Text!Quote
              ELSE Len(Doubled(f)[i]) = 1 /\ Doubled(f)[i][1] = f[i]
<1> DEFINE d == Doubled(f)
<1>1. Len(f) \in Nat /\ DOMAIN f = 1 .. Len(f) /\ \A i \in 1 .. Len(f) : f[i] \in Characters
  BY LenProperties, ElementOfSeq
<1>2. d = [i \in 1 .. Len(f) |->
             IF f[i] = Text!Quote THEN <<Text!Quote, Text!Quote>> ELSE <<f[i]>>]
  BY <1>1 DEF Doubled
<1>3. Text!Quote \in Characters
  BY DEF Characters
<1>4. /\ <<Text!Quote, Text!Quote>> \in Seq(Characters)
      /\ \A c \in Characters : <<c>> \in Seq(Characters)
  BY <1>3
<1>5. d \in [1 .. Len(f) -> Seq(Characters)]
  BY <1>1, <1>2, <1>4
<1>6. d \in Seq(Seq(Characters)) /\ Len(d) = Len(f)
  BY <1>1, <1>5, SeqFrom, Zenon
<1>7. ASSUME NEW i \in 1 .. Len(f)
      PROVE  IF f[i] = Text!Quote
             THEN Len(d[i]) = 2 /\ d[i][1] = Text!Quote /\ d[i][2] = Text!Quote
             ELSE Len(d[i]) = 1 /\ d[i][1] = f[i]
  <2>1. d[i] = IF f[i] = Text!Quote THEN <<Text!Quote, Text!Quote>> ELSE <<f[i]>>
    BY <1>2
  <2> HIDE DEF d
  <2>2. QED
    BY <2>1
<1>8. QED
  BY <1>1, <1>6, <1>7

\* A field is written as it is, with nothing in it to quote, or in quotes.
LEMMA FieldIs ==
  ASSUME NEW f \in Seq(Characters), NEW separator \in Separators
  PROVE  /\ Text!Field(f, separator) \in Seq(Characters)
         /\ \/ /\ Text!Field(f, separator) = f
               /\ \A i \in 1 .. Len(f) : f[i] \notin {separator, Text!Quote, Text!Newline, Text!Return}
            \/ QuotedField(Text!Field(f, separator), f)
<1>1. CASE Text!ToSet(f) \cap {separator, Text!Quote, Text!Newline, Text!Return} = {}
  <2>1. Text!Field(f, separator) = f
    BY <1>1, Zenon DEF Text!Field
  <2>2. \A i \in 1 .. Len(f) : f[i] \in Text!ToSet(f)
    BY LenProperties DEF Text!ToSet
  <2>3. QED
    BY <1>1, <2>1, <2>2
<1>2. CASE ~(Text!ToSet(f) \cap {separator, Text!Quote, Text!Newline, Text!Return} = {})
  <2> DEFINE q == <<Text!Quote>>
             w == Text!FlattenSeq(Doubled(f))
  <2>1. Text!Field(f, separator) = (q \o w) \o q
    BY <1>2, Zenon DEF Text!Field, Doubled
  <2>2. w \in Seq(Characters) /\ \E b : Consists(w, Doubled(f), b)
    BY DoubledIs, FlattenIs
  <2>3. q \in Seq(Characters)
    <3>1. Text!Quote \in Characters
      BY Zenon DEF Characters
    <3>2. QED
      BY <3>1
  <2> HIDE DEF q, w
  <2>4. Joins(q \o w, q, w) /\ q \o w \in Seq(Characters)
    BY <2>2, <2>3, ConcatIs
  <2>5. Joins((q \o w) \o q, q \o w, q) /\ (q \o w) \o q \in Seq(Characters)
    BY <2>3, <2>4, ConcatIs
  <2>6. QuotedField((q \o w) \o q, f)
    BY <2>2, <2>4, <2>5, Zenon DEF QuotedField, q
  <2>7. QED
    BY <2>1, <2>5, <2>6
<1>3. QED
  BY <1>1, <1>2

\* A field that is written as it is, is read.
LEMMA ReadBare ==
  ASSUME NEW R, NEW input \in Seq(Characters), NEW separator \in Separators, Reads(R, input, separator),
         NEW o, NEW f \in Seq(Characters), Holds(input, o, f),
         \A i \in 1 .. Len(f) : f[i] \notin {separator, Text!Quote, Text!Newline, Text!Return},
         NEW rows, NEW row, NEW cut, At(R, o, rows, row, <<>>, FALSE, cut)
  PROVE  At(R, o + Len(f), rows, row, f, FALSE, cut)
<1> DEFINE L == Len(f)
           T == {k \in Nat : k <= L => At(R, o + k, rows, row, SubSeq(f, 1, k), FALSE, cut)}
<1>1. o \in Nat /\ L \in Nat /\ Len(input) \in Nat /\ o + L <= Len(input)
  BY DEF Holds
<1>2. \A i \in 1 .. L : input[o + i] = f[i]
  BY DEF Holds
<1> HIDE DEF L
<1>3. 0 \in T
  <2>1. o + 0 = o /\ SubSeq(f, 1, 0) = <<>>
    BY <1>1, PrefixIs
  <2>2. QED
    BY <2>1
<1>4. ASSUME NEW k \in Nat, k \in T PROVE k + 1 \in T
  <2>1. k + 1 \in Nat
    OBVIOUS
  <2>2. SUFFICES ASSUME k + 1 <= L
        PROVE  At(R, o + (k + 1), rows, row, SubSeq(f, 1, k + 1), FALSE, cut)
    BY <2>1, Zenon
  <2>3. k + 1 \in 1 .. L /\ k \in 0 .. L - 1 /\ k <= L /\ (o + k) + 1 = o + (k + 1)
    BY <1>1, <2>2
  <2>4. At(R, o + k, rows, row, SubSeq(f, 1, k), FALSE, cut)
    BY <1>4, <2>3
  <2>5. Before(R, input, separator, o + k)
    <3>1. o + k \in Nat /\ o + k < Len(input)
      BY <1>1, <2>3
    <3>2. QED
      BY <3>1 DEF Before
  <2>6. /\ input[(o + k) + 1] = f[k + 1]
        /\ f[k + 1] \notin {separator, Text!Quote, Text!Newline, Text!Return}
    BY <1>2, <2>3 DEF L
  <2>7. SubSeq(f, 1, k + 1) = Append(SubSeq(f, 1, k), f[k + 1])
    BY <2>3, PrefixIs DEF L
  <2>8. At(R, (o + k) + 1, rows, row, Append(SubSeq(f, 1, k), input[(o + k) + 1]), FALSE, cut)
    <3>1. /\ input[(o + k) + 1] # Text!Quote
          /\ input[(o + k) + 1] \notin {separator, Text!Newline, Text!Return}
      BY <2>6
    <3>2. QED
      BY <2>4, <2>5, <3>1, ReadPlain
  <2>9. QED
    BY <2>3, <2>6, <2>7, <2>8
<1>5. Nat \subseteq T
  <2> HIDE DEF T
  <2>1. QED
    BY <1>3, <1>4, Induction
<1>6. At(R, o + L, rows, row, SubSeq(f, 1, L), FALSE, cut)
  <2>1. L <= L
    BY <1>1
  <2>2. QED
    BY <1>1, <1>5, <2>1
<1>7. QED
  BY <1>6, PrefixIs DEF L

\* A field in quotes is read, unless another quote follows it.
LEMMA ReadQuoted ==
  ASSUME NEW R, NEW input \in Seq(Characters), NEW separator \in Separators, Reads(R, input, separator),
         NEW o, NEW f \in Seq(Characters), NEW u, QuotedField(u, f), Holds(input, o, u),
         o + Len(u) = Len(input) \/ input[(o + Len(u)) + 1] # Text!Quote,
         NEW rows, NEW row, NEW cut, At(R, o, rows, row, <<>>, FALSE, cut)
  PROVE  At(R, o + Len(u), rows, row, f, FALSE, cut)
<1> DEFINE L == Len(f)
           d == Doubled(f)
<1>1. PICK v, w, b : Joins(u, v, <<Text!Quote>>) /\ Joins(v, <<Text!Quote>>, w) /\ Consists(w, d, b)
  BY Zenon DEF QuotedField
<1>2. /\ d \in Seq(Seq(Characters)) /\ Len(d) = L /\ L \in Nat
      /\ \A i \in 1 .. L :
           IF f[i] = Text!Quote
           THEN Len(d[i]) = 2 /\ d[i][1] = Text!Quote /\ d[i][2] = Text!Quote
           ELSE Len(d[i]) = 1 /\ d[i][1] = f[i]
  BY DoubledIs
<1> HIDE DEF d, L
<1>3. Holds(input, o, v) /\ Holds(input, o + Len(v), <<Text!Quote>>)
  BY <1>1, HoldsJoin, Zenon
<1>4. Len(<<Text!Quote>>) = 1 /\ <<Text!Quote>>[1] = Text!Quote
  OBVIOUS
<1>5. Holds(input, o, <<Text!Quote>>) /\ Holds(input, o + 1, w)
  BY <1>1, <1>3, <1>4, HoldsJoin
<1>6. /\ Len(v) = 1 + Len(w) /\ Len(u) = Len(v) + 1 /\ Len(v) \in Nat /\ Len(w) \in Nat
      /\ o \in Nat /\ Len(input) \in Nat /\ o + Len(u) <= Len(input)
  BY <1>1, <1>4 DEF Joins, Holds
<1>7. input[o + 1] = Text!Quote /\ input[(o + Len(v)) + 1] = Text!Quote
  BY <1>3, <1>4, <1>5 DEF Holds
<1>8. /\ Ends(d, b) /\ Len(w) = b[L] /\ b[0] = 0
      /\ \A i \in 1 .. Len(d) : Len(d[i]) \in Nat
  BY <1>1, <1>2 DEF Consists, Ends
<1>9. At(R, o + 1, rows, row, <<>>, TRUE, cut)
  <2>1. Before(R, input, separator, o)
    <3>1. o < Len(input)
      BY <1>6
    <3>2. QED
      BY <1>6, <3>1 DEF Before
  <2>2. (~FALSE) = TRUE
    OBVIOUS
  <2>3. At(R, o + 1, rows, row, <<>>, ~FALSE, cut)
    BY <1>7, <2>1, ReadQuote
  <2>4. QED
    BY <2>2, <2>3
<1> DEFINE Good(k) == At(R, (o + 1) + b[k], rows, row, SubSeq(f, 1, k), TRUE, cut)
           T == {k \in Nat : k <= L => Good(k)}
<1>10. 0 \in T
  <2>1. (o + 1) + b[0] = o + 1 /\ SubSeq(f, 1, 0) = <<>>
    BY <1>6, <1>8, PrefixIs
  <2>2. QED
    BY <1>9, <2>1
<1>11. ASSUME NEW k \in Nat, k \in T PROVE k + 1 \in T
  <2>1. SUFFICES ASSUME k + 1 <= L PROVE Good(k + 1)
    <3> HIDE DEF Good
    <3>1. QED
      OBVIOUS
  <2>2. k + 1 \in 1 .. L /\ k \in 0 .. L - 1 /\ k <= L /\ (k + 1) - 1 = k
    BY <1>2, <2>1
  <2> DEFINE i == (o + 1) + b[k]
  <2>3. At(R, i, rows, row, SubSeq(f, 1, k), TRUE, cut)
    BY <1>11, <2>2
  <2>4. /\ Holds(input, (o + 1) + b[(k + 1) - 1], d[k + 1])
        /\ b[(k + 1) - 1] \in Nat /\ b[k + 1] = b[(k + 1) - 1] + Len(d[k + 1]) /\ b[k + 1] <= Len(w)
    BY <1>1, <1>2, <1>5, <1>8, <2>2, HoldsPart
  <2>5. Holds(input, i, d[k + 1]) /\ b[k] \in Nat /\ b[k + 1] = b[k] + Len(d[k + 1])
    BY <2>2, <2>4
  <2>6. SubSeq(f, 1, k + 1) = Append(SubSeq(f, 1, k), f[k + 1])
    BY <2>2, PrefixIs DEF L
  <2>7. i \in Nat /\ i + Len(d[k + 1]) <= Len(input) /\ Len(d[k + 1]) \in Nat
    BY <2>5 DEF Holds
  <2>8. i + Len(d[k + 1]) = (o + 1) + b[k + 1]
    BY <1>6, <2>5, <2>7
  <2> HIDE DEF i
  <2>9. CASE f[k + 1] = Text!Quote
    <3>1. Len(d[k + 1]) = 2 /\ d[k + 1][1] = Text!Quote /\ d[k + 1][2] = Text!Quote
      BY <1>2, <2>2, <2>9
    <3>2. input[i + 1] = Text!Quote /\ input[i + 2] = Text!Quote
      BY <2>5, <3>1 DEF Holds
    <3>3. Before(R, input, separator, i)
      <4>1. i < Len(input)
        BY <2>7, <3>1, <1>6
      <4>2. QED
        BY <2>7, <4>1 DEF Before
    <3>4. i + 2 <= Len(input)
      BY <2>7, <3>1
    <3>5. At(R, i + 2, rows, row, Append(SubSeq(f, 1, k), Text!Quote), TRUE, cut)
      BY <2>3, <3>2, <3>3, <3>4, ReadPair
    <3>6. QED
      BY <2>6, <2>8, <2>9, <3>1, <3>5
  <2>10. CASE f[k + 1] # Text!Quote
    <3>1. Len(d[k + 1]) = 1 /\ d[k + 1][1] = f[k + 1]
      BY <1>2, <2>2, <2>10
    <3>2. input[i + 1] = f[k + 1]
      BY <2>5, <3>1 DEF Holds
    <3>3. Before(R, input, separator, i)
      <4>1. i < Len(input)
        BY <2>7, <3>1, <1>6
      <4>2. QED
        BY <2>7, <4>1 DEF Before
    <3>4. At(R, i + 1, rows, row, Append(SubSeq(f, 1, k), input[i + 1]), TRUE, cut)
      BY <2>3, <2>10, <3>2, <3>3, ReadPlain
    <3>5. QED
      BY <2>6, <2>8, <3>1, <3>2, <3>4
  <2>11. QED
    BY <2>9, <2>10
<1>12. Nat \subseteq T
  <2> HIDE DEF T
  <2>1. QED
    BY <1>10, <1>11, Induction
<1>13. At(R, o + Len(v), rows, row, f, TRUE, cut)
  <2>1. Good(L)
    <3>1. L <= L
      BY <1>2
    <3> HIDE DEF Good
    <3>2. QED
      BY <1>2, <1>12, <3>1
  <2>2. (o + 1) + b[L] = o + Len(v)
    <3>1. (o + 1) + Len(w) = o + Len(v)
      BY <1>6
    <3>2. QED
      BY <1>8, <3>1
  <2>3. SubSeq(f, 1, L) = f
    BY PrefixIs DEF L
  <2>4. QED
    BY <2>1, <2>2, <2>3
<1>14. At(R, (o + Len(v)) + 1, rows, row, f, ~TRUE, cut)
  <2>1. Before(R, input, separator, o + Len(v))
    <3>1. o + Len(v) \in Nat /\ o + Len(v) < Len(input)
      BY <1>6
    <3>2. QED
      BY <3>1 DEF Before
  <2>2. (o + Len(v)) + 1 = Len(input) \/ input[(o + Len(v)) + 2] # Text!Quote
    <3>1. (o + Len(v)) + 2 = (o + Len(u)) + 1 /\ (o + Len(v)) + 1 = o + Len(u)
      BY <1>6
    <3>2. QED
      BY <3>1
  <2>3. QED
    BY <1>7, <1>13, <2>1, <2>2, ReadQuote
<1>15. (o + Len(v)) + 1 = o + Len(u) /\ (~TRUE) = FALSE
  BY <1>6
<1>16. QED
  BY <1>14, <1>15

\* A field is read as it is, whatever it holds.
LEMMA ReadField ==
  ASSUME NEW R, NEW input \in Seq(Characters), NEW separator \in Separators, Reads(R, input, separator),
         NEW o, NEW f \in Seq(Characters), Holds(input, o, Text!Field(f, separator)),
         \/ o + Len(Text!Field(f, separator)) = Len(input)
         \/ input[(o + Len(Text!Field(f, separator))) + 1] # Text!Quote,
         NEW rows, NEW row, NEW cut, At(R, o, rows, row, <<>>, FALSE, cut)
  PROVE  At(R, o + Len(Text!Field(f, separator)), rows, row, f, FALSE, cut)
<1>1. CASE /\ Text!Field(f, separator) = f
           /\ \A i \in 1 .. Len(f) : f[i] \notin {separator, Text!Quote, Text!Newline, Text!Return}
  BY <1>1, ReadBare
<1>2. CASE QuotedField(Text!Field(f, separator), f)
  BY <1>2, ReadQuoted, Zenon
<1>3. QED
  BY <1>1, <1>2, FieldIs, Zenon

\* The first cells of a row that are kept, and whether one of them is cut.
Row(r, j) ==
  [i \in 1 .. (IF j < MaxColumns THEN j ELSE MaxColumns) |-> Text!CutTo(r[i], MaxCellCharacters)]
CutIn(r, j) == \E i \in 1 .. j : i > MaxColumns \/ Len(r[i]) > MaxCellCharacters

\* The cells that are kept of a row, and how many.
LEMMA RowIs ==
  ASSUME NEW r \in Seq(Seq(Characters)), NEW j \in 0 .. Len(r)
  PROVE  /\ Row(r, j) \in Seq(Seq(Characters))
         /\ Len(Row(r, j)) = IF j < MaxColumns THEN j ELSE MaxColumns
         /\ \A i \in 1 .. Len(Row(r, j)) : Row(r, j)[i] = Text!CutTo(r[i], MaxCellCharacters)
<1> DEFINE n == IF j < MaxColumns THEN j ELSE MaxColumns
<1>1. n \in Nat /\ n <= j /\ Len(r) \in Nat /\ j <= Len(r)
  BY LenProperties, TextAssumption
<1>2. \A i \in 1 .. n : r[i] \in Seq(Characters)
  BY <1>1, ElementOfSeq
<1> HIDE DEF n
<1>3. \A i \in 1 .. n : Text!CutTo(r[i], MaxCellCharacters) \in Seq(Characters)
  BY <1>2, CutIsTyped, TextAssumption
<1>4. Row(r, j) = [i \in 1 .. n |-> Text!CutTo(r[i], MaxCellCharacters)]
  BY DEF Row, n
<1>5. Row(r, j) \in [1 .. n -> Seq(Characters)]
  BY <1>3, <1>4
<1>6. Row(r, j) \in Seq(Seq(Characters)) /\ Len(Row(r, j)) = n
  BY <1>1, <1>5, SeqFrom, Zenon
<1>7. \A i \in 1 .. n : Row(r, j)[i] = Text!CutTo(r[i], MaxCellCharacters)
  BY <1>4
<1>8. QED
  BY <1>6, <1>7 DEF n

\* Of a row that begins nothing is kept or cut yet.
LEMMA RowStarts ==
  ASSUME NEW r \in Seq(Seq(Characters))
  PROVE  Row(r, 0) = <<>> /\ ~CutIn(r, 0)
<1>1. Row(r, 0) \in Seq(Seq(Characters)) /\ Len(Row(r, 0)) = 0
  <2>1. 0 \in 0 .. Len(r) /\ 0 < MaxColumns
    BY LenProperties, TextAssumption
  <2>2. QED
    BY <2>1, RowIs
<1>2. QED
  BY <1>1, EmptySeq DEF CutIn

\* Pushing the next field makes the row with one more of its fields.
LEMMA RowGrows ==
  ASSUME NEW r \in Seq(Seq(Characters)), NEW k \in 0 .. Len(r) - 1
  PROVE  /\ Pushed(Row(r, k), r[k + 1]) = Row(r, k + 1)
         /\ CutIn(r, k) \/ CutBy(Row(r, k), r[k + 1]) <=> CutIn(r, k + 1)
<1> DEFINE t == Row(r, k)  u == Row(r, k + 1)  c == Text!CutTo(r[k + 1], MaxCellCharacters)
<1>1. Len(r) \in Nat /\ MaxColumns \in Nat \ {0} /\ MaxCellCharacters \in Nat
  BY LenProperties, TextAssumption
<1>2. k \in 0 .. Len(r) /\ k + 1 \in 0 .. Len(r) /\ k \in Nat /\ k + 1 \in 1 .. Len(r)
  BY <1>1
<1>3. /\ t \in Seq(Seq(Characters)) /\ Len(t) = (IF k < MaxColumns THEN k ELSE MaxColumns)
      /\ \A i \in 1 .. Len(t) : t[i] = Text!CutTo(r[i], MaxCellCharacters)
  BY <1>2, RowIs
<1>4. /\ u \in Seq(Seq(Characters)) /\ Len(u) = (IF k + 1 < MaxColumns THEN k + 1 ELSE MaxColumns)
      /\ \A i \in 1 .. Len(u) : u[i] = Text!CutTo(r[i], MaxCellCharacters)
  BY <1>2, RowIs
<1>5. c \in Seq(Characters)
  BY <1>1, <1>2, ElementOfSeq, CutIsTyped
<1>6. Pushed(t, r[k + 1]) = u
  <2> HIDE DEF t, u, c
  <2>1. CASE k < MaxColumns
    <3> DEFINE v == Append(t, c)
    <3>1. Len(t) = k
      BY <1>3, <2>1
    <3>2. /\ v \in Seq(Seq(Characters)) /\ Len(v) = Len(t) + 1
          /\ (\A i \in 1 .. Len(t) : v[i] = t[i]) /\ v[Len(t) + 1] = c
      <4>1. t \in Seq(Seq(Characters))
        BY <1>3
      <4>2. QED
        BY <1>5, <4>1, AppendProperties
    <3> HIDE DEF v
    <3>3. Len(u) = k + 1
      BY <1>1, <1>2, <1>4, <2>1
    <3>4. ASSUME NEW i \in 1 .. k + 1 PROVE u[i] = v[i]
      <4>1. CASE i = k + 1
        BY <1>2, <1>4, <3>1, <3>2, <3>3, <4>1 DEF c
      <4>2. CASE i # k + 1
        <5>1. i \in 1 .. k
          BY <1>2, <4>2
        <5>2. u[i] = Text!CutTo(r[i], MaxCellCharacters)
          BY <1>4, <3>3
        <5>3. QED
          BY <1>3, <3>1, <3>2, <5>1, <5>2
      <4>3. QED
        BY <4>1, <4>2
    <3>5. u = v
      BY <1>4, <3>1, <3>2, <3>3, <3>4, SeqEqual
    <3>6. Len(t) < MaxColumns
      BY <2>1, <3>1
    <3>7. QED
      BY <3>5, <3>6 DEF Pushed, v, c
  <2>2. CASE ~(k < MaxColumns)
    <3>1. Len(t) = MaxColumns /\ Len(u) = MaxColumns
      BY <1>1, <1>2, <1>3, <1>4, <2>2
    <3>2. u = t
      BY <1>3, <1>4, <3>1, SeqEqual
    <3>3. ~(Len(t) < MaxColumns)
      BY <1>1, <3>1
    <3>4. QED
      BY <3>2, <3>3 DEF Pushed
  <2>3. QED
    BY <2>1, <2>2
<1>7. CutBy(t, r[k + 1]) <=> k + 1 > MaxColumns \/ Len(r[k + 1]) > MaxCellCharacters
  <2>1. Len(t) >= MaxColumns <=> k + 1 > MaxColumns
    BY <1>1, <1>2, <1>3
  <2>2. QED
    BY <2>1 DEF CutBy
<1>8. CutIn(r, k) \/ (k + 1 > MaxColumns \/ Len(r[k + 1]) > MaxCellCharacters) <=> CutIn(r, k + 1)
  <2>1. \A i : i \in 1 .. k + 1 <=> i \in 1 .. k \/ i = k + 1
    BY <1>2
  <2>2. QED
    BY <2>1, Zenon DEF CutIn
<1>9. QED
  BY <1>6, <1>7, <1>8

\* What is joined by something: each part but the first follows it.
Linked(parts, between) == [i \in DOMAIN parts |-> IF i = 1 THEN parts[i] ELSE between \o parts[i]]

\* What Joined makes consists of the parts, each but the first behind what is between.
LEMMA JoinedIs ==
  ASSUME NEW S, NEW parts \in Seq(Seq(S)), NEW between \in Seq(S)
  PROVE  /\ Text!Joined(parts, between) \in Seq(S)
         /\ \E b : Consists(Text!Joined(parts, between), Linked(parts, between), b)
         /\ Len(Linked(parts, between)) = Len(parts) /\ Len(parts) \in Nat
         /\ \A i \in 1 .. Len(parts) :
              /\ Len(Linked(parts, between)[i]) \in Nat
              /\ IF i = 1 THEN Linked(parts, between)[i] = parts[i]
                 ELSE Joins(Linked(parts, between)[i], between, parts[i])
<1> DEFINE l == Linked(parts, between)
<1>1. /\ Len(parts) \in Nat /\ DOMAIN parts = 1 .. Len(parts)
      /\ \A i \in 1 .. Len(parts) : parts[i] \in Seq(S)
  BY LenProperties, ElementOfSeq
<1>2. l = [i \in 1 .. Len(parts) |-> IF i = 1 THEN parts[i] ELSE between \o parts[i]]
  BY <1>1 DEF Linked
<1>3. ASSUME NEW i \in 1 .. Len(parts)
      PROVE  /\ l[i] \in Seq(S)
             /\ IF i = 1 THEN l[i] = parts[i] ELSE Joins(l[i], between, parts[i])
  <2>1. l[i] = IF i = 1 THEN parts[i] ELSE between \o parts[i]
    BY <1>2
  <2>2. /\ between \o parts[i] \in Seq(S) /\ parts[i] \in Seq(S)
        /\ Joins(between \o parts[i], between, parts[i])
    BY <1>1, ConcatIs
  <2> HIDE DEF l
  <2>3. QED
    BY <2>1, <2>2
<1>4. l \in [1 .. Len(parts) -> Seq(S)]
  BY <1>2, <1>3
<1>5. l \in Seq(Seq(S)) /\ Len(l) = Len(parts)
  BY <1>1, <1>4, SeqFrom, Zenon
<1>6. Text!Joined(parts, between) = Text!FlattenSeq(l)
  BY Zenon DEF Text!Joined, Linked
<1> HIDE DEF l
<1>7. Text!FlattenSeq(l) \in Seq(S) /\ \E b : Consists(Text!FlattenSeq(l), l, b)
  BY <1>5, FlattenIs
<1>8. \A i \in 1 .. Len(parts) : Len(l[i]) \in Nat
  BY <1>3, LenProperties
<1>9. QED
  BY <1>1, <1>3, <1>5, <1>6, <1>7, <1>8 DEF l

\* A line of a table.
FieldsOf(r, separator) == [i \in DOMAIN r |-> Text!Field(r[i], separator)]
Line(r, separator) == Text!Joined(FieldsOf(r, separator), <<separator>>)

\* The fields of a row as they are written.
LEMMA FieldsAre ==
  ASSUME NEW r \in Seq(Seq(Characters)), NEW separator \in Separators
  PROVE  /\ FieldsOf(r, separator) \in Seq(Seq(Characters)) /\ Len(FieldsOf(r, separator)) = Len(r)
         /\ Len(r) \in Nat
         /\ \A i \in 1 .. Len(r) :
              /\ r[i] \in Seq(Characters)
              /\ FieldsOf(r, separator)[i] = Text!Field(r[i], separator)
              /\ Len(Text!Field(r[i], separator)) \in Nat
<1> DEFINE g == FieldsOf(r, separator)
<1>1. Len(r) \in Nat /\ DOMAIN r = 1 .. Len(r) /\ \A i \in 1 .. Len(r) : r[i] \in Seq(Characters)
  BY LenProperties, ElementOfSeq
<1>2. g = [i \in 1 .. Len(r) |-> Text!Field(r[i], separator)]
  BY <1>1 DEF FieldsOf
<1>3. \A i \in 1 .. Len(r) : Text!Field(r[i], separator) \in Seq(Characters)
  BY <1>1, FieldIs
<1>4. g \in [1 .. Len(r) -> Seq(Characters)]
  BY <1>2, <1>3
<1>5. g \in Seq(Seq(Characters)) /\ Len(g) = Len(r)
  BY <1>1, <1>4, SeqFrom, Zenon
<1>6. \A i \in 1 .. Len(r) : Len(Text!Field(r[i], separator)) \in Nat
  BY <1>3, LenProperties
<1>7. QED
  BY <1>1, <1>2, <1>5, <1>6

\* A separator is a character.
LEMMA SeparatorIs ==
  ASSUME NEW separator \in Separators
  PROVE  separator \in Characters /\ <<separator>> \in Seq(Characters)
<1>1. separator \in Characters
  BY Zenon DEF Separators, Characters
<1>2. QED
  BY <1>1

\* After the last field of a line comes the line end, or nothing.
LEMMA ReadLine ==
  ASSUME NEW R, NEW input \in Seq(Characters), NEW separator \in Separators, Reads(R, input, separator),
         NEW o, NEW r \in Seq(Seq(Characters)), r # <<>>, Holds(input, o, Line(r, separator)),
         \/ o + Len(Line(r, separator)) = Len(input)
         \/ input[(o + Len(Line(r, separator))) + 1] # Text!Quote,
         NEW rows, NEW cut \in BOOLEAN, At(R, o, rows, <<>>, <<>>, FALSE, cut)
  PROVE  At(R, o + Len(Line(r, separator)), rows, Row(r, Len(r) - 1), r[Len(r)], FALSE,
            cut \/ CutIn(r, Len(r) - 1))
<1> DEFINE L == Len(r)
           g == FieldsOf(r, separator)
           l == Linked(g, <<separator>>)
           line == Line(r, separator)
           n(k) == Len(Text!Field(r[k], separator))
<1>1. /\ g \in Seq(Seq(Characters)) /\ Len(g) = L /\ L \in Nat
      /\ \A i \in 1 .. L :
           r[i] \in Seq(Characters) /\ g[i] = Text!Field(r[i], separator) /\ n(i) \in Nat
  BY FieldsAre
<1>2. L # 0
  BY EmptySeq
<1>3. <<separator>> \in Seq(Characters) /\ Len(<<separator>>) = 1 /\ <<separator>>[1] = separator
  BY SeparatorIs
<1>4. PICK b : Consists(line, l, b)
  BY <1>1, <1>3, JoinedIs, Zenon DEF Line
<1>5. /\ Len(l) = L /\ \A i \in 1 .. L : Len(l[i]) \in Nat
      /\ \A i \in 1 .. L : IF i = 1 THEN l[i] = g[i] ELSE Joins(l[i], <<separator>>, g[i])
  BY <1>1, <1>3, JoinedIs
<1>6. /\ b[0] = 0 /\ Len(line) = b[L]
  BY <1>4, <1>5 DEF Consists, Ends
<1>7. Holds(input, o, line)
  OBVIOUS
<1>8. \A k \in 1 .. L :
         /\ Holds(input, o + b[k - 1], l[k])
         /\ b[k - 1] \in Nat /\ b[k] = b[k - 1] + Len(l[k]) /\ b[k] <= Len(line)
  <2> HIDE DEF L, g, l, line
  <2>1. Len(l) \in Nat /\ \A i \in 1 .. Len(l) : Len(l[i]) \in Nat
    BY <1>1, <1>5
  <2>2. \A k \in 1 .. Len(l) :
          /\ Holds(input, o + b[k - 1], l[k])
          /\ b[k - 1] \in Nat /\ b[k] = b[k - 1] + Len(l[k]) /\ b[k] <= Len(line)
    BY <1>4, <1>7, <2>1, HoldsPart, Zenon
  <2>3. QED
    BY <1>5, <2>2
<1>9. o \in Nat /\ Len(line) \in Nat /\ Len(input) \in Nat /\ o + Len(line) <= Len(input)
  BY DEF Holds
<1> HIDE DEF L, g, l, line
<1>10. ASSUME NEW k \in 1 .. L, k # 1
      PROVE  /\ input[(o + b[k - 1]) + 1] = separator
             /\ Holds(input, (o + b[k - 1]) + 1, g[k]) /\ b[k] = b[k - 1] + 1 + Len(g[k])
             /\ Len(g[k]) \in Nat /\ b[k - 1] \in Nat
  <2>1. Holds(input, o + b[k - 1], l[k]) /\ Joins(l[k], <<separator>>, g[k])
    BY <1>5, <1>8, <1>10
  <2>2. Holds(input, o + b[k - 1], <<separator>>) /\ Holds(input, (o + b[k - 1]) + 1, g[k])
    BY <1>3, <2>1, HoldsJoin
  <2>3. input[(o + b[k - 1]) + 1] = separator
    BY <1>3, <2>2 DEF Holds
  <2>4. Len(l[k]) = 1 + Len(g[k]) /\ Len(g[k]) \in Nat
    BY <1>3, <2>1 DEF Joins
  <2>5. b[k - 1] \in Nat /\ b[k] = b[k - 1] + Len(l[k])
    BY <1>8
  <2>6. b[k] = b[k - 1] + 1 + Len(g[k])
    <3>1. \A x, y \in Nat : x + (1 + y) = x + 1 + y
      OBVIOUS
    <3>2. QED
      BY <2>4, <2>5, <3>1
  <2>7. QED
    BY <2>2, <2>3, <2>4, <2>5, <2>6
<1>11. ASSUME NEW k \in 1 .. L PROVE o + b[k] = Len(input) \/ input[(o + b[k]) + 1] # Text!Quote
  <2>1. CASE k = L
    BY <1>6, <2>1 DEF line
  <2>2. CASE k # L
    <3>1. k + 1 \in 1 .. L /\ k + 1 # 1 /\ (k + 1) - 1 = k
      BY <1>1, <2>2
    <3>2. input[(o + b[k]) + 1] = separator
      BY <1>10, <3>1
    <3>3. QED
      BY <3>2, LiteralsDiffer
  <2>3. QED
    BY <2>1, <2>2
<1> DEFINE Good(k) == At(R, o + b[k], rows, Row(r, k - 1), r[k], FALSE, cut \/ CutIn(r, k - 1))
           T == {k \in Nat : k + 1 <= L => Good(k + 1)}
<1>12. Good(1)
  <2>1. 1 \in 1 .. L /\ 1 - 1 = 0
    BY <1>1, <1>2
  <2>2. l[1] = Text!Field(r[1], separator) /\ r[1] \in Seq(Characters)
    BY <1>1, <1>5, <2>1
  <2>3. Holds(input, o + b[1 - 1], l[1]) /\ b[1] = b[1 - 1] + Len(l[1]) /\ b[1 - 1] \in Nat
        /\ Len(l[1]) \in Nat
    BY <1>5, <1>8, <2>1
  <2>4. o + b[1 - 1] = o /\ b[1] = Len(l[1])
    BY <1>6, <1>9, <2>1, <2>3
  <2>5. Holds(input, o, Text!Field(r[1], separator)) /\ b[1] = n(1)
    BY <2>2, <2>3, <2>4
  <2>6. At(R, o + n(1), rows, <<>>, r[1], FALSE, cut)
    <3>1. o + n(1) = Len(input) \/ input[(o + n(1)) + 1] # Text!Quote
      BY <1>11, <2>1, <2>5
    <3> HIDE DEF n
    <3>2. QED
      BY <2>2, <2>5, <3>1, ReadField DEF n
  <2>7. Row(r, 1 - 1) = <<>> /\ ~CutIn(r, 1 - 1)
    BY <2>1, RowStarts
  <2>8. (cut \/ CutIn(r, 1 - 1)) = cut
    BY <2>7
  <2>9. QED
    BY <2>5, <2>6, <2>7, <2>8
<1>13. 0 \in T
  <2> HIDE DEF Good
  <2>1. QED
    BY <1>12
<1>14. ASSUME NEW k \in Nat, k \in T PROVE k + 1 \in T
  <2>1. SUFFICES ASSUME (k + 1) + 1 <= L PROVE Good((k + 1) + 1)
    <3> HIDE DEF Good
    <3>1. QED
      OBVIOUS
  <2> DEFINE m == k + 1
  <2>2. m \in 1 .. L /\ m + 1 \in 1 .. L /\ (m + 1) - 1 = m /\ m + 1 # 1 /\ m - 1 \in 0 .. L - 1
        /\ (m - 1) + 1 = m /\ m <= L /\ m \in Nat
    BY <1>1, <2>1
  <2>3. Good(m)
    <3> HIDE DEF Good
    <3>1. QED
      BY <1>14, <2>2
  <2> HIDE DEF m
  <2> DEFINE i == o + b[m]
  <2>4. /\ input[i + 1] = separator /\ Holds(input, i + 1, g[m + 1])
        /\ b[m + 1] = b[m] + 1 + Len(g[m + 1]) /\ Len(g[m + 1]) \in Nat /\ b[m] \in Nat
    BY <1>10, <2>2
  <2>5. Before(R, input, separator, i)
    <3>1. i \in Nat
      <4>1. o \in Nat /\ b[m] \in Nat
        BY <1>9, <2>4
      <4>2. QED
        BY <4>1
    <3> HIDE DEF i
    <3>2. (i + 1) + Len(g[m + 1]) <= Len(input) /\ Len(g[m + 1]) \in Nat
      BY <2>4 DEF Holds
    <3>3. \A x, y, z \in Nat : (x + 1) + y <= z => x < z
      OBVIOUS
    <3>4. i < Len(input)
      BY <1>9, <3>1, <3>2, <3>3, Zenon
    <3>5. QED
      BY <3>1, <3>4 DEF Before
  <2>6. g[m + 1] = Text!Field(r[m + 1], separator) /\ r[m + 1] \in Seq(Characters)
    BY <1>1, <2>2
  <2>7. (i + 1) + Len(g[m + 1]) = o + b[m + 1]
    <3>1. \A x, y, z \in Nat : (o + x + 1) + y = o + (x + 1 + y)
      BY <1>9
    <3>2. QED
      BY <2>4, <3>1
  <2> HIDE DEF i
  <2>8. At(R, i + 1, rows, Pushed(Row(r, m - 1), r[m]), <<>>, FALSE,
           (cut \/ CutIn(r, m - 1)) \/ CutBy(Row(r, m - 1), r[m]))
    BY <2>3, <2>4, <2>5, ReadSeparator DEF i
  <2>9. /\ Pushed(Row(r, m - 1), r[m]) = Row(r, m)
        /\ (CutIn(r, m - 1) \/ CutBy(Row(r, m - 1), r[m]) <=> CutIn(r, m))
    BY <2>2, RowGrows DEF L
  <2>10. ((cut \/ CutIn(r, m - 1)) \/ CutBy(Row(r, m - 1), r[m])) = (cut \/ CutIn(r, m))
    BY <2>9
  <2>11. At(R, i + 1, rows, Row(r, m), <<>>, FALSE, cut \/ CutIn(r, m))
    BY <2>8, <2>9, <2>10
  <2>12. At(R, (i + 1) + Len(g[m + 1]), rows, Row(r, m), r[m + 1], FALSE, cut \/ CutIn(r, m))
    <3>1. (i + 1) + Len(g[m + 1]) = Len(input) \/ input[((i + 1) + Len(g[m + 1])) + 1] # Text!Quote
      BY <1>11, <2>2, <2>7
    <3>2. QED
      BY <2>4, <2>6, <2>11, <3>1, ReadField
  <2>13. Good(m + 1)
    BY <2>2, <2>7, <2>12
  <2>14. QED
    BY <2>13 DEF m
<1>15. Nat \subseteq T
  <2> HIDE DEF T
  <2>1. QED
    BY <1>13, <1>14, Induction
<1>16. L - 1 \in Nat /\ (L - 1) + 1 = L /\ L <= L
  BY <1>1, <1>2
<1>17. Good(L)
  <2> HIDE DEF Good
  <2>1. \A k \in Nat : k + 1 <= L => Good(k + 1)
    BY <1>15
  <2>2. Good((L - 1) + 1)
    BY <1>16, <2>1
  <2>3. QED
    BY <1>16, <2>2
<1>18. QED
  BY <1>6, <1>17 DEF L, line

Tables == {t \in Seq(Seq(Seq(Characters))) : \A i \in 1 .. Len(t) : t[i] # <<>>}

\* The first rows of a table as far as they are kept, and whether one of them is cut.
Kept(t, j) == [i \in 1 .. j |-> Row(t[i], Len(t[i]))]
CutRows(t, j) == \E i \in 1 .. j : CutIn(t[i], Len(t[i]))

\* A table has rows, each with a cell.
LEMMA TableIs ==
  ASSUME NEW t \in Tables
  PROVE  /\ Len(t) \in Nat /\ t \in Seq(Seq(Seq(Characters))) /\ DOMAIN t = 1 .. Len(t)
         /\ \A i \in 1 .. Len(t) :
              /\ t[i] \in Seq(Seq(Characters)) /\ t[i] # <<>> /\ Len(t[i]) \in Nat \ {0}
              /\ Row(t[i], Len(t[i])) \in Seq(Seq(Characters))
<1>1. t \in Seq(Seq(Seq(Characters))) /\ \A i \in 1 .. Len(t) : t[i] # <<>>
  BY DEF Tables
<1>2. Len(t) \in Nat /\ DOMAIN t = 1 .. Len(t) /\ \A i \in 1 .. Len(t) : t[i] \in Seq(Seq(Characters))
  BY <1>1, LenProperties, ElementOfSeq
<1>3. ASSUME NEW i \in 1 .. Len(t)
      PROVE  Len(t[i]) \in Nat \ {0} /\ Row(t[i], Len(t[i])) \in Seq(Seq(Characters))
  <2> DEFINE r == t[i]
  <2>1. r \in Seq(Seq(Characters)) /\ r # <<>>
    BY <1>1, <1>2
  <2> HIDE DEF r
  <2>2. Len(r) \in Nat /\ Len(r) # 0
    BY <2>1, LenProperties, EmptySeq
  <2>3. Row(r, Len(r)) \in Seq(Seq(Characters))
    BY <2>1, <2>2, RowIs
  <2>4. QED
    BY <2>2, <2>3 DEF r
<1>4. QED
  BY <1>1, <1>2, <1>3

\* The rows that are kept of a table.
LEMMA KeptIs ==
  ASSUME NEW t \in Tables, NEW j \in 0 .. Len(t)
  PROVE  /\ Kept(t, j) \in Seq(Seq(Seq(Characters))) /\ Len(Kept(t, j)) = j
         /\ \A i \in 1 .. j : Kept(t, j)[i] = Row(t[i], Len(t[i]))
<1>1. j \in Nat /\ \A i \in 1 .. j : i \in 1 .. Len(t)
  BY TableIs
<1>2. Kept(t, j) \in [1 .. j -> Seq(Seq(Characters))]
  BY <1>1, TableIs DEF Kept
<1>3. Kept(t, j) \in Seq(Seq(Seq(Characters))) /\ Len(Kept(t, j)) = j
  BY <1>1, <1>2
<1>4. \A i \in 1 .. j : Kept(t, j)[i] = Row(t[i], Len(t[i]))
  BY DEF Kept
<1>5. QED
  BY <1>3, <1>4

\* Of a table that begins nothing is kept or cut yet.
LEMMA KeptStarts ==
  ASSUME NEW t \in Tables
  PROVE  Kept(t, 0) = <<>> /\ ~CutRows(t, 0)
<1>1. 0 \in 0 .. Len(t)
  BY TableIs
<1>2. Kept(t, 0) \in Seq(Seq(Seq(Characters))) /\ Len(Kept(t, 0)) = 0
  BY <1>1, KeptIs
<1>3. QED
  BY <1>2, EmptySeq DEF CutRows

\* One more row is kept.
LEMMA KeptGrows ==
  ASSUME NEW t \in Tables, NEW k \in 1 .. Len(t)
  PROVE  /\ Append(Kept(t, k - 1), Row(t[k], Len(t[k]))) = Kept(t, k)
         /\ CutRows(t, k - 1) \/ CutIn(t[k], Len(t[k])) <=> CutRows(t, k)
<1> DEFINE u == Kept(t, k - 1)  w == Kept(t, k)  r == Row(t[k], Len(t[k]))  v == Append(u, r)
<1>1. k - 1 \in 0 .. Len(t) /\ k \in 0 .. Len(t) /\ k - 1 \in Nat /\ (k - 1) + 1 = k
  BY TableIs
<1>2. /\ u \in Seq(Seq(Seq(Characters))) /\ Len(u) = k - 1
      /\ \A i \in 1 .. k - 1 : u[i] = Row(t[i], Len(t[i]))
  BY <1>1, KeptIs
<1>3. /\ w \in Seq(Seq(Seq(Characters))) /\ Len(w) = k
      /\ \A i \in 1 .. k : w[i] = Row(t[i], Len(t[i]))
  BY <1>1, KeptIs
<1>4. r \in Seq(Seq(Characters))
  BY TableIs
<1> HIDE DEF u, w, r
<1>5. v \in Seq(Seq(Seq(Characters))) /\ Len(v) = k /\ (\A i \in 1 .. k - 1 : v[i] = u[i]) /\ v[k] = r
  BY <1>1, <1>2, <1>4, AppendProperties
<1> HIDE DEF v
<1>6. ASSUME NEW i \in 1 .. k PROVE v[i] = w[i]
  <2>1. CASE i = k
    BY <1>3, <1>5, <2>1 DEF r
  <2>2. CASE i # k
    <3>1. i \in 1 .. k - 1
      BY <2>2
    <3>2. QED
      BY <1>2, <1>3, <1>5, <3>1
  <2>3. QED
    BY <2>1, <2>2
<1>7. v = w
  BY <1>3, <1>5, <1>6, SeqEqual
<1>8. CutRows(t, k - 1) \/ CutIn(t[k], Len(t[k])) <=> CutRows(t, k)
  <2>1. \A i : i \in 1 .. k <=> i \in 1 .. k - 1 \/ i = k
    BY <1>1
  <2>2. QED
    BY <2>1, Zenon DEF CutRows
<1>9. QED
  BY <1>7, <1>8 DEF u, w, r, v

LineEnds == {<<Text!Newline>>, <<Text!Return, Text!Newline>>}

\* A line ends with one or two characters, none of them a quote.
LEMMA LineEndIs ==
  ASSUME NEW e \in LineEnds
  PROVE  /\ e \in Seq(Characters) /\ Len(e) \in {1, 2} /\ e[Len(e)] = Text!Newline
         /\ Len(e) = 2 => e[1] = Text!Return
         /\ e[1] # Text!Quote /\ Len(e) \in Nat /\ Len(e) # 0
<1>1. Text!Newline \in Characters /\ Text!Return \in Characters
  BY Zenon DEF Characters
<1>2. CASE e = <<Text!Newline>>
  <2>1. Len(e) = 1 /\ e[1] = Text!Newline /\ e \in Seq(Characters)
    BY <1>1, <1>2
  <2>2. e[Len(e)] = Text!Newline
    BY <2>1
  <2>3. Len(e) # 2 /\ Len(e) \in {1, 2} /\ Len(e) \in Nat /\ Len(e) # 0
    BY <2>1
  <2>4. e[1] # Text!Quote
    BY <2>1, LiteralsDiffer
  <2>5. QED
    BY <2>1, <2>2, <2>3, <2>4
<1>3. CASE e = <<Text!Return, Text!Newline>>
  <2>1. Len(e) = 2 /\ e[1] = Text!Return /\ e[2] = Text!Newline /\ e \in Seq(Characters)
    BY <1>1, <1>3
  <2>2. e[Len(e)] = Text!Newline
    BY <2>1
  <2>3. Len(e) \in {1, 2} /\ Len(e) \in Nat /\ Len(e) # 0
    BY <2>1
  <2>4. e[1] # Text!Quote
    BY <2>1, LiteralsDiffer
  <2>5. QED
    BY <2>1, <2>2, <2>3, <2>4
<1>4. QED
  BY <1>2, <1>3 DEF LineEnds

\* The parser is at the last field of row k.
AtLast(R, i, t, k) ==
  At(R, i, Kept(t, k - 1), Row(t[k], Len(t[k]) - 1), t[k][Len(t[k])], FALSE,
     CutRows(t, k - 1) \/ CutIn(t[k], Len(t[k]) - 1))

\* Pushing the last field of a row makes the table with one more of its rows.
LEMMA PushLast ==
  ASSUME NEW t \in Tables, NEW k \in 1 .. Len(t), k <= MaxRows
  PROVE  LET r == t[k]  row == Row(r, Len(r) - 1)  field == r[Len(r)]  rows == Kept(t, k - 1) IN
         /\ WithRow(rows, row, field) = Kept(t, k)
         /\ CutAfter(rows, row, field, CutRows(t, k - 1) \/ CutIn(r, Len(r) - 1)) = CutRows(t, k)
<1> DEFINE r == t[k]  row == Row(r, Len(r) - 1)  field == r[Len(r)]
<1>1. r \in Seq(Seq(Characters)) /\ Len(r) \in Nat \ {0} /\ MaxRows \in Nat
  BY TableIs, TextAssumption
<1>2. k - 1 \in 0 .. Len(t) /\ k \in Nat
  BY TableIs
<1>3. Len(Kept(t, k - 1)) = k - 1
  BY <1>2, KeptIs
<1>4. Len(Kept(t, k - 1)) < MaxRows /\ ~(Len(Kept(t, k - 1)) >= MaxRows)
  BY <1>1, <1>2, <1>3
<1>5. Len(r) - 1 \in 0 .. Len(r) - 1 /\ (Len(r) - 1) + 1 = Len(r)
  BY <1>1
<1> HIDE DEF r
<1>6. /\ Pushed(Row(r, Len(r) - 1), r[(Len(r) - 1) + 1]) = Row(r, (Len(r) - 1) + 1)
      /\ CutIn(r, Len(r) - 1) \/ CutBy(Row(r, Len(r) - 1), r[(Len(r) - 1) + 1])
           <=> CutIn(r, (Len(r) - 1) + 1)
  BY <1>1, <1>5, RowGrows
<1>7. /\ Pushed(row, field) = Row(r, Len(r))
      /\ CutIn(r, Len(r) - 1) \/ CutBy(row, field) <=> CutIn(r, Len(r))
  BY <1>5, <1>6
<1>8. /\ Append(Kept(t, k - 1), Row(r, Len(r))) = Kept(t, k)
      /\ CutRows(t, k - 1) \/ CutIn(r, Len(r)) <=> CutRows(t, k)
  BY KeptGrows DEF r
<1> HIDE DEF row, field
<1>9. (IF Len(Kept(t, k - 1)) < MaxRows THEN Append(Kept(t, k - 1), Pushed(row, field))
       ELSE Kept(t, k - 1)) = Kept(t, k)
  BY <1>4, <1>7, <1>8
<1>10. ((CutRows(t, k - 1) \/ CutIn(r, Len(r) - 1)) \/ CutBy(row, field)
          \/ Len(Kept(t, k - 1)) >= MaxRows) = CutRows(t, k)
  <2>1. CutRows(t, k) \in BOOLEAN
    BY DEF CutRows
  <2>2. QED
    BY <1>4, <1>7, <1>8, <2>1
<1>11. QED
  BY <1>9, <1>10 DEF r, row, field, WithRow, CutAfter

\* The line end after it.
LEMMA EndRow ==
  ASSUME NEW R, NEW input \in Seq(Characters), NEW separator \in Separators, Reads(R, input, separator),
         NEW t \in Tables, NEW k \in 1 .. Len(t), k <= MaxRows, NEW i, AtLast(R, i, t, k),
         NEW e \in LineEnds, Holds(input, i, e)
  PROVE  IF k = MaxRows
         THEN Has(R[i + Len(e)], Kept(t, k), <<>>, <<>>, FALSE, i + Len(e), TRUE,
                  CutRows(t, k) \/ i + Len(e) < Len(input))
         ELSE At(R, i + Len(e), Kept(t, k), <<>>, <<>>, FALSE, CutRows(t, k))
<1> DEFINE r == t[k]  row == Row(r, Len(r) - 1)  field == r[Len(r)]
           rows == Kept(t, k - 1)  cut == CutRows(t, k - 1) \/ CutIn(r, Len(r) - 1)
           all == WithRow(rows, row, field)
           truncated == CutAfter(rows, row, field, cut)
           n == Len(e)
<1>1. all = Kept(t, k) /\ truncated = CutRows(t, k)
  BY PushLast
<1>2. At(R, i, rows, row, field, FALSE, cut)
  BY DEF AtLast
<1>3. n \in {1, 2} /\ e[n] = Text!Newline /\ (n = 2 => e[1] = Text!Return)
  BY LineEndIs
<1>4. i \in Nat /\ Len(input) \in Nat /\ i + n <= Len(input) /\ \A x \in 1 .. n : input[i + x] = e[x]
  BY DEF Holds
<1>5. Len(Kept(t, k)) = k /\ k \in Nat /\ MaxRows \in Nat
  <2>1. k \in 0 .. Len(t) /\ k \in Nat
    BY TableIs
  <2>2. QED
    BY <2>1, KeptIs, TextAssumption
<1> HIDE DEF r, row, field, rows, cut, n
<1>6. Before(R, input, separator, i)
  <2>1. i < Len(input)
    BY <1>3, <1>4
  <2>2. QED
    BY <1>4, <2>1 DEF Before
<1>7. input[i + n] = Text!Newline /\ (n = 2 => input[i + 1] = Text!Return)
  BY <1>3, <1>4
<1>8. Ended(R, input, i + n, all, truncated)
  BY <1>2, <1>3, <1>4, <1>6, <1>7, ReadLineEnd
<1> HIDE DEF all, truncated
<1>9. Len(all) >= MaxRows <=> k = MaxRows
  BY <1>1, <1>5
<1>10. QED
  BY <1>1, <1>8, <1>9 DEF n, Ended

\* The lines of a table.
LinesOf(t, separator) == [i \in DOMAIN t |-> Line(t[i], separator)]

\* The rows of a table as they are written.
LEMMA LinesAre ==
  ASSUME NEW t \in Tables, NEW separator \in Separators
  PROVE  /\ LinesOf(t, separator) \in Seq(Seq(Characters)) /\ Len(LinesOf(t, separator)) = Len(t)
         /\ \A i \in 1 .. Len(t) :
              LinesOf(t, separator)[i] = Line(t[i], separator) /\ Len(Line(t[i], separator)) \in Nat
<1> DEFINE l == LinesOf(t, separator)
<1>1. Len(t) \in Nat /\ DOMAIN t = 1 .. Len(t)
  BY TableIs
<1>2. ASSUME NEW i \in 1 .. Len(t) PROVE Line(t[i], separator) \in Seq(Characters)
  <2>1. FieldsOf(t[i], separator) \in Seq(Seq(Characters))
    BY TableIs, FieldsAre
  <2>2. <<separator>> \in Seq(Characters)
    BY SeparatorIs
  <2>3. QED
    BY <2>1, <2>2, JoinedIs, Zenon DEF Line
<1>3. l = [i \in 1 .. Len(t) |-> Line(t[i], separator)]
  BY <1>1 DEF LinesOf
<1>4. l \in [1 .. Len(t) -> Seq(Characters)]
  BY <1>2, <1>3
<1>5. l \in Seq(Seq(Characters)) /\ Len(l) = Len(t)
  BY <1>1, <1>4, SeqFrom, Zenon
<1>6. \A i \in 1 .. Len(t) : Len(Line(t[i], separator)) \in Nat
  BY <1>2, LenProperties
<1>7. QED
  BY <1>3, <1>5, <1>6

\* The text of a table without the end of its last line.
Body(t, separator, e) == Text!Joined(LinesOf(t, separator), e)

\* Where the rows of a table end in its text.
Spans(input, t, separator, e, b) ==
  /\ b[0] = 0 /\ b[Len(t)] = Len(Body(t, separator, e))
  /\ \A k \in 1 .. Len(t) :
       /\ b[k - 1] \in Nat /\ b[k] \in Nat
       /\ IF k = 1
          THEN Holds(input, 0, Line(t[1], separator)) /\ b[1] = Len(Line(t[1], separator))
          ELSE /\ Holds(input, b[k - 1], e) /\ Holds(input, b[k - 1] + Len(e), Line(t[k], separator))
               /\ b[k] = (b[k - 1] + Len(e)) + Len(Line(t[k], separator))

\* The text of a table holds its lines, each but the first behind an end of line.
LEMMA SpansIs ==
  ASSUME NEW t \in Tables, t # <<>>, NEW separator \in Separators, NEW e \in LineEnds,
         NEW input, Holds(input, 0, Body(t, separator, e))
  PROVE  \E b : Spans(input, t, separator, e, b)
<1> DEFINE L == Len(t)
           g == LinesOf(t, separator)
           l == Linked(g, e)
           body == Body(t, separator, e)
<1>1. /\ L \in Nat /\ g \in Seq(Seq(Characters)) /\ Len(g) = L
      /\ \A i \in 1 .. L : g[i] = Line(t[i], separator) /\ Len(g[i]) \in Nat
  BY TableIs, LinesAre
<1>2. e \in Seq(Characters) /\ Len(e) \in Nat
  BY LineEndIs
<1>3. PICK b : Consists(body, l, b)
  BY <1>1, <1>2, JoinedIs, Zenon DEF Body
<1>4. /\ Len(l) = L /\ \A i \in 1 .. L : Len(l[i]) \in Nat
      /\ \A i \in 1 .. L : IF i = 1 THEN l[i] = g[i] ELSE Joins(l[i], e, g[i])
  BY <1>1, <1>2, JoinedIs
<1>5. b[0] = 0 /\ Len(body) = b[L]
  BY <1>3, <1>4 DEF Consists, Ends
<1>6. Holds(input, 0, body)
  OBVIOUS
<1> HIDE DEF L, g, l, body
<1>7. Len(l) \in Nat /\ \A i \in 1 .. Len(l) : Len(l[i]) \in Nat
  BY <1>1, <1>4
<1>8. \A k \in 1 .. Len(l) :
        /\ Holds(input, 0 + b[k - 1], l[k])
        /\ b[k - 1] \in Nat /\ b[k] = b[k - 1] + Len(l[k]) /\ b[k] <= Len(body)
  BY <1>3, <1>6, <1>7, HoldsPart, Zenon
<1>9. ASSUME NEW k \in 1 .. L
      PROVE  /\ b[k - 1] \in Nat /\ b[k] \in Nat
             /\ IF k = 1
                THEN Holds(input, 0, Line(t[1], separator)) /\ b[1] = Len(Line(t[1], separator))
                ELSE /\ Holds(input, b[k - 1], e) /\ Holds(input, b[k - 1] + Len(e), Line(t[k], separator))
                     /\ b[k] = (b[k - 1] + Len(e)) + Len(Line(t[k], separator))
  <2>1. Holds(input, 0 + b[k - 1], l[k]) /\ b[k - 1] \in Nat /\ b[k] = b[k - 1] + Len(l[k])
    BY <1>4, <1>8
  <2>2. Len(l[k]) \in Nat /\ 0 + b[k - 1] = b[k - 1]
    BY <1>4, <2>1
  <2>3. b[k] \in Nat
    BY <2>1, <2>2
  <2>4. CASE k = 1
    <3>1. l[k] = g[k] /\ g[k] = Line(t[k], separator) /\ b[k - 1] = 0
      <4>1. k - 1 = 0
        BY <2>4
      <4>2. l[k] = g[k] /\ g[k] = Line(t[k], separator)
        BY <1>1, <1>4, <2>4, Zenon
      <4>3. QED
        BY <1>5, <4>1, <4>2
    <3>2. Holds(input, 0, Line(t[1], separator))
      BY <2>1, <2>2, <2>4, <3>1
    <3>3. b[1] = Len(Line(t[1], separator))
      <4>1. \A x \in Nat : 0 + x = x
        OBVIOUS
      <4>2. QED
        BY <2>1, <2>2, <2>4, <3>1, <4>1
    <3>4. QED
      BY <2>1, <2>3, <2>4, <3>2, <3>3
  <2>5. CASE k # 1
    <3>1. Joins(l[k], e, g[k]) /\ g[k] = Line(t[k], separator)
      BY <1>1, <1>4, <2>5
    <3>2. Holds(input, b[k - 1], e) /\ Holds(input, b[k - 1] + Len(e), g[k])
      BY <2>1, <2>2, <3>1, HoldsJoin
    <3>3. Len(l[k]) = Len(e) + Len(g[k])
      BY <3>1 DEF Joins
    <3>4. \A x, y, z \in Nat : x + (y + z) = (x + y) + z
      OBVIOUS
    <3>5. b[k] = (b[k - 1] + Len(e)) + Len(g[k])
      BY <1>1, <1>2, <2>1, <3>3, <3>4
    <3>6. QED
      BY <2>1, <2>3, <2>5, <3>1, <3>2, <3>5
  <2>6. QED
    BY <2>4, <2>5
<1>10. Spans(input, t, separator, e, b)
  BY <1>5, <1>9, Zenon DEF Spans, L, body
<1>11. QED
  BY <1>10

\* The rows are read one after the other, as long as there is room for them.
LEMMA ReadRows ==
  ASSUME NEW R, NEW input \in Seq(Characters), NEW separator \in Separators, Reads(R, input, separator),
         NEW t \in Tables, t # <<>>, NEW e \in LineEnds, NEW b, Spans(input, t, separator, e, b),
         b[Len(t)] = Len(input) \/ input[b[Len(t)] + 1] # Text!Quote,
         At(R, 0, <<>>, <<>>, <<>>, FALSE, FALSE),
         NEW k \in 1 .. Len(t), k <= MaxRows
  PROVE  AtLast(R, b[k], t, k)
<1> DEFINE L == Len(t)
           line(j) == Line(t[j], separator)
           T == {j \in Nat : j + 1 <= L /\ j + 1 <= MaxRows => AtLast(R, b[j + 1], t, j + 1)}
<1>1. /\ L \in Nat /\ L # 0 /\ MaxRows \in Nat
      /\ \A j \in 1 .. L : t[j] \in Seq(Seq(Characters)) /\ t[j] # <<>>
  BY TableIs, EmptySeq, TextAssumption DEF Tables
<1>2. \A j \in 1 .. L :
        /\ b[j - 1] \in Nat /\ b[j] \in Nat
        /\ IF j = 1
           THEN Holds(input, 0, line(1)) /\ b[1] = Len(line(1))
           ELSE /\ Holds(input, b[j - 1], e) /\ Holds(input, b[j - 1] + Len(e), line(j))
                /\ b[j] = (b[j - 1] + Len(e)) + Len(line(j))
  BY DEF Spans
<1>3. e[1] # Text!Quote /\ Len(e) \in {1, 2}
  BY LineEndIs
<1>4. b[L] = Len(input) \/ input[b[L] + 1] # Text!Quote
  OBVIOUS
<1> HIDE DEF L, line
<1>5. ASSUME NEW j \in 1 .. L PROVE b[j] = Len(input) \/ input[b[j] + 1] # Text!Quote
  <2>1. CASE j = L
    BY <1>4, <2>1
  <2>2. CASE j # L
    <3>1. j + 1 \in 1 .. L /\ j + 1 # 1 /\ (j + 1) - 1 = j
      BY <1>1, <2>2
    <3>2. Holds(input, b[j], e)
      BY <1>2, <3>1
    <3>3. input[b[j] + 1] = e[1]
      BY <1>3, <3>2 DEF Holds
    <3>4. QED
      BY <1>3, <3>3
  <2>3. QED
    BY <2>1, <2>2
<1>6. ASSUME NEW j \in 1 .. L, NEW o, Holds(input, o, line(j)), b[j] = o + Len(line(j)),
             At(R, o, Kept(t, j - 1), <<>>, <<>>, FALSE, CutRows(t, j - 1))
      PROVE  AtLast(R, b[j], t, j)
  <2>1. t[j] \in Seq(Seq(Characters)) /\ t[j] # <<>>
    BY <1>1
  <2>2. o + Len(line(j)) = Len(input) \/ input[(o + Len(line(j))) + 1] # Text!Quote
    BY <1>5, <1>6
  <2>3. CutRows(t, j - 1) \in BOOLEAN
    BY DEF CutRows
  <2>4. At(R, o + Len(line(j)), Kept(t, j - 1), Row(t[j], Len(t[j]) - 1), t[j][Len(t[j])], FALSE,
           CutRows(t, j - 1) \/ CutIn(t[j], Len(t[j]) - 1))
    BY <1>6, <2>1, <2>2, <2>3, ReadLine DEF line
  <2>5. QED
    BY <1>6, <2>4 DEF AtLast
<1>7. AtLast(R, b[1], t, 1)
  <2>1. 1 \in 1 .. L /\ 1 - 1 = 0
    BY <1>1
  <2>2. Holds(input, 0, line(1)) /\ b[1] = Len(line(1))
    BY <1>2, <2>1
  <2>3. b[1] = 0 + Len(line(1))
    <3>1. \A x \in Nat : x = 0 + x
      OBVIOUS
    <3>2. QED
      BY <2>2, <3>1 DEF Holds
  <2>4. Kept(t, 1 - 1) = <<>> /\ CutRows(t, 1 - 1) = FALSE
    <3>1. CutRows(t, 1 - 1) \in BOOLEAN
      BY DEF CutRows
    <3>2. QED
      BY <2>1, <3>1, KeptStarts
  <2>5. At(R, 0, Kept(t, 1 - 1), <<>>, <<>>, FALSE, CutRows(t, 1 - 1))
    BY <2>4
  <2>6. QED
    BY <1>6, <2>1, <2>2, <2>3, <2>5
<1>8. 0 \in T
  BY <1>7
<1>9. ASSUME NEW n \in Nat, n \in T PROVE n + 1 \in T
  <2>1. SUFFICES ASSUME (n + 1) + 1 <= L, (n + 1) + 1 <= MaxRows
        PROVE  AtLast(R, b[(n + 1) + 1], t, (n + 1) + 1)
    OBVIOUS
  <2> DEFINE j == n + 1
  <2>2. /\ j \in 1 .. L /\ j + 1 \in 1 .. L /\ (j + 1) - 1 = j /\ j + 1 # 1
        /\ j <= MaxRows /\ j # MaxRows
        /\ j <= L
    BY <1>1, <2>1
  <2>3. AtLast(R, b[j], t, j)
    BY <1>9, <2>2
  <2> HIDE DEF j
  <2>4. /\ Holds(input, b[j], e) /\ Holds(input, b[j] + Len(e), line(j + 1))
        /\ b[j + 1] = (b[j] + Len(e)) + Len(line(j + 1))
    BY <1>2, <2>2
  <2>5. At(R, b[j] + Len(e), Kept(t, j), <<>>, <<>>, FALSE, CutRows(t, j))
    BY <2>2, <2>3, <2>4, EndRow DEF L
  <2>6. At(R, b[j] + Len(e), Kept(t, (j + 1) - 1), <<>>, <<>>, FALSE, CutRows(t, (j + 1) - 1))
    BY <2>2, <2>5
  <2>7. AtLast(R, b[j + 1], t, j + 1)
    BY <1>6, <2>2, <2>4, <2>6
  <2>8. QED
    BY <2>7 DEF j
<1>10. Nat \subseteq T
  <2> HIDE DEF T
  <2>1. QED
    BY <1>8, <1>9, Induction
<1>11. k - 1 \in Nat /\ (k - 1) + 1 = k /\ k <= L
  BY <1>1 DEF L
<1>12. \A j \in Nat : j + 1 <= L /\ j + 1 <= MaxRows => AtLast(R, b[j + 1], t, j + 1)
  BY <1>10
<1>13. QED
  BY <1>11, <1>12

\* What CutTo keeps, and when it cuts.
LEMMA CutIs ==
  ASSUME NEW S, NEW s \in Seq(S), NEW n \in Nat
  PROVE  /\ Text!CutTo(s, n) \in Seq(S)
         /\ Len(Text!CutTo(s, n)) = IF Len(s) > n THEN n ELSE Len(s)
         /\ \A i \in 1 .. Len(Text!CutTo(s, n)) : Text!CutTo(s, n)[i] = s[i]
         /\ Text!CutTo(s, n) = s <=> Len(s) <= n
<1>1. Len(s) \in Nat /\ \A i \in 1 .. Len(s) : s[i] \in S
  OBVIOUS
<1>2. CASE Len(s) > n
  <2> DEFINE t == SubSeq(s, 1, n)
  <2>1. t \in Seq(S) /\ Len(t) = n /\ \A i \in 1 .. n : t[i] = s[i]
    BY <1>1, <1>2, SubSeqProperties
  <2>2. Text!CutTo(s, n) = t
    BY <1>2 DEF Text!CutTo
  <2> HIDE DEF t
  <2>3. QED
    BY <1>1, <1>2, <2>1, <2>2
<1>3. CASE ~(Len(s) > n)
  <2>1. Text!CutTo(s, n) = s
    BY <1>3 DEF Text!CutTo
  <2>2. QED
    BY <1>1, <1>3, <2>1
<1>4. QED
  BY <1>2, <1>3

\* The cells that are kept of a row are those that Limited keeps.
LEMMA RowIsLimited ==
  ASSUME NEW r \in Seq(Seq(Characters))
  PROVE  /\ Text!CutTo([i \in DOMAIN r |-> Text!CutTo(r[i], MaxCellCharacters)], MaxColumns) = Row(r, Len(r))
         /\ Row(r, Len(r)) = r <=> ~CutIn(r, Len(r))
<1> DEFINE c == [i \in DOMAIN r |-> Text!CutTo(r[i], MaxCellCharacters)]
           u == Text!CutTo(c, MaxColumns)
           w == Row(r, Len(r))
<1>1. /\ Len(r) \in Nat /\ DOMAIN r = 1 .. Len(r) /\ (\A i \in 1 .. Len(r) : r[i] \in Seq(Characters))
      /\ MaxColumns \in Nat \ {0} /\ MaxCellCharacters \in Nat
  BY LenProperties, ElementOfSeq, TextAssumption
<1>2. \A i \in 1 .. Len(r) : /\ Text!CutTo(r[i], MaxCellCharacters) \in Seq(Characters)
                             /\ Text!CutTo(r[i], MaxCellCharacters) = r[i] <=> Len(r[i]) <= MaxCellCharacters
                             /\ Len(r[i]) \in Nat
  BY <1>1, CutIs, LenProperties
<1>3. c \in [1 .. Len(r) -> Seq(Characters)]
  BY <1>1, <1>2
<1>4. /\ c \in Seq(Seq(Characters)) /\ Len(c) = Len(r)
      /\ \A i \in 1 .. Len(r) : c[i] = Text!CutTo(r[i], MaxCellCharacters)
  BY <1>1, <1>3
<1> HIDE DEF c
<1>5. /\ u \in Seq(Seq(Characters)) /\ Len(u) = (IF Len(c) > MaxColumns THEN MaxColumns ELSE Len(c))
      /\ \A i \in 1 .. Len(u) : u[i] = c[i]
  BY <1>1, <1>4, CutIs
<1>6. /\ w \in Seq(Seq(Characters)) /\ Len(w) = (IF Len(r) < MaxColumns THEN Len(r) ELSE MaxColumns)
      /\ \A i \in 1 .. Len(w) : w[i] = Text!CutTo(r[i], MaxCellCharacters)
  <2>1. Len(r) \in 0 .. Len(r)
    BY <1>1
  <2>2. QED
    BY <2>1, RowIs
<1> HIDE DEF u, w
<1>7. Len(u) = Len(w) /\ Len(u) \in Nat /\ Len(u) <= Len(r)
  BY <1>1, <1>4, <1>5, <1>6
<1>8. ASSUME NEW i \in 1 .. Len(u) PROVE u[i] = w[i]
  <2>1. i \in 1 .. Len(r) /\ i \in 1 .. Len(w)
    BY <1>1, <1>7
  <2>2. QED
    BY <1>4, <1>5, <1>6, <2>1
<1>9. u = w
  BY <1>5, <1>6, <1>7, <1>8, SeqEqual
<1>10. ASSUME w = r PROVE ~CutIn(r, Len(r))
  <2>1. ASSUME NEW i \in 1 .. Len(r) PROVE ~(i > MaxColumns) /\ ~(Len(r[i]) > MaxCellCharacters)
    <3>1. Len(r) <= MaxColumns
      <4>1. \A x, y \in Nat : x = (IF x < y THEN x ELSE y) => x <= y
        OBVIOUS
      <4>2. Len(r) = (IF Len(r) < MaxColumns THEN Len(r) ELSE MaxColumns)
        BY <1>6, <1>10
      <4>3. QED
        BY <1>1, <4>1, <4>2
    <3>2. Text!CutTo(r[i], MaxCellCharacters) = r[i]
      BY <1>6, <1>10
    <3>3. Len(r[i]) <= MaxCellCharacters
      BY <1>2, <3>2
    <3>4. Len(r[i]) \in Nat
      BY <1>1, LenProperties
    <3>5. QED
      BY <1>1, <3>1, <3>3, <3>4
  <2>2. QED
    BY <2>1 DEF CutIn
<1>11. ASSUME ~CutIn(r, Len(r)) PROVE w = r
  <2>1. \A i \in 1 .. Len(r) : ~(i > MaxColumns) /\ ~(Len(r[i]) > MaxCellCharacters)
    BY <1>11 DEF CutIn
  <2>2. Len(r) <= MaxColumns
    <3>1. CASE Len(r) = 0
      BY <1>1, <3>1
    <3>2. CASE Len(r) # 0
      <4>1. Len(r) \in 1 .. Len(r)
        <5>1. \A x \in Nat : x # 0 => x \in 1 .. x
          OBVIOUS
        <5>2. QED
          BY <1>1, <3>2, <5>1, Zenon
      <4>2. QED
        BY <1>1, <2>1, <4>1
    <3>3. QED
      BY <3>1, <3>2
  <2>3. Len(w) = Len(r)
    <3>1. \A x, y \in Nat : x <= y => (IF x < y THEN x ELSE y) = x
      OBVIOUS
    <3>2. QED
      BY <1>1, <1>6, <2>2, <3>1
  <2>4. ASSUME NEW i \in 1 .. Len(r) PROVE w[i] = r[i]
    <3>1. Len(r[i]) <= MaxCellCharacters
      BY <1>1, <1>2, <2>1
    <3>2. QED
      BY <1>2, <1>6, <2>3, <3>1
  <2>5. QED
    BY <1>6, <2>3, <2>4, SeqEqual
<1>12. QED
  BY <1>9, <1>10, <1>11 DEF u, c, w

\* The table up to the limits is what the parser keeps, and is the table if nothing is cut.
LEMMA LimitedIs ==
  ASSUME NEW t \in Tables
  PROVE  /\ Text!Limited(t) = Kept(t, IF Len(t) > MaxRows THEN MaxRows ELSE Len(t))
         /\ Text!Limited(t) # t <=> Len(t) > MaxRows \/ CutRows(t, Len(t))
<1> DEFINE n == IF Len(t) > MaxRows THEN MaxRows ELSE Len(t)
           u == Text!CutTo(t, MaxRows)
           cells(r) == [i \in DOMAIN r |-> Text!CutTo(r[i], MaxCellCharacters)]
           all == Text!Limited(t)
<1>1. /\ Len(t) \in Nat /\ t \in Seq(Seq(Seq(Characters))) /\ MaxRows \in Nat \ {0}
      /\ \A i \in 1 .. Len(t) : t[i] \in Seq(Seq(Characters))
  BY TableIs, TextAssumption
<1>2. n \in 0 .. Len(t) /\ n \in Nat
  BY <1>1
<1>3. u \in Seq(Seq(Seq(Characters))) /\ Len(u) = n
  BY <1>1, CutIs
<1>4. DOMAIN u = 1 .. n
  BY <1>3, LenProperties
<1>5. all = [i \in DOMAIN u |-> Text!CutTo(cells(t[i]), MaxColumns)]
  BY Zenon DEF Text!Limited
<1>6. all = [i \in 1 .. n |-> Row(t[i], Len(t[i]))]
  <2>1. \A i \in 1 .. n : i \in 1 .. Len(t)
    BY <1>1, <1>2
  <2>2. \A i \in 1 .. Len(t) : Text!CutTo(cells(t[i]), MaxColumns) = Row(t[i], Len(t[i]))
    BY <1>1, RowIsLimited
  <2> HIDE DEF n, u, cells
  <2>3. QED
    BY <1>4, <1>5, <2>1, <2>2
<1>7. all = Kept(t, n)
  BY <1>6, Zenon DEF Kept
<1>8. /\ all \in Seq(Seq(Seq(Characters))) /\ Len(all) = n
      /\ \A i \in 1 .. n : all[i] = Row(t[i], Len(t[i]))
  <2> HIDE DEF all, n
  <2>1. QED
    BY <1>2, <1>7, KeptIs
<1>9. ASSUME all = t PROVE ~(Len(t) > MaxRows) /\ ~CutRows(t, Len(t))
  <2>1. n = Len(t)
    BY <1>8, <1>9
  <2>2. ASSUME NEW i \in 1 .. Len(t) PROVE ~CutIn(t[i], Len(t[i]))
    <3>1. Row(t[i], Len(t[i])) = t[i]
      BY <1>8, <1>9, <2>1
    <3>2. QED
      BY <1>1, <3>1, RowIsLimited
  <2>3. ~(Len(t) > MaxRows)
    BY <1>1, <2>1
  <2>4. QED
    BY <2>2, <2>3 DEF CutRows
<1>10. ASSUME ~(Len(t) > MaxRows), ~CutRows(t, Len(t)) PROVE all = t
  <2>1. n = Len(t)
    BY <1>10
  <2>2. ASSUME NEW i \in 1 .. Len(t) PROVE all[i] = t[i]
    <3>1. ~CutIn(t[i], Len(t[i]))
      BY <1>10 DEF CutRows
    <3>2. Row(t[i], Len(t[i])) = t[i]
      BY <1>1, <3>1, RowIsLimited
    <3>3. QED
      BY <1>8, <2>1, <3>2
  <2> HIDE DEF all
  <2>3. QED
    BY <1>1, <1>8, <2>1, <2>2, SeqEqual
<1>11. QED
  BY <1>7, <1>9, <1>10

\* The line of a row is empty only if the row is one empty field.
LEMMA LineNotEmpty ==
  ASSUME NEW r \in Seq(Seq(Characters)), r # <<>>, r # <<<<>>>>, NEW separator \in Separators
  PROVE  Len(Line(r, separator)) \in Nat \ {0}
<1> DEFINE L == Len(r)
           g == FieldsOf(r, separator)
           l == Linked(g, <<separator>>)
           line == Line(r, separator)
<1>1. /\ g \in Seq(Seq(Characters)) /\ Len(g) = L /\ L \in Nat
      /\ \A i \in 1 .. L :
           r[i] \in Seq(Characters) /\ g[i] = Text!Field(r[i], separator) /\ Len(g[i]) \in Nat
  BY FieldsAre
<1>2. L # 0
  BY EmptySeq
<1>3. <<separator>> \in Seq(Characters) /\ Len(<<separator>>) = 1
  BY SeparatorIs
<1>4. line \in Seq(Characters) /\ \E b : Consists(line, l, b)
  BY <1>1, <1>3, JoinedIs, Zenon DEF Line
<1>5. PICK b : Consists(line, l, b)
  BY <1>4
<1>6. /\ Len(l) = L /\ \A i \in 1 .. L : Len(l[i]) \in Nat
      /\ \A i \in 1 .. L : IF i = 1 THEN l[i] = g[i] ELSE Joins(l[i], <<separator>>, g[i])
  BY <1>1, <1>3, JoinedIs
<1> HIDE DEF g, l, line
<1>7. Len(line) \in Nat
  BY <1>4, LenProperties
<1>8. Holds(line, 0, line)
  BY <1>7 DEF Holds
<1>9. Len(l) \in Nat /\ \A i \in 1 .. Len(l) : Len(l[i]) \in Nat
  BY <1>1, <1>6
<1>10. \A k \in 1 .. Len(l) :
         /\ Holds(line, 0 + b[k - 1], l[k])
         /\ b[k - 1] \in Nat /\ b[k] = b[k - 1] + Len(l[k]) /\ b[k] <= Len(line)
  BY <1>5, <1>8, <1>9, HoldsPart, Zenon
<1>11. \A k \in 1 .. L : Len(l[k]) <= Len(line)
  <2>1. \A x, y, z, v \in Nat : v = x + y /\ v <= z => y <= z
    OBVIOUS
  <2>2. ASSUME NEW k \in 1 .. L PROVE Len(l[k]) <= Len(line)
    <3>1. /\ b[k - 1] \in Nat /\ b[k] = b[k - 1] + Len(l[k]) /\ b[k] <= Len(line) /\ Len(l[k]) \in Nat
      BY <1>6, <1>10, <2>2
    <3>2. b[k] \in Nat
      BY <3>1
    <3>3. QED
      BY <1>7, <2>1, <3>1, <3>2
  <2>3. QED
    BY <2>2
<1>12. CASE L = 1
  <2>1. r[1] # <<>> /\ r[1] \in Seq(Characters)
    <3>1. ASSUME r[1] = <<>> PROVE FALSE
      <4>1. r = <<<<>>>>
        BY <1>12, <3>1
      <4>2. QED
        BY <4>1
    <3>2. QED
      BY <1>1, <1>12, <3>1
  <2> DEFINE f == r[1]
  <2>2. l[1] = Text!Field(f, separator) /\ Len(l[1]) \in Nat /\ Len(l[1]) <= Len(line)
    BY <1>1, <1>6, <1>11, <1>12
  <2> HIDE DEF f
  <2>3. f \in Seq(Characters) /\ f # <<>>
    BY <2>1 DEF f
  <2>4. Len(Text!Field(f, separator)) # 0
    <3>1. CASE Text!Field(f, separator) = f
      BY <2>3, <3>1, EmptySeq
    <3>2. CASE QuotedField(Text!Field(f, separator), f)
      <4>1. PICK v : Joins(Text!Field(f, separator), v, <<Text!Quote>>)
        BY <3>2 DEF QuotedField
      <4>2. Len(Text!Field(f, separator)) = Len(v) + 1 /\ Len(v) \in Nat
        BY <4>1 DEF Joins
      <4>3. QED
        BY <4>2
    <3>3. QED
      BY <2>3, <3>1, <3>2, FieldIs
  <2>5. QED
    BY <1>7, <2>2, <2>4 DEF line
<1>13. CASE L # 1
  <2>1. 2 \in 1 .. L
    BY <1>1, <1>2, <1>13
  <2>2. Joins(l[2], <<separator>>, g[2]) /\ Len(l[2]) <= Len(line)
    BY <1>6, <1>11, <2>1
  <2>3. Len(l[2]) = 1 + Len(g[2]) /\ Len(g[2]) \in Nat
    BY <1>3, <2>2 DEF Joins
  <2>4. QED
    BY <1>7, <2>2, <2>3 DEF line
<1>14. QED
  BY <1>12, <1>13

\* The parser at the end of a text, of which nothing is cut.
Parsed(R, n) ==
  IF R[n].field # <<>> \/ R[n].row # <<>> THEN Text!PushRow(R[n]) ELSE R[n]

\* ParseCsv is where the parser is at the end of a text that is not too long.
LEMMA ParseIs ==
  ASSUME NEW s \in Seq(Characters), Len(s) <= MaxCharacters
  PROVE  Text!ParseCsv(s) = Parsed(Text!Reading(s, Text!SeparatorFor(s), FALSE), Len(s))
<1>1. Len(s) \in Nat /\ MaxCharacters \in Nat
  BY LenProperties, TextAssumption
<1>2. Text!CutTo(s, MaxCharacters) = s /\ (Len(s) > MaxCharacters) = FALSE
  BY <1>1 DEF Text!CutTo
<1>3. QED
  BY <1>2, Zenon DEF Text!ParseCsv, Parsed

\* Nothing but the end of a line is left of a text, if anything.
EndsAt(input, i, e) ==
  \/ i = Len(input)
  \/ Holds(input, i, e) /\ i + Len(e) = Len(input)

\* At the end of a table whose rows there was room for, the last line end read or not.
LEMMA EndWithRoom ==
  ASSUME NEW R, NEW input \in Seq(Characters), NEW separator \in Separators, Reads(R, input, separator),
         NEW t \in Tables, t # <<>>, t[Len(t)] # <<<<>>>>, Len(t) <= MaxRows,
         NEW i, AtLast(R, i, t, Len(t)), NEW e \in LineEnds,
         EndsAt(input, i, e)
  PROVE  /\ Parsed(R, Len(input)).rows = Kept(t, Len(t))
         /\ Parsed(R, Len(input)).truncated = CutRows(t, Len(t))
<1> DEFINE N == Len(input)
           L == Len(t)
           r == t[L]  row == Row(r, Len(r) - 1)  field == r[Len(r)]
           rows == Kept(t, L - 1)  cut == CutRows(t, L - 1) \/ CutIn(r, Len(r) - 1)
<1>1. L \in Nat \ {0} /\ N \in Nat /\ L \in 1 .. L /\ MaxColumns \in Nat \ {0} /\ L <= MaxRows
  <2>1. L \in Nat /\ L # 0
    BY TableIs, EmptySeq DEF Tables
  <2>2. QED
    BY <2>1, LenProperties, TextAssumption
<1>2. r \in Seq(Seq(Characters)) /\ Len(r) \in Nat \ {0} /\ r # <<<<>>>>
  BY <1>1, TableIs
<1>3. WithRow(rows, row, field) = Kept(t, L) /\ CutAfter(rows, row, field, cut) = CutRows(t, L)
  BY <1>1, PushLast
<1>4. R \in [0 .. N -> Parser]
  BY DEF Reads
<1> HIDE DEF N
<1>5. CASE i = N
  <2> DEFINE p == R[N]
  <2>1. p \in Parser
    BY <1>1, <1>4
  <2>2. p.rows = rows /\ p.row = row /\ p.field = field /\ p.truncated = cut
    BY <1>5 DEF AtLast, At
  <2> HIDE DEF p, rows, row, field, cut
  <2>3. field # <<>> \/ row # <<>>
    <3> HIDE DEF r
    <3>1. CASE Len(r) = 1
      <4>1. ASSUME field = <<>> PROVE FALSE
        <5>1. r = <<<<>>>>
          BY <1>2, <3>1, <4>1 DEF field
        <5>2. QED
          BY <1>2, <5>1
      <4>2. QED
        BY <4>1
    <3>2. CASE Len(r) # 1
      <4>1. Len(r) - 1 \in 0 .. Len(r) /\ Len(r) - 1 \in Nat \ {0}
        BY <1>2, <3>2
      <4>2. /\ row \in Seq(Seq(Characters))
            /\ Len(row) = (IF Len(r) - 1 < MaxColumns THEN Len(r) - 1 ELSE MaxColumns)
        BY <1>2, <4>1, RowIs DEF row
      <4>3. Len(row) # 0
        BY <1>1, <4>1, <4>2
      <4>4. QED
        BY <4>2, <4>3, EmptySeq
    <3>3. QED
      BY <3>1, <3>2
  <2>4. Parsed(R, N) = Text!PushRow(p)
    BY <2>2, <2>3 DEF Parsed, p
  <2>5. HasPushed(Text!PushRow(p), p,
                  IF Len(p.rows) < MaxRows THEN Append(p.rows, Pushed(p.row, p.field)) ELSE p.rows, <<>>,
                  p.truncated \/ CutBy(p.row, p.field) \/ Len(p.rows) >= MaxRows)
    BY <2>1, PushRowIs
  <2>6. HasPushed(Text!PushRow(p), p, WithRow(rows, row, field), <<>>, CutAfter(rows, row, field, cut))
    BY <2>2, <2>5 DEF WithRow, CutAfter
  <2>7. /\ Text!PushRow(p).rows = WithRow(rows, row, field)
        /\ Text!PushRow(p).truncated = CutAfter(rows, row, field, cut)
    BY <2>6 DEF HasPushed, Has
  <2>8. QED
    BY <1>3, <2>4, <2>7 DEF N
<1>6. CASE i # N
  <2>1. Holds(input, i, e) /\ i + Len(e) = N
    BY <1>6 DEF N, EndsAt
  <2>2. IF L = MaxRows
        THEN Has(R[i + Len(e)], Kept(t, L), <<>>, <<>>, FALSE, i + Len(e), TRUE,
                 CutRows(t, L) \/ i + Len(e) < Len(input))
        ELSE At(R, i + Len(e), Kept(t, L), <<>>, <<>>, FALSE, CutRows(t, L))
    BY <1>1, <2>1, EndRow, Zenon
  <2>3. (CutRows(t, L) \/ N < N) = CutRows(t, L)
    <3>1. CutRows(t, L) \in BOOLEAN /\ ~(N < N)
      BY <1>1 DEF CutRows
    <3>2. QED
      BY <3>1
  <2>4. /\ R[N].rows = Kept(t, L) /\ R[N].row = <<>> /\ R[N].field = <<>>
        /\ R[N].truncated = CutRows(t, L)
    <3>1. CASE L = MaxRows
      <4>1. Has(R[N], Kept(t, L), <<>>, <<>>, FALSE, N, TRUE, CutRows(t, L) \/ N < N)
        BY <2>1, <2>2, <3>1 DEF N
      <4>2. QED
        BY <2>3, <4>1 DEF Has
    <3>2. CASE L # MaxRows
      BY <2>1, <2>2, <3>2 DEF At
    <3>3. QED
      BY <3>1, <3>2
  <2>5. QED
    BY <2>4 DEF Parsed, N
<1>7. QED
  BY <1>5, <1>6

\* At the end of a table of more rows than there is room for.
LEMMA EndWithoutRoom ==
  ASSUME NEW R, NEW input \in Seq(Characters), NEW separator \in Separators, Reads(R, input, separator),
         NEW t \in Tables, Len(t) > MaxRows, t[Len(t)] # <<<<>>>>, NEW e \in LineEnds,
         NEW b, Spans(input, t, separator, e, b), AtLast(R, b[MaxRows], t, MaxRows)
  PROVE  Parsed(R, Len(input)).rows = Kept(t, MaxRows) /\ Parsed(R, Len(input)).truncated
<1> DEFINE L == Len(t)
           M == MaxRows
           line(j) == Line(t[j], separator)
           i == b[M] + Len(e)
<1>1. L \in Nat /\ M \in Nat \ {0} /\ L > M /\ Len(input) \in Nat /\ Len(e) \in {1, 2}
  BY TableIs, LenProperties, TextAssumption, LineEndIs
<1>2. M \in 1 .. L /\ M + 1 \in 1 .. L /\ M + 1 # 1 /\ (M + 1) - 1 = M /\ M <= M
  BY <1>1
<1>3. /\ Holds(input, b[M], e) /\ Holds(input, i, line(M + 1)) /\ b[M + 1] = i + Len(line(M + 1))
      /\ b[M] \in Nat /\ b[M + 1] \in Nat
  BY <1>2 DEF Spans
<1>4. AtLast(R, b[M], t, M)
  OBVIOUS
<1> HIDE DEF M
<1>5. Has(R[i], Kept(t, M), <<>>, <<>>, FALSE, i, TRUE, CutRows(t, M) \/ i < Len(input))
  BY <1>2, <1>3, <1>4, EndRow DEF M
<1>6. i < Len(input)
  <2>1. i \in Nat /\ Len(line(M + 1)) \in Nat /\ i + Len(line(M + 1)) <= Len(input)
    BY <1>3 DEF Holds
  <2>2. CASE M + 1 = L
    <3>1. t[L] \in Seq(Seq(Characters)) /\ t[L] # <<>> /\ t[L] # <<<<>>>>
      BY <1>2, <2>2, TableIs
    <3>2. Len(line(M + 1)) # 0
      BY <2>2, <3>1, LineNotEmpty
    <3> HIDE DEF i, line
    <3>3. QED
      BY <1>1, <2>1, <3>2
  <2>3. CASE M + 1 # L
    <3>1. M + 2 \in 1 .. L /\ M + 2 # 1 /\ (M + 2) - 1 = M + 1
      BY <1>1, <2>3
    <3>2. Holds(input, b[(M + 2) - 1], e)
      BY <3>1 DEF Spans
    <3>3. b[M + 1] + Len(e) <= Len(input)
      BY <3>1, <3>2 DEF Holds
    <3>4. \A x, y, z, n, v \in Nat : v = x + y /\ v + z <= n /\ z # 0 => x < n
      OBVIOUS
    <3>5. Len(e) \in Nat /\ Len(e) # 0
      BY LineEndIs, Zenon
    <3> HIDE DEF i, line
    <3>6. QED
      BY <1>1, <1>3, <2>1, <3>3, <3>4, <3>5
  <2>4. QED
    BY <2>2, <2>3
<1>7. i \in 0 .. Len(input) /\ R[i].stop
  <2>1. i \in Nat
    BY <1>1, <1>3
  <2> HIDE DEF i
  <2>2. QED
    BY <1>1, <1>5, <1>6, <2>1 DEF Has
<1> HIDE DEF i
<1>8. R[Len(input)] = R[i]
  BY <1>7, Stopped
<1>9. QED
  BY <1>5, <1>6, <1>8 DEF Parsed, Has, M

\* A text that a table is written as, of which the separator shows, and that has room.
Writes(s, t, separator, e, ended) ==
  /\ t \in Tables /\ t # <<>> /\ t[Len(t)] # <<<<>>>>
  /\ separator \in Separators /\ e \in LineEnds /\ ended \in BOOLEAN
  /\ s = Body(t, separator, e) \o (IF ended THEN e ELSE <<>>)
  /\ Text!SeparatorFor(s) = separator /\ Len(s) <= MaxCharacters

ReadsBack(s, t) ==
  /\ Text!ParseCsv(s).rows = Text!Limited(t)
  /\ Text!ParseCsv(s).truncated <=> Text!Limited(t) # t

\* What is read from the text of a table is the table.
LEMMA TableReadsBack ==
  ASSUME NEW t, NEW separator, NEW e, NEW ended, NEW s, Writes(s, t, separator, e, ended)
  PROVE  ReadsBack(s, t)
<1> SUFFICES ASSUME t \in Tables, t # <<>>, t[Len(t)] # <<<<>>>>, separator \in Separators,
                    e \in LineEnds, ended \in BOOLEAN,
                    s = Body(t, separator, e) \o (IF ended THEN e ELSE <<>>),
                    Text!SeparatorFor(s) = separator, Len(s) <= MaxCharacters
             PROVE  /\ Text!ParseCsv(s).rows = Text!Limited(t)
                    /\ Text!ParseCsv(s).truncated <=> Text!Limited(t) # t
  BY DEF Writes, ReadsBack
<1> DEFINE body == Body(t, separator, e)
           end == IF ended THEN e ELSE <<>>
           R == Text!Reading(s, separator, FALSE)
           L == Len(t)
<1>1. e \in Seq(Characters) /\ end \in Seq(Characters) /\ e[1] # Text!Quote /\ Len(e) \in {1, 2}
  BY LineEndIs
<1>2. body \in Seq(Characters)
  <2>1. LinesOf(t, separator) \in Seq(Seq(Characters))
    BY LinesAre
  <2>2. QED
    BY <1>1, <2>1, JoinedIs, Zenon DEF Body
<1> HIDE DEF body, end
<1>3. s = body \o end
  BY DEF body, end
<1>4. s \in Seq(Characters) /\ Joins(s, body, end)
  BY <1>1, <1>2, <1>3, ConcatIs
<1>5. Text!ParseCsv(s) = Parsed(R, Len(s))
  BY <1>4, ParseIs
<1>6. Reads(R, s, separator) /\ At(R, 0, <<>>, <<>>, <<>>, FALSE, FALSE)
  BY <1>4, ReadingIs
<1> HIDE DEF R
<1>7. Len(s) \in Nat /\ Holds(s, 0, s)
  <2>1. Len(s) \in Nat
    BY <1>4, LenProperties
  <2>2. QED
    BY <2>1 DEF Holds
<1>8. Holds(s, 0, body) /\ Holds(s, Len(body), end)
  <2>1. Holds(s, 0, body) /\ Holds(s, 0 + Len(body), end)
    BY <1>4, <1>7, HoldsJoin
  <2>2. 0 + Len(body) = Len(body)
    BY <1>2, LenProperties
  <2>3. QED
    BY <2>1, <2>2
<1>9. PICK b : Spans(s, t, separator, e, b)
  BY <1>8, SpansIs DEF body
<1>10. b[L] = Len(body)
  BY <1>9 DEF Spans, body
<1>11. \/ Len(body) = Len(s)
       \/ Holds(s, Len(body), e) /\ Len(body) + Len(e) = Len(s)
  <2>1. Len(s) = Len(body) + Len(end) /\ Len(body) \in Nat /\ Len(end) \in Nat
    BY <1>4 DEF Joins
  <2>2. CASE ended
    BY <1>8, <2>1, <2>2 DEF end
  <2>3. CASE ~ended
    <3>1. Len(end) = 0
      BY <2>3 DEF end
    <3>2. QED
      BY <2>1, <3>1
  <2>4. QED
    BY <2>2, <2>3
<1>12. b[L] = Len(s) \/ s[b[L] + 1] # Text!Quote
  <2>1. CASE Len(body) = Len(s)
    BY <1>10, <2>1
  <2>2. CASE Holds(s, Len(body), e)
    <3>1. s[Len(body) + 1] = e[1]
      BY <1>1, <2>2 DEF Holds
    <3>2. QED
      BY <1>1, <1>10, <3>1
  <2>3. QED
    BY <1>11, <2>1, <2>2
<1>13. L \in Nat /\ L # 0 /\ MaxRows \in Nat \ {0}
  BY TableIs, EmptySeq, TextAssumption DEF Tables
<1>14. \A k \in 1 .. L : k <= MaxRows => AtLast(R, b[k], t, k)
  BY <1>4, <1>6, <1>9, <1>12, ReadRows
<1>15. CASE L <= MaxRows
  <2>1. L \in 1 .. L
    BY <1>13
  <2>2. AtLast(R, Len(body), t, L)
    BY <1>10, <1>14, <1>15, <2>1
  <2>3. Parsed(R, Len(s)).rows = Kept(t, L) /\ Parsed(R, Len(s)).truncated = CutRows(t, L)
    <3>1. EndsAt(s, Len(body), e)
      BY <1>11 DEF EndsAt
    <3>2. QED
      BY <1>4, <1>6, <1>15, <2>2, <3>1, EndWithRoom
  <2>4. ~(L > MaxRows)
    BY <1>13, <1>15
  <2>5. Text!Limited(t) = Kept(t, L) /\ (Text!Limited(t) # t <=> CutRows(t, L))
    BY <2>4, LimitedIs
  <2>6. QED
    BY <1>5, <2>3, <2>5
<1>16. CASE ~(L <= MaxRows)
  <2>1. L > MaxRows /\ MaxRows \in 1 .. L /\ MaxRows <= MaxRows
    BY <1>13, <1>16
  <2>2. AtLast(R, b[MaxRows], t, MaxRows)
    BY <1>14, <2>1
  <2>3. Parsed(R, Len(s)).rows = Kept(t, MaxRows) /\ Parsed(R, Len(s)).truncated
    BY <1>4, <1>6, <1>9, <2>1, <2>2, EndWithoutRoom
  <2>4. Text!Limited(t) = Kept(t, MaxRows) /\ Text!Limited(t) # t
    BY <2>1, LimitedIs
  <2>5. QED
    BY <1>5, <2>3, <2>4
<1>17. QED
  BY <1>15, <1>16

\* A table is one of rows that can be previewed.
TableTyped ==
  \/ table = Text!NoTable
  \/ /\ table = [rows |-> table.rows, separator |-> table.separator, lineEnd |-> table.lineEnd,
                 ended |-> table.ended]
     /\ table.rows \in Seq(Rows) /\ table.separator \in Separators /\ table.lineEnd \in LineEnds
     /\ table.ended \in BOOLEAN

\* At the start there is no table.
LEMMA TableStart == Text!PreviewInit => TableTyped
BY DEF Text!PreviewInit, TableTyped

\* Every step keeps the type of the table.
LEMMA TableStep ==
  TableTyped /\ [Text!PreviewNext]_textVars => TableTyped'
<1>1. CASE UNCHANGED table
  BY <1>1 DEF TableTyped
<1>2. ASSUME NEW style \in Text!TableStyles, Text!OpenTable(style) PROVE TableTyped'
  <2>1. /\ style = [rows |-> style.rows, separator |-> style.separator, lineEnd |-> style.lineEnd,
                    ended |-> style.ended]
        /\ style.rows = <<>> /\ style.separator \in Separators /\ style.lineEnd \in LineEnds
        /\ style.ended \in BOOLEAN
    BY Zenon DEF Text!TableStyles, Separators, LineEnds
  <2>2. table' = style /\ <<>> \in Seq(Rows)
    BY <1>2 DEF Text!OpenTable
  <2>3. QED
    BY <2>1, <2>2 DEF TableTyped
<1>3. ASSUME TableTyped, NEW row \in Rows, Text!AddRow(row) PROVE TableTyped'
  <2>1. table # Text!NoTable /\ table' = [table EXCEPT !.rows = Append(@, row)]
    BY <1>3 DEF Text!AddRow
  <2>2. Append(table.rows, row) \in Seq(Rows)
    BY <1>3, <2>1, AppendProperties DEF TableTyped
  <2>3. QED
    BY <1>3, <2>1, <2>2 DEF TableTyped
<1>4. ASSUME Text!PreviewNext, ~UNCHANGED table
      PROVE  \/ \E style \in Text!TableStyles : Text!OpenTable(style)
             \/ \E row \in Rows : Text!AddRow(row)
  BY <1>4 DEF Text!PreviewNext, Text!OpenText, Text!Reload, Text!FullScreenText, Text!ShowFind,
       Text!HideFind, Text!TypeQuery, Text!MoveFind
<1>5. QED
  BY <1>1, <1>2, <1>3, <1>4 DEF textVars

\* A sequence of elements of a set is one of elements of a larger set.
LEMMA SeqOfMore ==
  ASSUME NEW A, NEW B, A \subseteq B
  PROVE  Seq(A) \subseteq Seq(B)
<1>1. \A s \in Seq(A) : s \in Seq(B)
  OBVIOUS
<1>2. QED
  BY <1>1

\* Rows that can be added make a table, character by character.
LEMMA RowsAreTables ==
  ASSUME NEW t \in Seq(Rows)
  PROVE  t \in Tables
<1>1. Rows \subseteq Seq(Seq(STRING)) /\ <<>> \notin Rows
  BY TextAssumption
<1>2. STRING \subseteq Characters
  BY Zenon DEF Characters
<1>3. Seq(STRING) \subseteq Seq(Characters)
  BY <1>2, SeqOfMore, Zenon
<1>4. Seq(Seq(STRING)) \subseteq Seq(Seq(Characters))
  BY <1>3, SeqOfMore, Zenon
<1>5. Rows \subseteq Seq(Seq(Characters))
  BY <1>1, <1>4, Zenon
<1>6. Seq(Rows) \subseteq Seq(Seq(Seq(Characters)))
  BY <1>5, SeqOfMore, Zenon
<1>7. t \in Seq(Seq(Seq(Characters)))
  BY <1>6, Zenon
<1>8. \A i \in 1 .. Len(t) : t[i] \in Rows
  BY ElementOfSeq
<1>9. QED
  BY <1>1, <1>7, <1>8 DEF Tables

\* The text of the table that is previewed: its lines, and the last end of line.
LEMMA TableTextIs ==
  Text!TableText(table) =
    Body(table.rows, table.separator, table.lineEnd)
      \o (IF table.ended THEN table.lineEnd ELSE <<>>)
BY Zenon DEF Text!TableText, Body, LinesOf, Line, FieldsOf

\* Whatever table is previewed, its text is read back as the table.
LEMMA CsvHolds == TableTyped => Text!CsvReadsBack
<1> DEFINE s == Text!TableText(table)
<1>1. SUFFICES ASSUME TableTyped, table # Text!NoTable, table.rows # <<>>,
                      Text!Last(table.rows) # <<<<>>>>,
                      Text!SeparatorFor(s) = table.separator, Len(s) <= MaxCharacters
      PROVE  /\ Text!ParseCsv(s).rows = Text!Limited(table.rows)
             /\ Text!ParseCsv(s).truncated <=> Text!Limited(table.rows) # table.rows
  BY Zenon DEF Text!CsvReadsBack
<1>2. /\ table.rows \in Tables /\ table.separator \in Separators /\ table.lineEnd \in LineEnds
      /\ table.ended \in BOOLEAN
  BY <1>1, RowsAreTables DEF TableTyped
<1>3. table.rows[Len(table.rows)] # <<<<>>>>
  BY <1>1, Zenon DEF Text!Last
<1>4. s = Body(table.rows, table.separator, table.lineEnd)
            \o (IF table.ended THEN table.lineEnd ELSE <<>>)
  BY TableTextIs
<1>5. Writes(s, table.rows, table.separator, table.lineEnd, table.ended)
  BY <1>1, <1>2, <1>3, <1>4, Zenon DEF Writes
<1> HIDE DEF s
<1>6. ReadsBack(s, table.rows)
  BY <1>5, TableReadsBack, Zenon
<1>7. QED
  BY <1>6 DEF ReadsBack, s

-----------------------------------------------------------------------------
(***************************************************************************)
(* Finding.                                                                *)
(***************************************************************************)

\* Where a text holds another.
Occurrences(s, q) == {i \in Nat : Holds(s, i, q)}

\* A query starts at its occurrences.
LEMMA StartsIs ==
  ASSUME NEW S, NEW s \in Seq(S), NEW q \in Seq(S), NEW i \in Nat
  PROVE  Text!StartsAt(s, q, i) <=> i \in Occurrences(s, q)
<1> DEFINE n == Len(q)  N == Len(s)  t == SubSeq(s, i + 1, i + n)
<1>1. n \in Nat /\ N \in Nat /\ (\A x \in 1 .. N : s[x] \in S)
  BY LenProperties, ElementOfSeq
<1>2. Text!StartsAt(s, q, i) <=> i + n <= N /\ t = q
  BY DEF Text!StartsAt, Text!Slice
<1>3. ASSUME i + n <= N PROVE t = q <=> \A x \in 1 .. n : s[i + x] = q[x]
  <2>1. \A x \in i + 1 .. i + n : s[x] \in S
    BY <1>1, <1>3
  <2>2. /\ t \in Seq(S) /\ Len(t) = (IF i + 1 <= i + n THEN (i + n) - (i + 1) + 1 ELSE 0)
        /\ \A x \in 1 .. (i + n) - (i + 1) + 1 : t[x] = s[(i + 1) + x - 1]
    <3>1. i + 1 \in Int /\ i + n \in Int
      BY <1>1
    <3> HIDE DEF n
    <3>2. QED
      BY <2>1, <3>1, SubSeqProperties
  <2>3. (i + n) - (i + 1) + 1 = n /\ (i + 1 <= i + n <=> n # 0)
    BY <1>1
  <2> HIDE DEF t, n
  <2>4. Len(t) = n
    BY <1>1, <2>2, <2>3
  <2>5. \A x \in 1 .. n : t[x] = s[i + x]
    <3>1. ASSUME NEW x \in 1 .. n PROVE t[x] = s[i + x]
      <4>1. (i + 1) + x - 1 = i + x
        BY <1>1
      <4>2. t[x] = s[(i + 1) + x - 1]
        BY <2>2, <2>3
      <4>3. QED
        BY <4>1, <4>2
    <3>2. QED
      BY <3>1
  <2>6. ASSUME \A x \in 1 .. n : s[i + x] = q[x] PROVE t = q
    <3>1. \A x \in 1 .. n : t[x] = q[x]
      BY <2>5, <2>6
    <3>2. QED
      BY <2>2, <2>4, <3>1, SeqEqual DEF n
  <2>7. QED
    BY <2>5, <2>6
<1>4. i \in Occurrences(s, q) <=> i + n <= N /\ \A x \in 1 .. n : s[i + x] = q[x]
  BY <1>1 DEF Occurrences, Holds
<1>5. QED
  BY <1>2, <1>3, <1>4

\* What is found first from a position on: the first of some numbers, or -1.
FirstFrom(O, from, r) ==
  \/ r = -1 /\ \A i \in O : ~(i >= from)
  \/ r \in O /\ r >= from /\ \A i \in O : i >= from => r <= i

\* IndexOf finds the first occurrence from a place on.
LEMMA IndexOfIs ==
  ASSUME NEW S, NEW s \in Seq(S), NEW q \in Seq(S), q # <<>>, NEW from \in Nat
  PROVE  FirstFrom(Occurrences(s, q), from, Text!IndexOf(s, q, from))
<1> DEFINE N == Len(s)
           O == Occurrences(s, q)
           found == {i \in from .. N - 1 : Text!StartsAt(s, q, i)}
           r == Text!IndexOf(s, q, from)
<1>1. N \in Nat /\ Len(q) \in Nat /\ Len(q) # 0
  BY LenProperties, EmptySeq
<1>2. \A i \in O : i \in Nat /\ i <= N - 1
  BY <1>1 DEF Occurrences, Holds
<1>3. \A i : i \in found <=> i \in O /\ i >= from
  <2>1. ASSUME NEW i \in found PROVE i \in O /\ i >= from
    BY <1>1, StartsIs
  <2>2. ASSUME NEW i \in O, i >= from PROVE i \in found
    <3>1. i \in from .. N - 1 /\ i \in Nat
      BY <1>1, <1>2, <2>2
    <3>2. QED
      BY <3>1, StartsIs
  <2>3. QED
    BY <2>1, <2>2
<1>4. r = IF found = {} THEN -1 ELSE CHOOSE i \in found : \A k \in found : i <= k
  BY Zenon DEF Text!IndexOf
<1>5. found \in SUBSET Nat
  BY <1>1
<1> HIDE DEF found, O, r
<1>6. CASE found = {}
  BY <1>3, <1>4, <1>6 DEF FirstFrom, O, r
<1>7. CASE found # {}
  <2>1. \E i \in found : \A k \in found : i <= k
    BY <1>5, <1>7, SmallestOf
  <2>2. r \in found /\ \A k \in found : r <= k
    BY <1>4, <1>7, <2>1
  <2>3. QED
    BY <1>3, <2>2 DEF FirstFrom, O, r
<1>8. QED
  BY <1>6, <1>7

\* The numbers one finds going on behind each, n at a time; -1 after the last.
Successive(m, O, n, N) ==
  /\ m \in [0 .. N -> Nat \cup {-1}] /\ FirstFrom(O, 0, m[0])
  /\ \A k \in 1 .. N :
       IF m[k - 1] = -1 THEN m[k] = -1 ELSE FirstFrom(O, m[k - 1] + n, m[k])

\* The matches are the occurrences that are found one behind the other.
LEMMA MatchListIs ==
  ASSUME NEW S, NEW s \in Seq(S), NEW q \in Seq(S), q # <<>>
  PROVE  Successive(Text!MatchList(s, q), Occurrences(s, q), Len(q), Len(s))
<1> DEFINE N == Len(s)
           n == Len(q)
           O == Occurrences(s, q)
           V == Nat \cup {-1}
           a == Text!IndexOf(s, q, 0)
           step == [x \in V \X (1 .. N) |-> IF x[1] = -1 THEN -1 ELSE Text!IndexOf(s, q, x[1] + n)]
<1>1. N \in Nat /\ n \in Nat
  BY LenProperties
<1>2. \A from \in Nat : FirstFrom(O, from, Text!IndexOf(s, q, from))
  BY IndexOfIs
<1>3. O \subseteq Nat
  BY DEF Occurrences
<1>4. \A from \in Nat : Text!IndexOf(s, q, from) \in V
  BY <1>2, <1>3 DEF FirstFrom
<1>5. \A v \in V : v # -1 => v + n \in Nat
  BY <1>1
<1> HIDE DEF N, n, O
<1>6. step \in [V \X (1 .. N) -> V] /\ a \in V
  <2>1. \A v \in V : (IF v = -1 THEN -1 ELSE Text!IndexOf(s, q, v + n)) \in V
    BY <1>4, <1>5
  <2>2. 0 \in Nat
    OBVIOUS
  <2>3. a \in V
    BY <1>4, <2>2
  <2> HIDE DEF V, a
  <2>4. \A x \in V \X (1 .. N) : x[1] \in V
    OBVIOUS
  <2>5. QED
    BY <2>1, <2>3, <2>4
<1>7. \A v \in V, k \in 1 .. N : step[<<v, k>>] = IF v = -1 THEN -1 ELSE Text!IndexOf(s, q, v + n)
  <2> HIDE DEF V
  <2>1. QED
    OBVIOUS
<1> HIDE DEF step, V, a
<1>8. PICK f : Iterates(f, N, V, a, step)
  BY <1>1, <1>6, Recursion, Zenon
<1>9. f \in [0 .. N -> V] /\ f[0] = a /\ \A k \in 1 .. N : f[k] = step[<<f[k - 1], k>>]
  BY <1>8 DEF Iterates
<1>10. \A k \in 1 .. N : f[k - 1] \in V
  BY <1>1, <1>9
<1>11. \A k \in 1 .. N : f[k] = IF f[k - 1] = -1 THEN -1 ELSE Text!IndexOf(s, q, f[k - 1] + n)
  BY <1>7, <1>9, <1>10
<1>12. \A k \in 0 .. N : f[k] = IF k = 0 THEN Text!IndexOf(s, q, 0)
                               ELSE IF f[k - 1] = -1 THEN -1
                               ELSE Text!IndexOf(s, q, f[k - 1] + n)
  <2>1. \A k \in 0 .. N : k # 0 => k \in 1 .. N
    BY <1>1
  <2>2. QED
    BY <1>9, <1>11, <2>1, Zenon DEF a
<1>13. f = [k \in 0 .. N |-> IF k = 0 THEN Text!IndexOf(s, q, 0)
                            ELSE IF f[k - 1] = -1 THEN -1
                            ELSE Text!IndexOf(s, q, f[k - 1] + n)]
  BY <1>9, <1>12, Zenon
<1> DEFINE g == Text!MatchList(s, q)
<1>14. g = [k \in 0 .. N |-> IF k = 0 THEN Text!IndexOf(s, q, 0)
                            ELSE IF g[k - 1] = -1 THEN -1
                            ELSE Text!IndexOf(s, q, g[k - 1] + n)]
  BY <1>13, Zenon DEF Text!MatchList, N, n
<1> HIDE DEF g
<1>15. g[0] = a /\ 0 \in 0 .. N
  BY <1>1, <1>14 DEF a
<1>16. \A k \in 1 .. N : g[k] = IF g[k - 1] = -1 THEN -1 ELSE Text!IndexOf(s, q, g[k - 1] + n)
  <2>1. \A k \in 1 .. N : k \in 0 .. N /\ k # 0
    BY <1>1
  <2>2. QED
    BY <1>14, <2>1
<1> DEFINE T == {k \in Nat : k <= N => g[k] \in V}
<1>17. 0 \in T
  BY <1>6, <1>15
<1>18. ASSUME NEW k \in Nat, k \in T PROVE k + 1 \in T
  <2>1. SUFFICES ASSUME k + 1 <= N PROVE g[k + 1] \in V
    OBVIOUS
  <2>2. k + 1 \in 1 .. N /\ (k + 1) - 1 = k /\ k <= N
    BY <1>1, <2>1
  <2>3. g[k] \in V
    BY <1>18, <2>2
  <2>4. g[k + 1] = IF g[k] = -1 THEN -1 ELSE Text!IndexOf(s, q, g[k] + n)
    BY <1>16, <2>2
  <2>5. -1 \in V
    BY DEF V
  <2>6. QED
    BY <1>4, <1>5, <2>3, <2>4, <2>5
<1>19. \A k \in 0 .. N : g[k] \in V
  <2>1. Nat \subseteq T
    <3> HIDE DEF T
    <3>1. QED
      BY <1>17, <1>18, Induction
  <2>2. QED
    BY <1>1, <2>1
<1>20. g \in [0 .. N -> V]
  BY <1>14, <1>19
<1>21. ASSUME NEW k \in 1 .. N
       PROVE  IF g[k - 1] = -1 THEN g[k] = -1 ELSE FirstFrom(O, g[k - 1] + n, g[k])
  <2>1. k - 1 \in 0 .. N
    BY <1>1
  <2>2. QED
    BY <1>2, <1>5, <1>16, <1>19, <2>1
<1>22. FirstFrom(O, 0, g[0])
  BY <1>2, <1>15 DEF a
<1>23. QED
  BY <1>20, <1>21, <1>22 DEF Successive, V, N, n, O, g

\* What is found from a position on is one number.
LEMMA FirstIsOne ==
  ASSUME NEW O \in SUBSET Nat, NEW from \in Nat, NEW r, NEW t,
         FirstFrom(O, from, r), FirstFrom(O, from, t)
  PROVE  r = t
<1>1. CASE r = -1
  <2>1. r \notin O
    BY <1>1
  <2>2. \A i \in O : ~(i >= from)
    BY <2>1 DEF FirstFrom
  <2>3. QED
    BY <1>1, <2>2 DEF FirstFrom
<1>2. CASE r # -1
  <2>1. r \in O /\ r >= from
    BY <1>2 DEF FirstFrom
  <2>2. t \in O /\ t <= r
    BY <2>1 DEF FirstFrom
  <2>3. r <= t /\ r \in Nat /\ t \in Nat
    BY <1>2, <2>1, <2>2 DEF FirstFrom
  <2>4. QED
    BY <2>2, <2>3
<1>3. QED
  BY <1>1, <1>2

\* The first c of these numbers are matches, n apart, and none is left out
\* between them; then there are no more.
Chain(m, O, n, c) ==
  /\ c \in Nat /\ m[c] = -1 /\ FirstFrom(O, 0, m[0])
  /\ \A k \in 0 .. c - 1 : m[k] \in O /\ FirstFrom(O, m[k] + n, m[k + 1])
  /\ \A i, j \in 0 .. c - 1 : i < j => m[i] + n <= m[j]
  /\ \A o \in O : \E k \in 0 .. c - 1 : m[k] <= o /\ o < m[k] + n
The(m, c) == {m[k] : k \in 0 .. c - 1}

\* What is found within N numbers is a chain.
Chained(m, O, n, N, c) == Chain(m, O, n, c) /\ {m[k] : k \in 0 .. N} \ {-1} = The(m, c)

\* What is found one behind the other is a chain, which ends.
LEMMA ChainIs ==
  ASSUME NEW N \in Nat, NEW n \in Nat \ {0}, NEW O \in SUBSET (0 .. N - 1), NEW m,
         Successive(m, O, n, N)
  PROVE  \E c \in 0 .. N : Chained(m, O, n, N, c)
<1> DEFINE none == {k \in 0 .. N : m[k] = -1}
<1>1. O \subseteq Nat
  OBVIOUS
<1>2. m \in [0 .. N -> Nat \cup {-1}] /\ FirstFrom(O, 0, m[0])
  BY DEF Successive
<1>3. ASSUME NEW k \in 1 .. N
      PROVE  k - 1 \in 0 .. N /\ k \in 0 .. N /\ m[k - 1] \in Nat \cup {-1}
             /\ IF m[k - 1] = -1 THEN m[k] = -1 ELSE FirstFrom(O, m[k - 1] + n, m[k])
  BY <1>2 DEF Successive
<1>4. \A k \in 0 .. N : m[k] # -1 => m[k] \in O /\ m[k] \in Nat /\ m[k] < N
  <2>1. ASSUME NEW k \in 0 .. N, m[k] # -1 PROVE m[k] \in O
    <3>1. CASE k = 0
      BY <1>2, <2>1, <3>1 DEF FirstFrom
    <3>2. CASE k # 0
      <4>1. k \in 1 .. N
        BY <3>2
      <4>2. m[k - 1] # -1 /\ FirstFrom(O, m[k - 1] + n, m[k])
        BY <1>3, <2>1, <4>1
      <4>3. QED
        BY <2>1, <4>2 DEF FirstFrom
    <3>3. QED
      BY <3>1, <3>2
  <2>2. \A o \in O : o \in Nat /\ o < N
    OBVIOUS
  <2>3. QED
    BY <2>1, <2>2
\* They grow, so they end.
<1>5. none # {}
  <2> SUFFICES ASSUME none = {} PROVE FALSE
    OBVIOUS
  <2> DEFINE T == {k \in Nat : k <= N => m[k] >= k}
  <2>1. \A k \in 0 .. N : m[k] # -1 /\ m[k] \in Nat /\ m[k] < N
    BY <1>4
  <2>2. 0 \in T
    <3>1. m[0] \in Nat
      BY <2>1
    <3>2. QED
      BY <3>1
  <2>3. ASSUME NEW k \in Nat, k \in T PROVE k + 1 \in T
    <3>1. SUFFICES ASSUME k + 1 <= N PROVE m[k + 1] >= k + 1
      OBVIOUS
    <3>2. k + 1 \in 1 .. N /\ (k + 1) - 1 = k /\ k \in 0 .. N /\ k + 1 \in 0 .. N /\ m[k] >= k
      BY <2>3, <3>1
    <3>3. FirstFrom(O, m[k] + n, m[k + 1]) /\ m[k] \in Nat /\ m[k + 1] \in Nat /\ m[k + 1] # -1
      BY <1>3, <2>1, <3>2
    <3>4. m[k + 1] >= m[k] + n
      BY <3>3 DEF FirstFrom
    <3>5. QED
      BY <3>2, <3>3, <3>4
  <2>4. Nat \subseteq T
    <3> HIDE DEF T
    <3>1. QED
      BY <2>2, <2>3, Induction
  <2>5. m[N] >= N /\ N \in 0 .. N
    BY <2>4
  <2>6. QED
    BY <2>1, <2>5
<1>6. PICK c \in none : \A k \in none : c <= k
  <2>1. none \in SUBSET Nat
    OBVIOUS
  <2> HIDE DEF none
  <2>2. QED
    BY <1>5, <2>1, SmallestOf
<1>7. c \in 0 .. N /\ c \in Nat /\ m[c] = -1 /\ \A k \in 0 .. c - 1 : k \in 0 .. N /\ m[k] # -1
  <2>1. c \in 0 .. N /\ c \in Nat /\ m[c] = -1
    BY <1>6
  <2>2. ASSUME NEW k \in 0 .. c - 1 PROVE k \in 0 .. N /\ m[k] # -1
    <3>1. k \in 0 .. N /\ ~(c <= k)
      BY <2>1
    <3>2. QED
      BY <1>6, <3>1
  <2>3. QED
    BY <2>1, <2>2
<1> HIDE DEF none
<1>8. \A k \in 0 .. c - 1 : m[k] \in O /\ m[k] \in Nat
  BY <1>4, <1>7
<1>9. ASSUME NEW k \in 0 .. c - 1 PROVE FirstFrom(O, m[k] + n, m[k + 1])
  <2>1. k + 1 \in 1 .. N /\ (k + 1) - 1 = k
    BY <1>7
  <2>2. QED
    BY <1>3, <1>7, <2>1
<1>10. ASSUME NEW i \in 0 .. c - 1, NEW j \in 0 .. c - 1, i < j PROVE m[i] + n <= m[j]
  <2> DEFINE T == {d \in Nat : i + d + 1 <= c - 1 => m[i] + n <= m[i + d + 1]}
  <2>1. ASSUME NEW k \in 0 .. c - 1, k + 1 <= c - 1
        PROVE  m[k] + n <= m[k + 1] /\ m[k] \in Nat /\ m[k + 1] \in Nat
    <3>1. k + 1 \in 0 .. c - 1
      BY <1>7, <2>1
    <3>2. m[k + 1] \in Nat /\ m[k] \in Nat
      BY <1>8, <3>1
    <3>3. QED
      BY <1>9, <3>2 DEF FirstFrom
  <2>2. 0 \in T
    <3>1. i + 0 + 1 = i + 1
      OBVIOUS
    <3>2. QED
      BY <2>1, <3>1
  <2>3. ASSUME NEW d \in Nat, d \in T PROVE d + 1 \in T
    <3> DEFINE k == i + d + 1
    <3>1. SUFFICES ASSUME i + (d + 1) + 1 <= c - 1 PROVE m[i] + n <= m[i + (d + 1) + 1]
      OBVIOUS
    <3>2. k \in 0 .. c - 1 /\ k + 1 <= c - 1 /\ i + (d + 1) + 1 = k + 1 /\ k <= c - 1
      BY <1>7, <3>1
    <3>3. m[i] + n <= m[k]
      BY <2>3, <3>2
    <3> HIDE DEF k
    <3>4. m[k] + n <= m[k + 1] /\ m[k] \in Nat /\ m[k + 1] \in Nat /\ m[i] \in Nat
      BY <1>8, <2>1, <3>2
    <3>5. m[i] + n <= m[k + 1]
      BY <3>3, <3>4
    <3>6. QED
      BY <3>2, <3>5
  <2>4. Nat \subseteq T
    <3> HIDE DEF T
    <3>1. QED
      BY <2>2, <2>3, Induction
  <2>5. j - i - 1 \in Nat /\ i + (j - i - 1) + 1 = j /\ j <= c - 1
    BY <1>7, <1>10
  <2>6. \A d \in Nat : i + d + 1 <= c - 1 => m[i] + n <= m[i + d + 1]
    BY <2>4
  <2>7. i + (j - i - 1) + 1 <= c - 1 => m[i] + n <= m[i + (j - i - 1) + 1]
    BY <2>5, <2>6
  <2>8. QED
    BY <2>5, <2>7
<1>11. ASSUME NEW o \in O PROVE \E k \in 0 .. c - 1 : m[k] <= o /\ o < m[k] + n
  <2> DEFINE beyond == {k \in 0 .. c : k = c \/ m[k] > o}
  <2>1. o \in Nat /\ c \in beyond /\ beyond \in SUBSET Nat
    BY <1>7
  <2>2. PICK k \in beyond : \A j \in beyond : k <= j
    <3> HIDE DEF beyond
    <3>1. QED
      BY <2>1, SmallestOf
  <2>3. k \in 0 .. c /\ (k = c \/ m[k] > o)
    BY <2>2
  <2>4. k # 0
    <3>1. m[0] # -1 /\ m[0] \in O /\ m[0] <= o
      BY <1>2, <2>1 DEF FirstFrom
    <3>2. m[0] \in Nat
      BY <3>1, <1>1
    <3>3. QED
      BY <1>7, <2>1, <2>3, <3>1, <3>2
  <2>5. k - 1 \in 0 .. c - 1 /\ (k - 1) + 1 = k /\ ~(k <= k - 1) /\ k - 1 # c /\ k - 1 \in 0 .. c
    BY <1>7, <2>3, <2>4
  <2>6. ~(m[k - 1] > o)
    BY <2>2, <2>5
  <2>7. m[k - 1] \in Nat /\ FirstFrom(O, m[k - 1] + n, m[k])
    BY <1>8, <1>9, <2>5
  <2>8. ASSUME o >= m[k - 1] + n PROVE FALSE
    <3>1. m[k] # -1 /\ m[k] \in O /\ m[k] <= o
      BY <2>7, <2>8 DEF FirstFrom
    <3>2. m[k] \in Nat
      BY <3>1, <1>1
    <3>3. QED
      BY <1>7, <2>1, <2>3, <3>1, <3>2
  <2>9. m[k - 1] <= o /\ o < m[k - 1] + n
    BY <2>1, <2>6, <2>7, <2>8
  <2>10. QED
    BY <2>5, <2>9
<1>12. Chain(m, O, n, c)
  BY <1>2, <1>7, <1>8, <1>9, <1>10, <1>11, Zenon DEF Chain
<1>13. ASSUME NEW k \in 0 .. N, ~(k \in 0 .. c - 1) PROVE m[k] = -1
  <2> DEFINE T == {d \in Nat : c + d <= N => m[c + d] = -1}
  <2>1. 0 \in T
    BY <1>7
  <2>2. ASSUME NEW d \in Nat, d \in T PROVE d + 1 \in T
    <3>1. SUFFICES ASSUME c + (d + 1) <= N PROVE m[c + (d + 1)] = -1
      OBVIOUS
    <3>2. c + (d + 1) \in 1 .. N /\ (c + (d + 1)) - 1 = c + d /\ c + d <= N
      BY <1>7, <3>1
    <3>3. m[(c + (d + 1)) - 1] = -1
      BY <2>2, <3>2
    <3>4. QED
      BY <1>3, <3>2, <3>3
  <2>3. Nat \subseteq T
    <3> HIDE DEF T
    <3>1. QED
      BY <2>1, <2>2, Induction
  <2>4. k - c \in Nat /\ c + (k - c) = k /\ k <= N
    BY <1>7, <1>13
  <2>5. \A d \in Nat : c + d <= N => m[c + d] = -1
    BY <2>3
  <2>6. c + (k - c) <= N => m[c + (k - c)] = -1
    BY <2>4, <2>5
  <2>7. QED
    BY <2>4, <2>6
<1>14. {m[k] : k \in 0 .. N} \ {-1} = The(m, c)
  <2>1. ASSUME NEW k \in 0 .. N, m[k] # -1 PROVE m[k] \in The(m, c)
    BY <1>13, <2>1, Zenon DEF The
  <2>2. ASSUME NEW k \in 0 .. c - 1 PROVE m[k] \in {m[j] : j \in 0 .. N} \ {-1}
    BY <1>7, Zenon
  <2>3. QED
    BY <2>1, <2>2, Zenon DEF The
<1>15. QED
  BY <1>7, <1>12, <1>14, Zenon DEF Chained

\* The matches of a text, one after the other.
Matched(s, q, S, c) ==
  /\ Chain(Text!MatchList(s, q), Occurrences(s, q), Len(q), c)
  /\ Text!MatchSet(s, q) = The(Text!MatchList(s, q), c) /\ c <= Len(s)

\* The matches of a query that is not empty are a chain of its occurrences.
LEMMA MatchesAre ==
  ASSUME NEW S, NEW s \in Seq(S), NEW q \in Seq(S), q # <<>>
  PROVE  \E c \in Nat : Matched(s, q, S, c)
<1> DEFINE N == Len(s)  n == Len(q)  O == Occurrences(s, q)  m == Text!MatchList(s, q)
<1>1. N \in Nat /\ n \in Nat \ {0}
  BY LenProperties, EmptySeq
<1>2. O \in SUBSET (0 .. N - 1)
  BY <1>1 DEF Occurrences, Holds
<1>3. Successive(m, O, n, N)
  BY MatchListIs
<1>4. Text!MatchSet(s, q) = {m[k] : k \in 0 .. N} \ {-1}
  BY Zenon DEF Text!MatchSet
<1> HIDE DEF N, n, O, m
<1>5. PICK c \in 0 .. N : Chained(m, O, n, N, c)
  BY <1>1, <1>2, <1>3, ChainIs, Zenon
<1>6. c \in Nat /\ c <= N
  BY <1>1
<1>7. Matched(s, q, S, c)
  BY <1>4, <1>5, <1>6, Zenon DEF Chained, Matched, N, n, O, m
<1>8. QED
  BY <1>6, <1>7

\* As many as they are, the least and the greatest of them, and the one before.
Enumerates(M, m, c) ==
  /\ Cardinality(M) = c /\ (M = {} <=> c = 0)
  /\ Text!Least(M) = m[0]
  /\ c # 0 => Text!Greatest(M) = m[c - 1]
  /\ \A i \in 0 .. c - 1 : Text!Greatest({x \in M : x < m[i]}) = IF i = 0 THEN -1 ELSE m[i - 1]

\* A chain enumerates what it finds.
LEMMA ChainEnds ==
  ASSUME NEW n \in Nat \ {0}, NEW O \in SUBSET Nat, NEW m, NEW c, Chain(m, O, n, c)
  PROVE  Enumerates(The(m, c), m, c)
<1> DEFINE M == The(m, c)
<1>1. c \in Nat /\ m[c] = -1 /\ (\A k \in 0 .. c - 1 : m[k] \in Nat)
  BY DEF Chain
<1>2. \A i, j \in 0 .. c - 1 : i < j => m[i] + n <= m[j]
  BY DEF Chain
<1>3. \A i, j \in 0 .. c - 1 : (i < j => m[i] < m[j]) /\ (m[i] < m[j] => i < j)
  <2>1. \A i, j \in 0 .. c - 1 : i < j => m[i] < m[j]
    BY <1>1, <1>2
  <2>2. ASSUME NEW i \in 0 .. c - 1, NEW j \in 0 .. c - 1, m[i] < m[j] PROVE i < j
    BY <1>1, <2>1, <2>2
  <2>3. QED
    BY <2>1, <2>2
<1>4. \A x : x \in M <=> \E k \in 0 .. c - 1 : x = m[k]
  BY Zenon DEF The
<1> HIDE DEF M
<1>5. Cardinality(M) = c
  <2> DEFINE f == [k \in 0 .. c - 1 |-> m[k]]
  <2>1. f \in Bijection(0 .. c - 1, M)
    <3>1. \A k \in 0 .. c - 1 : f[k] \in M
      BY <1>4
    <3>2. ASSUME NEW i \in 0 .. c - 1, NEW j \in 0 .. c - 1, f[i] = f[j] PROVE i = j
      <4>1. m[i] = m[j] /\ m[i] \in Nat
        BY <1>1, <3>2
      <4>2. ~(i < j) /\ ~(j < i)
        BY <1>3, <4>1
      <4>3. QED
        BY <4>2
    <3>3. \A x \in M : \E k \in 0 .. c - 1 : f[k] = x
      BY <1>4
    <3> HIDE DEF f
    <3>4. f \in [0 .. c - 1 -> M]
      BY <3>1 DEF f
    <3>5. QED
      BY <3>2, <3>3, <3>4, Fun_IsBij
  <2>2. 0 \in Int /\ c - 1 \in Int
    BY <1>1
  <2>3. IsFiniteSet(0 .. c - 1) /\ Cardinality(0 .. c - 1) = c
    <3>1. IsFiniteSet(0 .. c - 1) /\ Cardinality(0 .. c - 1) = IF 0 > c - 1 THEN 0 ELSE (c - 1) - 0 + 1
      BY <2>2, FS_Interval
    <3>2. QED
      BY <1>1, <3>1
  <2>4. ExistsBijection(0 .. c - 1, M)
    BY <2>1, Zenon DEF ExistsBijection
  <2>5. QED
    BY <2>3, <2>4, FS_Bijection
<1>6. M = {} <=> c = 0
  <2>1. CASE c = 0
    BY <1>4, <2>1
  <2>2. CASE c # 0
    <3>1. 0 \in 0 .. c - 1
      BY <1>1, <2>2
    <3>2. QED
      BY <1>4, <2>2, <3>1
  <2>3. QED
    BY <2>1, <2>2
<1>7. ASSUME NEW A \in SUBSET Nat, NEW x \in A, \A y \in A : y <= x PROVE Text!Greatest(A) = x
  <2> DEFINE g == Text!Greatest(A)
  <2>1. A # {} /\ x \in A /\ \A k \in A : k <= x
    BY <1>7
  <2>2. g = CHOOSE i \in A : \A k \in A : k <= i
    BY <2>1, Zenon DEF Text!Greatest
  <2> HIDE DEF g
  <2>3. g \in A /\ \A k \in A : k <= g
    BY <2>1, <2>2
  <2>4. g <= x /\ x <= g /\ g \in Nat /\ x \in Nat
    BY <2>1, <2>3
  <2>5. QED
    BY <2>4 DEF g
<1>8. ASSUME NEW A \in SUBSET Nat, NEW x \in A, \A y \in A : x <= y PROVE Text!Least(A) = x
  <2> DEFINE g == Text!Least(A)
  <2>1. A # {} /\ x \in A /\ \A k \in A : x <= k
    BY <1>8
  <2>2. g = CHOOSE i \in A : \A k \in A : i <= k
    BY <2>1, Zenon DEF Text!Least
  <2> HIDE DEF g
  <2>3. g \in A /\ \A k \in A : g <= k
    BY <2>1, <2>2
  <2>4. g <= x /\ x <= g /\ g \in Nat /\ x \in Nat
    BY <2>1, <2>3
  <2>5. QED
    BY <2>4 DEF g
<1>9. M \in SUBSET Nat
  BY <1>1, <1>4
<1>10. Text!Least(M) = m[0]
  <2>1. CASE c = 0
    BY <1>1, <1>6, <2>1 DEF Text!Least
  <2>2. CASE c # 0
    <3>1. 0 \in 0 .. c - 1
      BY <1>1, <2>2
    <3>2. ASSUME NEW k \in 0 .. c - 1 PROVE m[0] <= m[k]
      BY <1>1, <1>3, <3>1
    <3>3. m[0] \in M /\ \A y \in M : m[0] <= y
      BY <1>4, <3>1, <3>2
    <3>4. QED
      BY <1>8, <1>9, <3>3
  <2>3. QED
    BY <2>1, <2>2
<1>11. ASSUME c # 0 PROVE Text!Greatest(M) = m[c - 1]
  <2>1. c - 1 \in 0 .. c - 1
    BY <1>1, <1>11
  <2>2. ASSUME NEW k \in 0 .. c - 1 PROVE m[k] <= m[c - 1]
    <3>1. k = c - 1 \/ k < c - 1
      BY <1>1
    <3>2. QED
      BY <1>1, <1>3, <2>1, <3>1
  <2>3. m[c - 1] \in M /\ \A y \in M : y <= m[c - 1]
    BY <1>4, <2>1, <2>2
  <2>4. QED
    BY <1>7, <1>9, <2>3
<1>12. ASSUME NEW i \in 0 .. c - 1
       PROVE  Text!Greatest({x \in M : x < m[i]}) = IF i = 0 THEN -1 ELSE m[i - 1]
  <2> DEFINE A == {x \in M : x < m[i]}
  <2>1. A \in SUBSET Nat
    BY <1>9
  <2>2. CASE i = 0
    <3>1. \A k \in 0 .. c - 1 : ~(m[k] < m[0])
      BY <1>1, <1>3, <2>2
    <3>2. A = {}
      BY <1>4, <2>2, <3>1
    <3>3. QED
      BY <2>2, <3>2 DEF Text!Greatest
  <2>3. CASE i # 0
    <3>1. i - 1 \in 0 .. c - 1 /\ i - 1 < i
      BY <1>1, <2>3
    <3>2. m[i - 1] \in A
      BY <1>3, <1>4, <3>1
    <3>3. ASSUME NEW k \in 0 .. c - 1, m[k] < m[i] PROVE m[k] <= m[i - 1]
      <4>1. k < i
        BY <1>3, <3>3
      <4>2. k = i - 1 \/ k < i - 1
        BY <4>1
      <4>3. QED
        BY <1>1, <1>3, <3>1, <4>2
    <3>4. \A y \in A : y <= m[i - 1]
      BY <1>4, <3>3
    <3> HIDE DEF A
    <3>5. QED
      BY <1>7, <2>1, <2>3, <3>2, <3>4 DEF A
  <2>4. QED
    BY <2>2, <2>3
<1>13. QED
  BY <1>5, <1>6, <1>10, <1>11, <1>12, Zenon DEF M, Enumerates

\* The module of the text has finite sets of its own.
LEMMA CountIs ==
  ASSUME NEW T
  PROVE  Text!Cardinality(T) = Cardinality(T)
BY Zenon DEF Text!Cardinality, Cardinality

\* One more, or less, around a circle.
LEMMA AroundIs ==
  ASSUME NEW c \in Nat \ {0}, NEW i \in 0 .. c - 1
  PROVE  /\ i + 1 = c => (i + 1 + c) % c = 0
         /\ i + 1 # c => (i + 1 + c) % c = i + 1
         /\ i = 0 => (i + (-1) + c) % c = c - 1
         /\ i # 0 => (i + (-1) + c) % c = i - 1
OBVIOUS

\* The current match of a text.
Current(s, q, index, start) ==
  IF Text!MatchSet(s, q) = {} THEN index = -1 /\ start = -1
  ELSE index \in 0 .. Cardinality(Text!MatchSet(s, q)) - 1 /\ start = Text!MatchList(s, q)[index]

\* The first match, with its number, is one that can be current.
LEMMA StartsCurrent ==
  ASSUME NEW S, NEW s \in Seq(S), NEW q \in Seq(S)
  PROVE  Current(s, q, IF Text!MatchSet(s, q) = {} THEN -1 ELSE 0, Text!Least(Text!MatchSet(s, q)))
<1> DEFINE M == Text!MatchSet(s, q)  m == Text!MatchList(s, q)
<1>1. CASE q = <<>>
  <2>1. M = {}
    BY <1>1 DEF Text!MatchSet
  <2>2. QED
    BY <2>1 DEF Text!Least, Current
<1>2. CASE q # <<>>
  <2>1. PICK c \in Nat : Matched(s, q, S, c)
    BY <1>2, MatchesAre
  <2>2. Len(q) \in Nat \ {0} /\ Occurrences(s, q) \in SUBSET Nat
    BY <1>2, LenProperties, EmptySeq DEF Occurrences
  <2>3. Chain(m, Occurrences(s, q), Len(q), c) /\ M = The(m, c)
    BY <2>1, Zenon DEF Matched
  <2> HIDE DEF M, m
  <2>4. Cardinality(M) = c /\ (M = {} <=> c = 0) /\ Text!Least(M) = m[0] /\ m[c] = -1
    <3>1. m[c] = -1
      BY <2>3 DEF Chain
    <3>2. Enumerates(M, m, c)
      BY <2>2, <2>3, ChainEnds
    <3>3. QED
      BY <3>1, <3>2 DEF Enumerates
  <2>5. Current(s, q, IF M = {} THEN -1 ELSE 0, Text!Least(M))
    <3>1. CASE c = 0
      BY <2>4, <3>1 DEF Current, M
    <3>2. CASE c # 0
      <4>1. 0 \in 0 .. c - 1
        BY <3>2
      <4>2. QED
        BY <2>4, <3>2, <4>1 DEF Current, M, m
    <3>3. QED
      BY <3>1, <3>2
  <2>6. QED
    BY <2>5 DEF M
<1>3. QED
  BY <1>1, <1>2

\* Where moving on, or back, arrives.
NextOf(s, q, start) ==
  LET next == Text!IndexOf(s, q, start + Len(q)) IN
  IF next = -1 THEN Text!Least(Text!MatchSet(s, q)) ELSE next
PreviousOf(s, q, start) ==
  LET previous == Text!Greatest({i \in Text!MatchSet(s, q) : i < start}) IN
  IF previous = -1 THEN Text!Greatest(Text!MatchSet(s, q)) ELSE previous

\* Going to the next or the previous match keeps number and position together.
LEMMA MovesCurrent ==
  ASSUME NEW S, NEW s \in Seq(S), NEW q \in Seq(S), NEW index, NEW start,
         Current(s, q, index, start), Text!MatchSet(s, q) # {}
  PROVE  LET c == Cardinality(Text!MatchSet(s, q)) IN
         /\ Current(s, q, (index + 1 + c) % c, NextOf(s, q, start))
         /\ Current(s, q, (index + (-1) + c) % c, PreviousOf(s, q, start))
<1> DEFINE M == Text!MatchSet(s, q)  m == Text!MatchList(s, q)  n == Len(q)  O == Occurrences(s, q)
<1>1. q # <<>>
  BY DEF Text!MatchSet
<1>2. PICK c \in Nat : Matched(s, q, S, c)
  BY <1>1, MatchesAre
<1>3. n \in Nat \ {0} /\ O \in SUBSET Nat
  BY <1>1, LenProperties, EmptySeq DEF Occurrences
<1>4. Chain(m, O, n, c) /\ M = The(m, c)
  BY <1>2, Zenon DEF Matched
<1>5. \A from \in Nat : FirstFrom(O, from, Text!IndexOf(s, q, from))
  BY <1>1, IndexOfIs
<1>6. M # {}
  OBVIOUS
<1>7. (M # {} => index \in 0 .. Cardinality(M) - 1 /\ start = m[index])
  BY DEF Current
<1> HIDE DEF M, m, n, O
<1>8. /\ Cardinality(M) = c /\ c # 0 /\ Text!Least(M) = m[0] /\ Text!Greatest(M) = m[c - 1]
      /\ \A i \in 0 .. c - 1 :
           Text!Greatest({x \in M : x < m[i]}) = IF i = 0 THEN -1 ELSE m[i - 1]
  <2>1. Enumerates(M, m, c)
    BY <1>3, <1>4, ChainEnds
  <2>2. QED
    BY <1>6, <2>1 DEF Enumerates
<1>9. index \in 0 .. c - 1 /\ start = m[index]
  BY <1>6, <1>7, <1>8
<1>10. c \in Nat \ {0}
  BY <1>8
<1>11. /\ m[c] = -1 /\ (\A k \in 0 .. c - 1 : m[k] \in O /\ m[k] \in Nat /\ m[k] # -1)
       /\ FirstFrom(O, start + n, m[index + 1])
  <2>1. m[c] = -1 /\ (\A k \in 0 .. c - 1 : m[k] \in O /\ FirstFrom(O, m[k] + n, m[k + 1]))
    BY <1>4 DEF Chain
  <2>2. \A o \in O : o \in Nat /\ o # -1
    BY <1>3
  <2>3. QED
    BY <1>9, <2>1, <2>2
<1>12. Text!IndexOf(s, q, start + n) = m[index + 1]
  <2>1. start + n \in Nat
    BY <1>3, <1>9, <1>11
  <2>2. QED
    BY <1>3, <1>5, <1>11, <2>1, FirstIsOne
<1>13. NextOf(s, q, start) = IF m[index + 1] = -1 THEN m[0] ELSE m[index + 1]
  BY <1>8, <1>12, Zenon DEF NextOf, M, n
<1>14. PreviousOf(s, q, start) = IF index = 0 THEN m[c - 1] ELSE m[index - 1]
  <2>1. Text!Greatest({x \in M : x < start}) = IF index = 0 THEN -1 ELSE m[index - 1]
    BY <1>8, <1>9
  <2>2. index = 0 \/ (index - 1 \in 0 .. c - 1 /\ m[index - 1] # -1)
    BY <1>9, <1>11
  <2>3. QED
    BY <1>8, <2>1, <2>2 DEF PreviousOf, M
<1>15. /\ index + 1 = c => (index + 1 + c) % c = 0
       /\ index + 1 # c => (index + 1 + c) % c = index + 1
       /\ index = 0 => (index + (-1) + c) % c = c - 1
       /\ index # 0 => (index + (-1) + c) % c = index - 1
  BY <1>9, <1>10, AroundIs
<1>16. ASSUME NEW i \in 0 .. c - 1 PROVE Current(s, q, i, m[i])
  BY <1>6, <1>8 DEF Current, M, m
<1>17. Current(s, q, (index + 1 + c) % c, NextOf(s, q, start))
  <2>1. CASE index + 1 = c
    <3>1. 0 \in 0 .. c - 1 /\ (index + 1 + c) % c = 0
      BY <1>10, <1>9, <2>1, <1>15
    <3>2. QED
      BY <1>11, <1>13, <1>16, <2>1, <3>1
  <2>2. CASE index + 1 # c
    <3>1. index + 1 \in 0 .. c - 1 /\ (index + 1 + c) % c = index + 1
      BY <1>10, <1>9, <2>2, <1>15
    <3>2. QED
      BY <1>11, <1>13, <1>16, <3>1
  <2>3. QED
    BY <2>1, <2>2
<1>18. Current(s, q, (index + (-1) + c) % c, PreviousOf(s, q, start))
  <2>1. CASE index = 0
    <3>1. c - 1 \in 0 .. c - 1 /\ (index + (-1) + c) % c = c - 1
      BY <1>10, <1>9, <2>1, <1>15
    <3>2. QED
      BY <1>14, <1>16, <2>1, <3>1
  <2>2. CASE index # 0
    <3>1. index - 1 \in 0 .. c - 1 /\ (index + (-1) + c) % c = index - 1
      BY <1>10, <1>9, <2>2, <1>15
    <3>2. QED
      BY <1>14, <1>16, <2>2, <3>1
  <2>3. QED
    BY <2>1, <2>2
<1>19. QED
  BY <1>8, <1>17, <1>18 DEF M

\* The sequences of lower case of the characters of a text.
Lowers(s) == [i \in DOMAIN s |-> Text!Lowered(s[i])]

\* What a text can consist of: any characters, or those of a line.
Alphabets == {Characters, Characters \ {Text!Newline}}

\* The lower case of a character.
LEMMA LoweredIs ==
  ASSUME NEW A \in Alphabets, NEW c \in A
  PROVE  Text!Lowered(c) \in Seq(A)
<1>1. STRING \subseteq Characters
  BY Zenon DEF Characters
<1>2. STRING \ {Text!Newline} \subseteq A
  BY <1>1, Zenon DEF Alphabets
<1>3. Seq(STRING \ {Text!Newline}) \subseteq Seq(A)
  BY <1>2, SeqOfMore, Zenon
<1>4. \A l \in DOMAIN Lower : Lower[l] \in Seq(A)
  BY <1>3, TextAssumption, Zenon
<1>5. <<c>> \in Seq(A)
  OBVIOUS
<1>6. QED
  BY <1>4, <1>5, Zenon DEF Text!Lowered

\* The lower case of a text is that of its characters, one after the other.
LEMMA LowerIsTyped ==
  ASSUME NEW A \in Alphabets, NEW s \in Seq(A)
  PROVE  /\ Lowers(s) \in Seq(Seq(A)) /\ Len(Lowers(s)) = Len(s) /\ Len(s) \in Nat
         /\ \A i \in 1 .. Len(s) : Lowers(s)[i] = Text!Lowered(s[i])
         /\ Text!LowerCase(s) \in Seq(A) /\ \E b : Consists(Text!LowerCase(s), Lowers(s), b)
<1> DEFINE d == Lowers(s)
<1>1. Len(s) \in Nat /\ DOMAIN s = 1 .. Len(s) /\ \A i \in 1 .. Len(s) : s[i] \in A
  BY LenProperties, ElementOfSeq
<1>2. d = [i \in 1 .. Len(s) |-> Text!Lowered(s[i])]
  BY <1>1 DEF Lowers
<1>3. \A i \in 1 .. Len(s) : Text!Lowered(s[i]) \in Seq(A)
  BY <1>1, LoweredIs, Zenon
<1> HIDE DEF d
<1>4. d \in [1 .. Len(s) -> Seq(A)]
  BY <1>2, <1>3
<1>5. d \in Seq(Seq(A)) /\ Len(d) = Len(s)
  BY <1>1, <1>4, SeqFrom, Zenon
<1>6. Text!LowerCase(s) = Text!FlattenSeq(d)
  BY Zenon DEF Text!LowerCase, Lowers, d
<1>7. Text!FlattenSeq(d) \in Seq(A) /\ \E b : Consists(Text!FlattenSeq(d), d, b)
  BY <1>5, FlattenIs, Zenon
<1>8. QED
  BY <1>1, <1>2, <1>5, <1>6, <1>7 DEF d

\* A text whose characters have one each for lower case is as long in lower case.
AsLong(s) ==
  /\ Len(Text!LowerCase(s)) = Len(s)
  /\ \A i \in 1 .. Len(s) : Text!LowerCase(s)[i] = Text!Lowered(s[i])[1]
LEMMA LowerIs ==
  ASSUME NEW s \in Seq(Characters), Text!KeepsLength(s)
  PROVE  AsLong(s)
<1> DEFINE N == Len(s)  d == Lowers(s)  l == Text!LowerCase(s)
<1>1. Characters \in Alphabets
  BY DEF Alphabets
<1>2. /\ N \in Nat /\ Len(d) = N /\ (\A i \in 1 .. N : d[i] = Text!Lowered(s[i]))
      /\ \E b : Consists(l, d, b)
  BY <1>1, LowerIsTyped, Zenon
<1>3. PICK b : Consists(l, d, b)
  BY <1>2
<1>4. \A i \in 1 .. N : Len(d[i]) = 1
  <2>1. DOMAIN s = 1 .. N
    BY LenProperties
  <2>2. QED
    BY <1>2, <2>1, Zenon DEF Text!KeepsLength
<1> HIDE DEF N, d, l
<1>5. /\ b[0] = 0 /\ Len(l) = b[N] /\ b \in [0 .. N -> Nat]
      /\ \A k \in 1 .. N : b[k] = b[k - 1] + 1 /\ l[b[k - 1] + 1] = d[k][1]
  <2>1. /\ b \in [0 .. N -> Nat] /\ b[0] = 0 /\ Len(l) = b[N]
        /\ \A k \in 1 .. N : b[k] = b[k - 1] + Len(d[k])
        /\ \A k \in 1 .. N : \A j \in 1 .. Len(d[k]) : l[b[k - 1] + j] = d[k][j]
    BY <1>2, <1>3, Zenon DEF Consists, Ends
  <2>2. \A k \in 1 .. N : 1 \in 1 .. Len(d[k])
    BY <1>4
  <2>3. QED
    BY <1>4, <2>1, <2>2
<1> DEFINE T == {k \in Nat : k <= N => b[k] = k}
<1>6. 0 \in T
  BY <1>5
<1>7. ASSUME NEW k \in Nat, k \in T PROVE k + 1 \in T
  <2>1. SUFFICES ASSUME k + 1 <= N PROVE b[k + 1] = k + 1
    OBVIOUS
  <2>2. k + 1 \in 1 .. N /\ (k + 1) - 1 = k /\ k <= N
    BY <1>2, <2>1
  <2>3. b[k] = k /\ b[k + 1] = b[(k + 1) - 1] + 1
    BY <1>5, <1>7, <2>2
  <2>4. QED
    BY <2>2, <2>3
<1>8. Nat \subseteq T
  <2> HIDE DEF T
  <2>1. QED
    BY <1>6, <1>7, Induction
<1>9. \A k \in 0 .. N : b[k] = k
  BY <1>2, <1>8
<1>10. Len(l) = N
  BY <1>2, <1>5, <1>9
<1>11. ASSUME NEW i \in 1 .. N PROVE l[i] = Text!Lowered(s[i])[1]
  <2>1. i - 1 \in 0 .. N /\ (i - 1) + 1 = i
    BY <1>2
  <2>2. b[i - 1] + 1 = i
    BY <1>9, <2>1
  <2>3. l[i] = d[i][1]
    BY <1>5, <2>2
  <2>4. QED
    BY <1>2, <2>3
<1>12. QED
  BY <1>10, <1>11 DEF AsLong, N, l

\* The characters of a part of a text.
LEMMA SliceElements ==
  ASSUME NEW S, NEW s \in Seq(S), NEW from \in Nat, NEW to \in Nat, from <= to, to <= Len(s)
  PROVE  /\ Text!Slice(s, from, to) \in Seq(S) /\ Len(Text!Slice(s, from, to)) = to - from
         /\ \A x \in 1 .. to - from : Text!Slice(s, from, to)[x] = s[from + x]
<1> DEFINE t == Text!Slice(s, from, to)  N == Len(s)
<1>1. N \in Nat /\ (\A x \in 1 .. N : s[x] \in S) /\ to <= N
  BY LenProperties, ElementOfSeq
<1>2. \A x \in from + 1 .. to : s[x] \in S
  BY <1>1
<1>3. t = SubSeq(s, from + 1, to)
  BY DEF Text!Slice
<1>4. from + 1 \in Int /\ to \in Int
  OBVIOUS
<1> HIDE DEF t
<1>5. /\ t \in Seq(S) /\ Len(t) = (IF from + 1 <= to THEN to - (from + 1) + 1 ELSE 0)
      /\ \A x \in 1 .. to - (from + 1) + 1 : t[x] = s[(from + 1) + x - 1]
  BY <1>2, <1>3, <1>4, SubSeqProperties
<1>6. to - (from + 1) + 1 = to - from /\ (from + 1 <= to \/ to - from = 0)
  OBVIOUS
<1>7. \A x \in 1 .. to - from : (from + 1) + x - 1 = from + x
  OBVIOUS
<1>8. t \in Seq(S) /\ Len(t) = to - from /\ \A x \in 1 .. to - from : t[x] = s[from + x]
  BY <1>5, <1>6, <1>7
<1>9. QED
  BY <1>8 DEF t

\* The lower case of a part of such a text is that part of its lower case.
LEMMA LowerOfSlice ==
  ASSUME NEW s \in Seq(Characters), Text!KeepsLength(s), NEW from \in Nat, NEW to \in Nat,
         from <= to, to <= Len(s)
  PROVE  Text!LowerCase(Text!Slice(s, from, to)) = Text!Slice(Text!LowerCase(s), from, to)
<1> DEFINE t == Text!Slice(s, from, to)  l == Text!LowerCase(s)  n == to - from
           u == Text!Slice(l, from, to)  v == Text!LowerCase(t)
<1>1. n \in Nat /\ Len(s) \in Nat /\ Characters \in Alphabets
  BY LenProperties DEF Alphabets
<1>2. t \in Seq(Characters) /\ Len(t) = n /\ \A x \in 1 .. n : t[x] = s[from + x]
  BY SliceElements
<1>3. l \in Seq(Characters) /\ AsLong(s)
  BY <1>1, LowerIsTyped, LowerIs
<1>4. Len(l) = Len(s) /\ \A x \in 1 .. Len(s) : l[x] = Text!Lowered(s[x])[1]
  BY <1>3 DEF AsLong
<1>5. u \in Seq(Characters) /\ Len(u) = n /\ \A x \in 1 .. n : u[x] = l[from + x]
  <2>1. to <= Len(l)
    BY <1>4
  <2> HIDE DEF l
  <2>2. QED
    BY <1>3, <2>1, SliceElements
<1>6. \A x \in 1 .. n : from + x \in 1 .. Len(s)
  BY <1>1
<1> HIDE DEF t, l, n, u
<1>7. Text!KeepsLength(t)
  <2>1. DOMAIN t = 1 .. n /\ DOMAIN s = 1 .. Len(s)
    BY <1>2, LenProperties
  <2>2. \A x \in 1 .. Len(s) : Len(Text!Lowered(s[x])) = 1
    BY <2>1, Zenon DEF Text!KeepsLength
  <2>3. \A x \in 1 .. n : Len(Text!Lowered(t[x])) = 1
    BY <1>2, <1>6, <2>2
  <2>4. QED
    BY <2>1, <2>3, Zenon DEF Text!KeepsLength
<1>8. v \in Seq(Characters) /\ AsLong(t)
  BY <1>1, <1>2, <1>7, LowerIsTyped, LowerIs
<1>9. Len(v) = n /\ \A x \in 1 .. n : v[x] = Text!Lowered(t[x])[1]
  BY <1>2, <1>8 DEF AsLong
<1> HIDE DEF v
<1>10. ASSUME NEW x \in 1 .. n PROVE v[x] = u[x]
  BY <1>2, <1>4, <1>5, <1>6, <1>9
<1>11. v = u
  BY <1>1, <1>5, <1>8, <1>9, <1>10, SeqEqual
<1>12. QED
  BY <1>11 DEF v, u, t, l

\* Texts and queries are in lower case sequences of characters.
LEMMA LowerOfString ==
  ASSUME NEW s \in Seq(STRING)
  PROVE  s \in Seq(Characters) /\ Text!LowerCase(s) \in Seq(Characters)
<1>1. STRING \subseteq Characters /\ Characters \in Alphabets
  BY Zenon DEF Characters, Alphabets
<1>2. s \in Seq(Characters)
  BY <1>1, SeqOfMore
<1>3. QED
  BY <1>1, <1>2, LowerIsTyped

\* The preview of a text, and its current match.
FindTyped ==
  /\ source.raw \in Seq(STRING) /\ source.rendered \in Seq(STRING) /\ rich \in BOOLEAN
  /\ findQuery \in Needles \cup {<<>>}
FindCurrent == Current(Text!Searchable, Text!NormalizedQuery, findIndex, findStart)

\* At the start nothing is looked for.
LEMMA FindStart == Text!PreviewInit => FindTyped /\ FindCurrent
<1> SUFFICES ASSUME Text!PreviewInit PROVE FindTyped /\ FindCurrent
  OBVIOUS
<1>1. FindTyped
  <2>1. source.raw = <<>> /\ source.rendered = <<>>
    BY DEF Text!PreviewInit, Text!NoText
  <2>2. QED
    BY <2>1, EmptySeq DEF Text!PreviewInit, FindTyped
<1>2. Text!NormalizedQuery = <<>>
  <2>1. Text!NormalizedQuery = Text!LowerCase(<<>>)
    BY DEF Text!PreviewInit, Text!ActiveQuery, Text!NormalizedQuery
  <2>2. <<>> \in Seq(Characters) /\ Characters \in Alphabets /\ Len(<<>>) = 0
    BY EmptySeq DEF Alphabets
  <2>3. Text!LowerCase(<<>>) \in Seq(Characters)
    BY <2>2, LowerIsTyped
  <2>4. Len(Text!LowerCase(<<>>)) = 0
    <3>1. Text!KeepsLength(<<>>)
      BY DEF Text!KeepsLength
    <3>2. AsLong(<<>>)
      BY <2>2, <3>1, LowerIs, Zenon
    <3>3. QED
      BY <2>2, <3>2, Zenon DEF AsLong
  <2>5. QED
    BY <2>1, <2>3, <2>4, EmptySeq
<1>3. FindCurrent
  BY <1>2 DEF FindCurrent, Current, Text!MatchSet, Text!PreviewInit
<1>4. QED
  BY <1>1, <1>3

\* The text that is searched and the query are sequences of characters.
LEMMA SearchIsTyped ==
  FindTyped => /\ Text!ActiveQuery \in Seq(STRING)
               /\ Text!Searchable \in Seq(Characters) /\ Text!NormalizedQuery \in Seq(Characters)
<1>1. Needles \cup {<<>>} \subseteq Seq(STRING)
  BY TextAssumption, EmptySeq
<1>2. SUFFICES ASSUME FindTyped
      PROVE  /\ Text!ActiveQuery \in Seq(STRING)
             /\ Text!Searchable \in Seq(Characters) /\ Text!NormalizedQuery \in Seq(Characters)
  OBVIOUS
<1>3. Text!ActiveQuery \in Seq(STRING) /\ (IF rich THEN source.rendered ELSE source.raw) \in Seq(STRING)
  BY <1>1, <1>2 DEF FindTyped, Text!ActiveQuery
<1>4. QED
  BY <1>3, LowerOfString, Zenon DEF Text!Searchable, Text!NormalizedQuery

\* What is searched, and for what, is up to these.
LEMMA SameSearch ==
  source' = source /\ rich' = rich /\ findOpen' = findOpen /\ findQuery' = findQuery =>
    Text!NormalizedQuery' = Text!NormalizedQuery /\ Text!Searchable' = Text!Searchable
BY DEF Text!NormalizedQuery, Text!ActiveQuery, Text!Searchable

\* Every step keeps the types and the match that is current.
LEMMA FindStep ==
  ASSUME FindTyped, FindCurrent, [Text!PreviewNext]_textVars
  PROVE  FindTyped' /\ FindCurrent'
<1>1. FindTyped'
  <2>1. \A s \in Sources : s.raw \in Seq(STRING) /\ s.rendered \in Seq(STRING)
    BY TextAssumption
  <2>2. QED
    BY <2>1 DEF FindTyped, Text!PreviewNext, Text!OpenText, Text!Reload, Text!FullScreenText,
                Text!ShowFind, Text!HideFind, Text!TypeQuery, Text!MoveFind, Text!OpenTable,
                Text!AddRow, textVars
<1>2. ASSUME Text!StartAgain PROVE FindCurrent'
  <2>1. CASE Text!NormalizedQuery' # Text!NormalizedQuery \/ Text!Searchable' # Text!Searchable
    <3> DEFINE s == Text!Searchable'  q == Text!NormalizedQuery'
    <3>1. s \in Seq(Characters) /\ q \in Seq(Characters)
      <4>1. Needles \cup {<<>>} \subseteq Seq(STRING)
        BY TextAssumption, EmptySeq
      <4>2. Text!ActiveQuery' \in Seq(STRING)
            /\ (IF rich' THEN source'.rendered ELSE source'.raw) \in Seq(STRING)
        BY <1>1, <4>1 DEF FindTyped, Text!ActiveQuery
      <4>3. /\ s = Text!LowerCase(IF rich' THEN source'.rendered ELSE source'.raw)
            /\ q = Text!LowerCase(Text!ActiveQuery')
        BY DEF Text!Searchable, Text!NormalizedQuery
      <4> HIDE DEF s, q
      <4>4. QED
        BY <4>2, <4>3, LowerOfString
    <3>2. /\ findIndex' = (IF Text!MatchSet(s, q) = {} THEN -1 ELSE 0)
          /\ findStart' = Text!Least(Text!MatchSet(s, q))
      BY <1>2, <2>1, Zenon DEF Text!StartAgain, Text!Found
    <3> HIDE DEF s, q
    <3>3. Current(s, q, findIndex', findStart')
      BY <3>1, <3>2, StartsCurrent, Zenon
    <3>4. QED
      BY <3>3 DEF FindCurrent, s, q
  <2>2. CASE ~(Text!NormalizedQuery' # Text!NormalizedQuery \/ Text!Searchable' # Text!Searchable)
    <3>1. UNCHANGED <<findIndex, findStart>>
      BY <1>2, <2>2, Zenon DEF Text!StartAgain
    <3>2. Text!NormalizedQuery' = Text!NormalizedQuery /\ Text!Searchable' = Text!Searchable
      BY <2>2
    <3>3. QED
      BY <3>1, <3>2 DEF FindCurrent
  <2>3. QED
    BY <2>1, <2>2
<1>3. ASSUME NEW direction \in {1, -1}, Text!MoveFind(direction) PROVE FindCurrent'
  <2> DEFINE s == Text!Searchable  q == Text!NormalizedQuery
  <2>1. s \in Seq(Characters) /\ q \in Seq(Characters)
    BY SearchIsTyped
  <2>2. s' = s /\ q' = q
    <3>1. source' = source /\ rich' = rich /\ findOpen' = findOpen /\ findQuery' = findQuery
      BY <1>3 DEF Text!MoveFind
    <3>2. QED
      BY <3>1, SameSearch DEF s, q
  <2>3. /\ Text!MatchSet(s, q) # {}
        /\ findStart' = IF direction = 1 THEN NextOf(s, q, findStart) ELSE PreviousOf(s, q, findStart)
        /\ LET number == Cardinality(Text!MatchSet(s, q)) IN
           findIndex' = (findIndex + direction + number) % number
    <3>1. Text!PreviousMatch(findStart) = Text!Greatest({i \in Text!MatchSet(s, q) : i < findStart})
      BY Zenon DEF Text!PreviousMatch, Text!Found
    <3> DEFINE next == Text!IndexOf(s, q, findStart + Len(q))
               previous == Text!PreviousMatch(findStart)
    <3>2. /\ Text!Found # {}
          /\ findStart' = IF direction = 1 THEN IF next = -1 THEN Text!Least(Text!Found) ELSE next
                          ELSE IF previous = -1 THEN Text!Greatest(Text!Found) ELSE previous
          /\ LET number == Cardinality(Text!Found) IN
             findIndex' = (findIndex + direction + number) % number
      <4>1. Text!Found # {}
        BY <1>3, Zenon DEF Text!MoveFind
      <4>2. LET number == Cardinality(Text!Found) IN
            findIndex' = (findIndex + direction + number) % number
        BY <1>3, CountIs DEF Text!MoveFind
      <4>3. findStart' = IF direction = 1 THEN IF next = -1 THEN Text!Least(Text!Found) ELSE next
                         ELSE IF previous = -1 THEN Text!Greatest(Text!Found) ELSE previous
        BY <1>3 DEF Text!MoveFind
      <4>4. QED
        BY <4>1, <4>2, <4>3
    <3>3. Text!Found = Text!MatchSet(s, q)
      BY Zenon DEF Text!Found
    <3>4. NextOf(s, q, findStart) = IF next = -1 THEN Text!Least(Text!MatchSet(s, q)) ELSE next
      BY Zenon DEF NextOf
    <3>5. PreviousOf(s, q, findStart) =
            IF previous = -1 THEN Text!Greatest(Text!MatchSet(s, q)) ELSE previous
      BY <3>1, Zenon DEF PreviousOf
    <3> HIDE DEF s, q, next, previous
    <3>6. QED
      BY <3>2, <3>3, <3>4, <3>5
  <2>4. Current(s, q, findIndex, findStart)
    BY DEF FindCurrent
  <2> HIDE DEF s, q
  <2>5. Current(s, q, findIndex', findStart')
    <3>1. CASE direction = 1
      BY <2>1, <2>3, <2>4, <3>1, MovesCurrent
    <3>2. CASE direction = -1
      BY <2>1, <2>3, <2>4, <3>2, MovesCurrent
    <3>3. QED
      BY <3>1, <3>2
  <2>6. QED
    BY <2>2, <2>5 DEF FindCurrent, s, q
<1>4. ASSUME UNCHANGED <<source, rich, findOpen, findQuery, findIndex, findStart>> PROVE FindCurrent'
  <2>1. Text!NormalizedQuery' = Text!NormalizedQuery /\ Text!Searchable' = Text!Searchable
    BY <1>4, SameSearch
  <2>2. QED
    BY <1>4, <2>1 DEF FindCurrent
<1>5. CASE UNCHANGED textVars
  BY <1>1, <1>4, <1>5 DEF textVars
<1>6. CASE Text!PreviewNext
  <2>1. CASE \E s \in Sources : Text!OpenText(s) \/ Text!Reload(s)
    BY <1>1, <1>2, <2>1 DEF Text!OpenText, Text!Reload
  <2>2. CASE Text!FullScreenText \/ Text!ShowFind \/ Text!HideFind
    BY <1>1, <1>2, <2>2 DEF Text!FullScreenText, Text!ShowFind, Text!HideFind
  <2>3. CASE \E q \in Needles : Text!TypeQuery(q)
    BY <1>1, <1>2, <2>3 DEF Text!TypeQuery
  <2>4. CASE \E direction \in {1, -1} : Text!MoveFind(direction)
    BY <1>1, <1>3, <2>4, Zenon
  <2>5. CASE \E style \in Text!TableStyles : Text!OpenTable(style)
    BY <1>1, <1>4, <2>5, Zenon DEF Text!OpenTable
  <2>6. CASE \E row \in Rows : Text!AddRow(row)
    BY <1>1, <1>4, <2>6 DEF Text!AddRow
  <2>7. QED
    BY <1>6, <2>1, <2>2, <2>3, <2>4, <2>5, <2>6, Zenon DEF Text!PreviewNext
<1>7. QED
  BY <1>1, <1>5, <1>6

-----------------------------------------------------------------------------
(***************************************************************************)
(* Marking in the editor.                                                  *)
(***************************************************************************)

\* These are chosen of some numbers: those that no earlier chosen one reaches.
Picks(M, O, n) ==
  /\ M \subseteq O
  /\ \A o \in O : o \in M <=> \A x \in M : ~(x < o /\ o < x + n)

\* A chain picks its matches from the left.
LEMMA ChainPicks ==
  ASSUME NEW n \in Nat \ {0}, NEW O \in SUBSET Nat, NEW m, NEW c, Chain(m, O, n, c)
  PROVE  Picks(The(m, c), O, n)
<1> DEFINE M == The(m, c)
<1>1. c \in Nat /\ \A k \in 0 .. c - 1 : m[k] \in O /\ m[k] \in Nat
  BY DEF Chain
<1>2. \A i, j \in 0 .. c - 1 : i < j => m[i] + n <= m[j]
  BY DEF Chain
<1>3. \A x : x \in M <=> \E k \in 0 .. c - 1 : x = m[k]
  BY Zenon DEF The
<1>4. \A o \in O : \E k \in 0 .. c - 1 : m[k] <= o /\ o < m[k] + n
  BY DEF Chain
<1> HIDE DEF M
<1>5. ASSUME NEW o \in M, NEW x \in M, x < o, o < x + n PROVE FALSE
  <2>1. PICK i \in 0 .. c - 1, j \in 0 .. c - 1 : x = m[i] /\ o = m[j]
    BY <1>3
  <2>2. i # j /\ ~(i < j)
    BY <1>1, <1>2, <1>5, <2>1
  <2>3. m[j] + n <= m[i]
    BY <1>1, <1>2, <2>2
  <2>4. QED
    BY <1>1, <1>5, <2>1, <2>3
<1>6. ASSUME NEW o \in O, \A x \in M : ~(x < o /\ o < x + n) PROVE o \in M
  <2>1. PICK k \in 0 .. c - 1 : m[k] <= o /\ o < m[k] + n
    BY <1>4
  <2>2. m[k] \in M /\ m[k] \in Nat /\ o \in Nat
    BY <1>1, <1>3
  <2>3. m[k] = o
    BY <1>6, <2>1, <2>2
  <2>4. QED
    BY <2>2, <2>3
<1>7. M \subseteq O
  BY <1>1, <1>3
<1>8. QED
  BY <1>5, <1>6, <1>7 DEF Picks, M

\* There is one choice.
LEMMA PicksOnce ==
  ASSUME NEW n \in Nat, NEW O \in SUBSET Nat, NEW A, NEW B, Picks(A, O, n), Picks(B, O, n)
  PROVE  A = B
<1> DEFINE other == {o \in O : ~(o \in A <=> o \in B)}
<1>1. CASE other = {}
  BY <1>1 DEF Picks
<1>2. CASE other # {}
  <2>1. PICK o \in other : \A x \in other : o <= x
    <3>1. other \in SUBSET Nat
      OBVIOUS
    <3> HIDE DEF other
    <3>2. QED
      BY <1>2, <3>1, SmallestOf
  <2>2. \A x \in O : x < o => (x \in A <=> x \in B)
    BY <2>1
  <2>3. o \in A <=> \A x \in A : ~(x < o /\ o < x + n)
    BY <2>1 DEF Picks
  <2>4. o \in B <=> \A x \in B : ~(x < o /\ o < x + n)
    BY <2>1 DEF Picks
  <2>5. A \subseteq O /\ B \subseteq O
    BY DEF Picks
  <2>6. o \in A <=> o \in B
    BY <2>2, <2>3, <2>4, <2>5
  <2>7. QED
    BY <2>1, <2>6
<1>3. QED
  BY <1>1, <1>2

\* A part of them that no one from outside reaches into.
LEMMA PicksPart ==
  ASSUME NEW n, NEW O, NEW P \in SUBSET O, NEW M, Picks(M, O, n),
         \A x \in O, o \in P : x < o /\ o < x + n => x \in P
  PROVE  Picks(M \cap P, P, n)
<1>1. M \subseteq O /\ \A o \in O : o \in M <=> \A x \in M : ~(x < o /\ o < x + n)
  BY DEF Picks
<1>2. ASSUME NEW o \in P PROVE o \in M \cap P <=> \A x \in M \cap P : ~(x < o /\ o < x + n)
  BY <1>1
<1>3. QED
  BY <1>2 DEF Picks

\* The matches of a text are the occurrences that no earlier match reaches.
LEMMA MatchesArePicked ==
  ASSUME NEW S, NEW s \in Seq(S), NEW q \in Seq(S), q # <<>>
  PROVE  Picks(Text!MatchSet(s, q), Occurrences(s, q), Len(q))
<1>1. PICK c \in Nat : Matched(s, q, S, c)
  BY MatchesAre
<1>2. Len(q) \in Nat \ {0} /\ Occurrences(s, q) \in SUBSET Nat
  BY LenProperties, EmptySeq DEF Occurrences
<1>3. QED
  BY <1>1, <1>2, ChainPicks DEF Matched

\* Where a part of a text holds another.
LEMMA SliceIs ==
  ASSUME NEW S, NEW s \in Seq(S), NEW q \in Seq(S), NEW from \in Nat, NEW to \in Nat,
         from <= to, to <= Len(s)
  PROVE  /\ Text!Slice(s, from, to) \in Seq(S)
         /\ \A k \in Nat : k \in Occurrences(Text!Slice(s, from, to), q) <=>
                             from + k \in Occurrences(s, q) /\ from + k + Len(q) <= to
<1> DEFINE t == Text!Slice(s, from, to)  n == Len(q)  N == Len(s)
<1>1. N \in Nat /\ n \in Nat /\ (\A x \in 1 .. N : s[x] \in S) /\ to <= N
  BY LenProperties, ElementOfSeq
<1>2. t \in Seq(S) /\ Len(t) = to - from /\ \A x \in 1 .. to - from : t[x] = s[from + x]
  BY SliceElements
<1> HIDE DEF t, n, N
<1>3. ASSUME NEW k \in Nat
      PROVE  k \in Occurrences(t, q) <=> from + k \in Occurrences(s, q) /\ from + k + n <= to
  <2>1. k \in Occurrences(t, q) <=>
          k + n <= to - from /\ \A x \in 1 .. n : t[k + x] = q[x]
    <3>1. Len(t) = to - from /\ to - from \in Nat
      BY <1>2
    <3>2. QED
      BY <1>1, <3>1 DEF Occurrences, Holds, n
  <2>2. from + k \in Occurrences(s, q) <=>
          from + k + n <= N /\ \A x \in 1 .. n : s[(from + k) + x] = q[x]
    <3>1. from + k \in Nat
      OBVIOUS
    <3>2. QED
      BY <1>1, <3>1 DEF Occurrences, Holds, n, N
  <2>3. k + n <= to - from <=> from + k + n <= to
    BY <1>1
  <2>4. ASSUME from + k + n <= to PROVE \A x \in 1 .. n : t[k + x] = s[(from + k) + x]
    <3>1. ASSUME NEW x \in 1 .. n PROVE t[k + x] = s[(from + k) + x]
      <4>1. k + x \in 1 .. to - from /\ from + (k + x) = (from + k) + x
        BY <1>1, <2>4
      <4>2. t[k + x] = s[from + (k + x)]
        BY <1>2, <4>1
      <4>3. QED
        BY <4>1, <4>2
    <3>2. QED
      BY <3>1
  <2>5. from + k + n <= to => from + k + n <= N
    BY <1>1
  <2>6. QED
    BY <2>1, <2>2, <2>3, <2>4, <2>5
<1>4. QED
  BY <1>2, <1>3 DEF t, n

\* Two occurrences of a text that does not overlap itself do not overlap.
LEMMA Overlaps ==
  ASSUME NEW S, NEW s \in Seq(S), NEW q \in Seq(S), ~Text!OverlapsItself(q),
         NEW x \in Occurrences(s, q), NEW o \in Occurrences(s, q), x < o, o < x + Len(q)
  PROVE  FALSE
<1> DEFINE n == Len(q)  p == o - x  len == n - p
           t == SubSeq(q, 1, len)  u == SubSeq(q, n - len + 1, n)
<1>1. n \in Nat /\ x \in Nat /\ o \in Nat /\ (\A y \in 1 .. n : q[y] \in S)
  BY LenProperties, ElementOfSeq DEF Occurrences
<1>2. p \in 1 .. n - 1 /\ len \in 1 .. n - 1 /\ n - len = p /\ o = x + p /\ p + len = n
  BY <1>1
<1> HIDE DEF p, len, n
<1>3. \A y \in 1 .. n : s[x + y] = q[y] /\ s[o + y] = q[y]
  BY DEF Occurrences, Holds, n
<1>4. t \in Seq(S) /\ Len(t) = len /\ \A y \in 1 .. len : t[y] = q[y]
  <2>1. \A y \in 1 .. len : q[y] \in S
    BY <1>1, <1>2
  <2>2. 1 \in Int /\ len \in Int
    BY <1>2
  <2>3. /\ t \in Seq(S) /\ Len(t) = (IF 1 <= len THEN len - 1 + 1 ELSE 0)
        /\ \A y \in 1 .. len - 1 + 1 : t[y] = q[1 + y - 1]
    BY <2>1, <2>2, SubSeqProperties
  <2>4. len - 1 + 1 = len /\ 1 <= len /\ \A y \in 1 .. len : 1 + y - 1 = y
    BY <1>2
  <2> HIDE DEF t
  <2>5. QED
    BY <2>3, <2>4
<1>5. u \in Seq(S) /\ Len(u) = len /\ \A y \in 1 .. len : u[y] = q[p + y]
  <2>1. \A y \in n - len + 1 .. n : q[y] \in S
    BY <1>1, <1>2
  <2>2. n - len + 1 \in Int /\ n \in Int
    BY <1>1, <1>2
  <2>3. /\ u \in Seq(S)
        /\ Len(u) = (IF n - len + 1 <= n THEN n - (n - len + 1) + 1 ELSE 0)
        /\ \A y \in 1 .. n - (n - len + 1) + 1 : u[y] = q[(n - len + 1) + y - 1]
    BY <2>1, <2>2, SubSeqProperties
  <2>4. /\ n - (n - len + 1) + 1 = len /\ n - len + 1 <= n
        /\ \A y \in 1 .. len : (n - len + 1) + y - 1 = p + y
    BY <1>1, <1>2
  <2> HIDE DEF u
  <2>5. QED
    BY <2>3, <2>4
<1> HIDE DEF t, u
<1>6. ASSUME NEW y \in 1 .. len PROVE t[y] = u[y]
  <2>1. y \in 1 .. n /\ p + y \in 1 .. n /\ o + y = x + (p + y)
    BY <1>1, <1>2
  <2>2. q[y] = q[p + y]
    BY <1>3, <2>1
  <2>3. QED
    BY <1>4, <1>5, <2>2
<1>7. t = u
  BY <1>4, <1>5, <1>6, SeqEqual
<1>8. QED
  BY <1>2, <1>7, Zenon DEF Text!OverlapsItself, t, u, n

\* What of a match, or of anything that is n long, is between two positions.
Window(M, n, from, to) == {i \in M : i + n > from /\ i < to}

\* A part of the text from which no occurrence before it reaches into it.
Clear(s, q, range) ==
  /\ range.from \in Nat /\ range.to \in Nat /\ range.from < range.to /\ range.to <= Len(s)
  /\ \A x, o \in Occurrences(s, q) :
       o + Len(q) > range.from /\ o < range.to /\ x < o /\ o < x + Len(q) => x + Len(q) > range.from

\* What the editor shows, in lower case.
Shown == Text!LowerCase(Text!Document)

\* It is as long as what the editor shows.
LEMMA ShownIs ==
  ASSUME Text!Document \in Seq(Characters), Text!KeepsLength(Text!Document)
  PROVE  /\ Shown \in Seq(Characters) /\ Len(Shown) = Len(Text!Document)
         /\ \A i \in 1 .. Len(Shown) : Text!Document[i] = Text!Newline => Shown[i] = Text!Newline
<1>1. Characters \in Alphabets
  BY DEF Alphabets
<1>2. Shown \in Seq(Characters)
  BY <1>1, LowerIsTyped, Zenon DEF Shown
<1>3. AsLong(Text!Document)
  BY LowerIs
<1>4. Text!Lowered(Text!Newline)[1] = Text!Newline
  BY TextAssumption DEF Text!Lowered
<1>5. QED
  BY <1>2, <1>3, <1>4, Zenon DEF AsLong, Shown

\* What the editor finds around a range with clear edges are the matches in it.
LEMMA MatchesInIs ==
  ASSUME NEW range, Text!Document \in Seq(Characters), Text!KeepsLength(Text!Document),
         Text!NormalizedQuery \in Seq(Characters),
         Text!NormalizedQuery # <<>> => Clear(Shown, Text!NormalizedQuery, range)
  PROVE  Text!MatchesIn(range) =
           Window(Text!MatchSet(Shown, Text!NormalizedQuery), Len(Text!NormalizedQuery), range.from, range.to)
<1> DEFINE s == Shown
           q == Text!NormalizedQuery
           n == Len(q)
           N == Len(s)
           from == range.from
           to == range.to
           D == Len(Text!Document)
           F == IF from - n + 1 > 0 THEN from - n + 1 ELSE 0
           E == IF to + n - 1 < D THEN to + n - 1 ELSE D
           there == Text!MatchSet(Text!LowerCase(Text!Slice(Text!Document, F, E)), q)
           M == Text!MatchSet(s, q)
<1>1. Text!MatchesIn(range) = {i \in {F + k : k \in there} : i + n > from /\ i < to}
  BY Zenon DEF Text!MatchesIn
<1>2. CASE q = <<>>
  <2>1. there = {} /\ M = {}
    BY <1>2 DEF Text!MatchSet
  <2> HIDE DEF there, M
  <2>2. QED
    BY <1>1, <2>1 DEF Window, M
<1>4. s \in Seq(Characters) /\ D = N
  BY ShownIs
<1>3. CASE q # <<>>
  <2> DEFINE O == Occurrences(s, q)
             P == {o \in O : o + n > from /\ o < to}
             A == {F + k : k \in there}
  <2>1. /\ n \in Nat \ {0} /\ N \in Nat /\ O \in SUBSET Nat
        /\ \A o \in O : o + n <= N
    BY <1>3, <1>4, LenProperties, EmptySeq DEF Occurrences, Holds
  <2>2. from \in Nat /\ to \in Nat /\ from < to /\ to <= N
    BY <1>3 DEF Clear
  <2>3. F \in Nat /\ E \in Nat /\ F <= E /\ E <= N
    <3> HIDE DEF D
    <3>1. QED
      BY <1>4, <2>1, <2>2
  <2>4. \A o \in O : o \in P <=> F <= o /\ o + n <= E
    <3> HIDE DEF D, O
    <3>1. QED
      BY <1>4, <2>1, <2>2
  <2>5. \A x, o \in O : x < o /\ o < x + n /\ o \in P => x \in P
    <3>1. \A x, o \in O : o + n > from /\ o < to /\ x < o /\ o < x + n => x + n > from
      BY <1>3, Zenon DEF Clear
    <3>2. \A x, o \in O : x < o /\ o < to => x < to
      BY <2>1, <2>2
    <3>3. QED
      BY <3>1, <3>2
  <2>6. Picks(M, O, n)
    BY <1>3, <1>4, MatchesArePicked
  <2>7. Picks(M \cap P, P, n)
    <3>1. P \in SUBSET O
      OBVIOUS
    <3>2. \A x \in O, o \in P : x < o /\ o < x + n => x \in P
      BY <2>5
    <3> HIDE DEF P, O, M, n
    <3>3. QED
      BY <2>6, <3>1, <3>2, PicksPart
  <2>8. Text!Slice(s, F, E) \in Seq(Characters) /\ \A k \in Nat :
          k \in Occurrences(Text!Slice(s, F, E), q) <=> F + k \in O /\ F + k + n <= E
    <3> HIDE DEF F, E, s
    <3>1. QED
      BY <1>4, <2>3, SliceIs
  <2> DEFINE R == Occurrences(Text!Slice(s, F, E), q)
  <2>9. Picks(there, R, n)
    <3>1. there = Text!MatchSet(Text!Slice(s, F, E), q)
      <4> HIDE DEF F, E
      <4>1. E <= D
        BY <1>4, <2>3
      <4>2. Text!LowerCase(Text!Slice(Text!Document, F, E)) = Text!Slice(s, F, E)
        BY <2>3, <4>1, LowerOfSlice, Zenon DEF Shown
      <4>3. QED
        BY <4>2, Zenon
    <3>2. Picks(Text!MatchSet(Text!Slice(s, F, E), q), R, n)
      BY <1>3, <2>8, MatchesArePicked
    <3>3. QED
      BY <3>1, <3>2
  <2>10. R \in SUBSET Nat
    BY DEF Occurrences
  <2> HIDE DEF F, E, there, M, O, R, n
  <2>11. A \subseteq P
    <3>1. ASSUME NEW k \in there PROVE F + k \in P
      <4>1. k \in R /\ k \in Nat
        BY <2>9, <2>10 DEF Picks
      <4>2. F + k \in O /\ F + k + n <= E
        BY <2>8, <4>1 DEF R, O, n
      <4>3. QED
        BY <2>3, <2>4, <4>1, <4>2
    <3>2. QED
      BY <3>1
  <2>12. ASSUME NEW o \in P PROVE o - F \in R /\ o - F \in Nat /\ F + (o - F) = o
    <3>1. o \in O /\ o \in Nat /\ F <= o /\ o + n <= E
      BY <2>1, <2>4
    <3>2. o - F \in Nat /\ F + (o - F) = o
      BY <2>3, <3>1
    <3>3. QED
      BY <2>8, <3>1, <3>2 DEF R, O, n
  <2>13. \A i : i \in A <=> \E k \in there : i = F + k
    OBVIOUS
  <2>14. \A k \in Nat : F + k \in A <=> k \in there
    <3>1. there \subseteq Nat
      BY <2>9, <2>10 DEF Picks
    <3>2. \A k, l \in Nat : F + k = F + l => k = l
      BY <2>3
    <3>3. QED
      BY <2>13, <3>1, <3>2
  <2> HIDE DEF A
  <2>15. ASSUME NEW o \in P PROVE o \in A <=> \A x \in A : ~(x < o /\ o < x + n)
    <3> DEFINE l == o - F
    <3>1. l \in R /\ l \in Nat /\ F + l = o
      BY <2>12
    <3> HIDE DEF l
    <3>2. o \in A <=> l \in there
      BY <2>14, <3>1
    <3>3. l \in there <=> \A k \in there : ~(k < l /\ l < k + n)
      BY <2>9, <3>1 DEF Picks
    <3>4. \A k \in Nat : (k < l /\ l < k + n) <=> (F + k < o /\ o < F + k + n)
      BY <2>1, <2>3, <3>1
    <3>5. there \subseteq Nat
      BY <2>9, <2>10 DEF Picks
    <3>6. (\A k \in there : ~(k < l /\ l < k + n)) <=> (\A k \in there : ~(F + k < o /\ o < F + k + n))
      BY <3>4, <3>5
    <3>7. (\A k \in there : ~(F + k < o /\ o < F + k + n)) <=> \A x \in A : ~(x < o /\ o < x + n)
      BY <2>13
    <3>8. QED
      BY <3>2, <3>3, <3>6, <3>7
  <2>16. Picks(A, P, n)
    BY <2>11, <2>15 DEF Picks
  <2>17. A = M \cap P
    <3>1. P \in SUBSET Nat
      BY <2>1
    <3> HIDE DEF P
    <3>2. QED
      BY <2>1, <2>7, <2>16, <3>1, PicksOnce
  <2>18. M \subseteq O
    BY <2>6 DEF Picks
  <2>19. {i \in A : i + n > from /\ i < to} = {i \in M : i + n > from /\ i < to}
    BY <2>17, <2>18
  <2>20. QED
    BY <1>1, <2>19, Zenon DEF Window, M, A, n
<1>5. QED
  BY <1>2, <1>3

\* Lines end in the text.
LEMMA LineEndsAre ==
  ASSUME NEW S, Text!Document \in Seq(S)
  PROVE  Text!LineEnds \subseteq 0 .. Len(Text!Document)
<1>1. \A i \in Text!LineStarts \ {0} : i \in 1 .. Len(Text!Document)
  BY Zenon DEF Text!LineStarts
<1>2. \A e \in Text!LineEnds : e = Len(Text!Document) \/ \E i \in Text!LineStarts \ {0} : e = i - 1
  BY Zenon DEF Text!LineEnds
<1>3. Len(Text!Document) \in Nat
  BY LenProperties
<1>4. QED
  BY <1>1, <1>2, <1>3

\* What is in view is clear.
LEMMA ViewIsClear ==
  ASSUME NEW q \in Seq(Characters), q = Text!NormalizedQuery, q # <<>>,
         Text!Document \in Seq(Characters), Text!KeepsLength(Text!Document),
         Text!Newline \notin ToSet(q),
         NEW range, range.from \in 0 .. Len(Text!Document), range.to \in Text!LineEnds,
         range.from < range.to, range.from \in Text!LineStarts \/ ~Text!OverlapsItself(q)
  PROVE  Clear(Shown, q, range)
<1> DEFINE s == Shown  N == Len(s)  n == Len(q)  O == Occurrences(s, q)
           from == range.from  to == range.to
<1>1. N \in Nat /\ n \in Nat \ {0} /\ O \in SUBSET Nat /\ s \in Seq(Characters)
      /\ N = Len(Text!Document)
  BY ShownIs, LenProperties, EmptySeq DEF Occurrences
<1>2. from \in Nat /\ to \in Nat /\ to <= N
  BY <1>1, LineEndsAre
<1>3. ASSUME NEW x \in O, NEW o \in O, o + n > from, o < to, x < o, o < x + n
      PROVE  x + n > from
  <2>1. x \in Nat /\ o \in Nat
    BY <1>1
  <2>2. CASE ~Text!OverlapsItself(q)
    BY <1>1, <1>3, <2>2, Overlaps
  <2>3. CASE from = 0
    BY <1>1, <2>1, <2>3
  <2>4. CASE from # 0 /\ from \in Text!LineStarts
    <3>1. from \in 1 .. N /\ s[from] = Text!Newline
      <4>1. from \in 1 .. N /\ Text!Document[from] = Text!Newline
        BY <1>1, <2>4 DEF Text!LineStarts
      <4>2. QED
        BY <4>1, ShownIs
    <3>2. SUFFICES ASSUME x + n <= from PROVE FALSE
      BY <1>1, <1>2, <2>1
    <3>3. o < from /\ from - o \in 1 .. n /\ o + (from - o) = from
      BY <1>1, <1>2, <1>3, <2>1, <3>2
    <3>4. \A y \in 1 .. n : s[o + y] = q[y]
      BY <1>3 DEF Occurrences, Holds
    <3>5. q[from - o] = Text!Newline
      BY <3>1, <3>3, <3>4
    <3>6. q[from - o] \in ToSet(q)
      <4>1. from - o \in DOMAIN q
        BY <3>3, LenProperties
      <4>2. QED
        BY <4>1, Zenon DEF ToSet
    <3>7. QED
      BY <3>5, <3>6
  <2>5. QED
    BY <2>2, <2>3, <2>4
<1>4. QED
  BY <1>1, <1>2, <1>3, Zenon DEF Clear

\* What is added range by range.
Adds(A, visible) ==
  /\ A[0] = {}
  /\ \A k \in 1 .. Len(visible) :
       A[k] = A[k - 1] \cup {i \in Text!MatchesIn(visible[k]) : i > Text!Greatest(A[k - 1])}

\* Each range adds the matches in it that are behind those marked so far.
LEMMA AddedIs ==
  ASSUME NEW visible, Len(visible) \in Nat,
         \A k \in 1 .. Len(visible) : Text!MatchesIn(visible[k]) \subseteq Nat
  PROVE  Adds(Text!Added(visible), visible)
<1> DEFINE N == Len(visible)
           V == SUBSET Nat
           more(v, k) == v \cup {i \in Text!MatchesIn(visible[k]) : i > Text!Greatest(v)}
           step == [x \in V \X (1 .. N) |-> more(x[1], x[2])]
<1>1. N \in Nat /\ {} \in V
  OBVIOUS
<1>2. \A v \in V, k \in 1 .. N : more(v, k) \in V
  OBVIOUS
<1> HIDE DEF N, V, more
<1>3. step \in [V \X (1 .. N) -> V] /\ \A v \in V, k \in 1 .. N : step[<<v, k>>] = more(v, k)
  BY <1>2
<1> HIDE DEF step
<1>4. PICK f : Iterates(f, N, V, {}, step)
  BY <1>1, <1>3, Recursion, Zenon
<1>5. f \in [0 .. N -> V] /\ f[0] = {} /\ \A k \in 1 .. N : f[k] = step[<<f[k - 1], k>>]
  BY <1>4 DEF Iterates
<1>6. \A k \in 1 .. N : f[k - 1] \in V
  BY <1>1, <1>5
<1>7. \A k \in 0 .. N : f[k] = IF k = 0 THEN {} ELSE more(f[k - 1], k)
  <2>1. \A k \in 0 .. N : k # 0 => k \in 1 .. N
    BY <1>1
  <2>2. QED
    BY <1>3, <1>5, <1>6, <2>1, Zenon
<1>8. f = [k \in 0 .. N |-> IF k = 0 THEN {} ELSE more(f[k - 1], k)]
  BY <1>5, <1>7, Zenon
<1> DEFINE g == Text!Added(visible)
<1>9. g = [k \in 0 .. N |-> IF k = 0 THEN {} ELSE more(g[k - 1], k)]
  BY <1>8, Zenon DEF Text!Added, N, more
<1> HIDE DEF g
<1>10. \A k \in 0 .. N : g[k] = IF k = 0 THEN {} ELSE more(g[k - 1], k)
  BY <1>9
<1>11. g[0] = {} /\ \A k \in 1 .. N : g[k] = more(g[k - 1], k)
  BY <1>1, <1>10
<1>12. QED
  BY <1>11, Zenon DEF Adds, g, more, N

\* What the editor shows are the characters of the text.
LEMMA DocumentIsTyped == FindTyped => Text!Document \in Seq(Characters)
<1> DEFINE s == source.raw
           piece(i) == IF s[i] = Text!Return THEN <<Text!Newline>>
                       ELSE IF s[i] = Text!Newline /\ i > 1 /\ s[i - 1] = Text!Return THEN <<>>
                       ELSE <<s[i]>>
           d == [i \in DOMAIN s |-> piece(i)]
<1>1. SUFFICES ASSUME FindTyped PROVE Text!Document \in Seq(Characters)
  OBVIOUS
<1>2. s \in Seq(Characters)
  BY <1>1, LowerOfString DEF FindTyped
<1>3. Len(s) \in Nat /\ DOMAIN s = 1 .. Len(s) /\ \A i \in 1 .. Len(s) : s[i] \in Characters
  BY <1>2, LenProperties, ElementOfSeq
<1>4. <<>> \in Seq(Characters) /\ \A c \in Characters : <<c>> \in Seq(Characters)
  OBVIOUS
<1>5. Text!Newline \in Characters
  BY Zenon DEF Characters
<1>6. Text!Document = Text!FlattenSeq(d)
  BY Zenon DEF Text!Document
<1>7. \A i \in 1 .. Len(s) : piece(i) \in Seq(Characters)
  BY <1>3, <1>4, <1>5, Zenon
<1> HIDE DEF s, piece
<1>8. d \in [1 .. Len(s) -> Seq(Characters)]
  BY <1>3, <1>7
<1>9. d \in Seq(Seq(Characters))
  BY <1>3, <1>8, SeqFrom, Zenon
<1> HIDE DEF d
<1>10. QED
  BY <1>6, <1>9, FlattenIs, Zenon

\* A query is one line, in lower case too.
LEMMA QueryIsLine == FindTyped => Text!Newline \notin ToSet(Text!NormalizedQuery)
<1> DEFINE A == Characters \ {Text!Newline}  s == Text!ActiveQuery  q == Text!NormalizedQuery
<1>1. SUFFICES ASSUME FindTyped PROVE Text!Newline \notin ToSet(q)
  OBVIOUS
<1>2. Text!Newline \notin ToSet(s) /\ s \in Seq(Characters)
  <2>1. s = <<>> \/ s \in Needles
    BY <1>1 DEF Text!ActiveQuery, FindTyped
  <2>2. ToSet(<<>>) = {}
    BY DEF ToSet
  <2>3. s \in Seq(STRING)
    BY <1>1, SearchIsTyped
  <2>4. Text!Newline \notin ToSet(s)
    BY <2>1, <2>2, TextAssumption, Zenon
  <2>5. QED
    BY <2>3, <2>4, LowerOfString
<1> HIDE DEF s
<1>3. Len(s) \in Nat /\ DOMAIN s = 1 .. Len(s) /\ s \in [1 .. Len(s) -> Characters]
  BY <1>2
<1>4. ASSUME NEW i \in 1 .. Len(s) PROVE s[i] \in A
  <2>1. s[i] \in ToSet(s)
    BY <1>3, Zenon DEF ToSet
  <2>2. QED
    BY <1>2, <1>3, <2>1
<1>5. s \in Seq(A)
  <2>1. s \in [1 .. Len(s) -> A]
    BY <1>3, <1>4
  <2> HIDE DEF A
  <2>2. QED
    BY <1>3, <2>1, SeqFrom, Zenon
<1>6. q \in Seq(A)
  <2>1. A \in Alphabets
    BY DEF Alphabets
  <2>2. Text!LowerCase(s) \in Seq(A)
    BY <1>5, <2>1, LowerIsTyped, Zenon
  <2>3. QED
    BY <2>2, Zenon DEF Text!NormalizedQuery, s
<1> HIDE DEF q
<1>7. \A i \in DOMAIN q : q[i] \in A
  <2> HIDE DEF A
  <2>1. DOMAIN q = 1 .. Len(q) /\ \A i \in 1 .. Len(q) : q[i] \in A
    BY <1>6, LenProperties, ElementOfSeq, Zenon
  <2>2. QED
    BY <2>1
<1>8. QED
  BY <1>7, Zenon DEF ToSet

\* What is marked are the matches in view.
LEMMA MarksAre ==
  ASSUME FindTyped, Text!KeepsLength(Text!Document), NEW view \in Text!Views
  PROVE  Text!Marks(view) =
           {i \in Text!MatchSet(Shown, Text!NormalizedQuery) : Text!InView(i, view)}
<1> DEFINE s == Shown  q == Text!NormalizedQuery  n == Len(q)  M == Text!MatchSet(s, q)
           ranges == {r \in [from : 0 .. Len(Text!Document), to : Text!LineEnds] :
             r.from < r.to /\ (r.from \in Text!LineStarts \/ ~Text!OverlapsItself(Text!NormalizedQuery))}
           in(r) == Window(M, n, r.from, r.to)
<1>1. s \in Seq(Characters) /\ q \in Seq(Characters) /\ Text!Document \in Seq(Characters)
      /\ \A i : Text!InView(i, view) <=>
                  \E range \in Text!ToSet(view) : i + n > range.from /\ i < range.to
  BY DocumentIsTyped, ShownIs, SearchIsTyped, Zenon DEF Text!InView
<1>2. Text!Newline \notin ToSet(q)
  BY QueryIsLine
<1>3. n \in Nat /\ M \subseteq Nat
  <2>1. CASE q = <<>>
    <3>1. M = {} /\ n = 0
      BY <2>1, EmptySeq DEF Text!MatchSet
    <3>2. QED
      BY <3>1
  <2>2. CASE q # <<>>
    <3>1. M \subseteq Occurrences(s, q)
      BY <1>1, <2>2, MatchesArePicked DEF Picks
    <3>2. Occurrences(s, q) \subseteq Nat /\ n \in Nat
      BY <1>1, LenProperties DEF Occurrences
    <3>3. QED
      BY <3>1, <3>2
  <2>3. QED
    BY <2>1, <2>2
<1>4. ASSUME NEW r \in ranges PROVE Text!MatchesIn(r) = in(r)
  <2>1. /\ r.from \in 0 .. Len(Text!Document) /\ r.to \in Text!LineEnds /\ r.from < r.to
        /\ r.from \in Text!LineStarts \/ ~Text!OverlapsItself(q)
    OBVIOUS
  <2>2. q # <<>> => Clear(s, q, r)
    BY <1>1, <1>2, <2>1, ViewIsClear
  <2>3. QED
    BY <1>1, <2>2, MatchesInIs
<1>5. \A r \in ranges : r.from \in Nat /\ r.to \in Nat /\ r.from < r.to
  <2>1. \A r \in ranges :
          r.from \in 0 .. Len(Text!Document) /\ r.to \in Text!LineEnds /\ r.from < r.to
    OBVIOUS
  <2>2. Len(Text!Document) \in Nat /\ Text!LineEnds \subseteq 0 .. Len(Text!Document)
    BY <1>1, LenProperties, LineEndsAre
  <2> HIDE DEF ranges
  <2>3. ASSUME NEW r \in ranges PROVE r.from \in Nat /\ r.to \in Nat /\ r.from < r.to
    <3>1. r.from \in 0 .. Len(Text!Document) /\ r.to \in 0 .. Len(Text!Document) /\ r.from < r.to
      BY <2>1, <2>2
    <3>2. QED
      BY <2>2, <3>1
  <2>4. QED
    BY <2>3
<1>6. \A r : in(r) = {i \in M : i + n > r.from /\ i < r.to}
  BY Zenon DEF Window
<1>7. (\E r \in ranges : view = <<r>>)
        \/ \E r, t \in ranges : view = <<r, t>> /\ r.to < t.from
  <2>1. view \in {<<r>> : r \in ranges} \/ view \in {v \in ranges \X ranges : v[1].to < v[2].from}
    BY Zenon DEF Text!Views
  <2> HIDE DEF ranges
  <2>2. QED
    BY <2>1
<1>8. Text!Greatest({}) = -1
  BY DEF Text!Greatest
<1> DEFINE A == Text!Added(view)
<1> HIDE DEF ranges, in, A, M
<1>9. CASE \E r \in ranges : view = <<r>>
  <2>1. PICK r \in ranges : view = <<r>>
    BY <1>9
  <2>2. Len(view) = 1 /\ view[1] = r
    BY <2>1
  <2>3. in(r) \subseteq Nat
    BY <1>3, <1>6
  <2>4. \A k \in 1 .. Len(view) : Text!MatchesIn(view[k]) \subseteq Nat
    BY <1>4, <2>1, <2>2, <2>3
  <2>5. A[0] = {} /\ \A k \in 1 .. Len(view) : A[k] = A[k - 1] \cup
          {i \in Text!MatchesIn(view[k]) : i > Text!Greatest(A[k - 1])}
    <3>1. Len(view) \in Nat
      BY <2>2
    <3>2. Adds(A, view)
      BY <2>4, <3>1, AddedIs DEF A
    <3>3. QED
      BY <3>2, Zenon DEF Adds
  <2>6. A[1] = {i \in in(r) : i > -1}
    BY <1>4, <1>8, <2>2, <2>5
  <2>7. A[1] = in(r)
    BY <2>3, <2>6
  <2>8. Text!ToSet(view) = {r}
    BY <2>1 DEF Text!ToSet
  <2>9. Text!Marks(view) = in(r)
    BY <2>2, <2>7, Zenon DEF Text!Marks, A
  <2>10. \A i : Text!InView(i, view) <=> i + n > r.from /\ i < r.to
    BY <1>1, <2>8, Zenon
  <2>11. QED
    BY <1>6, <2>9, <2>10, Zenon DEF M
<1>10. CASE \E r, t \in ranges : view = <<r, t>> /\ r.to < t.from
  <2>1. PICK r \in ranges, t \in ranges : view = <<r, t>> /\ r.to < t.from
    BY <1>10
  <2>2. Len(view) = 2 /\ view[1] = r /\ view[2] = t
    BY <2>1
  <2>3. in(r) \subseteq Nat /\ in(t) \subseteq Nat
    BY <1>3, <1>6
  <2>4. \A k \in 1 .. Len(view) : Text!MatchesIn(view[k]) \subseteq Nat
    BY <1>4, <2>1, <2>2, <2>3
  <2>5. A[0] = {} /\ \A k \in 1 .. Len(view) : A[k] = A[k - 1] \cup
          {i \in Text!MatchesIn(view[k]) : i > Text!Greatest(A[k - 1])}
    <3>1. Len(view) \in Nat
      BY <2>2
    <3>2. Adds(A, view)
      BY <2>4, <3>1, AddedIs DEF A
    <3>3. QED
      BY <3>2, Zenon DEF Adds
  <2>6. A[1] = {i \in in(r) : i > -1}
    BY <1>4, <1>8, <2>2, <2>5
  <2>7. A[1] = in(r)
    BY <2>3, <2>6
  <2>8. A[2] = in(r) \cup {i \in in(t) : i > Text!Greatest(in(r))}
    BY <1>4, <2>2, <2>5, <2>7
  <2>9. ASSUME NEW i \in in(t), ~(i > Text!Greatest(in(r))) PROVE i \in in(r)
    <3> DEFINE x == Text!Greatest(in(r))
    <3>1. i \in M /\ i \in Nat /\ i + n > t.from
      BY <1>3, <1>6
    <3>2. in(r) # {}
      <4>1. in(r) = {} => x = -1
        BY <1>8, Zenon
      <4>2. ~(i > x)
        BY <2>9
      <4> HIDE DEF x
      <4>3. QED
        BY <3>1, <4>1, <4>2
    <3>3. x = CHOOSE y \in in(r) : \A k \in in(r) : k <= y
      BY <3>2, Zenon DEF Text!Greatest
    <3>4. \E y \in in(r) : \A k \in in(r) : k <= y
      <4>1. \A y \in in(r) : y < r.to
        BY <1>6
      <4> DEFINE T == {d \in Nat : \E y \in in(r) : r.to - y = d}
      <4>2. r.to \in Int
        BY <1>5, <2>1
      <4>3. T # {}
        BY <2>3, <3>2, <4>1, <4>2
      <4>4. PICK d \in T : \A k \in T : d <= k
        BY <4>3, SmallestOf
      <4>5. QED
        BY <2>3, <4>1, <4>2, <4>4
    <3> HIDE DEF x
    <3>5. x \in in(r)
      BY <3>3, <3>4
    <3>6. x \in Nat /\ x < r.to /\ i <= x
      <4>1. ~(i > x)
        BY <2>9 DEF x
      <4>2. QED
        BY <1>6, <2>3, <3>1, <3>5, <4>1
    <3>7. r.from \in Nat /\ r.to \in Nat /\ r.from < r.to /\ t.from \in Nat /\ r.to < t.from
      BY <1>5, <2>1
    <3>8. i < r.to /\ i + n > r.from
      BY <3>1, <3>6, <3>7
    <3>9. QED
      BY <1>6, <3>1, <3>8
  <2>10. A[2] = in(r) \cup in(t)
    BY <2>8, <2>9
  <2>11. Text!ToSet(view) = {r, t}
    BY <2>1 DEF Text!ToSet
  <2>12. Text!Marks(view) = in(r) \cup in(t)
    BY <2>2, <2>10, Zenon DEF Text!Marks, A
  <2>13. \A i : Text!InView(i, view) <=>
                 (i + n > r.from /\ i < r.to) \/ (i + n > t.from /\ i < t.to)
    BY <1>1, <2>11, Zenon
  <2>14. QED
    BY <1>6, <2>12, <2>13, Zenon DEF M
<1>11. QED
  BY <1>7, <1>9, <1>10

-----------------------------------------------------------------------------
(***************************************************************************)
(* Marking in a rendered text.                                             *)
(***************************************************************************)

\* Where a walk over rendered pieces can be.
Walkers ==
  [node : Nat \ {0}, offset : Nat, match : Nat \cup {-1},
   marks : SUBSET [from : Nat, to : Nat, current : BOOLEAN]]
Walks(w, node, offset, match, marks) ==
  w \in Walkers /\ w.node = node /\ w.offset = offset /\ w.match = match /\ w.marks = marks

\* What it marks of a match in the piece it is in.
MarkOf(match, offset, end) ==
  [from |-> IF match > offset THEN match ELSE offset,
   to |-> IF match + Len(Text!NormalizedQuery) < end THEN match + Len(Text!NormalizedQuery) ELSE end,
   current |-> match = findStart]

\* One step of the walk.
WalksOn(v, w, end) ==
  LET n == Len(Text!NormalizedQuery)
      marks == w.marks \cup {MarkOf(w.match, w.offset, end)}
  IN /\ w.match = -1 \/ w.match >= end => Walks(v, w.node + 1, end, w.match, w.marks)
     /\ w.match # -1 /\ w.match < end /\ w.match + n > end =>
          Walks(v, w.node + 1, end, w.match, marks)
     /\ w.match # -1 /\ w.match < end /\ w.match + n <= end =>
          Walks(v, w.node, w.offset, Text!IndexOf(Text!Searchable, Text!NormalizedQuery, w.match + n), marks)

\* What a step of the walk does, by where the match lies.
LEMMA WalkOnIs ==
  ASSUME NEW S, Text!Searchable \in Seq(S), Text!NormalizedQuery \in Seq(S), Text!NormalizedQuery # <<>>,
         NEW lengths, NEW w \in Walkers, lengths[w.node] \in Nat
  PROVE  WalksOn(Text!WalkOn(lengths, w), w, w.offset + lengths[w.node])
<1> DEFINE n == Len(Text!NormalizedQuery)
           end == w.offset + lengths[w.node]
           mark == MarkOf(w.match, w.offset, end)
           marks == w.marks \cup {mark}
           then == Text!IndexOf(Text!Searchable, Text!NormalizedQuery, w.match + n)
           next == [w EXCEPT !.node = @ + 1, !.offset = end]
           v == Text!WalkOn(lengths, w)
<1>1. n \in Nat /\ end \in Nat /\ w.node \in Nat \ {0} /\ w.offset \in Nat /\ w.match \in Nat \cup {-1}
      /\ w.marks \in SUBSET [from : Nat, to : Nat, current : BOOLEAN]
  BY LenProperties DEF Walkers
<1>2. v = IF w.match = -1 \/ w.match >= end THEN next
          ELSE IF w.match + n > end THEN [next EXCEPT !.marks = @ \cup {mark}]
          ELSE [w EXCEPT !.marks = @ \cup {mark}, !.match = then]
  BY Zenon DEF Text!WalkOn, MarkOf
<1>3. ASSUME w.match # -1 PROVE mark \in [from : Nat, to : Nat, current : BOOLEAN]
  <2>1. w.match \in Nat /\ (w.match = findStart) \in BOOLEAN
    BY <1>1, <1>3
  <2> HIDE DEF end
  <2>2. QED
    BY <1>1, <2>1 DEF MarkOf
<1>4. ASSUME w.match # -1 PROVE then \in Nat \cup {-1}
  <2>1. w.match + n \in Nat
    BY <1>1, <1>4
  <2>2. FirstFrom(Occurrences(Text!Searchable, Text!NormalizedQuery), w.match + n, then)
    BY <2>1, IndexOfIs
  <2>3. QED
    BY <2>2 DEF FirstFrom, Occurrences
<1> HIDE DEF n, mark, then, v
<1>5. Walks(next, w.node + 1, end, w.match, w.marks)
  <2>1. ASSUME NEW node \in Nat \ {0}, NEW offset \in Nat
        PROVE  Walks([w EXCEPT !.node = node, !.offset = offset], node, offset, w.match, w.marks)
    BY DEF Walks, Walkers
  <2>2. w.node + 1 \in Nat \ {0} /\ next = [w EXCEPT !.node = w.node + 1, !.offset = end]
    BY <1>1
  <2> HIDE DEF end, next
  <2>3. QED
    BY <1>1, <2>1, <2>2
<1>6. ASSUME w.match = -1 \/ w.match >= end PROVE WalksOn(v, w, end)
  <2>1. v = next
    BY <1>2, <1>6
  <2>2. ~(w.match # -1 /\ w.match < end)
    BY <1>1, <1>6
  <2> HIDE DEF end, next
  <2>3. QED
    BY <1>5, <2>1, <2>2 DEF WalksOn
<1>7. ASSUME w.match # -1 /\ ~(w.match >= end) /\ w.match + n > end PROVE WalksOn(v, w, end)
  <2>1. v = [next EXCEPT !.marks = @ \cup {mark}]
    BY <1>2, <1>7
  <2>2. Walks(v, w.node + 1, end, w.match, marks)
    <3> HIDE DEF end
    <3>1. marks \in SUBSET [from : Nat, to : Nat, current : BOOLEAN]
      BY <1>1, <1>3, <1>7
    <3> DEFINE more == next.marks \cup {mark}
    <3>2. more = marks
      BY <1>5 DEF Walks
    <3>3. v = [next EXCEPT !.marks = more]
      BY <2>1
    <3> HIDE DEF next, more, marks
    <3>4. QED
      BY <1>5, <3>1, <3>2, <3>3 DEF Walks, Walkers
  <2>3. ~(w.match = -1 \/ w.match >= end) /\ ~(w.match + n <= end)
    BY <1>1, <1>7
  <2> HIDE DEF end
  <2>4. QED
    BY <2>2, <2>3 DEF WalksOn, mark, n
<1>8. ASSUME w.match # -1 /\ ~(w.match >= end) /\ ~(w.match + n > end) PROVE WalksOn(v, w, end)
  <2>1. v = [w EXCEPT !.marks = @ \cup {mark}, !.match = then]
    BY <1>2, <1>8
  <2>2. Walks(v, w.node, w.offset, then, marks)
    <3> HIDE DEF end
    <3>1. marks \in SUBSET [from : Nat, to : Nat, current : BOOLEAN] /\ then \in Nat \cup {-1}
      BY <1>1, <1>3, <1>4, <1>8
    <3>2. v = [w EXCEPT !.marks = marks, !.match = then]
      BY <2>1
    <3> HIDE DEF marks
    <3>3. QED
      BY <3>1, <3>2 DEF Walks, Walkers
  <2>3. ~(w.match = -1 \/ w.match >= end) /\ ~(w.match + n > end)
    BY <1>8
  <2> HIDE DEF end
  <2>4. QED
    BY <2>2, <2>3 DEF WalksOn, mark, n, then
<1>9. WalksOn(v, w, end)
  BY <1>6, <1>7, <1>8
<1>10. QED
  BY <1>9 DEF v

\* Where the pieces of a text end.
OffsetsAt(O, lengths, K) ==
  O[0] = 0 /\ \A k \in 1 .. K : O[k - 1] \in Nat /\ O[k] \in Nat /\ O[k] = O[k - 1] + lengths[k]

\* The offsets of the pieces add up their lengths.
LEMMA OffsetsAre ==
  ASSUME NEW K \in Nat, NEW lengths \in [1 .. K -> Nat], Len(lengths) = K
  PROVE  OffsetsAt(Text!Offsets(lengths), lengths, K)
<1> DEFINE step == [x \in Nat \X (1 .. K) |-> x[1] + lengths[x[2]]]
           g == Text!Offsets(lengths)
<1>1. step \in [Nat \X (1 .. K) -> Nat] /\ \A v \in Nat, k \in 1 .. K : step[<<v, k>>] = v + lengths[k]
  OBVIOUS
<1> HIDE DEF step
<1>2. PICK f : Iterates(f, K, Nat, 0, step)
  BY <1>1, Recursion, Zenon
<1>3. f \in [0 .. K -> Nat] /\ f[0] = 0 /\ \A k \in 1 .. K : f[k] = step[<<f[k - 1], k>>]
  BY <1>2 DEF Iterates
<1>4. \A k \in 1 .. K : f[k - 1] \in Nat
  BY <1>3
<1>5. \A k \in 0 .. K : f[k] = IF k = 0 THEN 0 ELSE f[k - 1] + lengths[k]
  <2>1. \A k \in 0 .. K : k # 0 => k \in 1 .. K
    OBVIOUS
  <2>2. QED
    BY <1>1, <1>3, <1>4, <2>1, Zenon
<1>6. f = [k \in 0 .. K |-> IF k = 0 THEN 0 ELSE f[k - 1] + lengths[k]]
  BY <1>3, <1>5, Zenon
<1>7. g = [k \in 0 .. K |-> IF k = 0 THEN 0 ELSE g[k - 1] + lengths[k]]
  BY <1>6, Zenon DEF Text!Offsets
<1> HIDE DEF g
<1>8. g[0] = 0 /\ \A k \in 1 .. K : g[k] = g[k - 1] + lengths[k]
  <2>1. \A k \in 0 .. K : g[k] = IF k = 0 THEN 0 ELSE g[k - 1] + lengths[k]
    BY <1>7
  <2>2. 0 \in 0 .. K /\ \A k \in 1 .. K : k \in 0 .. K /\ k # 0
    OBVIOUS
  <2>3. QED
    BY <2>1, <2>2
<1> DEFINE T == {k \in Nat : k <= K => g[k] \in Nat}
<1>9. 0 \in T
  BY <1>8
<1>10. ASSUME NEW k \in Nat, k \in T PROVE k + 1 \in T
  <2>1. SUFFICES ASSUME k + 1 <= K PROVE g[k + 1] \in Nat
    OBVIOUS
  <2>2. k + 1 \in 1 .. K /\ (k + 1) - 1 = k /\ k <= K /\ lengths[k + 1] \in Nat
    BY <2>1
  <2>3. g[k] \in Nat
    BY <1>10, <2>2
  <2>4. g[k + 1] = g[k] + lengths[k + 1]
    BY <1>8, <2>2
  <2>5. QED
    BY <2>2, <2>3, <2>4
<1>11. Nat \subseteq T
  <2> HIDE DEF T
  <2>1. QED
    BY <1>9, <1>10, Induction
<1>12. ASSUME NEW k \in 1 .. K PROVE g[k - 1] \in Nat /\ g[k] \in Nat
  <2>1. k - 1 \in Nat /\ k \in Nat /\ k - 1 <= K /\ k <= K
    OBVIOUS
  <2>2. QED
    BY <1>11, <2>1
<1>13. QED
  BY <1>8, <1>12 DEF OffsetsAt, g

\* Where the walk is after each step.
WalkedBy(W, lengths, K, N) ==
  /\ W \in [0 .. 2 * N -> Walkers] /\ W[0] = Text!WalkStart
  /\ \A k \in 1 .. 2 * N : IF W[k - 1].node > K THEN W[k] = W[k - 1]
                           ELSE W[k] = Text!WalkOn(lengths, W[k - 1])

\* The walk is a sequence of such steps, until there is no piece left.
LEMMA WalkedIs ==
  ASSUME NEW S, Text!Searchable \in Seq(S), Text!NormalizedQuery \in Seq(S), Text!NormalizedQuery # <<>>,
         Text!LongestWalk = 2 * Len(Text!Searchable),
         NEW K \in Nat, NEW lengths \in [1 .. K -> Nat], Len(lengths) = K
  PROVE  WalkedBy(Text!Walked(lengths), lengths, K, Len(Text!Searchable))
<1> DEFINE N == Len(Text!Searchable)
           more(v) == IF v.node > K THEN v ELSE Text!WalkOn(lengths, v)
           step == [x \in Walkers \X (1 .. 2 * N) |-> more(x[1])]
           a == Text!WalkStart
           g == Text!Walked(lengths)
<1>1. N \in Nat /\ 2 * N \in Nat
  BY LenProperties
<1>2. a \in Walkers
  <2> DEFINE then == Text!IndexOf(Text!Searchable, Text!NormalizedQuery, 0)
  <2>1. FirstFrom(Occurrences(Text!Searchable, Text!NormalizedQuery), 0, then)
    BY IndexOfIs
  <2>2. then \in Nat \cup {-1}
    BY <2>1 DEF FirstFrom, Occurrences
  <2>3. a = [node |-> 1, offset |-> 0, match |-> then, marks |-> {}]
    BY Zenon DEF Text!WalkStart
  <2> HIDE DEF then, a
  <2>4. QED
    BY <2>2, <2>3 DEF Walkers
<1>3. ASSUME NEW v \in Walkers, ~(v.node > K) PROVE Text!WalkOn(lengths, v) \in Walkers
  <2> DEFINE end == v.offset + lengths[v.node]
  <2>1. v.node \in 1 .. K /\ v.offset \in Nat /\ v.match \in Nat \cup {-1}
    BY <1>3 DEF Walkers
  <2>2. lengths[v.node] \in Nat /\ end \in Nat
    BY <2>1
  <2>3. WalksOn(Text!WalkOn(lengths, v), v, end)
    BY <2>2, WalkOnIs
  <2>4. Len(Text!NormalizedQuery) \in Nat
    BY LenProperties
  <2> HIDE DEF end
  <2>5. \/ v.match = -1 \/ v.match >= end
        \/ v.match # -1 /\ v.match < end /\ v.match + Len(Text!NormalizedQuery) > end
        \/ v.match # -1 /\ v.match < end /\ v.match + Len(Text!NormalizedQuery) <= end
    BY <2>1, <2>2, <2>4
  <2>6. QED
    BY <2>3, <2>5, Zenon DEF WalksOn, Walks
<1>4. \A v \in Walkers : more(v) \in Walkers
  BY <1>3
<1> HIDE DEF N, more, a
<1>5. step \in [Walkers \X (1 .. 2 * N) -> Walkers]
      /\ \A v \in Walkers, k \in 1 .. 2 * N : step[<<v, k>>] = more(v)
  BY <1>4
<1> HIDE DEF step
<1>6. PICK f : Iterates(f, 2 * N, Walkers, a, step)
  BY <1>1, <1>2, <1>5, Recursion, Zenon
<1>7. f \in [0 .. 2 * N -> Walkers] /\ f[0] = a /\ \A k \in 1 .. 2 * N : f[k] = step[<<f[k - 1], k>>]
  BY <1>6 DEF Iterates
<1>8. \A k \in 1 .. 2 * N : f[k - 1] \in Walkers
  BY <1>1, <1>7
<1>9. \A k \in 0 .. 2 * N : f[k] = IF k = 0 THEN a ELSE more(f[k - 1])
  <2>1. \A k \in 0 .. 2 * N : k # 0 => k \in 1 .. 2 * N
    BY <1>1
  <2>2. QED
    BY <1>5, <1>7, <1>8, <2>1, Zenon
<1>10. f = [k \in 0 .. 2 * N |-> IF k = 0 THEN a ELSE more(f[k - 1])]
  BY <1>7, <1>9, Zenon
<1>11. g = [k \in 0 .. 2 * N |-> IF k = 0 THEN a ELSE more(g[k - 1])]
  <2>1. Text!LongestWalk = 2 * N
    BY DEF N
  <2>2. QED
    BY <1>10, <2>1, Zenon DEF Text!Walked, more, a
<1> HIDE DEF g
<1>12. g[0] = a /\ \A k \in 1 .. 2 * N : g[k] = more(g[k - 1])
  <2>1. \A k \in 0 .. 2 * N : g[k] = IF k = 0 THEN a ELSE more(g[k - 1])
    BY <1>11
  <2>2. 0 \in 0 .. 2 * N /\ \A k \in 1 .. 2 * N : k \in 0 .. 2 * N /\ k # 0
    BY <1>1
  <2>3. QED
    BY <2>1, <2>2
<1> DEFINE T == {k \in Nat : k <= 2 * N => g[k] \in Walkers}
<1>13. 0 \in T
  BY <1>2, <1>12
<1>14. ASSUME NEW k \in Nat, k \in T PROVE k + 1 \in T
  <2>1. SUFFICES ASSUME k + 1 <= 2 * N PROVE g[k + 1] \in Walkers
    OBVIOUS
  <2>2. k + 1 \in 1 .. 2 * N /\ (k + 1) - 1 = k /\ k <= 2 * N
    BY <1>1, <2>1
  <2>3. QED
    BY <1>4, <1>12, <1>14, <2>2
<1>15. Nat \subseteq T
  <2> HIDE DEF T
  <2>1. QED
    BY <1>13, <1>14, Induction
<1>16. g \in [0 .. 2 * N -> Walkers]
  <2>1. \A k \in 0 .. 2 * N : g[k] \in Walkers
    BY <1>1, <1>15
  <2>2. QED
    BY <1>11, <2>1
<1>17. QED
  BY <1>12, <1>16 DEF WalkedBy, g, N, a, more

\* What is marked, and what the first j matches reach: all of it, or, when it is
\* asked for, what belongs to the current match.
Counts(which, i) == which = "all" \/ i = findStart
MarkedAt(marks, which, x) ==
  \E mark \in marks : (which = "all" \/ mark.current) /\ mark.from <= x /\ x < mark.to
ReachedBy(m, n, j, which, x) ==
  \E k \in 0 .. j - 1 : Counts(which, m[k]) /\ m[k] <= x /\ x < m[k] + n

\* What another mark adds.
LEMMA MarkedMore ==
  ASSUME NEW marks, NEW match, NEW offset, NEW end, NEW which, NEW x
  PROVE  MarkedAt(marks \cup {MarkOf(match, offset, end)}, which, x) <=>
           \/ MarkedAt(marks, which, x)
           \/ /\ Counts(which, match)
              /\ (IF match > offset THEN match ELSE offset) <= x
              /\ x < IF match + Len(Text!NormalizedQuery) < end THEN match + Len(Text!NormalizedQuery) ELSE end
<1> DEFINE mark == MarkOf(match, offset, end)
<1>1. /\ mark.from = (IF match > offset THEN match ELSE offset)
      /\ mark.to = (IF match + Len(Text!NormalizedQuery) < end THEN match + Len(Text!NormalizedQuery) ELSE end)
  BY DEF MarkOf
<1>2. mark.current = (match = findStart)
  BY DEF MarkOf
<1> HIDE DEF mark
<1>3. mark.current <=> match = findStart
  BY <1>2
<1>4. MarkedAt(marks \cup {mark}, which, x) <=>
        MarkedAt(marks, which, x)
          \/ ((which = "all" \/ mark.current) /\ mark.from <= x /\ x < mark.to)
  BY Zenon DEF MarkedAt
<1>5. QED
  BY <1>1, <1>3, <1>4, Zenon DEF Counts, mark

\* What another match adds.
LEMMA ReachedMore ==
  ASSUME NEW m, NEW n, NEW j \in Nat, NEW which, NEW x
  PROVE  ReachedBy(m, n, j + 1, which, x) <=>
           ReachedBy(m, n, j, which, x) \/ (Counts(which, m[j]) /\ m[j] <= x /\ x < m[j] + n)
<1>1. \A k : k \in 0 .. (j + 1) - 1 <=> k \in 0 .. j - 1 \/ k = j
  OBVIOUS
<1>2. QED
  BY <1>1, Zenon DEF ReachedBy

\* What of a match, from y to y + n, is behind offset o or in the piece from there
\* to e is what of it is before e.
LEMMA PieceOfMatch ==
  ASSUME NEW y \in Nat, NEW n \in Nat, NEW o \in Nat, NEW e \in Nat, y < e, o < e, o < y + n
  PROVE  \A x \in Nat :
           ((y <= x /\ x < o) \/ ((IF y > o THEN y ELSE o) <= x /\ x < IF y + n < e THEN y + n ELSE e))
           <=> (y <= x /\ x < IF y + n < e THEN y + n ELSE e)
OBVIOUS

\* Where the walk is after k steps: j matches are marked, and of the next one what
\* was in the pieces before.
Progress(w, k, j, m, c, n, O, K) ==
  /\ j \in 0 .. c /\ w.node \in 1 .. K + 1 /\ (w.node = K + 1 \/ k = (w.node - 1) + j)
  /\ w.offset = O[w.node - 1] /\ w.match = m[j] /\ (j # c => m[j] + n > w.offset)
  /\ \A which, x : x \in Nat =>
       (MarkedAt(w.marks, which, x) <=>
          \/ ReachedBy(m, n, j, which, x)
          \/ j # c /\ Counts(which, m[j]) /\ m[j] <= x /\ x < w.offset)

\* A step of the walk makes progress: to the next piece or to the next match.
LEMMA ProgressOn ==
  ASSUME NEW m, NEW c \in Nat, NEW n \in Nat \ {0}, n = Len(Text!NormalizedQuery), NEW O, NEW K \in Nat,
         m[c] = -1,
         \A i \in 0 .. c - 1 : /\ m[i] \in Nat
                               /\ Text!IndexOf(Text!Searchable, Text!NormalizedQuery, m[i] + n) = m[i + 1],
         \A i \in 0 .. c - 1 : i + 1 # c => m[i] + n <= m[i + 1],
         NEW w \in Walkers, NEW v, NEW k \in Nat, NEW j, Progress(w, k, j, m, c, n, O, K), w.node <= K,
         O[w.node] \in Nat, w.offset < O[w.node], WalksOn(v, w, O[w.node])
  PROVE  \E i : Progress(v, k + 1, i, m, c, n, O, K)
<1> DEFINE end == O[w.node]
<1>1. /\ j \in 0 .. c /\ j \in Nat /\ w.node \in 1 .. K /\ k = (w.node - 1) + j
      /\ w.offset = O[w.node - 1] /\ w.offset \in Nat
      /\ w.match = m[j] /\ (j # c => m[j] + n > w.offset) /\ end \in Nat /\ w.offset < end
  BY DEF Progress, Walkers
<1>2. \A which, x : x \in Nat =>
        (MarkedAt(w.marks, which, x) <=>
           \/ ReachedBy(m, n, j, which, x)
           \/ j # c /\ Counts(which, m[j]) /\ m[j] <= x /\ x < w.offset)
  BY DEF Progress
<1>3. w.node + 1 \in 1 .. K + 1 /\ (w.node + 1) - 1 = w.node /\ k + 1 = w.node + j
  <2>1. w.node \in 1 .. K /\ j \in Nat /\ k = (w.node - 1) + j
    BY <1>1
  <2>2. QED
    BY <2>1
<1>4. j # c => j \in 0 .. c - 1 /\ m[j] \in Nat /\ m[j] # -1
  BY <1>1
<1> HIDE DEF end
<1>5. CASE w.match = -1 \/ w.match >= end
  <2>1. Walks(v, w.node + 1, end, w.match, w.marks)
    BY <1>5 DEF WalksOn, end
  <2>2. /\ v.node = w.node + 1 /\ v.offset = O[(w.node + 1) - 1] /\ v.match = m[j] /\ v.marks = w.marks
        /\ v.offset = end
    BY <1>1, <1>3, <2>1 DEF Walks, end
  <2>3. j # c => m[j] >= end /\ m[j] + n > end
    BY <1>1, <1>4, <1>5
  <2>4. ASSUME NEW which, NEW x, x \in Nat
        PROVE  MarkedAt(v.marks, which, x) <=>
                 \/ ReachedBy(m, n, j, which, x)
                 \/ j # c /\ Counts(which, m[j]) /\ m[j] <= x /\ x < v.offset
    <3>1. \A y, z, o \in Nat : y >= z /\ o < z => ~(y <= x /\ x < z) /\ ~(y <= x /\ x < o)
      BY <2>4
    <3>2. j # c => ~(m[j] <= x /\ x < end) /\ ~(m[j] <= x /\ x < w.offset)
      BY <1>1, <1>4, <2>3, <3>1, Zenon
    <3>3. QED
      BY <1>2, <2>2, <2>4, <3>2, Zenon
  <2>5. Progress(v, k + 1, j, m, c, n, O, K)
    BY <1>1, <1>3, <2>2, <2>3, <2>4 DEF Progress
  <2>6. QED
    BY <2>5
<1>6. CASE w.match # -1 /\ w.match < end
  <2> DEFINE marks == w.marks \cup {MarkOf(w.match, w.offset, end)}
  <2>1. j # c /\ j \in 0 .. c - 1 /\ m[j] \in Nat /\ m[j] < end /\ m[j] + n > w.offset
    <3>1. j # c
      BY <1>1, <1>6
    <3>2. QED
      BY <1>1, <1>4, <1>6, <3>1
  <2> DEFINE fromIt(x) == (IF m[j] > w.offset THEN m[j] ELSE w.offset) <= x
             inIt(x) == x < IF m[j] + n < end THEN m[j] + n ELSE end
  <2>2. ASSUME NEW which, NEW x, x \in Nat
        PROVE  MarkedAt(marks, which, x) <=>
                 \/ ReachedBy(m, n, j, which, x)
                 \/ Counts(which, m[j]) /\ ((m[j] <= x /\ x < w.offset) \/ (fromIt(x) /\ inIt(x)))
    <3>1. MarkedAt(marks, which, x) <=>
            \/ MarkedAt(w.marks, which, x)
            \/ /\ Counts(which, w.match)
               /\ (IF w.match > w.offset THEN w.match ELSE w.offset) <= x
               /\ x < IF w.match + Len(Text!NormalizedQuery) < end THEN w.match + Len(Text!NormalizedQuery) ELSE end
      BY MarkedMore, Zenon
    <3>2. MarkedAt(marks, which, x) <=>
            MarkedAt(w.marks, which, x) \/ (Counts(which, m[j]) /\ fromIt(x) /\ inIt(x))
      BY <1>1, <3>1, Zenon
    <3>3. MarkedAt(w.marks, which, x) <=>
            ReachedBy(m, n, j, which, x) \/ (Counts(which, m[j]) /\ m[j] <= x /\ x < w.offset)
      BY <1>2, <2>1, <2>2, Zenon
    <3> HIDE DEF marks, fromIt, inIt
    <3>4. QED
      BY <3>2, <3>3, Zenon
  <2> HIDE DEF marks
  <2>3. \A x \in Nat :
          ((m[j] <= x /\ x < w.offset) \/ (fromIt(x) /\ inIt(x))) <=> (m[j] <= x /\ inIt(x))
    <3>1. /\ m[j] \in Nat /\ n \in Nat /\ w.offset \in Nat /\ end \in Nat
          /\ m[j] < end /\ w.offset < end /\ w.offset < m[j] + n
      BY <1>1, <2>1
    <3>2. QED
      BY <3>1, PieceOfMatch
  <2>4. CASE m[j] + n > end
    <3>1. Walks(v, w.node + 1, end, w.match, marks)
      BY <1>1, <1>6, <2>1, <2>4 DEF WalksOn, end, marks
    <3>2. /\ v.node = w.node + 1 /\ v.offset = O[(w.node + 1) - 1] /\ v.match = m[j] /\ v.marks = marks
          /\ v.offset = end
      BY <1>1, <1>3, <3>1 DEF Walks, end
    <3>3. ASSUME NEW which, NEW x, x \in Nat
          PROVE  MarkedAt(v.marks, which, x) <=>
                   \/ ReachedBy(m, n, j, which, x)
                   \/ j # c /\ Counts(which, m[j]) /\ m[j] <= x /\ x < v.offset
      <4>1. ((m[j] <= x /\ x < w.offset) \/ (fromIt(x) /\ inIt(x))) <=> m[j] <= x /\ x < end
        <5>1. inIt(x) <=> x < end
          BY <1>1, <2>1, <2>4
        <5> HIDE DEF fromIt, inIt
        <5>2. QED
          BY <2>3, <3>3, <5>1, Zenon
      <4>2. MarkedAt(marks, which, x) <=>
              ReachedBy(m, n, j, which, x) \/ (Counts(which, m[j]) /\ m[j] <= x /\ x < end)
        BY <2>2, <3>3, <4>1, Zenon
      <4>3. QED
        BY <2>1, <3>2, <4>2, Zenon
    <3>4. Progress(v, k + 1, j, m, c, n, O, K)
      BY <1>1, <1>3, <2>4, <3>2, <3>3 DEF Progress
    <3>5. QED
      BY <3>4
  <2>5. CASE m[j] + n <= end
    <3>1. Walks(v, w.node, w.offset, m[j + 1], marks)
      BY <1>1, <1>6, <2>1, <2>5 DEF WalksOn, end, marks
    <3>2. v.node = w.node /\ v.offset = w.offset /\ v.match = m[j + 1] /\ v.marks = marks
      BY <3>1 DEF Walks
    <3>3. j + 1 \in 0 .. c /\ k + 1 = (w.node - 1) + (j + 1) /\ w.node \in 1 .. K + 1
      BY <1>1, <2>1
    <3>4. j + 1 # c => m[j + 1] > w.offset /\ m[j + 1] \in Nat /\ m[j + 1] + n > w.offset
      <4>1. SUFFICES ASSUME j + 1 # c
            PROVE  m[j + 1] > w.offset /\ m[j + 1] \in Nat /\ m[j + 1] + n > w.offset
        OBVIOUS
      <4>2. j + 1 \in 0 .. c - 1
        BY <2>1, <4>1
      <4>3. m[j + 1] \in Nat /\ m[j] + n <= m[j + 1]
        BY <2>1, <4>1, <4>2
      <4>4. \A x, y, z \in Nat : x > y /\ x <= z => z > y /\ z + n > y
        OBVIOUS
      <4>5. m[j] + n \in Nat
        BY <2>1
      <4>6. QED
        <5>1. w.offset \in Nat /\ m[j] + n > w.offset
          BY <1>1, <2>1
        <5>2. QED
          BY <4>3, <4>4, <4>5, <5>1
    <3>5. ASSUME NEW which, NEW x, x \in Nat
          PROVE  MarkedAt(v.marks, which, x) <=>
                   \/ ReachedBy(m, n, j + 1, which, x)
                   \/ j + 1 # c /\ Counts(which, m[j + 1]) /\ m[j + 1] <= x /\ x < v.offset
      <4>1. ((m[j] <= x /\ x < w.offset) \/ (fromIt(x) /\ inIt(x))) <=> m[j] <= x /\ x < m[j] + n
        <5>1. inIt(x) <=> x < m[j] + n
          <6>1. m[j] + n \in Nat /\ end \in Nat /\ m[j] + n <= end
            BY <1>1, <2>1, <2>5
          <6>2. \A y, z \in Nat : y <= z => (x < (IF y < z THEN y ELSE z) <=> x < y)
            BY <3>5
          <6>3. QED
            BY <6>1, <6>2, Zenon
        <5> HIDE DEF fromIt, inIt
        <5>2. QED
          BY <2>3, <3>5, <5>1, Zenon
      <4>2. MarkedAt(marks, which, x) <=>
              ReachedBy(m, n, j, which, x) \/ (Counts(which, m[j]) /\ m[j] <= x /\ x < m[j] + n)
        BY <2>2, <3>5, <4>1, Zenon
      <4>3. MarkedAt(marks, which, x) <=> ReachedBy(m, n, j + 1, which, x)
        BY <1>1, <4>2, ReachedMore, Zenon
      <4>4. j + 1 # c => ~(m[j + 1] <= x /\ x < w.offset)
        BY <1>1, <3>4, <3>5
      <4>5. QED
        BY <3>2, <4>3, <4>4
    <3>6. Progress(v, k + 1, j + 1, m, c, n, O, K)
      BY <1>1, <3>2, <3>3, <3>4, <3>5 DEF Progress
    <3>7. QED
      BY <3>6
  <2>6. QED
    BY <1>1, <2>1, <2>4, <2>5
<1>7. QED
  <2>1. w.match = -1 \/ w.match \in Nat
    BY <1>1, <1>4
  <2>2. QED
    BY <1>1, <1>5, <1>6, <2>1

\* What is marked in a rendered text is what its matches reach.
LEMMA RenderedIs ==
  ASSUME NEW S, Text!Searchable \in Seq(S), Text!NormalizedQuery \in Seq(S), Text!NormalizedQuery # <<>>,
         Text!LongestWalk = 2 * Len(Text!Searchable),
         NEW c \in Nat, Matched(Text!Searchable, Text!NormalizedQuery, S, c),
         NEW lengths \in Text!Cuts(Len(Text!Searchable))
  PROVE  /\ Text!RenderedMarks(lengths) \in SUBSET [from : Nat, to : Nat, current : BOOLEAN]
         /\ \A which, x : x \in Nat =>
              (MarkedAt(Text!RenderedMarks(lengths), which, x) <=>
                 ReachedBy(Text!MatchList(Text!Searchable, Text!NormalizedQuery), Len(Text!NormalizedQuery),
                           c, which, x))
<1> DEFINE s == Text!Searchable  q == Text!NormalizedQuery  N == Len(s)  n == Len(q)
           m == Text!MatchList(s, q)
           O == Text!Offsets(lengths)
           W == Text!Walked(lengths)
           K == Len(lengths)
           all == Occurrences(s, q)
<1>1. N \in Nat /\ n \in Nat \ {0} /\ all \in SUBSET Nat /\ \A o \in all : o + n <= N
  BY LenProperties, EmptySeq DEF Occurrences, Holds
<1>2. Chain(m, all, n, c) /\ c <= N
  BY DEF Matched
<1>3. K \in Nat /\ K <= N /\ lengths \in [1 .. K -> 1 .. N] /\ O[K] = N
  <2>1. PICK k \in 0 .. N : lengths \in [1 .. k -> 1 .. N]
    BY DEF Text!Cuts
  <2>2. K = k
    BY <1>1, <2>1
  <2>3. O[K] = N
    BY Zenon DEF Text!Cuts
  <2>4. QED
    BY <1>1, <2>1, <2>2, <2>3
<1>4. lengths \in [1 .. K -> Nat] /\ \A k \in 1 .. K : lengths[k] \in Nat \ {0}
  <2>1. 1 .. N \subseteq Nat \ {0}
    BY <1>1
  <2> HIDE DEF N
  <2>2. QED
    BY <1>3, <2>1
<1>5. OffsetsAt(O, lengths, K)
  <2> HIDE DEF O
  <2>1. Len(lengths) = K
    OBVIOUS
  <2> HIDE DEF K
  <2>2. QED
    BY <1>3, <1>4, <2>1, OffsetsAre DEF O
<1>6. WalkedBy(W, lengths, K, N)
  <2>1. Len(lengths) = K
    OBVIOUS
  <2> HIDE DEF K, W
  <2>2. QED
    BY <1>3, <1>4, <2>1, WalkedIs DEF W
<1>7. Text!RenderedMarks(lengths) = W[2 * N].marks
  BY Zenon DEF Text!RenderedMarks
<1>8. \A from \in Nat : FirstFrom(all, from, Text!IndexOf(s, q, from))
  BY IndexOfIs
<1> HIDE DEF N, n, m, O, W, K, all
<1>9. /\ m[c] = -1 /\ FirstFrom(all, 0, m[0])
      /\ \A i \in 0 .. c - 1 : m[i] \in all /\ m[i] \in Nat /\ FirstFrom(all, m[i] + n, m[i + 1])
  BY <1>1, <1>2 DEF Chain
<1>10. \A i \in 0 .. c - 1 : m[i] \in Nat /\ Text!IndexOf(s, q, m[i] + n) = m[i + 1]
  <2>1. ASSUME NEW i \in 0 .. c - 1 PROVE Text!IndexOf(s, q, m[i] + n) = m[i + 1]
    <3>1. m[i] + n \in Nat /\ FirstFrom(all, m[i] + n, m[i + 1])
      BY <1>1, <1>9
    <3>2. QED
      BY <1>1, <1>8, <3>1, FirstIsOne
  <2>2. QED
    BY <1>9, <2>1
<1>11. \A i \in 0 .. c - 1 : i + 1 # c => m[i] + n <= m[i + 1]
  <2>1. \A i, j \in 0 .. c - 1 : i < j => m[i] + n <= m[j]
    BY <1>2 DEF Chain
  <2>2. \A i \in 0 .. c - 1 : i + 1 # c => i + 1 \in 0 .. c - 1 /\ i < i + 1
    OBVIOUS
  <2>3. QED
    BY <2>1, <2>2
<1>12. /\ W[0] = Text!WalkStart /\ W \in [0 .. 2 * N -> Walkers]
       /\ \A k \in 1 .. 2 * N : IF W[k - 1].node > K THEN W[k] = W[k - 1]
                                ELSE W[k] = Text!WalkOn(lengths, W[k - 1])
  BY <1>6 DEF WalkedBy
<1>13. O[0] = 0 /\ \A k \in 1 .. K : O[k - 1] \in Nat /\ O[k] \in Nat /\ O[k] = O[k - 1] + lengths[k]
  BY <1>5 DEF OffsetsAt
<1> DEFINE T == {k \in Nat : k <= 2 * N => \E j : Progress(W[k], k, j, m, c, n, O, K)}
<1>14. 0 \in T
  <2> DEFINE w == Text!WalkStart
  <2>1. w = [node |-> 1, offset |-> 0, match |-> Text!IndexOf(s, q, 0), marks |-> {}]
    BY Zenon DEF Text!WalkStart
  <2>2. Text!IndexOf(s, q, 0) = m[0]
    BY <1>1, <1>8, <1>9, FirstIsOne
  <2> HIDE DEF w
  <2>3. w.node = 1 /\ w.offset = 0 /\ w.match = m[0] /\ w.marks = {}
    BY <2>1, <2>2
  <2>4. \A which, x : ~MarkedAt(w.marks, which, x)
    BY <2>3 DEF MarkedAt
  <2>5. \A which, x : ~ReachedBy(m, n, 0, which, x)
    BY DEF ReachedBy
  <2>6. 0 # c => m[0] + n > w.offset /\ \A x : ~(m[0] <= x /\ x < w.offset /\ x \in Nat)
    <3>1. 0 # c => m[0] \in Nat
      BY <1>9
    <3>2. QED
      BY <1>1, <2>3, <3>1
  <2>7. \A which, x : x \in Nat =>
          (MarkedAt(w.marks, which, x) <=>
             \/ ReachedBy(m, n, 0, which, x)
             \/ 0 # c /\ Counts(which, m[0]) /\ m[0] <= x /\ x < w.offset)
    BY <2>4, <2>5, <2>6
  <2>8. 0 \in 0 .. c /\ w.node \in 1 .. K + 1 /\ 0 = (w.node - 1) + 0 /\ w.offset = O[w.node - 1]
    BY <1>3, <1>13, <2>3
  <2>9. Progress(w, 0, 0, m, c, n, O, K)
    BY <2>3, <2>6, <2>7, <2>8 DEF Progress
  <2>10. QED
    BY <1>12, <2>9 DEF w
<1>15. ASSUME NEW k \in Nat, k \in T PROVE k + 1 \in T
  <2>1. SUFFICES ASSUME k + 1 <= 2 * N PROVE \E j : Progress(W[k + 1], k + 1, j, m, c, n, O, K)
    OBVIOUS
  <2>2. k + 1 \in 1 .. 2 * N /\ (k + 1) - 1 = k /\ k <= 2 * N /\ W[k] \in Walkers
    <3>1. k + 1 \in 1 .. 2 * N /\ (k + 1) - 1 = k /\ k <= 2 * N /\ k \in 0 .. 2 * N
      BY <1>1, <2>1
    <3>2. QED
      BY <1>12, <3>1
  <2>3. PICK j : Progress(W[k], k, j, m, c, n, O, K)
    BY <1>15, <2>2
  <2>4. IF W[k].node > K THEN W[k + 1] = W[k] ELSE W[k + 1] = Text!WalkOn(lengths, W[k])
    BY <1>12, <2>2
  <2> DEFINE w == W[k]  v == W[k + 1]
  <2>5. w.node \in 1 .. K + 1 /\ w.offset = O[w.node - 1]
    BY <2>3 DEF Progress
  <2> HIDE DEF w, v
  <2>6. CASE w.node > K
    <3>1. v = w /\ w.node = K + 1
      BY <1>3, <2>4, <2>5, <2>6 DEF v, w
    <3>2. Progress(w, k, j, m, c, n, O, K)
      BY <2>3 DEF w
    <3>3. Progress(w, k + 1, j, m, c, n, O, K)
      BY <3>1, <3>2 DEF Progress
    <3>4. QED
      BY <3>1, <3>3 DEF v
  <2>7. CASE w.node <= K
    <3>1. w.node \in 1 .. K /\ v = Text!WalkOn(lengths, w) /\ w \in Walkers
      BY <1>3, <2>2, <2>4, <2>5, <2>7 DEF v, w
    <3>2. lengths[w.node] \in Nat \ {0} /\ O[w.node] = w.offset + lengths[w.node] /\ w.offset \in Nat
          /\ O[w.node] \in Nat
      BY <1>4, <1>13, <2>5, <3>1
    <3>3. w.offset < O[w.node]
      BY <3>2
    <3>4. WalksOn(v, w, w.offset + lengths[w.node])
      BY <3>1, <3>2, WalkOnIs
    <3>5. WalksOn(v, w, O[w.node])
      BY <3>2, <3>4
    <3>6. Progress(w, k, j, m, c, n, O, K)
      BY <2>3 DEF w
    <3>7. \E i : Progress(v, k + 1, i, m, c, n, O, K)
      <4>1. n = Len(Text!NormalizedQuery)
        BY DEF n
      <4>2. QED
        BY <1>1, <1>3, <1>9, <1>10, <1>11, <2>7, <3>1, <3>2, <3>3, <3>5, <3>6, <4>1, ProgressOn
    <3>8. QED
      BY <3>7 DEF v
  <2>8. QED
    <3>1. K + 1 \in Nat /\ w.node \in Nat
      BY <1>3, <2>5
    <3>2. QED
      BY <1>3, <2>6, <2>7, <3>1
<1>16. Nat \subseteq T
  <2> HIDE DEF T
  <2>1. QED
    BY <1>14, <1>15, Induction
<1> DEFINE w == W[2 * N]
<1>17. PICK j : Progress(w, 2 * N, j, m, c, n, O, K)
  <2>1. 2 * N \in T /\ 2 * N <= 2 * N
    BY <1>1, <1>16
  <2>2. QED
    BY <2>1
<1> HIDE DEF w
<1>18. /\ j \in 0 .. c /\ w.node \in 1 .. K + 1 /\ (w.node = K + 1 \/ 2 * N = (w.node - 1) + j)
       /\ w.offset = O[w.node - 1] /\ (j # c => m[j] + n > w.offset)
  BY <1>17 DEF Progress
\* It comes to the end of the pieces, and there to the last match.
<1>19. w.node = K + 1
  <2>1. K \in Nat /\ c \in Nat /\ N \in Nat /\ K <= N /\ c <= N /\ w.node \in 1 .. K + 1 /\ j \in 0 .. c
    BY <1>1, <1>2, <1>3, <1>18
  <2>2. w.node = K + 1 \/ 2 * N = (w.node - 1) + j
    BY <1>18
  <2>3. QED
    BY <2>1, <2>2
<1>20. w.offset = N
  BY <1>3, <1>18, <1>19
<1>21. j = c
  <2>1. SUFFICES ASSUME j # c PROVE FALSE
    OBVIOUS
  <2>2. j \in 0 .. c - 1
    BY <1>18, <2>1
  <2>3. m[j] + n <= N /\ m[j] + n > N /\ m[j] \in Nat
    BY <1>1, <1>9, <1>18, <1>20, <2>1, <2>2
  <2>4. QED
    BY <1>1, <2>3
<1>22. \A which, x : x \in Nat => (MarkedAt(w.marks, which, x) <=> ReachedBy(m, n, c, which, x))
  BY <1>17, <1>21 DEF Progress
<1>23. w.marks \in SUBSET [from : Nat, to : Nat, current : BOOLEAN]
  <2>1. 2 * N \in 0 .. 2 * N
    BY <1>1
  <2>2. w \in Walkers
    BY <1>12, <2>1 DEF w
  <2>3. QED
    BY <2>2 DEF Walkers
<1>24. QED
  BY <1>7, <1>22, <1>23 DEF w, m, n

\* What marks cover.
Covers(marks) == UNION {mark.from .. mark.to - 1 : mark \in marks}

\* What marks cover is what is marked.
LEMMA CoversIs ==
  ASSUME NEW marks \in SUBSET [from : Nat, to : Nat, current : BOOLEAN], NEW x
  PROVE  /\ x \in Covers(marks) <=> x \in Nat /\ MarkedAt(marks, "all", x)
         /\ x \in Covers({mark \in marks : mark.current}) <=> x \in Nat /\ MarkedAt(marks, "current", x)
<1>1. \A mark \in marks : mark.from \in Nat /\ mark.to \in Nat /\ mark.current \in BOOLEAN
  OBVIOUS
<1>2. ASSUME NEW mark \in marks
      PROVE  x \in mark.from .. mark.to - 1 <=> x \in Nat /\ mark.from <= x /\ x < mark.to
  BY <1>1
<1>3. x \in Covers(marks) <=> x \in Nat /\ MarkedAt(marks, "all", x)
  <2>1. x \in Covers(marks) <=> \E mark \in marks : x \in mark.from .. mark.to - 1
    BY Zenon DEF Covers
  <2>2. MarkedAt(marks, "all", x) <=> \E mark \in marks : mark.from <= x /\ x < mark.to
    BY Zenon DEF MarkedAt
  <2>3. QED
    BY <1>2, <2>1, <2>2, Zenon
<1>4. x \in Covers({mark \in marks : mark.current}) <=> x \in Nat /\ MarkedAt(marks, "current", x)
  <2>1. x \in Covers({mark \in marks : mark.current}) <=>
          \E mark \in marks : mark.current /\ x \in mark.from .. mark.to - 1
    BY Zenon DEF Covers
  <2>2. "current" # "all"
    OBVIOUS
  <2>3. MarkedAt(marks, "current", x) <=>
          \E mark \in marks : mark.current /\ mark.from <= x /\ x < mark.to
    BY <2>2, Zenon DEF MarkedAt
  <2>4. QED
    BY <1>2, <2>1, <2>3, Zenon
<1>5. QED
  BY <1>3, <1>4

\* What the matches reach.
Reaches(i, n) == i .. i + n - 1

\* What the matches of a chain reach.
LEMMA ReachesIs ==
  ASSUME NEW n \in Nat \ {0}, NEW c \in Nat, NEW m, \A k \in 0 .. c - 1 : m[k] \in Nat, NEW x
  PROVE  /\ x \in UNION {Reaches(i, n) : i \in The(m, c)} <=> x \in Nat /\ ReachedBy(m, n, c, "all", x)
         /\ \A index \in 0 .. c - 1 : findStart = m[index] =>
              (x \in Reaches(findStart, n) <=> x \in Nat /\ ReachedBy(m, n, c, "current", x))
<1>1. ASSUME NEW k \in 0 .. c - 1
      PROVE  x \in Reaches(m[k], n) <=> x \in Nat /\ m[k] <= x /\ x < m[k] + n
  BY DEF Reaches
<1>2. x \in UNION {Reaches(i, n) : i \in The(m, c)} <=> x \in Nat /\ ReachedBy(m, n, c, "all", x)
  <2>1. x \in UNION {Reaches(i, n) : i \in The(m, c)} <=> \E k \in 0 .. c - 1 : x \in Reaches(m[k], n)
    BY Zenon DEF The
  <2>2. ReachedBy(m, n, c, "all", x) <=> \E k \in 0 .. c - 1 : m[k] <= x /\ x < m[k] + n
    BY Zenon DEF ReachedBy, Counts
  <2>3. QED
    BY <1>1, <2>1, <2>2, Zenon
<1>3. ReachedBy(m, n, c, "current", x) <=>
        \E k \in 0 .. c - 1 : m[k] = findStart /\ m[k] <= x /\ x < m[k] + n
  <2>1. "current" # "all"
    OBVIOUS
  <2>2. QED
    BY <2>1, Zenon DEF ReachedBy, Counts
<1>4. ASSUME NEW index \in 0 .. c - 1, findStart = m[index]
      PROVE  x \in Reaches(findStart, n) <=> x \in Nat /\ ReachedBy(m, n, c, "current", x)
  BY <1>1, <1>3, <1>4, Zenon
<1>5. QED
  BY <1>2, <1>3, <1>4, Zenon

\* What the editor marks, and its current mark.
EditorAgrees(view) ==
  /\ Text!Marks(view) = {i \in Text!MatchSet(Shown, Text!NormalizedQuery) : Text!InView(i, view)}
  /\ Text!Document = source.raw =>
       /\ Text!Marks(view) = {i \in Text!Found : Text!InView(i, view)}
       /\ Text!KeepsLength(Text!ActiveQuery) =>
            Text!CurrentMarks(view) = {i \in Text!Found : i = findStart /\ Text!InView(i, view)}

\* In the editor they agree with what is counted.
LEMMA EditorHolds ==
  ASSUME FindTyped, ~rich, Text!KeepsLength(Text!Document), NEW view \in Text!Views
  PROVE  EditorAgrees(view)
<1>1. Text!Marks(view) = {i \in Text!MatchSet(Shown, Text!NormalizedQuery) : Text!InView(i, view)}
  BY MarksAre
<1>2. ASSUME Text!Document = source.raw
      PROVE  Text!Marks(view) = {i \in Text!Found : Text!InView(i, view)}
  <2>1. Text!Searchable = Shown
    BY <1>2, Zenon DEF Text!Searchable, Shown
  <2>2. QED
    BY <1>1, <2>1, Zenon DEF Text!Found
<1>3. ASSUME Text!Document = source.raw, Text!KeepsLength(Text!ActiveQuery)
      PROVE  Text!CurrentMarks(view) = {i \in Text!Found : i = findStart /\ Text!InView(i, view)}
  <2>1. Text!ActiveQuery \in Seq(Characters)
    BY SearchIsTyped, LowerOfString
  <2>2. AsLong(Text!ActiveQuery)
    BY <1>3, <2>1, LowerIs
  <2>3. Len(Text!NormalizedQuery) = Len(Text!ActiveQuery)
    BY <2>2, Zenon DEF AsLong, Text!NormalizedQuery
  <2>4. Text!CurrentMarks(view) =
          {i \in Text!Marks(view) :
             i = findStart /\ i + Len(Text!NormalizedQuery) = findStart + Len(Text!ActiveQuery)}
    BY Zenon DEF Text!CurrentMarks
  <2>5. Text!CurrentMarks(view) = {i \in Text!Marks(view) : i = findStart}
    BY <2>3, <2>4, Zenon
  <2>6. QED
    BY <1>2, <1>3, <2>5, Zenon
<1>4. QED
  BY <1>1, <1>2, <1>3 DEF EditorAgrees

\* What is marked and what is counted agree.
LEMMA FindHolds ==
  ASSUME FindTyped, FindCurrent
  PROVE  Text!FindAgrees
<1> DEFINE s == Text!Searchable
           q == Text!NormalizedQuery
           n == Len(q)
           Reached(i) == i .. i + Len(Text!NormalizedQuery) - 1
           marked(marks) == UNION {m.from .. m.to - 1 : m \in marks}
<1>1. s \in Seq(Characters) /\ q \in Seq(Characters)
  BY SearchIsTyped
<1>2. IF Text!Found = {} THEN findIndex = -1 /\ findStart = -1
      ELSE findIndex \in 0 .. Text!Cardinality(Text!Found) - 1
           /\ findStart = Text!MatchList(Text!Searchable, Text!NormalizedQuery)[findIndex]
  BY CountIs, Zenon DEF FindCurrent, Current, Text!Found
<1>3. ASSUME ~rich, Text!KeepsLength(Text!Document), NEW view \in Text!Views
      PROVE  EditorAgrees(view)
  BY <1>3, EditorHolds
<1>4. ASSUME rich, Text!KeepsLength(source.rendered), Text!NormalizedQuery # <<>>,
             NEW lengths \in Text!Cuts(Len(source.rendered))
      PROVE  /\ marked(Text!RenderedMarks(lengths)) = UNION {Reached(i) : i \in Text!Found}
             /\ marked({m \in Text!RenderedMarks(lengths) : m.current}) =
                  IF Text!Found = {} THEN {} ELSE Reached(findStart)
  <2> DEFINE m == Text!MatchList(s, q)
             M == Text!RenderedMarks(lengths)
             O == Occurrences(s, q)
  <2>1. Len(s) = Len(source.rendered) /\ Text!LongestWalk = 2 * Len(Text!Searchable)
    <3>1. s = Text!LowerCase(source.rendered) /\ source.rendered \in Seq(Characters)
      BY <1>4, LowerOfString DEF Text!Searchable, FindTyped
    <3>2. AsLong(source.rendered) /\ Len(source.rendered) \in Nat
      BY <1>4, <3>1, LowerIs, LenProperties
    <3>3. Len(s) = Len(source.rendered) /\ Text!LongestWalk = Len(source.rendered) + Len(s)
      BY <3>1, <3>2, Zenon DEF AsLong, Text!LongestWalk
    <3> HIDE DEF s
    <3>4. Text!LongestWalk = 2 * Len(s)
      BY <3>2, <3>3
    <3>5. QED
      BY <3>3, <3>4 DEF s
  <2>2. PICK c \in Nat : Matched(s, q, Characters, c)
    BY <1>1, <1>4, MatchesAre
  <2>3. n \in Nat \ {0} /\ O \in SUBSET Nat
    BY <1>1, <1>4, LenProperties, EmptySeq DEF Occurrences
  <2>4. Chain(m, O, n, c) /\ Text!Found = The(m, c)
    BY <2>2, Zenon DEF Matched, Text!Found
  <2>5. \A k \in 0 .. c - 1 : m[k] \in Nat
    BY <2>3, <2>4 DEF Chain
  <2>6. Cardinality(The(m, c)) = c /\ (The(m, c) = {} <=> c = 0)
    <3>1. Enumerates(The(m, c), m, c)
      BY <2>3, <2>4, ChainEnds
    <3>2. QED
      BY <3>1 DEF Enumerates
  <2>7. /\ M \in SUBSET [from : Nat, to : Nat, current : BOOLEAN]
        /\ \A which, x : x \in Nat => (MarkedAt(M, which, x) <=> ReachedBy(m, n, c, which, x))
    <3>1. lengths \in Text!Cuts(Len(s))
      BY <1>4, <2>1
    <3>2. QED
      BY <1>1, <1>4, <2>1, <2>2, <3>1, RenderedIs
  <2>8. IF The(m, c) = {} THEN findStart = -1
        ELSE findIndex \in 0 .. Cardinality(The(m, c)) - 1 /\ findStart = m[findIndex]
    BY <1>2, <2>4, CountIs, Zenon
  <2>9. /\ \A i : Reached(i) = Reaches(i, n)
        /\ marked(M) = Covers(M)
        /\ marked({mark \in M : mark.current}) = Covers({mark \in M : mark.current})
    BY Zenon DEF Reaches, Covers
  <2> HIDE DEF m, M, O, n, s, q, Reached, marked
  <2>10. ASSUME NEW x
         PROVE  x \in Covers(M) <=> x \in UNION {Reaches(i, n) : i \in The(m, c)}
    BY <2>3, <2>5, <2>7, CoversIs, ReachesIs, Zenon
  <2>11. ASSUME NEW x
         PROVE  x \in Covers({mark \in M : mark.current}) <=>
                  x \in IF The(m, c) = {} THEN {} ELSE Reaches(findStart, n)
    <3>1. x \in Covers({mark \in M : mark.current}) <=> x \in Nat /\ ReachedBy(m, n, c, "current", x)
      BY <2>7, CoversIs, Zenon
    <3>2. CASE The(m, c) = {}
      <4>1. ~ReachedBy(m, n, c, "current", x)
        <5>1. c = 0
          BY <2>6, <3>2
        <5>2. \A k : k \notin 0 .. c - 1
          BY <5>1
        <5>3. QED
          BY <5>2, Zenon DEF ReachedBy
      <4>2. QED
        BY <3>1, <3>2, <4>1
    <3>3. CASE The(m, c) # {}
      <4>1. findIndex \in 0 .. c - 1 /\ findStart = m[findIndex]
        BY <2>6, <2>8, <3>3
      <4>2. x \in Reaches(findStart, n) <=> x \in Nat /\ ReachedBy(m, n, c, "current", x)
        BY <2>3, <2>5, <4>1, ReachesIs
      <4>3. QED
        BY <3>1, <3>3, <4>2
    <3>4. QED
      BY <3>2, <3>3
  <2>12. Covers(M) = UNION {Reaches(i, n) : i \in The(m, c)}
    BY <2>10
  <2>13. Covers({mark \in M : mark.current}) = IF The(m, c) = {} THEN {} ELSE Reaches(findStart, n)
    BY <2>11
  <2>14. UNION {Reached(i) : i \in Text!Found} = UNION {Reaches(i, n) : i \in The(m, c)}
    BY <2>4, <2>9
  <2>15. QED
    BY <2>4, <2>9, <2>12, <2>13, <2>14 DEF M
<1>5. QED
  BY <1>2, <1>3, <1>4, Zenon DEF Text!FindAgrees, EditorAgrees, Shown

-----------------------------------------------------------------------------
(***************************************************************************)
(* The preview as a part of the web app.                                   *)
(***************************************************************************)

\* A step of the web app is one of the preview or leaves it as it is.
LEMMA PreviewStep == [PagesNext]_pagesVars => [Text!PreviewNext]_textVars
  BY DEF PagesNext, Runs, pagesVars

\* What the parser (parseCsv, with separatorFor) reads from the text of a table is
\* the table up to the limits, whatever its fields hold and however its lines end,
\* and it is said to be cut exactly if it is.
THEOREM TableReadsAsWritten == PagesSpec => []CsvReadsBack
<1>1. PagesInit => TableTyped
  BY TableStart DEF PagesInit
<1>2. TableTyped /\ [PagesNext]_pagesVars => TableTyped'
  BY TableStep, PreviewStep
<1>3. TableTyped => CsvReadsBack
  BY CsvHolds DEF CsvReadsBack
<1>4. QED
  BY <1>1, <1>2, <1>3, PTL DEF PagesSpec

\* The number that is shown is the number of the current match after any sequence of
\* steps, queries and texts, whatever lower case makes of them.  What the editor marks
\* in view are the matches of what it shows, if that is as long in lower case: those that
\* are counted, if no line of the text ends with a carriage return, and then its current
\* mark is at the current match of a query that is as long in lower case.  What the dialog
\* marks in the pieces of such a rendered text is what its matches reach (FilePreviewDialog,
\* TextEditor).
THEOREM FindAgreesAlways == PagesSpec => []FindAgrees
<1>1. PagesInit => FindTyped /\ FindCurrent
  BY FindStart DEF PagesInit
<1>2. FindTyped /\ FindCurrent /\ [PagesNext]_pagesVars => (FindTyped /\ FindCurrent)'
  BY FindStep, PreviewStep
<1>3. FindTyped /\ FindCurrent => FindAgrees
  BY FindHolds DEF FindAgrees
<1>4. QED
  BY <1>1, <1>2, <1>3, PTL DEF PagesSpec
=============================================================================
