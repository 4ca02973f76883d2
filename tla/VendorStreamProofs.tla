-------------------------- MODULE VendorStreamProofs --------------------------
(***************************************************************************)
(* Theorems about VendorStream, for every set of lines and documents and   *)
(* every length of a response.                                             *)
(*                                                                         *)
(* StreamDecoded compares a fold over the text with a reading of the whole *)
(* text. The fold is the subject of an invariant of the specification: a   *)
(* response arrives line by line, so that the induction over its length is *)
(* the one over the steps of a behaviour.                                  *)
(***************************************************************************)
EXTENDS VendorStream, FiniteSetTheorems, WellFoundedInduction, TLAPS

-----------------------------------------------------------------------------
(* Numbers and ranks. *)

\* A set of numbers that is not empty has a smallest one.
LEMMA MinimalNat ==
  ASSUME NEW B, B \subseteq Nat, B # {}
  PROVE  \E n \in B : \A m \in B : n <= m
<1>1. PICK n \in B : \A m \in B : ~(<<m, n>> \in OpToRel(<, Nat))
  BY NatLessThanWellFounded, WFMin
<1>2. \A m \in B : ~(m < n)
  BY <1>1 DEF OpToRel
<1> QED
  BY <1>2

\* Max gives the largest number of a set of numbers that has an upper bound.
LEMMA MaxIs ==
  ASSUME NEW B, NEW n \in Nat, B \subseteq 0..n, B # {}
  PROVE  Max(B) \in B /\ \A m \in B : m <= Max(B)
<1> DEFINE C == {n - m : m \in B}
<1>1. C \subseteq Nat /\ C # {}
  OBVIOUS
<1>2. PICK c \in C : \A d \in C : c <= d
  <2> HIDE DEF C
  <2> QED
    BY <1>1, MinimalNat
<1>3. PICK x \in B : c = n - x
  OBVIOUS
<1>4. \A m \in B : x >= m
  <2> SUFFICES ASSUME NEW m \in B
               PROVE  x >= m
    OBVIOUS
  <2>1. n - m \in C /\ m \in Int /\ x \in Int
    OBVIOUS
  <2> HIDE DEF C
  <2>2. n - x <= n - m
    BY <1>2, <1>3, <2>1
  <2> QED
    BY <2>1, <2>2
<1>5. \E y \in B : \A m \in B : y >= m
  BY <1>4
<1> QED
  BY <1>5 DEF Max

\* The maximum of a set is the element no other one exceeds.
LEMMA MaxEq ==
  ASSUME NEW B, NEW x \in B, B \subseteq Int, \A m \in B : m <= x
  PROVE  Max(B) = x
<1>1. \E y \in B : \A m \in B : y >= m
  <2>1. \A m \in B : x >= m
    OBVIOUS
  <2> QED
    BY <2>1
<1>2. Max(B) \in B /\ \A m \in B : Max(B) >= m
  BY <1>1 DEF Max
<1>3. Max(B) \in Int /\ x \in Int /\ Max(B) >= x /\ Max(B) <= x
  BY <1>2
<1> QED
  BY <1>3

\* s gives the n elements of D in increasing order.
Lists(s, n, D) ==
  /\ s \in [1..n -> D]
  /\ \A i, j \in 1..n : i < j => s[i] < s[j]
  /\ \A d \in D : \E i \in 1..n : s[i] = d

\* The rank of an element is its place in the list.
LEMMA Ranks ==
  ASSUME NEW D, D \subseteq Nat, NEW n \in Nat, NEW s, Lists(s, n, D)
  PROVE  Cardinality(D) = n /\ \A i \in 1..n : Rank(s[i], D) = i
<1>1. s \in [1..n -> D] /\ (\A i, j \in 1..n : i < j => s[i] < s[j])
      /\ \A d \in D : \E i \in 1..n : s[i] = d
  BY DEF Lists
<1>2. ASSUME NEW i \in 1..n, NEW j \in 1..n
      PROVE  s[i] <= s[j] <=> i <= j
  <2>1. s[i] \in Nat /\ s[j] \in Nat /\ (i < j => s[i] < s[j]) /\ (j < i => s[j] < s[i])
    BY <1>1
  <2> QED
    BY <2>1
<1>3. \A i, j \in 1..n : s[i] = s[j] => i = j
  <2> SUFFICES ASSUME NEW i \in 1..n, NEW j \in 1..n, s[i] = s[j]
               PROVE  i = j
    OBVIOUS
  <2>1. s[i] \in Nat
    BY <1>1
  <2>2. i <= j /\ j <= i
    BY <1>2, <2>1
  <2> QED
    BY <2>2
<1>4. ASSUME NEW i \in 0..n, NEW E, E = {s[j] : j \in 1..i}
      PROVE  Cardinality(E) = i
  <2> DEFINE f == [j \in 1..i |-> s[j]]
  <2>1. f \in [1..i -> E] /\ (\A j, k \in 1..i : f[j] = f[k] => j = k)
        /\ \A d \in E : \E j \in 1..i : f[j] = d
    BY <1>3, <1>4
  <2>2. f \in Bijection(1..i, E)
    <3> HIDE DEF f
    <3> QED
      BY <2>1 DEF Bijection, Injection, Surjection, IsInjective
  <2>3. ExistsBijection(1..i, E)
    BY <2>2 DEF ExistsBijection
  <2> QED
    BY <2>3, FS_CountingElements
<1>5. D = {s[j] : j \in 1..n}
  BY <1>1
<1>6. \A i \in 1..n : {j \in D : j <= s[i]} = {s[j] : j \in 1..i}
  <2> SUFFICES ASSUME NEW i \in 1..n
               PROVE  {j \in D : j <= s[i]} = {s[j] : j \in 1..i}
    OBVIOUS
  <2>1. ASSUME NEW d \in D, d <= s[i]
        PROVE  d \in {s[j] : j \in 1..i}
    <3>1. PICK j \in 1..n : s[j] = d
      BY <1>1
    <3>2. j <= i
      BY <2>1, <3>1, <1>2
    <3> QED
      BY <3>1, <3>2
  <2>2. ASSUME NEW j \in 1..i
        PROVE  s[j] \in D /\ s[j] <= s[i]
    BY <1>1, <1>2
  <2> QED
    BY <2>1, <2>2
<1>7. Cardinality(D) = n
  BY <1>4, <1>5
<1>8. \A i \in 1..n : Rank(s[i], D) = i
  BY <1>4, <1>6 DEF Rank
<1> QED
  BY <1>7, <1>8

\* A list of n numbers, and one more.
Extended(s, n, x) == [i \in 1..n + 1 |-> IF i = n + 1 THEN x ELSE s[i]]

\* The new number is the last one.
LEMMA ExtendedAt ==
  ASSUME NEW s, NEW n \in Nat, NEW x
  PROVE  Extended(s, n, x)[n + 1] = x /\ \A i \in 1..n : Extended(s, n, x)[i] = s[i]
BY DEF Extended

Above(x, D) == \A d \in D : d < x

\* A listing goes on with a number larger than all those before.
LEMMA ListsExtended ==
  ASSUME NEW D, D \subseteq Nat, NEW n \in Nat, NEW s, Lists(s, n, D), NEW x \in Nat, Above(x, D)
  PROVE  Lists(Extended(s, n, x), n + 1, D \cup {x})
<1> DEFINE new == [i \in 1..n + 1 |-> IF i = n + 1 THEN x ELSE s[i]]
<1>0. \A d \in D : d < x
  BY DEF Above
<1>1. s \in [1..n -> D] /\ (\A i, j \in 1..n : i < j => s[i] < s[j])
      /\ \A d \in D : \E i \in 1..n : s[i] = d
  BY DEF Lists
<1>2. \A i \in 1..n : new[i] = s[i]
  OBVIOUS
<1>3. new[n + 1] = x /\ n + 1 \in 1..n + 1 /\ \A i \in 1..n : i \in 1..n + 1
  OBVIOUS
<1>4. new \in [1..n + 1 -> D \cup {x}]
  BY <1>1
<1>5. \A i, j \in 1..n + 1 : i < j => new[i] < new[j]
  <2> SUFFICES ASSUME NEW i \in 1..n + 1, NEW j \in 1..n + 1, i < j
               PROVE  new[i] < new[j]
    OBVIOUS
  <2>1. i \in 1..n /\ s[i] \in D
    BY <1>1
  <2>2. CASE j = n + 1
    BY <1>0, <1>2, <1>3, <2>1, <2>2
  <2>3. CASE j \in 1..n
    BY <1>1, <1>2, <2>1, <2>3
  <2> QED
    BY <2>2, <2>3
<1>6. \A d \in D \cup {x} : \E i \in 1..n + 1 : new[i] = d
  BY <1>1, <1>2, <1>3
<1> HIDE DEF new
<1>7. Lists(new, n + 1, D \cup {x})
  BY <1>4, <1>5, <1>6 DEF Lists
<1>8. Extended(s, n, x) = new
  BY DEF Extended, new
<1> QED
  BY <1>7, <1>8

-----------------------------------------------------------------------------
(* The fold of parse_sse_events, one line at a time. *)

\* The parser after the lines.
Parsed(lines) == FoldLeft(ParseLine, Fresh, lines)

\* g gives what the fold over lines leaves after the positions in a set.
IsFold(g, lines, n) ==
  g = [s \in SUBSET (1..n) |->
         IF s = {} THEN Fresh ELSE ParseLine(g[s \ {Max(s)}], lines[Max(s)])]

\* The library's definition, spelled out.
LEMMA ParsedIsFold ==
  ASSUME NEW lines, NEW n \in Nat, DOMAIN lines = 1..n
  PROVE  Parsed(lines) = (CHOOSE g : IsFold(g, lines, n))[1..n]
BY DEF Parsed, FoldLeft, MapThenFoldSet, IsFold

\* The recursion has a solution: one for n + 1 lines follows from one for n.
LEMMA FoldExists ==
  ASSUME NEW lines, NEW n \in Nat
  PROVE  \E g : IsFold(g, lines, n)
<1> DEFINE B == {k \in Nat : ~\E g : IsFold(g, lines, k)}
<1> SUFFICES ASSUME B # {}
             PROVE  FALSE
  OBVIOUS
<1>1. PICK k \in B : \A m \in B : k <= m
  BY MinimalNat
<1>2. k \in Nat /\ ~\E g : IsFold(g, lines, k)
  OBVIOUS
<1>3. CASE k = 0
  <2>1. \A s \in SUBSET (1..0) : s = {}
    OBVIOUS
  <2>2. IsFold([s \in SUBSET (1..0) |-> Fresh], lines, 0)
    BY <2>1 DEF IsFold
  <2> QED
    BY <1>2, <1>3, <2>2
<1>4. CASE k # 0
  <2>1. k - 1 \in Nat /\ k - 1 \notin B
    BY <1>1, <1>2, <1>4
  <2>2. PICK g : IsFold(g, lines, k - 1)
    BY <2>1
  <2> DEFINE h == [s \in SUBSET (1..k) |->
                     IF s = {} THEN Fresh
                     ELSE IF k \in s THEN ParseLine(g[s \ {k}], lines[k]) ELSE g[s]]
  <2>3. ASSUME NEW s \in SUBSET (1..k), k \notin s
        PROVE  s \in SUBSET (1..k - 1) /\ h[s] = g[s]
    <3>1. s \in SUBSET (1..k - 1)
      BY <1>2, <2>3
    <3>2. g[{}] = Fresh
      BY <2>2 DEF IsFold
    <3> QED
      BY <2>3, <3>1, <3>2
  <2>4. ASSUME NEW s \in SUBSET (1..k), s # {}
        PROVE  h[s] = ParseLine(h[s \ {Max(s)}], lines[Max(s)])
    <3>1. CASE k \in s
      <4>0. s \subseteq Int /\ \A m \in s : m <= k
        BY <1>2
      <4>1. Max(s) = k
        BY <3>1, <4>0, MaxEq
      <4>2. h[s \ {k}] = g[s \ {k}]
        BY <2>3
      <4> QED
        BY <3>1, <4>1, <4>2
    <3>2. CASE k \notin s
      <4>1. s \in SUBSET (1..k - 1) /\ h[s] = g[s]
        BY <2>3, <3>2
      <4>2. h[s \ {Max(s)}] = g[s \ {Max(s)}]
        BY <2>3, <3>2
      <4>3. g[s] = ParseLine(g[s \ {Max(s)}], lines[Max(s)])
        BY <2>2, <2>4, <4>1 DEF IsFold
      <4> QED
        BY <4>1, <4>2, <4>3
    <3> QED
      BY <3>1, <3>2
  <2>5. h[{}] = Fresh
    OBVIOUS
  <2>6. h = [s \in SUBSET (1..k) |-> h[s]]
    OBVIOUS
  <2> HIDE DEF h
  <2>7. h = [s \in SUBSET (1..k) |->
               IF s = {} THEN Fresh ELSE ParseLine(h[s \ {Max(s)}], lines[Max(s)])]
    BY <2>4, <2>5, <2>6
  <2> QED
    BY <2>7, <1>2 DEF IsFold
<1> QED
  BY <1>3, <1>4

\* What a solution gives for a beginning of the text.
LEMMA FoldStep ==
  ASSUME NEW lines, NEW n \in Nat, NEW g, IsFold(g, lines, n), NEW k \in 1..n
  PROVE  g[1..0] = Fresh /\ g[1..k] = ParseLine(g[1..k - 1], lines[k])
<1>1. 1..k \in SUBSET (1..n) /\ 1..0 \in SUBSET (1..n) /\ 1..0 = {} /\ k \in 1..k
  OBVIOUS
<1>2. (1..k) \ {k} = 1..k - 1
  OBVIOUS
<1>3. 1..k \subseteq Int /\ \A m \in 1..k : m <= k
  OBVIOUS
<1>4. Max(1..k) = k
  BY <1>1, <1>3, MaxEq
<1>5. \A s \in SUBSET (1..n) : g[s] = IF s = {} THEN Fresh
                                      ELSE ParseLine(g[s \ {Max(s)}], lines[Max(s)])
  BY DEF IsFold
<1>6. 1..k # {}
  BY <1>1
<1>7. g[1..k] = ParseLine(g[(1..k) \ {Max(1..k)}], lines[Max(1..k)])
  BY <1>1, <1>5, <1>6
<1>8. g[1..0] = Fresh
  BY <1>1, <1>5
<1> QED
  BY <1>2, <1>4, <1>7, <1>8

\* Solutions for two texts agree on a beginning the texts have in common.
LEMMA FoldUnique ==
  ASSUME NEW lines, NEW other, NEW n \in Nat, NEW m \in Nat, n <= m, NEW g, NEW h,
         IsFold(g, lines, n), IsFold(h, other, m), \A i \in 1..n : lines[i] = other[i]
  PROVE  g[1..n] = h[1..n]
<1> DEFINE B == {k \in 0..n : g[1..k] # h[1..k]}
<1> SUFFICES ASSUME B # {}
             PROVE  FALSE
  BY DEF B
<1>1. PICK k \in B : \A j \in B : k <= j
  <2>1. B \subseteq Nat
    OBVIOUS
  <2> HIDE DEF B
  <2> QED
    BY <2>1, MinimalNat
<1>3. k # 0
  <2>1. 1..0 = {}
    OBVIOUS
  <2>2. g[{}] = Fresh /\ h[{}] = Fresh
    BY DEF IsFold
  <2> QED
    BY <2>1, <2>2
<1>4. k \in 1..n /\ k \in 1..m
  BY <1>3
<1>5. g[1..k] = ParseLine(g[1..k - 1], lines[k])
  BY <1>4, FoldStep
<1>6. h[1..k] = ParseLine(h[1..k - 1], other[k])
  BY <1>4, FoldStep
<1>7. g[1..k - 1] = h[1..k - 1]
  BY <1>1, <1>3
<1> QED
  BY <1>4, <1>5, <1>6, <1>7

\* The parser begins with nothing.
LEMMA ParsedEmpty == Parsed(<<>>) = Fresh
<1>1. DOMAIN <<>> = 1..0 /\ 1..0 = {}
  OBVIOUS
<1>2. PICK g : g = (CHOOSE f : IsFold(f, <<>>, 0))
  OBVIOUS
<1>3. IsFold(g, <<>>, 0)
  BY <1>2, FoldExists
<1> QED
  <2>1. Parsed(<<>>) = g[1..0]
    BY <1>1, <1>2, ParsedIsFold
  <2>2. g[{}] = Fresh
    BY <1>3 DEF IsFold
  <2> QED
    BY <1>1, <2>1, <2>2

\* One more line is one more step of the parser.
LEMMA ParsedAppend ==
  ASSUME NEW lines \in Seq(Lines), NEW line \in Lines
  PROVE  Parsed(Append(lines, line)) = ParseLine(Parsed(lines), line)
<1> DEFINE n == Len(lines)
           new == Append(lines, line)
<1>1. n \in Nat /\ DOMAIN lines = 1..n /\ DOMAIN new = 1..n + 1 /\ new[n + 1] = line
      /\ \A i \in 1..n : lines[i] = new[i]
  OBVIOUS
<1> HIDE DEF n, new
<1>2. PICK g : g = (CHOOSE f : IsFold(f, lines, n))
  OBVIOUS
<1>3. PICK h : h = (CHOOSE f : IsFold(f, new, n + 1))
  OBVIOUS
<1>4. IsFold(g, lines, n) /\ IsFold(h, new, n + 1)
  <2>1. n \in Nat /\ n + 1 \in Nat
    BY <1>1
  <2>2. (\E f : IsFold(f, lines, n)) /\ \E f : IsFold(f, new, n + 1)
    BY <2>1, FoldExists
  <2> QED
    BY <1>2, <1>3, <2>2
<1>5. Parsed(lines) = g[1..n] /\ Parsed(new) = h[1..n + 1]
  BY <1>1, <1>2, <1>3, ParsedIsFold
<1>6. g[1..n] = h[1..n]
  BY <1>1, <1>4, FoldUnique
<1>7. n + 1 \in Nat /\ n + 1 \in 1..n + 1 /\ (n + 1) - 1 = n
  BY <1>1
<1>8. h[1..n + 1] = ParseLine(h[1..n], line)
  BY <1>1, <1>4, <1>7, FoldStep
<1> QED
  BY <1>5, <1>6, <1>8 DEF new

-----------------------------------------------------------------------------
(* The block being received, and the event it makes. *)

Values == {line.value : line \in Lines}
Events == [name : Values \cup {NoName}, data : Seq(Values)]
Parsers == [events : Seq(Events), name : Values \cup {NoName}, data : Seq(Values)]

\* The parser starts as one, and every line and every flush leaves it one.
LEMMA ParserType ==
  /\ Fresh \in Parsers
  /\ \A p \in Parsers : FlushSseEvent(p) \in Parsers
  /\ \A p \in Parsers, line \in Lines : ParseLine(p, line) \in Parsers
<1>1. Fresh \in Parsers
  BY DEF Fresh, Parsers
<1>2. ASSUME NEW p \in Parsers
      PROVE  FlushSseEvent(p) \in Parsers
  <2>1. p.events \in Seq(Events) /\ p.name \in Values \cup {NoName} /\ p.data \in Seq(Values)
    BY DEF Parsers
  <2>2. [name |-> p.name, data |-> p.data] \in Events
    BY <2>1 DEF Events
  <2> DEFINE event == [name |-> p.name, data |-> p.data]
  <2> HIDE DEF event
  <2>3. Append(p.events, event) \in Seq(Events)
    BY <2>1, <2>2 DEF event
  <2>4. [p EXCEPT !.name = NoName] \in Parsers
    BY DEF Parsers
  <2>5. [events |-> Append(p.events, event), name |-> NoName, data |-> <<>>] \in Parsers
    BY <2>3 DEF Parsers
  <2> QED
    BY <2>4, <2>5 DEF FlushSseEvent, event
<1>3. ASSUME NEW p \in Parsers, NEW line \in Lines
      PROVE  ParseLine(p, line) \in Parsers
  <2>1. line.value \in Values
    BY DEF Values
  <2>2. [p EXCEPT !.name = line.value] \in Parsers
    BY <2>1 DEF Parsers
  <2>3. Append(p.data, line.value) \in Seq(Values)
    BY <2>1 DEF Parsers
  <2>4. [p EXCEPT !.data = Append(@, line.value)] \in Parsers
    BY <2>3 DEF Parsers
  <2> QED
    BY <1>2, <2>2, <2>4 DEF ParseLine
<1> QED
  BY <1>1, <1>2, <1>3

NameOf(block) ==
  IF LinesOf(block, "event") = {} THEN NoName ELSE block[Max(LinesOf(block, "event"))].value

\* name and data are those of a block, with the places of its data lines in s.
Shows(block, name, data, s) ==
  /\ name = NameOf(block)
  /\ Lists(s, Len(data), LinesOf(block, "data"))
  /\ \A i \in 1..Len(data) : data[i] = block[s[i]].value

\* Then they are the event of the block.
LEMMA ShownEvent ==
  ASSUME NEW block \in Seq(Lines), NEW name, NEW data \in Seq(Values), NEW s,
         Shows(block, name, data, s)
  PROVE  EventOf(block) = [name |-> name, data |-> data]
<1> DEFINE D == LinesOf(block, "data")
           n == Len(data)
           Nth(k) == CHOOSE i \in D : Rank(i, D) = k
<1>1. D \subseteq Nat /\ n \in Nat /\ data = [i \in 1..n |-> data[i]]
  BY DEF LinesOf
<1>2. Lists(s, n, D) /\ \A i \in 1..n : data[i] = block[s[i]].value
  BY DEF Shows
<1> HIDE DEF D, n
<1>3. Cardinality(D) = n /\ \A i \in 1..n : Rank(s[i], D) = i
  BY <1>1, <1>2, Ranks
<1>4. ASSUME NEW i \in 1..n
      PROVE  Nth(i) = s[i]
  <2>1. s[i] \in D /\ Rank(s[i], D) = i
    BY <1>2, <1>3 DEF Lists
  <2>2. Nth(i) \in D /\ Rank(Nth(i), D) = i
    BY <2>1
  <2> HIDE DEF Nth
  <2>3. PICK j \in 1..n : s[j] = Nth(i)
    BY <1>2, <2>2 DEF Lists
  <2>4. j = i
    BY <1>3, <2>2, <2>3
  <2> QED
    BY <2>3, <2>4
<1>5. EventOf(block) = [name |-> NameOf(block),
                        data |-> [i \in 1..Cardinality(D) |-> block[Nth(i)].value]]
  BY DEF EventOf, NameOf, D
<1> HIDE DEF Nth
<1>6. [i \in 1..Cardinality(D) |-> block[Nth(i)].value] = data
  BY <1>1, <1>2, <1>3, <1>4
<1>7. name = NameOf(block)
  BY DEF Shows
<1> QED
  BY <1>5, <1>6, <1>7

\* A block without lines has no name and no data.
LEMMA ShowsEmpty == Shows(<<>>, NoName, <<>>, <<>>)
<1>1. LinesOf(<<>>, "event") = {} /\ LinesOf(<<>>, "data") = {}
  BY DEF LinesOf
<1>2. Lists(<<>>, 0, {})
  BY DEF Lists
<1>3. Len(<<>>) = 0
  OBVIOUS
<1> QED
  BY <1>1, <1>2, <1>3 DEF Shows, NameOf

\* What a line that is not blank adds to a block, the parser adds to its event.
LEMMA ShowsAppend ==
  ASSUME NEW block \in Seq(Lines), NEW line \in Lines, line.field # "blank",
         NEW p \in Parsers, NEW s, Shows(block, p.name, p.data, s)
  PROVE  \E new : Shows(Append(block, line), ParseLine(p, line).name, ParseLine(p, line).data, new)
<1> DEFINE longer == Append(block, line)
           n == Len(block)
           q == ParseLine(p, line)
           old(field) == LinesOf(block, field)
<1>0. p.data \in Seq(Values) /\ Len(p.data) \in Nat /\ line.value \in Values
  BY DEF Parsers, Values
<1>1. n \in Nat /\ DOMAIN block = 1..n /\ DOMAIN longer = 1..n + 1 /\ longer[n + 1] = line
      /\ \A i \in 1..n : longer[i] = block[i]
  OBVIOUS
<1> HIDE DEF longer, n
<1>2. \A field : old(field) \subseteq 1..n
  BY <1>1 DEF LinesOf
<1>3. \A field : LinesOf(longer, field) = IF line.field = field THEN old(field) \cup {n + 1}
                                          ELSE old(field)
  BY <1>1 DEF LinesOf
<1>4. p.name = NameOf(block) /\ Lists(s, Len(p.data), old("data"))
      /\ \A i \in 1..Len(p.data) : p.data[i] = block[s[i]].value
  BY DEF Shows
<1>5. \A i \in 1..Len(p.data) : s[i] \in 1..n
  BY <1>2, <1>4 DEF Lists
<1>6. \A i \in 1..Len(p.data) : p.data[i] = longer[s[i]].value
  BY <1>1, <1>4, <1>5
<1>7. ASSUME line.field # "event"
      PROVE  NameOf(longer) = p.name
  <2>1. LinesOf(longer, "event") = old("event")
    BY <1>3, <1>7
  <2>2. old("event") # {} => Max(old("event")) \in 1..n
    BY <1>1, <1>2, MaxIs
  <2> QED
    BY <1>1, <1>4, <2>1, <2>2 DEF NameOf
<1>8. CASE line.field = "event"
  <2>1. LinesOf(longer, "event") = old("event") \cup {n + 1}
        /\ LinesOf(longer, "data") = old("data")
    BY <1>3, <1>8
  <2>2. LinesOf(longer, "event") \subseteq Int /\ n + 1 \in LinesOf(longer, "event")
        /\ \A m \in LinesOf(longer, "event") : m <= n + 1
    BY <1>1, <1>2, <2>1
  <2>3. Max(LinesOf(longer, "event")) = n + 1
    BY <2>2, MaxEq
  <2>4. NameOf(longer) = line.value
    BY <1>1, <2>2, <2>3 DEF NameOf
  <2>5. q.name = line.value /\ q.data = p.data
    BY <1>8 DEF ParseLine, Parsers
  <2>6. Shows(longer, q.name, q.data, s)
    BY <1>4, <1>6, <2>1, <2>4, <2>5 DEF Shows
  <2> QED
    BY <2>6 DEF longer
<1>9. CASE line.field = "data"
  <2>1. LinesOf(longer, "data") = old("data") \cup {n + 1}
    BY <1>3, <1>9
  <2>2. q.name = p.name /\ q.data = Append(p.data, line.value)
    BY <1>9 DEF ParseLine, Parsers
  <2> DEFINE m == Len(p.data)
             new == Extended(s, m, n + 1)
  <2>3. Len(q.data) = m + 1 /\ q.data[m + 1] = line.value /\ \A i \in 1..m : q.data[i] = p.data[i]
    BY <1>0, <2>2
  <2>4. m \in Nat
    BY <1>0
  <2>5. Lists(new, m + 1, old("data") \cup {n + 1}) /\ new[m + 1] = n + 1
        /\ \A i \in 1..m : new[i] = s[i]
    <3> DEFINE D == old("data")
               x == n + 1
    <3>1. D \subseteq Nat /\ x \in Nat /\ Lists(s, m, D)
      BY <1>1, <1>2, <1>4
    <3>2. Above(x, D)
      BY <1>1, <1>2 DEF Above
    <3> HIDE DEF m, D, x
    <3>3. Lists(Extended(s, m, x), m + 1, D \cup {x})
      BY <2>4, <3>1, <3>2, ListsExtended
    <3>4. Extended(s, m, x)[m + 1] = x /\ \A i \in 1..m : Extended(s, m, x)[i] = s[i]
      BY <2>4, ExtendedAt
    <3> QED
      BY <3>3, <3>4 DEF D, x
  <2> HIDE DEF m, new, q
  <2>6. \A i \in 1..m + 1 : q.data[i] = longer[new[i]].value
    <3> SUFFICES ASSUME NEW i \in 1..m + 1
                 PROVE  q.data[i] = longer[new[i]].value
      OBVIOUS
    <3>1. CASE i = m + 1
      BY <1>1, <2>3, <2>5, <3>1
    <3>2. CASE i \in 1..m
      BY <1>6, <2>3, <2>5, <3>2 DEF m
    <3> QED
      BY <2>4, <3>1, <3>2
  <2>7. Shows(longer, q.name, q.data, new)
    BY <1>7, <1>9, <2>1, <2>2, <2>3, <2>5, <2>6 DEF Shows
  <2> QED
    BY <2>7 DEF longer, q
<1>10. CASE line.field \notin {"event", "data"}
  <2>1. LinesOf(longer, "data") = old("data")
    BY <1>3, <1>10
  <2>2. q = p
    BY <1>10 DEF ParseLine
  <2>3. Shows(longer, p.name, p.data, s)
    BY <1>4, <1>6, <1>7, <1>10, <2>1 DEF Shows
  <2> QED
    BY <2>2, <2>3 DEF longer
<1> QED
  BY <1>8, <1>9, <1>10

-----------------------------------------------------------------------------
(* Where the text is cut into blocks. *)

\* The cut that ends the block after a.
NextCut(lines, a, b) == b \in Cuts(lines) /\ b > a /\ \A d \in Cuts(lines) : d > a => d >= b

\* Cuts are before the first line, at blank lines and after the last line.
LEMMA CutsAre ==
  ASSUME NEW lines \in Seq(Lines)
  PROVE  /\ Len(lines) \in Nat /\ Cuts(lines) \subseteq 0..Len(lines) + 1
         /\ 0 \in Cuts(lines) /\ Len(lines) + 1 \in Cuts(lines)
         /\ \A i \in 1..Len(lines) : i \in Cuts(lines) <=> lines[i].field = "blank"
BY DEF Cuts

\* The block after a ends before that cut.
LEMMA BlockIs ==
  ASSUME NEW lines \in Seq(Lines), NEW a \in Nat, NEW b, NextCut(lines, a, b)
  PROVE  BlockFrom(lines, a) = SubSeq(lines, a + 1, b - 1)
<1> DEFINE P(c) == c > a /\ \A d \in Cuts(lines) : d > a => d >= c
           e == CHOOSE c \in Cuts(lines) : P(c)
<1>1. Cuts(lines) \subseteq Nat
  BY CutsAre
<1>2. b \in Cuts(lines) /\ P(b)
  BY DEF NextCut
<1>3. e \in Cuts(lines) /\ P(e)
  <2> HIDE DEF P
  <2> QED
    BY <1>2
<1>4. e >= b /\ b >= e /\ e \in Nat /\ b \in Nat
  BY <1>1, <1>2, <1>3
<1>5. e = b
  <2> HIDE DEF e
  <2> QED
    BY <1>4
<1> QED
  BY <1>5 DEF BlockFrom

\* Every place before a cut has a next cut.
LEMMA NextCutExists ==
  ASSUME NEW lines \in Seq(Lines), NEW a \in Nat, NEW c \in Cuts(lines), a < c
  PROVE  \E b \in Nat : NextCut(lines, a, b) /\ b <= c
<1> DEFINE B == {d \in Cuts(lines) : d > a}
<1>1. Cuts(lines) \subseteq Nat
  BY CutsAre
<1>2. B \subseteq Nat /\ c \in B
  BY <1>1
<1>3. PICK b \in B : \A d \in B : b <= d
  <2> HIDE DEF B
  <2> QED
    BY <1>2, MinimalNat
<1>4. NextCut(lines, a, b) /\ b <= c /\ b \in Nat
  <2>1. b \in Cuts(lines) /\ b > a /\ b \in Nat
    BY <1>1
  <2>2. \A d \in Cuts(lines) : d > a => d >= b
    BY <1>1, <1>3
  <2> QED
    BY <1>2, <1>3, <2>1, <2>2 DEF NextCut
<1> QED
  BY <1>4

\* A new line cuts the text if it is blank, and leaves the earlier cuts.
LEMMA CutsAppend ==
  ASSUME NEW lines \in Seq(Lines), NEW line \in Lines
  PROVE  /\ \A c \in 0..Len(lines) : c \in Cuts(Append(lines, line)) <=> c \in Cuts(lines)
         /\ Len(lines) + 1 \in Cuts(Append(lines, line)) <=> line.field = "blank"
<1> DEFINE new == Append(lines, line)
           n == Len(lines)
<1>1. n \in Nat /\ DOMAIN lines = 1..n /\ DOMAIN new = 1..n + 1 /\ Len(new) = n + 1 /\ new[n + 1] = line
      /\ \A i \in 1..n : new[i] = lines[i]
  OBVIOUS
<1> HIDE DEF new, n
<1>2. Cuts(new) = {0, n + 2} \cup {i \in 1..n + 1 : new[i].field = "blank"}
  BY <1>1 DEF Cuts
<1>3. Cuts(lines) = {0, n + 1} \cup {i \in 1..n : lines[i].field = "blank"}
  BY <1>1 DEF Cuts, n
<1>4. \A c \in 0..n : c \in Cuts(new) <=> c \in Cuts(lines)
  BY <1>1, <1>2, <1>3
<1>5. n + 1 \in Cuts(new) <=> line.field = "blank"
  BY <1>1, <1>2
<1> QED
  BY <1>4, <1>5 DEF new, n

\* A block whose end is still a cut is not changed by a new line.
LEMMA BlockKept ==
  ASSUME NEW lines \in Seq(Lines), NEW line \in Lines, NEW a \in 0..Len(lines), NEW b,
         NextCut(lines, a, b), b \in Cuts(Append(lines, line))
  PROVE  BlockFrom(Append(lines, line), a) = BlockFrom(lines, a)
<1> DEFINE new == Append(lines, line)
           n == Len(lines)
<1>1. new \in Seq(Lines) /\ n \in Nat /\ Len(new) = n + 1 /\ \A i \in 1..n : new[i] = lines[i]
  OBVIOUS
<1>2. b \in Cuts(lines) /\ b > a /\ b \in 0..n + 1 /\ \A d \in Cuts(lines) : d > a => d >= b
  BY CutsAre DEF NextCut
<1>3. \A c \in 0..n : c \in Cuts(new) <=> c \in Cuts(lines)
  BY CutsAppend
<1> HIDE DEF new
<1>4. Cuts(new) \subseteq Nat
  <2>1. Cuts(new) \subseteq 0..Len(new) + 1
    BY <1>1, CutsAre
  <2> QED
    BY <2>1
<1>5. \A d \in Cuts(new) : d > a => d >= b
  <2> SUFFICES ASSUME NEW d \in Cuts(new), d > a
               PROVE  d >= b
    OBVIOUS
  <2>1. CASE d <= n
    <3>1. d \in Cuts(lines)
      BY <1>1, <1>3, <1>4, <2>1
    <3> QED
      BY <1>2, <3>1
  <2>2. CASE d > n
    BY <1>1, <1>2, <1>4, <2>2
  <2> QED
    BY <1>1, <1>4, <2>1, <2>2
<1>6. NextCut(new, a, b)
  BY <1>2, <1>5 DEF NextCut, new
<1>7. BlockFrom(new, a) = SubSeq(new, a + 1, b - 1) /\ BlockFrom(lines, a) = SubSeq(lines, a + 1, b - 1)
  <2>1. a \in Nat
    BY <1>1
  <2> QED
    BY <1>1, <1>6, <2>1, BlockIs
<1>8. SubSeq(new, a + 1, b - 1) = SubSeq(lines, a + 1, b - 1)
  <2> DEFINE x == SubSeq(new, a + 1, b - 1)
             y == SubSeq(lines, a + 1, b - 1)
  <2>1. x \in Seq(Lines) /\ y \in Seq(Lines) /\ Len(x) = Len(y)
        /\ \A i \in 1..Len(x) : x[i] = y[i]
    BY <1>1, <1>2
  <2> HIDE DEF x, y
  <2>2. x = y
    BY <2>1
  <2> QED
    BY <2>2 DEF x, y
<1> QED
  BY <1>7, <1>8 DEF new

-----------------------------------------------------------------------------
(* What the parser knows of the text received so far. *)

\* After o the text has no blank line.
IsOpen(lines, o) ==
  o \in 0..Len(lines) /\ o \in Cuts(lines) /\ \A i \in Cuts(lines) : i <= Len(lines) => i <= o

StartsBefore(lines, o) ==
  {a \in Cuts(lines) : a < o /\ EventOf(BlockFrom(lines, a)).data # <<>>}

\* events are the events of the blocks that begin at the places s.
EventsAt(lines, events, s) ==
  \A i \in 1..Len(events) : events[i] = EventOf(BlockFrom(lines, s[i]))

\* The parser has the events of the blocks before the last cut o, which begin at
\* the places s, and name and data of the block after it, with data lines at d.
Knows(lines, p, o, s, d) ==
  /\ IsOpen(lines, o)
  /\ Shows(SubSeq(lines, o + 1, Len(lines)), p.name, p.data, d)
  /\ Lists(s, Len(p.events), StartsBefore(lines, o))
  /\ EventsAt(lines, p.events, s)

\* The events are exactly those of the text.
Decodes(lines, events, s) == Lists(s, Len(events), Starts(lines)) /\ EventsAt(lines, events, s)

\* The last block.
LEMMA OpenBlock ==
  ASSUME NEW lines \in Seq(Lines), NEW o, IsOpen(lines, o)
  PROVE  /\ o \in Nat /\ Len(lines) \in Nat /\ o <= Len(lines) /\ o \in Cuts(lines)
         /\ NextCut(lines, o, Len(lines) + 1)
         /\ BlockFrom(lines, o) = SubSeq(lines, o + 1, Len(lines))
         /\ \A a \in Cuts(lines) : a <= Len(lines) => a < o \/ a = o
<1>1. o \in Nat /\ Len(lines) \in Nat /\ o <= Len(lines) /\ o \in Cuts(lines)
  BY DEF IsOpen
<1>2. Cuts(lines) \subseteq 0..Len(lines) + 1 /\ Len(lines) + 1 \in Cuts(lines)
  BY CutsAre
<1>3. \A a \in Cuts(lines) : a <= Len(lines) => a <= o
  BY DEF IsOpen
<1>4. NextCut(lines, o, Len(lines) + 1)
  <2>1. \A a \in Cuts(lines) : a > o => a >= Len(lines) + 1
    BY <1>1, <1>2, <1>3
  <2> QED
    BY <1>1, <1>2, <2>1 DEF NextCut
<1>5. BlockFrom(lines, o) = SubSeq(lines, o + 1, (Len(lines) + 1) - 1)
  BY <1>1, <1>4, BlockIs
<1>6. (Len(lines) + 1) - 1 = Len(lines)
  BY <1>1
<1>7. \A a \in Cuts(lines) : a <= Len(lines) => a < o \/ a = o
  BY <1>1, <1>2, <1>3
<1> QED
  BY <1>1, <1>4, <1>5, <1>6, <1>7

\* The events of the text are those before the last cut, and the last one if it
\* has data.
LEMMA StartsAre ==
  ASSUME NEW lines \in Seq(Lines), NEW o, IsOpen(lines, o)
  PROVE  /\ Starts(lines) = StartsBefore(lines, o) \cup
                              {a \in {o} : EventOf(BlockFrom(lines, o)).data # <<>>}
         /\ StartsBefore(lines, o) \subseteq Nat /\ Above(o, StartsBefore(lines, o))
<1>1. /\ o \in Nat /\ Len(lines) \in Nat /\ o <= Len(lines) /\ o \in Cuts(lines)
      /\ \A a \in Cuts(lines) : a <= Len(lines) => a < o \/ a = o
  BY OpenBlock
<1>2. Cuts(lines) \subseteq Nat
  BY CutsAre
<1>3. \A a \in Cuts(lines) : a < o => a <= Len(lines)
  BY <1>1, <1>2
<1> QED
  BY <1>1, <1>2, <1>3 DEF Starts, StartsBefore, Above

\* The flush at the end of the text completes the list of events.
LEMMA FlushDecodes ==
  ASSUME NEW lines \in Seq(Lines), NEW p \in Parsers, NEW o, NEW s, NEW d, Knows(lines, p, o, s, d)
  PROVE  \E new : Decodes(lines, FlushSseEvent(p).events, new)
<1> DEFINE n == Len(p.events)
           E == StartsBefore(lines, o)
           event == [name |-> p.name, data |-> p.data]
<1>1. IsOpen(lines, o) /\ Lists(s, n, E) /\ EventsAt(lines, p.events, s)
      /\ Shows(SubSeq(lines, o + 1, Len(lines)), p.name, p.data, d)
  BY DEF Knows
<1>2. o \in Nat /\ Len(lines) \in Nat /\ o <= Len(lines)
      /\ BlockFrom(lines, o) = SubSeq(lines, o + 1, Len(lines))
  BY <1>1, OpenBlock
<1>3. p.events \in Seq(Events) /\ p.data \in Seq(Values) /\ n \in Nat
  BY DEF Parsers
<1>4. EventOf(BlockFrom(lines, o)) = event
  <2> DEFINE block == SubSeq(lines, o + 1, Len(lines))
  <2>1. block \in Seq(Lines)
    BY <1>2
  <2> HIDE DEF block
  <2>2. EventOf(block) = event
    BY <1>1, <1>3, <2>1, ShownEvent DEF block
  <2> QED
    BY <1>2, <2>2 DEF block
<1>5. Starts(lines) = E \cup {a \in {o} : p.data # <<>>} /\ E \subseteq Nat /\ Above(o, E)
  BY <1>1, <1>4, StartsAre
<1>6. CASE p.data = <<>>
  <2>1. FlushSseEvent(p).events = p.events
    BY <1>6 DEF FlushSseEvent, Parsers
  <2>2. Starts(lines) = E
    BY <1>5, <1>6
  <2>3. Decodes(lines, FlushSseEvent(p).events, s)
    BY <1>1, <2>1, <2>2 DEF Decodes
  <2> QED
    BY <2>3
<1>7. CASE p.data # <<>>
  <2> DEFINE events == Append(p.events, event)
             new == Extended(s, n, o)
  <2>1. FlushSseEvent(p).events = events
    BY <1>7 DEF FlushSseEvent
  <2>2. Starts(lines) = E \cup {o}
    BY <1>5, <1>7
  <2>3. Len(events) = n + 1 /\ events[n + 1] = event /\ \A i \in 1..n : events[i] = p.events[i]
    <3>1. event \in Events
      BY DEF Parsers, Events
    <3> HIDE DEF event
    <3> QED
      BY <1>3, <3>1
  <2> HIDE DEF n, E, events, event
  <2>4. Lists(new, n + 1, E \cup {o})
    BY <1>1, <1>2, <1>3, <1>5, ListsExtended
  <2>5. new[n + 1] = o /\ \A i \in 1..n : new[i] = s[i]
    BY <1>3, ExtendedAt
  <2> HIDE DEF new
  <2>6. EventsAt(lines, events, new)
    <3> SUFFICES ASSUME NEW i \in 1..n + 1
                 PROVE  events[i] = EventOf(BlockFrom(lines, new[i]))
      BY <2>3 DEF EventsAt
    <3>1. CASE i = n + 1
      BY <1>4, <2>3, <2>5, <3>1
    <3>2. CASE i \in 1..n
      BY <1>1, <2>3, <2>5, <3>2 DEF EventsAt, n
    <3> QED
      BY <1>3, <3>1, <3>2
  <2>7. Decodes(lines, events, new)
    BY <2>2, <2>3, <2>4, <2>6 DEF Decodes
  <2> QED
    BY <2>1, <2>7
<1> QED
  BY <1>6, <1>7

\* Of an empty text the parser knows all there is.
LEMMA KnowsEmpty == Knows(<<>>, Fresh, 0, <<>>, <<>>)
<1>1. Cuts(<<>>) = {0, 1}
  BY DEF Cuts
<1>2. IsOpen(<<>>, 0)
  BY <1>1 DEF IsOpen
<1>3. StartsBefore(<<>>, 0) = {}
  BY <1>1 DEF StartsBefore
<1>4. SubSeq(<<>>, 0 + 1, Len(<<>>)) = <<>>
  OBVIOUS
<1>5. Fresh.name = NoName /\ Fresh.data = <<>> /\ Fresh.events = <<>> /\ Len(<<>>) = 0
  BY DEF Fresh
<1>6. Lists(<<>>, 0, {})
  BY DEF Lists
<1>7. EventsAt(<<>>, <<>>, <<>>)
  BY DEF EventsAt
<1>8. Shows(SubSeq(<<>>, 0 + 1, Len(<<>>)), Fresh.name, Fresh.data, <<>>)
  BY <1>4, <1>5, ShowsEmpty
<1>9. Lists(<<>>, Len(Fresh.events), StartsBefore(<<>>, 0))
  BY <1>3, <1>5, <1>6
<1>10. EventsAt(<<>>, Fresh.events, <<>>)
  BY <1>5, <1>7
<1> QED
  BY <1>2, <1>8, <1>9, <1>10 DEF Knows

\* The blocks before the last cut are not changed by a new line.
LEMMA ClosedKept ==
  ASSUME NEW lines \in Seq(Lines), NEW line \in Lines, NEW o, IsOpen(lines, o),
         NEW a \in Cuts(lines), a < o
  PROVE  BlockFrom(Append(lines, line), a) = BlockFrom(lines, a)
<1>1. o \in Nat /\ Len(lines) \in Nat /\ o <= Len(lines) /\ o \in Cuts(lines)
  BY OpenBlock
<1>2. Cuts(lines) \subseteq Nat
  BY CutsAre
<1>3. a \in 0..Len(lines) /\ a \in Nat
  BY <1>1, <1>2
<1>4. PICK b \in Nat : NextCut(lines, a, b) /\ b <= o
  BY <1>1, <1>3, NextCutExists
<1>5. b \in Cuts(Append(lines, line))
  <2>1. b \in Cuts(lines) /\ b \in 0..Len(lines)
    BY <1>1, <1>4 DEF NextCut
  <2> QED
    BY <2>1, CutsAppend
<1> QED
  BY <1>3, <1>4, <1>5, BlockKept

\* A line that is not blank goes to the last block.
LEMMA KnowsLine ==
  ASSUME NEW lines \in Seq(Lines), NEW line \in Lines, line.field # "blank", NEW p \in Parsers,
         NEW o, NEW s, NEW d, Knows(lines, p, o, s, d)
  PROVE  \E e : Knows(Append(lines, line), ParseLine(p, line), o, s, e)
<1> DEFINE longer == Append(lines, line)
           n == Len(lines)
           q == ParseLine(p, line)
           block == SubSeq(lines, o + 1, n)
<1>1. IsOpen(lines, o) /\ Lists(s, Len(p.events), StartsBefore(lines, o))
      /\ EventsAt(lines, p.events, s) /\ Shows(block, p.name, p.data, d)
  BY DEF Knows
<1>2. o \in Nat /\ n \in Nat /\ o <= n /\ o \in Cuts(lines)
      /\ \A a \in Cuts(lines) : a <= n => a < o \/ a = o
  BY <1>1, OpenBlock
<1>3. longer \in Seq(Lines) /\ Len(longer) = n + 1
  OBVIOUS
<1>4. (\A c \in 0..n : c \in Cuts(longer) <=> c \in Cuts(lines)) /\ n + 1 \notin Cuts(longer)
  BY CutsAppend
<1>5. q.events = p.events
  BY DEF ParseLine, Parsers
<1>6. block \in Seq(Lines) /\ SubSeq(longer, o + 1, n + 1) = Append(block, line)
  <2> DEFINE x == SubSeq(longer, o + 1, n + 1)
             y == Append(block, line)
  <2>1. block \in Seq(Lines) /\ Len(block) = n - o /\ \A i \in 1..n - o : block[i] = lines[o + i]
    BY <1>2
  <2>2. \A i \in 1..n : longer[i] = lines[i]
    OBVIOUS
  <2>3. longer[n + 1] = line
    OBVIOUS
  <2> HIDE DEF block, longer, n
  <2>4. x \in Seq(Lines) /\ Len(x) = n - o + 1 /\ \A i \in 1..n - o + 1 : x[i] = longer[o + i]
    BY <1>2, <1>3
  <2>5. y \in Seq(Lines) /\ Len(y) = n - o + 1 /\ y[n - o + 1] = line
        /\ \A i \in 1..n - o : y[i] = block[i]
    BY <1>2, <2>1
  <2> HIDE DEF x, y
  <2>6. \A i \in 1..n - o + 1 : x[i] = y[i]
    <3> SUFFICES ASSUME NEW i \in 1..n - o + 1
                 PROVE  x[i] = y[i]
      OBVIOUS
    <3>1. CASE i = n - o + 1
      <4>1. o + i = n + 1
        BY <1>2, <3>1
      <4> QED
        BY <2>3, <2>4, <2>5, <3>1, <4>1
    <3>2. CASE i \in 1..n - o
      <4>1. o + i \in 1..n
        BY <1>2, <3>2
      <4> QED
        BY <2>1, <2>2, <2>4, <2>5, <3>2, <4>1
    <3> QED
      BY <1>2, <3>1, <3>2
  <2>7. x = y
    BY <2>4, <2>5, <2>6
  <2> QED
    BY <2>1, <2>7 DEF x, y
<1> HIDE DEF longer, q, block
<1>7. PICK e : Shows(Append(block, line), q.name, q.data, e)
  BY <1>1, <1>6, ShowsAppend DEF q
<1>8. Cuts(longer) \subseteq Nat
  <2>1. Cuts(longer) \subseteq 0..Len(longer) + 1
    BY <1>3, CutsAre
  <2> QED
    BY <2>1
<1> HIDE DEF n
<1>9. IsOpen(longer, o)
  <2>1. o \in 0..n + 1 /\ o \in 0..n
    BY <1>2
  <2>2. ASSUME NEW i \in Cuts(longer), i <= n + 1
        PROVE  i <= o
    <3>1. i \in 0..n
      BY <1>2, <1>4, <1>8, <2>2
    <3> QED
      BY <1>2, <1>4, <3>1
  <2> QED
    BY <1>2, <1>3, <1>4, <2>1, <2>2 DEF IsOpen
<1>10. \A a \in Cuts(lines) : a < o => BlockFrom(longer, a) = BlockFrom(lines, a)
  BY <1>1, ClosedKept DEF longer
<1>11. \A a \in Nat : a < o => (a \in Cuts(longer) <=> a \in Cuts(lines))
  BY <1>2, <1>4
<1>12. Cuts(lines) \subseteq Nat
  BY CutsAre
<1>13. StartsBefore(longer, o) = StartsBefore(lines, o)
  BY <1>8, <1>10, <1>11, <1>12 DEF StartsBefore
<1>14. EventsAt(longer, p.events, s)
  <2>1. \A i \in 1..Len(p.events) : s[i] \in Cuts(lines) /\ s[i] < o
    BY <1>1 DEF Lists, StartsBefore
  <2> QED
    BY <1>1, <1>10, <2>1 DEF EventsAt
<1>15. Knows(longer, q, o, s, e)
  BY <1>1, <1>3, <1>5, <1>6, <1>7, <1>9, <1>13, <1>14 DEF Knows
<1> QED
  BY <1>15 DEF longer, q

\* A blank line ends the last block, and a new one begins after it.
LEMMA KnowsBlank ==
  ASSUME NEW lines \in Seq(Lines), NEW line \in Lines, line.field = "blank", NEW p \in Parsers,
         NEW o, NEW s, NEW d, Knows(lines, p, o, s, d)
  PROVE  \E new : Knows(Append(lines, line), ParseLine(p, line), Len(lines) + 1, new, <<>>)
<1> DEFINE longer == Append(lines, line)
           n == Len(lines)
           q == FlushSseEvent(p)
<1>1. IsOpen(lines, o)
  BY DEF Knows
<1>2. o \in Nat /\ n \in Nat /\ o <= n /\ o \in Cuts(lines) /\ NextCut(lines, o, n + 1)
      /\ \A a \in Cuts(lines) : a <= n => a < o \/ a = o
  BY <1>1, OpenBlock
<1>3. longer \in Seq(Lines) /\ Len(longer) = n + 1
  OBVIOUS
<1>4. (\A c \in 0..n : c \in Cuts(longer) <=> c \in Cuts(lines)) /\ n + 1 \in Cuts(longer)
  BY CutsAppend
<1>5. ParseLine(p, line) = q /\ q.name = NoName /\ q.data = <<>>
  BY DEF ParseLine, FlushSseEvent, Parsers
<1>6. PICK new : Decodes(lines, q.events, new)
  BY FlushDecodes
<1>7. \A a \in Cuts(lines) : a <= n => BlockFrom(longer, a) = BlockFrom(lines, a)
  <2>1. BlockFrom(longer, o) = BlockFrom(lines, o)
    <3>1. o \in 0..n
      BY <1>2
    <3> QED
      BY <1>2, <1>4, <3>1, BlockKept
  <2>2. \A a \in Cuts(lines) : a < o => BlockFrom(longer, a) = BlockFrom(lines, a)
    BY <1>1, ClosedKept
  <2> QED
    BY <1>2, <2>1, <2>2
<1> HIDE DEF longer, q
<1>8. Cuts(longer) \subseteq Nat /\ Cuts(longer) \subseteq 0..n + 2
  <2>1. Cuts(longer) \subseteq 0..Len(longer) + 1
    BY <1>3, CutsAre
  <2> QED
    BY <1>2, <1>3, <2>1
<1>9. Cuts(lines) \subseteq Nat
  BY CutsAre
<1> HIDE DEF n
<1>10. IsOpen(longer, n + 1)
  BY <1>2, <1>3, <1>4 DEF IsOpen
<1>11. StartsBefore(longer, n + 1) = Starts(lines)
  <2>1. \A a \in Nat : a < n + 1 <=> a <= n
    BY <1>2
  <2>2. \A a \in Nat : a <= n => (a \in Cuts(longer) <=> a \in Cuts(lines))
    BY <1>2, <1>4
  <2> QED
    BY <1>7, <1>8, <1>9, <2>1, <2>2 DEF StartsBefore, Starts, n
<1>12. Lists(new, Len(q.events), StartsBefore(longer, n + 1))
  BY <1>6, <1>11 DEF Decodes
<1>13. EventsAt(longer, q.events, new)
  <2>1. \A i \in 1..Len(q.events) : new[i] \in Cuts(lines) /\ new[i] <= n
    BY <1>6 DEF Decodes, Lists, Starts, n
  <2> QED
    BY <1>6, <1>7, <2>1 DEF EventsAt, Decodes
<1>14. SubSeq(longer, (n + 1) + 1, n + 1) = <<>>
  BY <1>2, <1>3
<1>15. Knows(longer, q, n + 1, new, <<>>)
  BY <1>3, <1>5, <1>10, <1>12, <1>13, <1>14, ShowsEmpty DEF Knows
<1> QED
  BY <1>5, <1>15 DEF longer, n

-----------------------------------------------------------------------------
(* The final body. *)

\* The event of the block after a cut, and the cuts before completed ones.
EventFrom(lines, a) == EventOf(BlockFrom(lines, a))
Done(lines) == {a \in Starts(lines) : EventFrom(lines, a).name = Completed}

\* AggregateFinalBody takes the last completed event: the body is there if that
\* event is and its data is a document.
LEMMA BodyIs ==
  ASSUME NEW lines \in Seq(Lines), NEW events \in Seq(Events), NEW s, Decodes(lines, events, s)
  PROVE  LET last == CHOOSE a \in Done(lines) : \A b \in Done(lines) : b <= a
             body == EventFrom(lines, last).data
         IN  IF Done(lines) # {} /\ body \in Documents
             THEN events # <<>> /\ AggregateFinalBody(events) = FinalValue(body)
             ELSE AggregateFinalBody(events) = NoValue
<1> DEFINE n == Len(events)
           D == Done(lines)
           I == {i \in 1..n : events[i].name = Completed}
           last == CHOOSE a \in D : \A b \in D : b <= a
           body == EventFrom(lines, last).data
           k == SelectLastInSeq(events, LAMBDA e : e.name = Completed)
<1>1. n \in Nat /\ Starts(lines) \subseteq Nat
  BY CutsAre DEF Starts
<1>2. /\ s \in [1..n -> Starts(lines)] /\ \A i, j \in 1..n : i < j => s[i] < s[j]
      /\ \A a \in Starts(lines) : \E i \in 1..n : s[i] = a
  BY DEF Decodes, Lists
<1>3. \A i \in 1..n : events[i] = EventFrom(lines, s[i])
  BY DEF Decodes, EventsAt, EventFrom
<1>4. k = IF I # {} THEN Max(I) ELSE 0
  BY DEF SelectLastInSeq
<1>5. \A i \in I : s[i] \in D
  BY <1>2, <1>3 DEF Done
<1>6. \A a \in D : \E i \in I : s[i] = a
  BY <1>2, <1>3 DEF Done
<1>7. D = {} <=> I = {}
  BY <1>5, <1>6
<1>8. AggregateFinalBody(events)
        = IF k = 0 \/ events[k].data \notin Documents THEN NoValue ELSE FinalValue(events[k].data)
  BY DEF AggregateFinalBody
<1>9. CASE D = {}
  <2>1. k = 0
    BY <1>4, <1>7, <1>9
  <2> HIDE DEF k, D, body
  <2>2. AggregateFinalBody(events) = NoValue
    BY <1>8, <2>1
  <2> QED
    BY <1>9, <2>2 DEF D
<1>10. CASE D # {}
  <2>1. I # {} /\ I \subseteq 0..n
    BY <1>7, <1>10
  <2>2. k = Max(I)
    BY <1>4, <2>1
  <2>3. k \in I /\ \A i \in I : i <= k
    <3> HIDE DEF I, k
    <3> QED
      BY <1>1, <2>1, <2>2, MaxIs
  <2>4. k \in 1..n /\ k # 0
    BY <2>3
  <2>5. s[k] \in D
    BY <1>5, <2>3
  <2> HIDE DEF k
  <2>6. D \subseteq Nat
    BY <1>1 DEF Done
  <2>7. \A a \in D : a <= s[k]
    <3> SUFFICES ASSUME NEW a \in D
                 PROVE  a <= s[k]
      OBVIOUS
    <3>1. PICK i \in I : s[i] = a
      BY <1>6
    <3>2. i \in 1..n /\ i <= k
      BY <2>3
    <3>3. s[i] \in Nat /\ s[k] \in Nat
      BY <1>1, <1>2, <2>4, <3>2
    <3>4. i < k => s[i] < s[k]
      BY <1>2, <2>4, <3>2
    <3> QED
      BY <3>1, <3>2, <3>3, <3>4, <2>4
  <2>8. last = s[k]
    <3> HIDE DEF D
    <3>1. last \in D /\ \A b \in D : b <= last
      BY <2>5, <2>7
    <3> HIDE DEF last
    <3>2. last <= s[k] /\ s[k] <= last /\ last \in Nat /\ s[k] \in Nat
      BY <2>5, <2>6, <2>7, <3>1
    <3> QED
      BY <3>2
  <2>9. body = events[k].data
    BY <1>3, <2>4, <2>8
  <2>10. events # <<>>
    BY <2>4
  <2> HIDE DEF body, last, D
  <2>11. IF D # {} /\ body \in Documents
         THEN events # <<>> /\ AggregateFinalBody(events) = FinalValue(body)
         ELSE AggregateFinalBody(events) = NoValue
    BY <1>8, <1>10, <2>4, <2>9, <2>10
  <2> QED
    BY <2>11 DEF body, last, D
<1> QED
  BY <1>9, <1>10

\* What a streaming call returns for a text, as StreamDecoded states it.
Right(lines, result) ==
  LET last == CHOOSE a \in Done(lines) : \A b \in Done(lines) : b <= a
      body == EventFrom(lines, last).data
  IN  IF Done(lines) # {} /\ body \in Documents
      THEN /\ result.result = "ok"
           /\ Len(result.events) = Cardinality(Starts(lines))
           /\ \A a \in Starts(lines) : result.events[Rank(a, Starts(lines))] = EventFrom(lines, a)
           /\ result.body = FinalValue(body)
      ELSE result.result = "invalid"

\* collect_stream returns that for the events of the text.
LEMMA CollectRight ==
  ASSUME NEW lines \in Seq(Lines), NEW events \in Seq(Events), NEW s, Decodes(lines, events, s)
  PROVE  Right(lines, CollectStream(events))
<1> DEFINE n == Len(events)
           D == Done(lines)
           last == CHOOSE a \in D : \A b \in D : b <= a
           body == EventFrom(lines, last).data
           result == CollectStream(events)
<1>1. IF D # {} /\ body \in Documents
      THEN events # <<>> /\ AggregateFinalBody(events) = FinalValue(body)
      ELSE AggregateFinalBody(events) = NoValue
  BY BodyIs
<1>2. n \in Nat /\ Starts(lines) \subseteq Nat
  BY CutsAre DEF Starts
<1>3. Lists(s, n, Starts(lines)) /\ EventsAt(lines, events, s)
  BY DEF Decodes
<1> HIDE DEF D, body, n
<1>4. CASE D # {} /\ body \in Documents
  <2>1. FinalValue(body) # NoValue
    <3>1. \A x, y : <<x, y>> # <<>>
      OBVIOUS
    <3> QED
      BY <3>1 DEF FinalValue, NoValue
  <2>2. result = Ok(events, FinalValue(body))
    BY <1>1, <1>4, <2>1 DEF CollectStream
  <2>3. result.result = "ok" /\ result.events = events /\ result.body = FinalValue(body)
    BY <2>2 DEF Ok
  <2>4. Cardinality(Starts(lines)) = n /\ \A i \in 1..n : Rank(s[i], Starts(lines)) = i
    BY <1>2, <1>3, Ranks
  <2>5. \A a \in Starts(lines) : events[Rank(a, Starts(lines))] = EventFrom(lines, a)
    <3> SUFFICES ASSUME NEW a \in Starts(lines)
                 PROVE  events[Rank(a, Starts(lines))] = EventFrom(lines, a)
      OBVIOUS
    <3>1. PICK i \in 1..n : s[i] = a
      BY <1>3 DEF Lists
    <3>2. Rank(a, Starts(lines)) = i
      BY <2>4, <3>1
    <3> QED
      BY <1>3, <3>1, <3>2 DEF EventsAt, EventFrom, n
  <2> HIDE DEF result
  <2> QED
    BY <1>4, <2>3, <2>4, <2>5 DEF Right, D, body, n, result
<1>5. CASE ~(D # {} /\ body \in Documents)
  <2>1. result = Error("invalid")
    BY <1>1, <1>5 DEF CollectStream
  <2>2. result.result = "invalid"
    BY <2>1 DEF Error
  <2> HIDE DEF result
  <2> QED
    BY <1>5, <2>2 DEF Right, D, body, result
<1> QED
  BY <1>4, <1>5

-----------------------------------------------------------------------------
(* The invariant of the call. *)

\* The parser, run over the text received so far, knows the text.
TextParsed ==
  /\ text \in Seq(Lines)
  /\ Parsed(text) \in Parsers
  /\ \E o, s, d : Knows(text, Parsed(text), o, s, d)

\* Before the call returns it has no result; a streaming call that got the whole
\* text returned what is right for it.
Returned ==
  /\ phase \in {"called", "receiving"} => outcome = Pending
  /\ streaming /\ outcome.result \in {"ok", "invalid"} => Right(text, outcome)

\* An object is there only after a result that was right, and holds that result;
\* what was replayed is what the object holds.
Kept ==
  /\ phase \in {"called", "receiving", "returned"} => object = NoObject /\ replay.as = "nobody"
  /\ phase = "stored" => replay.as = "nobody"
  /\ phase \in {"stored", "replayed"} =>
       /\ outcome.result = "ok"
       /\ object = [marker |-> IF streaming THEN "stream" ELSE "none", events |-> outcome.events,
                    body |-> outcome.body]
  /\ replay.as = "plain" => replay.got.body = outcome.body
  /\ replay.as = "stream" => replay.got = IF streaming THEN outcome ELSE Pending

TypeOK ==
  /\ streaming \in BOOLEAN
  /\ phase \in {"called", "receiving", "returned", "stored", "replayed"}
  /\ outcome = [result |-> outcome.result, events |-> outcome.events, body |-> outcome.body]

CallInv == TypeOK /\ TextParsed /\ Returned /\ Kept

\* The invariant holds when the call begins.
LEMMA CallInit == Init => CallInv
<1> SUFFICES ASSUME Init
             PROVE  CallInv
  OBVIOUS
<1>1. TypeOK
  BY DEF Init, TypeOK, Pending
<1>2. TextParsed
  <2>1. text = <<>> /\ text \in Seq(Lines)
    BY DEF Init
  <2> QED
    BY <2>1, ParsedEmpty, ParserType, KnowsEmpty DEF TextParsed
<1>3. Returned
  BY DEF Init, Returned, Pending
<1>4. Kept
  BY DEF Init, Kept
<1> QED
  BY <1>1, <1>2, <1>3, <1>4 DEF CallInv

\* A text the parser knows, it knows with one more line.
LEMMA TextGrows ==
  ASSUME TextParsed, NEW line \in Lines, text' = Append(text, line)
  PROVE  TextParsed'
<1>1. text \in Seq(Lines) /\ Parsed(text) \in Parsers
  BY DEF TextParsed
<1>2. PICK o, s, d : Knows(text, Parsed(text), o, s, d)
  BY DEF TextParsed
<1>3. text' \in Seq(Lines)
  BY <1>1
<1>4. Parsed(text') = ParseLine(Parsed(text), line)
  BY <1>1, ParsedAppend
<1>5. Parsed(text') \in Parsers
  BY <1>1, <1>4, ParserType
<1>6. \E u, v, w : Knows(text', Parsed(text'), u, v, w)
  <2>1. CASE line.field = "blank"
    <3>1. \E new : Knows(Append(text, line), ParseLine(Parsed(text), line), Len(text) + 1, new, <<>>)
      BY <1>1, <1>2, <2>1, KnowsBlank
    <3> QED
      BY <1>4, <3>1
  <2>2. CASE line.field # "blank"
    <3>1. \E e : Knows(Append(text, line), ParseLine(Parsed(text), line), o, s, e)
      BY <1>1, <1>2, <2>2, KnowsLine
    <3> QED
      BY <1>4, <3>1
  <2> QED
    BY <2>1, <2>2
<1> QED
  BY <1>3, <1>5, <1>6 DEF TextParsed

\* What parse_sse_events and collect_stream make of a text the parser knows.
LEMMA TextCollected ==
  ASSUME TextParsed
  PROVE  Right(text, CollectStream(ParseSseEvents(text)))
<1> DEFINE p == Parsed(text)
           events == FlushSseEvent(p).events
<1>1. text \in Seq(Lines) /\ p \in Parsers
  BY DEF TextParsed
<1>2. PICK o, s, d : Knows(text, p, o, s, d)
  BY DEF TextParsed
<1>3. PICK new : Decodes(text, events, new)
  BY <1>1, <1>2, FlushDecodes
<1>4. events \in Seq(Events)
  BY <1>1, ParserType DEF Parsers
<1>5. ParseSseEvents(text) = events
  BY DEF ParseSseEvents, Parsed
<1> HIDE DEF events
<1>6. Right(text, CollectStream(events))
  BY <1>1, <1>3, <1>4, CollectRight
<1> QED
  BY <1>5, <1>6

\* A call that returns keeps the invariant if its result is right.
LEMMA ReturnKeeps ==
  ASSUME CallInv, NEW result, Return(result), phase \in {"called", "receiving"},
         result = [result |-> result.result, events |-> result.events, body |-> result.body],
         streaming /\ result.result \in {"ok", "invalid"} => Right(text, result)
  PROVE  CallInv'
<1>1. phase' = "returned" /\ outcome' = result /\ streaming' = streaming /\ text' = text
      /\ object' = object /\ replay' = replay
  BY DEF Return
<1>2. TypeOK'
  BY <1>1 DEF CallInv, TypeOK
<1>3. TextParsed'
  BY <1>1 DEF CallInv, TextParsed
<1>4. Returned'
  BY <1>1 DEF Returned
<1>5. Kept'
  BY <1>1 DEF CallInv, Kept
<1> QED
  BY <1>2, <1>3, <1>4, <1>5 DEF CallInv

\* Every step keeps the invariant.
LEMMA CallStep == CallInv /\ [Next]_vars => CallInv'
<1> SUFFICES ASSUME CallInv, [Next]_vars
             PROVE  CallInv'
  OBVIOUS
<1>0. TypeOK /\ TextParsed /\ Returned /\ Kept
  BY DEF CallInv
<1>1. CASE HttpStatus
  <2>1. Return(Error("status")) /\ phase = "called"
    BY <1>1 DEF HttpStatus
  <2> QED
    BY <2>1, ReturnKeeps DEF Error
<1>2. CASE Success
  BY <1>0, <1>2 DEF Success, CallInv, TypeOK, TextParsed, Returned, Kept
<1>3. CASE Transport
  <2> DEFINE why == IF phase = "receiving" /\ ~streaming THEN "invalid" ELSE "transport"
  <2>1. Return(Error(why)) /\ phase \in {"called", "receiving"}
    BY <1>3 DEF Transport
  <2>2. streaming => why = "transport"
    OBVIOUS
  <2> HIDE DEF why
  <2> QED
    BY <2>1, <2>2, ReturnKeeps DEF Error
<1>4. ASSUME NEW line \in Lines, ReceiveLine(line)
      PROVE  CallInv'
  <2>1. phase = "receiving" /\ text' = Append(text, line)
        /\ UNCHANGED <<streaming, phase, outcome, object, replay>>
    BY <1>4 DEF ReceiveLine
  <2>2. TextParsed'
    BY <1>0, <2>1, TextGrows
  <2>3. TypeOK'
    BY <1>0, <2>1 DEF TypeOK
  <2>4. Returned'
    BY <1>0, <2>1 DEF Returned, Pending
  <2>5. Kept'
    BY <1>0, <2>1 DEF Kept
  <2> QED
    BY <2>2, <2>3, <2>4, <2>5 DEF CallInv
<1>5. CASE EndOfStream
  <2> DEFINE result == CollectStream(ParseSseEvents(text))
  <2>1. Return(result) /\ phase = "receiving"
    BY <1>5 DEF EndOfStream
  <2>2. Right(text, result)
    BY <1>0, TextCollected
  <2>3. result = [result |-> result.result, events |-> result.events, body |-> result.body]
    BY DEF CollectStream, Ok, Error
  <2> HIDE DEF result
  <2> QED
    BY <2>1, <2>2, <2>3, ReturnKeeps
<1>6. CASE EndOfBody
  <2> DEFINE doc == [i \in DOMAIN text |-> text[i].value]
             result == IF doc \in Documents THEN Ok(<<>>, <<"value", doc>>) ELSE Error("invalid")
  <2>1. Return(result) /\ phase = "receiving" /\ ~streaming
    BY <1>6 DEF EndOfBody
  <2>2. result = [result |-> result.result, events |-> result.events, body |-> result.body]
    BY DEF Ok, Error
  <2> HIDE DEF result
  <2> QED
    BY <2>1, <2>2, ReturnKeeps
<1>7. CASE Store
  <2>1. TypeOK' /\ TextParsed' /\ Returned'
    BY <1>0, <1>7 DEF Store, TypeOK, TextParsed, Returned
  <2>2. Kept'
    BY <1>0, <1>7 DEF Store, Kept
  <2> QED
    BY <2>1, <2>2 DEF CallInv
<1>8. CASE ReplayBody
  <2>1. TypeOK' /\ TextParsed' /\ Returned'
    BY <1>0, <1>8 DEF ReplayBody, TypeOK, TextParsed, Returned
  <2>2. Kept'
    BY <1>0, <1>8 DEF ReplayBody, Kept, Ok
  <2> QED
    BY <2>1, <2>2 DEF CallInv
<1>9. CASE ReplayStream
  <2>1. TypeOK' /\ TextParsed' /\ Returned'
    BY <1>0, <1>9 DEF ReplayStream, TypeOK, TextParsed, Returned
  <2>2. outcome.result = "ok" /\ outcome = Ok(outcome.events, outcome.body)
    BY <1>0, <1>9 DEF ReplayStream, TypeOK, Kept, Ok
  <2>3. replay'.got = IF streaming THEN outcome ELSE Pending
    BY <1>0, <1>9, <2>2 DEF ReplayStream, Kept
  <2>4. Kept'
    BY <1>0, <1>9, <2>3 DEF ReplayStream, Kept
  <2> QED
    BY <2>1, <2>4 DEF CallInv
<1>10. CASE UNCHANGED vars
  BY <1>0, <1>10 DEF vars, CallInv, TypeOK, TextParsed, Returned, Kept
<1> QED
  BY <1>1, <1>2, <1>3, <1>4, <1>5, <1>6, <1>7, <1>8, <1>9, <1>10 DEF Next

\* The invariant holds throughout.
LEMMA CallAlways == Spec => []CallInv
BY CallInit, CallStep, PTL DEF Spec

\* Whatever lines a vendor sends and wherever they end, a streaming call returns
\* exactly the events of the text, in order, and the body of the last completed
\* one, or fails and keeps nothing (parse_sse_events, collect_stream,
\* aggregate_final_body).
THEOREM StreamsAreDecoded == Spec => []StreamDecoded
<1>1. CallInv => StreamDecoded
  <2> SUFFICES ASSUME CallInv, streaming, outcome.result \in {"ok", "invalid"}
               PROVE  StreamDecoded
    BY DEF StreamDecoded
  <2>1. Right(text, outcome)
    BY DEF CallInv, Returned
  <2>2. outcome.result = "invalid" => object = NoObject
    BY DEF CallInv, TypeOK, Kept
  <2> QED
    BY <2>1, <2>2 DEF StreamDecoded, Right, Done, EventFrom
<1> QED
  BY <1>1, CallAlways, PTL

\* Whoever is answered from the cached object gets what the first client got,
\* whatever the response was (serialize_stream_object, cached_body_from_bytes,
\* stream_object_from_bytes).
THEOREM ReplaysAreFaithful == Spec => []ReplayFaithful
<1>1. CallInv => ReplayFaithful
  BY DEF CallInv, TypeOK, Kept, ReplayFaithful
<1> QED
  BY <1>1, CallAlways, PTL

=============================================================================
