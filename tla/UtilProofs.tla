----------------------------- MODULE UtilProofs -----------------------------
(***************************************************************************)
(* What the string helpers do, for texts of every length: what was put     *)
(* together is taken apart again, and a path is led from one folder to the *)
(* other and back.                                                         *)
(*                                                                         *)
(* The loops of Util are recursive functions.  What is so at each of their *)
(* steps follows from Induction, and that there are such functions from    *)
(* Recursion; both rest on LeastElement.                                   *)
(***************************************************************************)
EXTENDS Util, FiniteSetTheorems, SequenceTheorems, TLAPS

-----------------------------------------------------------------------------
(* Numbers, and functions defined from one number to the next.             *)

\* A set of numbers has a least element: the intervals up to its elements are
\* finite sets, and a proper subset of one is smaller.
LEMMA LeastElement ==
    ASSUME NEW T \in SUBSET Nat, T # {}
    PROVE  \E x \in T : \A y \in T : x <= y
<1> DEFINE U == {0..n : n \in T}
<1>1. U \subseteq FiniteSubsetsOf(Nat)
    <2>1. \A n \in T : IsFiniteSet(0..n)
        BY FS_Interval
    <2>2. \A n \in T : 0..n \in SUBSET Nat
        OBVIOUS
    <2> QED BY <2>1, <2>2 DEF FiniteSubsetsOf
<1>2. U # {}
    OBVIOUS
<1> HIDE DEF U
<1>3. PICK r \in U : \A s \in U : ~(<<s, r>> \in StrictSubsetOrdering(Nat))
    BY <1>1, <1>2, FS_StrictSubsetOrderingWellFounded, WFMin
<1>4. PICK x \in T : r = 0..x
    BY DEF U
<1>5. ASSUME NEW y \in T, y < x PROVE FALSE
    <2>1. 0..y \in U
        BY DEF U
    <2>2. 0..y \subseteq 0..x /\ 0..y # 0..x /\ 0..y \subseteq Nat /\ 0..x \subseteq Nat
        BY <1>5
    <2>3. <<0..y, 0..x>> \in StrictSubsetOrdering(Nat)
        BY <2>2 DEF StrictSubsetOrdering
    <2> QED BY <1>3, <1>4, <2>1, <2>3
<1> QED BY <1>5

\* What holds of 0, and of each number after one it holds of, holds up to n.
LEMMA Induction ==
    ASSUME NEW n \in Nat, NEW T \in SUBSET (0..n), 0 \in T,
           \A i \in 1..n : i - 1 \in T => i \in T
    PROVE  T = 0..n
<1> SUFFICES ASSUME (0..n) \ T # {} PROVE FALSE
    OBVIOUS
<1> DEFINE Rest == (0..n) \ T
<1>1. Rest \in SUBSET Nat /\ Rest # {}
    OBVIOUS
<1>2. PICK x \in Rest : \A y \in Rest : x <= y
    <2> HIDE DEF Rest
    <2> QED BY <1>1, LeastElement
<1>3. x \in 1..n /\ x - 1 \in 0..n /\ x - 1 \notin Rest
    BY <1>2
<1> QED BY <1>2, <1>3

\* f begins with base, and step leads from each value up to the m-th to the next.
Iterates(f, m, base, step) ==
    f[0] = base /\ \A i \in 1..m : f[i] = step[<<f[i - 1], i>>]

\* A function on 0..n is defined by its first value and by what leads from each
\* value to the next.
LEMMA Recursion ==
    ASSUME NEW V, NEW n \in Nat, NEW base \in V, NEW step \in [V \X (1..n) -> V]
    PROVE  \E f \in [0..n -> V] : Iterates(f, n, base, step)
<1> DEFINE T == {m \in 0..n : \E f \in [0..m -> V] : Iterates(f, m, base, step)}
<1>1. 0 \in T
    <2> DEFINE f == [i \in 0..0 |-> base]
    <2>1. f \in [0..0 -> V]
        OBVIOUS
    <2>2. Iterates(f, 0, base, step)
        BY DEF Iterates
    <2> HIDE DEF f
    <2> QED BY <2>1, <2>2
<1>2. ASSUME NEW m \in 1..n, m - 1 \in T PROVE m \in T
    <2>1. PICK f \in [0..m - 1 -> V] : Iterates(f, m - 1, base, step)
        BY <1>2
    <2> DEFINE next == step[<<f[m - 1], m>>]
               g == [i \in 0..m |-> IF i = m THEN next ELSE f[i]]
    <2>2. next \in V
        BY <1>2
    <2>3. g \in [0..m -> V]
        <3> HIDE DEF next
        <3> QED BY <2>2
    <2>4. g[m] = next /\ \A i \in 0..m - 1 : g[i] = f[i]
        <3> HIDE DEF next
        <3> QED OBVIOUS
    <2>5. Iterates(g, m, base, step)
        <3> HIDE DEF g
        <3>1. g[0] = base
            BY <2>1, <2>4 DEF Iterates
        <3>2. g[m] = step[<<g[m - 1], m>>]
            <4>1. g[m - 1] = f[m - 1]
                BY <2>4
            <4> QED BY <2>4, <4>1
        <3>3. ASSUME NEW i \in 1..m - 1 PROVE g[i] = step[<<g[i - 1], i>>]
            BY <2>1, <2>4 DEF Iterates
        <3> HIDE DEF next
        <3> QED BY <3>1, <3>2, <3>3 DEF Iterates
    <2> HIDE DEF g
    <2> QED BY <2>3, <2>5
<1>3. T = 0..n
    <2> HIDE DEF T
    <2>1. T \in SUBSET (0..n)
        BY DEF T
    <2>2. \A i \in 1..n : i - 1 \in T => i \in T
        BY <1>2
    <2> QED BY <1>1, <2>1, <2>2, Induction
<1>4. n \in T
    BY <1>3
<1> QED BY <1>4

-----------------------------------------------------------------------------
(* find.                                                                   *)

\* find gives the first occurrence, and 0 only when there is none.
LEMMA FindIsFirst ==
    ASSUME NEW s \in String, NEW t \in String
    PROVE  /\ find(s, t) = 0 <=> Occurrences(s, t) = {}
           /\ find(s, t) # 0 => /\ find(s, t) \in Occurrences(s, t)
                                /\ \A i \in Occurrences(s, t) : find(s, t) <= i
<1>1. Occurrences(s, t) \in SUBSET (Nat \ {0})
    BY DEF Occurrences
<1>2. CASE Occurrences(s, t) # {}
    <2>1. \E i \in Occurrences(s, t) : \A j \in Occurrences(s, t) : i <= j
        BY <1>1, <1>2, LeastElement
    <2> QED BY <1>1, <1>2, <2>1 DEF find
<1> QED BY <1>1, <1>2 DEF find

\* What a text begins with is found there.
LEMMA FindPrefix ==
    ASSUME NEW t \in String, NEW u \in String
    PROVE  find(t \o u, t) = 1
<1>1. SubSeq(t \o u, 1, Len(t)) = t
    BY DEF String
<1>2. 1 \in Occurrences(t \o u, t)
    BY <1>1 DEF Occurrences, String
<1>3. find(t \o u, t) \in Occurrences(t \o u, t) /\ find(t \o u, t) <= 1
    <2>1. t \o u \in String
        BY DEF String
    <2>2. find(t \o u, t) # 0
        BY <1>2, <2>1, FindIsFirst
    <2> QED BY <1>2, <2>1, <2>2, FindIsFirst
<1> QED BY <1>3 DEF Occurrences, String

-----------------------------------------------------------------------------
(* get_tokens.                                                             *)

States == [tokens : Seq(String), prev : Nat \ {0}]

Start == [tokens |-> <<>>, prev |-> 1]

\* The tokens so far are texts.
LEMMA CutType ==
    ASSUME NEW line \in String, NEW delimiter, NEW acc \in States, NEW i \in 1..Len(line)
    PROVE  Cut(line, delimiter, acc, i) \in States
<1>1. SubSeq(line, acc.prev, i - 1) \in String
    <2>1. \A k \in acc.prev .. i - 1 : line[k] \in Character
        BY DEF String, States
    <2> QED BY <2>1, SubSeqProperties DEF String, States
<1>2. Add(acc.tokens, SubSeq(line, acc.prev, i - 1)) \in Seq(String)
    BY <1>1 DEF Add, States
<1> QED BY <1>2 DEF Cut, States

\* The loop over the characters is what its definition says at every step.
LEMMA ScanDefined ==
    ASSUME NEW line \in String, NEW delimiter
    PROVE  /\ Scan(line, delimiter) \in [0..Len(line) -> States]
           /\ Scan(line, delimiter)[0] = Start
           /\ \A i \in 1..Len(line) :
                 Scan(line, delimiter)[i] = Cut(line, delimiter, Scan(line, delimiter)[i - 1], i)
<1> DEFINE n == Len(line)
           step == [x \in States \X (1..n) |-> Cut(line, delimiter, x[1], x[2])]
           Def(f) == [i \in 0..n |-> IF i = 0 THEN Start ELSE Cut(line, delimiter, f[i - 1], i)]
<1>1. n \in Nat
    BY DEF String
<1>2. step \in [States \X (1..n) -> States]
    BY CutType
<1>3. Start \in States
    BY DEF Start, States
<1>4. PICK f \in [0..n -> States] : Iterates(f, n, Start, step)
    <2> HIDE DEF n, step
    <2> QED BY <1>1, <1>2, <1>3, Recursion
<1>5. \A i \in 1..n : f[i] = Cut(line, delimiter, f[i - 1], i)
    <2>1. ASSUME NEW i \in 1..n PROVE f[i] = Cut(line, delimiter, f[i - 1], i)
        <3>1. f[i - 1] \in States
            BY <1>4
        <3>2. step[<<f[i - 1], i>>] = Cut(line, delimiter, f[i - 1], i)
            BY <3>1
        <3> HIDE DEF step
        <3> QED BY <1>4, <3>2 DEF Iterates
    <2> QED BY <2>1
<1>6. f = Def(f)
    BY <1>4, <1>5 DEF Iterates
<1> DEFINE scan == Scan(line, delimiter)
<1>7. scan = CHOOSE g : g = Def(g)
    BY DEF Scan, Start
<1>8. scan = Def(scan)
    <2> HIDE DEF Def, scan
    <2> QED BY <1>6, <1>7
<1> HIDE DEF scan
<1>9. /\ scan[0] = Start
      /\ \A i \in 1..n : scan[i] = Cut(line, delimiter, scan[i - 1], i)
      /\ DOMAIN scan = 0..n
      /\ scan = [i \in 0..n |-> scan[i]]
    <2> DEFINE def == Def(scan)
    <2>1. DOMAIN def = 0..n /\ def = [i \in 0..n |-> def[i]]
        OBVIOUS
    <2>2. def[0] = Start
        BY <1>1
    <2>3. \A i \in 1..n : def[i] = Cut(line, delimiter, scan[i - 1], i)
        BY <1>1
    <2> HIDE DEF def
    <2>4. scan = def
        BY <1>8 DEF def
    <2> QED BY <2>1, <2>2, <2>3, <2>4
<1> DEFINE T == {i \in 0..n : scan[i] \in States}
<1>10. T = 0..n
    <2>1. T \in SUBSET (0..n) /\ 0 \in T
        BY <1>1, <1>3, <1>9
    <2>2. \A i \in 1..n : i - 1 \in T => i \in T
        BY <1>9, CutType
    <2> HIDE DEF T
    <2> QED BY <1>1, <2>1, <2>2, Induction
<1>11. scan \in [0..n -> States]
    BY <1>9, <1>10
<1> QED BY <1>9, <1>11 DEF scan

\* Subsequences of texts are texts, and equal if their characters are.
LEMMA Part ==
    ASSUME NEW s \in String, NEW a \in Nat \ {0}, NEW b \in Nat, b <= Len(s)
    PROVE  /\ SubSeq(s, a, b) \in String
           /\ Len(SubSeq(s, a, b)) = IF a <= b THEN b - a + 1 ELSE 0
           /\ \A i \in 1..b - a + 1 : SubSeq(s, a, b)[i] = s[a + i - 1]
<1>1. \A k \in a..b : s[k] \in Character
    BY DEF String
<1> QED BY <1>1, SubSeqProperties DEF String

\* Two texts with the same characters from a to b have the same part.
LEMMA SamePart ==
    ASSUME NEW s \in String, NEW t \in String, NEW a \in Nat \ {0}, NEW b \in Nat,
           b <= Len(s), b <= Len(t), \A k \in a..b : s[k] = t[k]
    PROVE  SubSeq(s, a, b) = SubSeq(t, a, b)
<1> DEFINE p == SubSeq(s, a, b)
           q == SubSeq(t, a, b)
<1>1. p \in String /\ q \in String /\ Len(p) = Len(q)
    BY Part
<1>2. ASSUME NEW i \in 1..Len(p) PROVE p[i] = q[i]
    <2>1. i \in 1..b - a + 1 /\ a + i - 1 \in a..b
        BY Part
    <2> QED BY <2>1, Part
<1> QED BY <1>1, <1>2, SeqEqual DEF String

\* The characters of two texts put together.
LEMMA Concat ==
    ASSUME NEW s \in String, NEW t \in String
    PROVE  /\ s \o t \in String
           /\ Len(s \o t) = Len(s) + Len(t)
           /\ \A i \in 1..Len(s) : (s \o t)[i] = s[i]
           /\ \A i \in 1..Len(t) : (s \o t)[Len(s) + i] = t[i]
BY DEF String

\* Two lines that begin alike are scanned alike.
LEMMA ScanAlike ==
    ASSUME NEW s \in String, NEW t \in String, NEW delimiter, NEW n \in Nat,
           n <= Len(s), n <= Len(t), \A k \in 1..n : s[k] = t[k]
    PROVE  Scan(s, delimiter)[n] = Scan(t, delimiter)[n]
<1> DEFINE T == {i \in 0..n : Scan(s, delimiter)[i] = Scan(t, delimiter)[i]}
<1>1. T \in SUBSET (0..n) /\ 0 \in T
    BY ScanDefined
<1>2. ASSUME NEW i \in 1..n, i - 1 \in T PROVE i \in T
    <2> DEFINE acc == Scan(s, delimiter)[i - 1]
    <2>1. acc = Scan(t, delimiter)[i - 1] /\ acc \in States
        <3>1. Scan(s, delimiter) \in [0..Len(s) -> States] /\ i - 1 \in 0..Len(s)
            BY ScanDefined DEF String
        <3> QED BY <1>2, <3>1
    <2>2. SubSeq(s, acc.prev, i - 1) = SubSeq(t, acc.prev, i - 1)
        <3> HIDE DEF acc
        <3>1. acc.prev \in Nat \ {0} /\ i - 1 \in Nat /\ i - 1 <= Len(s) /\ i - 1 <= Len(t)
            BY <2>1 DEF States, String
        <3>2. \A k \in acc.prev..i - 1 : s[k] = t[k]
            BY <3>1
        <3> QED BY <3>1, <3>2, SamePart
    <2>3. Cut(s, delimiter, acc, i) = Cut(t, delimiter, acc, i)
        <3> HIDE DEF acc
        <3> QED BY <2>2 DEF Cut
    <2>4. Scan(s, delimiter)[i] = Cut(s, delimiter, acc, i)
        BY ScanDefined DEF String
    <2>5. Scan(t, delimiter)[i] = Cut(t, delimiter, acc, i)
        BY <2>1, ScanDefined DEF String
    <2> QED BY <2>3, <2>4, <2>5
<1>3. T = 0..n
    <2> HIDE DEF T
    <2> QED BY <1>1, <1>2, Induction
<1>4. n \in T
    BY <1>3
<1> QED BY <1>4

\* Without a delimiter nothing is cut.
LEMMA ScanRun ==
    ASSUME NEW s \in String, NEW delimiter, NEW a \in Nat, NEW n \in Nat,
           a <= n, n <= Len(s), \A k \in a + 1..n : s[k] \notin delimiter
    PROVE  Scan(s, delimiter)[n] = Scan(s, delimiter)[a]
<1> DEFINE T == {i \in 0..n : a <= i => Scan(s, delimiter)[i] = Scan(s, delimiter)[a]}
<1>1. T \in SUBSET (0..n) /\ 0 \in T
    OBVIOUS
<1>2. ASSUME NEW i \in 1..n, i - 1 \in T PROVE i \in T
    <2>1. Scan(s, delimiter)[i] = Cut(s, delimiter, Scan(s, delimiter)[i - 1], i)
        BY ScanDefined DEF String
    <2>2. CASE a <= i - 1
        BY <1>2, <2>1, <2>2 DEF Cut
    <2>3. CASE ~(a <= i - 1)
        BY <2>3
    <2> QED BY <2>2, <2>3
<1>3. T = 0..n
    <2> HIDE DEF T
    <2> QED BY <1>1, <1>2, Induction
<1>4. n \in T
    BY <1>3
<1> QED BY <1>4

\* A character between two texts.
LEMMA Between ==
    ASSUME NEW s \in String, NEW c \in Character, NEW t \in String
    PROVE  /\ s \o <<c>> \o t \in String
           /\ Len(s) \in Nat /\ Len(t) \in Nat
           /\ Len(s \o <<c>> \o t) = Len(s) + 1 + Len(t)
           /\ \A i \in 1..Len(s) : (s \o <<c>> \o t)[i] = s[i]
           /\ (s \o <<c>> \o t)[Len(s) + 1] = c
           /\ \A i \in 1..Len(t) : (s \o <<c>> \o t)[Len(s) + 1 + i] = t[i]
<1> DEFINE front == Append(s, c)
<1>1. /\ front \in String
      /\ Len(front) = Len(s) + 1
      /\ front[Len(s) + 1] = c
      /\ \A i \in 1..Len(s) : front[i] = s[i]
    BY AppendProperties DEF String
<1>2. Len(s) \in Nat /\ Len(t) \in Nat
    BY DEF String
<1> HIDE DEF front
<1>3. front \o t \in String /\ Len(front \o t) = Len(front) + Len(t)
    BY <1>1, Concat
<1>4. \A i \in 1..Len(s) + 1 : (front \o t)[i] = front[i]
    BY <1>1, Concat
<1>5. \A i \in 1..Len(t) : (front \o t)[Len(s) + 1 + i] = t[i]
    BY <1>1, Concat
<1>6. s \o <<c>> \o t = front \o t
    BY AppendIsConcat DEF String, front
<1>7. /\ \A i \in 1..Len(s) : (front \o t)[i] = s[i]
      /\ (front \o t)[Len(s) + 1] = c
      /\ Len(front \o t) = Len(s) + 1 + Len(t)
    BY <1>1, <1>2, <1>3, <1>4
<1> QED BY <1>2, <1>3, <1>5, <1>6, <1>7, Zenon

\* A token that ends the line follows the tokens of what is before it.
THEOREM TokensSplit ==
    ASSUME NEW s \in String, NEW c \in Character, NEW t \in String, NEW delimiter, c \in delimiter,
           t # <<>>, \A i \in 1..Len(t) : t[i] \notin delimiter
    PROVE  get_tokens(s \o <<c>> \o t, delimiter) = Append(get_tokens(s, delimiter), t)
<1> DEFINE line == s \o <<c>> \o t
           k == Len(s)
           acc == Scan(s, delimiter)[k]
           cut == [tokens |-> Add(acc.tokens, From(s, acc.prev)), prev |-> k + 2]
<1>1. /\ line \in String
      /\ k \in Nat
      /\ Len(t) \in Nat \ {0}
      /\ Len(line) = k + 1 + Len(t)
      /\ \A i \in 1..k : line[i] = s[i]
      /\ line[k + 1] = c
      /\ \A i \in 1..Len(t) : line[k + 1 + i] = t[i]
    <2>1. /\ s \o <<c>> \o t \in String
          /\ Len(s) \in Nat /\ Len(t) \in Nat
          /\ Len(s \o <<c>> \o t) = Len(s) + 1 + Len(t)
          /\ \A i \in 1..Len(s) : (s \o <<c>> \o t)[i] = s[i]
          /\ (s \o <<c>> \o t)[Len(s) + 1] = c
          /\ \A i \in 1..Len(t) : (s \o <<c>> \o t)[Len(s) + 1 + i] = t[i]
        BY Between, Zenon
    <2>2. Len(t) # 0
        BY DEF String
    <2>3. Len(t) \in Nat \ {0}
        BY <2>1, <2>2
    <2> QED BY <2>1, <2>3, Zenon
<1> HIDE DEF line
<1>2. Scan(line, delimiter)[k] = acc /\ acc \in States
    <2>1. Scan(line, delimiter)[k] = Scan(s, delimiter)[k]
        <3>1. k <= Len(s) /\ k <= Len(line)
            BY <1>1
        <3> HIDE DEF k
        <3> QED BY <1>1, <3>1, ScanAlike
    <2>2. Scan(s, delimiter) \in [0..k -> States]
        BY ScanDefined
    <2> QED BY <1>1, <2>1, <2>2
<1> HIDE DEF acc
<1>3. Scan(line, delimiter)[k + 1] = cut
    <2>1. Scan(line, delimiter)[k + 1] = Cut(line, delimiter, acc, k + 1)
        BY <1>1, <1>2, ScanDefined
    <2>2. SubSeq(line, acc.prev, k) = From(s, acc.prev)
        <3>1. acc.prev \in Nat \ {0} /\ k <= Len(s) /\ k <= Len(line)
            BY <1>1, <1>2 DEF States
        <3>2. \A i \in acc.prev..k : line[i] = s[i]
            BY <1>1, <3>1
        <3> QED BY <1>1, <3>1, <3>2, SamePart DEF From
    <2>3. (k + 1) - 1 = k /\ (k + 1) + 1 = k + 2 /\ line[k + 1] \in delimiter
        BY <1>1
    <2> HIDE DEF k
    <2> QED BY <2>1, <2>2, <2>3 DEF Cut
<1>4. Scan(line, delimiter)[Len(line)] = cut
    <2>1. \A i \in k + 2..Len(line) : line[i] \notin delimiter
        <3>1. ASSUME NEW i \in k + 2..Len(line) PROVE line[i] \notin delimiter
            <4>1. i - k - 1 \in 1..Len(t) /\ i = k + 1 + (i - k - 1)
                BY <1>1
            <4> QED BY <1>1, <4>1
        <3> QED BY <3>1
    <2>2. k + 1 \in Nat /\ Len(line) \in Nat /\ k + 1 <= Len(line) /\ (k + 1) + 1 = k + 2
        BY <1>1
    <2>3. Scan(line, delimiter)[Len(line)] = Scan(line, delimiter)[k + 1]
        <3> HIDE DEF k
        <3> QED BY <1>1, <2>1, <2>2, ScanRun
    <2> QED BY <1>3, <2>3
<1>5. From(line, k + 2) = t
    <2> DEFINE p == SubSeq(line, k + 2, Len(line))
    <2>1. p \in String /\ Len(p) = Len(t) /\ \A i \in 1..Len(t) : p[i] = line[k + 1 + i]
        BY <1>1, Part
    <2> HIDE DEF p
    <2>2. p = t
        BY <1>1, <2>1, SeqEqual DEF String
    <2> QED BY <2>2 DEF p, From
<1>6. get_tokens(line, delimiter) = Add(cut.tokens, t)
    BY <1>4, <1>5 DEF get_tokens
<1>7. get_tokens(s, delimiter) = cut.tokens
    BY DEF get_tokens, acc
<1> QED BY <1>6, <1>7 DEF Add, line

\* A line without a delimiter is one token.
LEMMA OneToken ==
    ASSUME NEW s \in String, NEW delimiter, s # <<>>,
           \A i \in 1..Len(s) : s[i] \notin delimiter
    PROVE  get_tokens(s, delimiter) = <<s>>
<1>1. Len(s) \in Nat
    BY DEF String
<1>2. Scan(s, delimiter)[Len(s)] = Start
    BY <1>1, ScanRun, ScanDefined
<1>3. From(s, 1) = s
    BY DEF From, String
<1> QED BY <1>2, <1>3 DEF get_tokens, Add, Start

\* Tokens are texts.
LEMMA TokensType ==
    ASSUME NEW s \in String, NEW delimiter
    PROVE  get_tokens(s, delimiter) \in Seq(String)
<1> DEFINE all == Scan(s, delimiter)[Len(s)]
<1>1. all \in States
    BY ScanDefined DEF String
<1>2. From(s, all.prev) \in String
    <2>1. all.prev \in Nat \ {0} /\ Len(s) \in Nat
        BY <1>1 DEF States, String
    <2> HIDE DEF all
    <2> QED BY <2>1, Part DEF From
<1>3. all.tokens \in Seq(String)
    BY <1>1 DEF States
<1> HIDE DEF all
<1>4. Add(all.tokens, From(s, all.prev)) \in Seq(String)
    BY <1>2, <1>3 DEF Add
<1> QED BY <1>4 DEF get_tokens, all

-----------------------------------------------------------------------------
(* join, and joining what was split.                                       *)

\* The loop over the tokens is what its definition says at every step.
LEMMA JoinedDefined ==
    ASSUME NEW tokens \in Seq(String), NEW sep \in String
    PROVE  /\ Joined(tokens, sep) \in [0..Len(tokens) -> String]
           /\ Joined(tokens, sep)[0] = <<>>
           /\ \A i \in 1..Len(tokens) :
                 Joined(tokens, sep)[i] =
                    IF i = 1 THEN tokens[1] ELSE Joined(tokens, sep)[i - 1] \o sep \o tokens[i]
<1> DEFINE n == Len(tokens)
           Glue(text, i) == IF i = 1 THEN tokens[1] ELSE text \o sep \o tokens[i]
           step == [x \in String \X (1..n) |-> Glue(x[1], x[2])]
           Def(f) == [i \in 0..n |-> IF i = 0 THEN <<>> ELSE Glue(f[i - 1], i)]
<1>1. n \in Nat
    OBVIOUS
<1>2. ASSUME NEW text \in String, NEW i \in 1..n PROVE Glue(text, i) \in String
    <2>1. tokens[1] \in String /\ tokens[i] \in String
        OBVIOUS
    <2>2. text \o sep \in String
        BY Concat
    <2> QED BY <2>1, <2>2, Concat
<1>3. step \in [String \X (1..n) -> String]
    <2> HIDE DEF n, Glue
    <2> QED BY <1>2
<1>4. <<>> \in String
    BY DEF String
<1>5. PICK f \in [0..n -> String] : Iterates(f, n, <<>>, step)
    <2> HIDE DEF n, step
    <2> QED BY <1>1, <1>3, <1>4, Recursion
<1>6. ASSUME NEW i \in 1..n PROVE f[i] = Glue(f[i - 1], i)
    <2>1. f[i - 1] \in String
        BY <1>5
    <2>2. step[<<f[i - 1], i>>] = Glue(f[i - 1], i)
        <3> HIDE DEF Glue
        <3> QED BY <2>1
    <2> HIDE DEF step
    <2> QED BY <1>5, <2>2 DEF Iterates
<1>7. f = Def(f)
    <2> HIDE DEF Glue
    <2> QED BY <1>5, <1>6 DEF Iterates
<1> DEFINE joined == Joined(tokens, sep)
<1>8. joined = CHOOSE g : g = Def(g)
    <2>1. \A g : Def(g) = [i \in 0..n |-> IF i = 0 THEN <<>>
                             ELSE IF i = 1 THEN tokens[1] ELSE g[i - 1] \o sep \o tokens[i]]
        OBVIOUS
    <2> QED BY DEF Joined
<1>9. joined = Def(joined)
    <2> HIDE DEF Def, joined
    <2> QED BY <1>7, <1>8
<1> HIDE DEF joined
<1>10. /\ joined[0] = <<>>
       /\ \A i \in 1..n : joined[i] = Glue(joined[i - 1], i)
       /\ DOMAIN joined = 0..n
       /\ joined = [i \in 0..n |-> joined[i]]
    <2> DEFINE def == Def(joined)
    <2> HIDE DEF Glue
    <2>1. DOMAIN def = 0..n /\ def = [i \in 0..n |-> def[i]]
        OBVIOUS
    <2>2. def[0] = <<>>
        BY <1>1
    <2>3. \A i \in 1..n : def[i] = Glue(joined[i - 1], i)
        BY <1>1
    <2> HIDE DEF def
    <2>4. joined = def
        BY <1>9 DEF def
    <2> QED BY <2>1, <2>2, <2>3, <2>4
<1> DEFINE T == {i \in 0..n : joined[i] \in String}
<1>11. T = 0..n
    <2> HIDE DEF Glue
    <2>1. T \in SUBSET (0..n) /\ 0 \in T
        BY <1>1, <1>4, <1>10
    <2>2. ASSUME NEW i \in 1..n, i - 1 \in T PROVE i \in T
        <3>1. joined[i - 1] \in String /\ joined[i] = Glue(joined[i - 1], i)
            BY <1>10, <2>2
        <3>2. joined[i] \in String
            BY <1>2, <3>1
        <3> QED BY <3>2
    <2> HIDE DEF T
    <2> QED BY <1>1, <2>1, <2>2, Induction
<1>12. joined \in [0..n -> String]
    <2> HIDE DEF Glue
    <2> QED BY <1>10, <1>11
<1> QED BY <1>10, <1>12 DEF joined

\* The last token follows what is joined of those before it.
LEMMA JoinAppend ==
    ASSUME NEW tokens \in Seq(String), NEW t \in String, NEW sep \in String
    PROVE  join(Append(tokens, t), sep) =
              IF tokens = <<>> THEN t ELSE join(tokens, sep) \o sep \o t
<1> DEFINE n == Len(tokens)
           more == Append(tokens, t)
           T == {i \in 0..n : Joined(more, sep)[i] = Joined(tokens, sep)[i]}
<1>1. /\ n \in Nat
      /\ more \in Seq(String)
      /\ Len(more) = n + 1
      /\ more[n + 1] = t
      /\ \A i \in 1..n : more[i] = tokens[i]
    OBVIOUS
<1> HIDE DEF more
<1>2. T \in SUBSET (0..n) /\ 0 \in T
    BY <1>1, JoinedDefined
<1>3. ASSUME NEW i \in 1..n, i - 1 \in T PROVE i \in T
    <2>1. /\ i \in 1..Len(more)
          /\ more[i] = tokens[i] /\ more[1] = tokens[1]
          /\ Joined(more, sep)[i - 1] = Joined(tokens, sep)[i - 1]
        BY <1>1, <1>3
    <2>2. Joined(more, sep)[i] =
             IF i = 1 THEN more[1] ELSE Joined(more, sep)[i - 1] \o sep \o more[i]
        BY <1>1, <2>1, JoinedDefined
    <2>3. Joined(tokens, sep)[i] =
             IF i = 1 THEN tokens[1] ELSE Joined(tokens, sep)[i - 1] \o sep \o tokens[i]
        BY JoinedDefined
    <2>4. Joined(more, sep)[i] = Joined(tokens, sep)[i]
        BY <2>1, <2>2, <2>3
    <2> QED BY <2>4
<1>4. T = 0..n
    <2> HIDE DEF T
    <2> QED BY <1>1, <1>2, <1>3, Induction
<1>5. Joined(more, sep)[n] = Joined(tokens, sep)[n]
    BY <1>1, <1>4
<1>6. Joined(more, sep)[n + 1] =
         IF n + 1 = 1 THEN more[1] ELSE Joined(more, sep)[(n + 1) - 1] \o sep \o more[n + 1]
    <2> HIDE DEF n
    <2> QED BY <1>1, JoinedDefined
<1>7. (n + 1) - 1 = n /\ (n + 1 = 1 <=> tokens = <<>>) /\ (n + 1 = 1 => more[1] = t)
    BY <1>1
<1> HIDE DEF n
<1>8. join(more, sep) = IF tokens = <<>> THEN t ELSE join(tokens, sep) \o sep \o t
    BY <1>1, <1>5, <1>6, <1>7 DEF join, n
<1> QED BY <1>8 DEF more

\* Nothing joined is nothing.
LEMMA JoinNone ==
    ASSUME NEW sep \in String
    PROVE  join(<<>>, sep) = <<>>
<1>1. <<>> \in Seq(String) /\ Len(<<>>) = 0
    OBVIOUS
<1> QED BY <1>1, JoinedDefined DEF join

\* Character by character, s is front, c and rest.
Consists(s, front, c, rest) ==
    /\ Len(s) = Len(front) + 1 + Len(rest)
    /\ \A i \in 1..Len(front) : s[i] = front[i]
    /\ s[Len(front) + 1] = c
    /\ \A i \in 1..Len(rest) : s[Len(front) + 1 + i] = rest[i]

\* A text that consists of three parts is these put together.
LEMMA Assembled ==
    ASSUME NEW s \in String, NEW front \in String, NEW c \in Character, NEW rest \in String,
           Consists(s, front, c, rest)
    PROVE  s = front \o <<c>> \o rest
<1>0. /\ front \o <<c>> \o rest \in String
      /\ Len(front) \in Nat /\ Len(rest) \in Nat
      /\ Len(front \o <<c>> \o rest) = Len(front) + 1 + Len(rest)
      /\ \A i \in 1..Len(front) : (front \o <<c>> \o rest)[i] = front[i]
      /\ (front \o <<c>> \o rest)[Len(front) + 1] = c
      /\ \A i \in 1..Len(rest) : (front \o <<c>> \o rest)[Len(front) + 1 + i] = rest[i]
    BY Between
<1> DEFINE whole == front \o <<c>> \o rest
           k == Len(front)
<1>1. /\ whole \in String
      /\ Len(whole) = k + 1 + Len(rest)
      /\ \A i \in 1..k : whole[i] = front[i]
      /\ whole[k + 1] = c
      /\ \A i \in 1..Len(rest) : whole[k + 1 + i] = rest[i]
      /\ k \in Nat /\ Len(rest) \in Nat
    BY <1>0
<1> HIDE DEF whole, k
<1>2. ASSUME NEW i \in 1..Len(whole) PROVE s[i] = whole[i]
    <2>1. \/ i \in 1..k
          \/ i = k + 1
          \/ i - k - 1 \in 1..Len(rest) /\ i = k + 1 + (i - k - 1)
        BY <1>1, <1>2
    <2> QED BY <1>1, <2>1 DEF k, Consists
<1>3. Len(s) = Len(whole) /\ s \in Seq(Character) /\ whole \in Seq(Character)
    BY <1>1 DEF k, String, Consists
<1>4. s = whole
    BY <1>2, <1>3, SeqEqual
<1> QED BY <1>4 DEF whole

\* A text is what is before its k-th character, that one, and what is after it.
LEMMA Around ==
    ASSUME NEW s \in String, NEW k \in 1..Len(s)
    PROVE  /\ SubSeq(s, 1, k - 1) \in String
           /\ Len(SubSeq(s, 1, k - 1)) = k - 1
           /\ \A i \in 1..k - 1 : SubSeq(s, 1, k - 1)[i] = s[i]
           /\ SubSeq(s, k + 1, Len(s)) \in String
           /\ Len(SubSeq(s, k + 1, Len(s))) = Len(s) - k
           /\ \A i \in 1..Len(s) - k : SubSeq(s, k + 1, Len(s))[i] = s[k + i]
           /\ s = SubSeq(s, 1, k - 1) \o <<s[k]>> \o SubSeq(s, k + 1, Len(s))
<1> DEFINE n == Len(s)
           front == SubSeq(s, 1, k - 1)
           rest == SubSeq(s, k + 1, n)
           c == s[k]
<1>1. n \in Nat /\ k \in 1..n /\ c \in Character
    BY DEF String
<1>2. /\ front \in String
      /\ Len(front) = k - 1
      /\ \A i \in 1..k - 1 : front[i] = s[i]
    <2>1. k - 1 \in Nat /\ 1 \in Nat \ {0} /\ k - 1 <= Len(s)
        BY <1>1
    <2> QED BY <1>1, <2>1, Part
<1>3. /\ rest \in String
      /\ Len(rest) = n - k
      /\ \A i \in 1..n - k : rest[i] = s[k + i]
    <2>1. k + 1 \in Nat \ {0}
        BY <1>1
    <2> HIDE DEF rest
    <2>2. /\ rest \in String
          /\ Len(rest) = IF k + 1 <= n THEN n - (k + 1) + 1 ELSE 0
          /\ \A i \in 1..n - (k + 1) + 1 : rest[i] = s[k + 1 + i - 1]
        BY <1>1, <2>1, Part DEF rest
    <2> HIDE DEF n
    <2> QED BY <1>1, <2>2
<1> HIDE DEF front, rest
<1>4. /\ Len(s) = Len(front) + 1 + Len(rest)
      /\ Len(front) + 1 = k
      /\ \A i \in 1..Len(front) : s[i] = front[i]
      /\ \A i \in 1..Len(rest) : s[Len(front) + 1 + i] = rest[i]
    BY <1>1, <1>2, <1>3
<1> HIDE DEF c
<1>5. s = front \o <<c>> \o rest
    <2>1. s[Len(front) + 1] = c
        BY <1>4 DEF c
    <2>2. Consists(s, front, c, rest)
        BY <1>4, <2>1 DEF Consists
    <2> QED BY <1>1, <1>2, <1>3, <2>2, Assembled
<1> QED BY <1>2, <1>3, <1>5 DEF n, front, rest, c

\* Splitting a name at its colons and joining the parts gives the name.
THEOREM JoinTokens ==
    ASSUME NEW name \in String, WellParted(name)
    PROVE  join(get_tokens(name, {":"}), <<":">>) = name
<1> DEFINE Joins(f) == join(get_tokens(f, {":"}), <<":">>) = f
           Others == {f \in String : WellParted(f) /\ ~Joins(f)}
           Lengths == {Len(f) : f \in Others}
<1>0. ":" \in Character /\ <<":">> \in String
    <2>1. ":" \in Character
        BY CharacterAssumption
    <2> QED BY <2>1 DEF String
<1> SUFFICES ASSUME Others # {} PROVE FALSE
    OBVIOUS
<1>1. PICK f \in Others : \A g \in Others : Len(f) <= Len(g)
    <2>1. Lengths \in SUBSET Nat /\ Lengths # {}
        <3>1. \A f \in Others : Len(f) \in Nat
            BY DEF String
        <3> HIDE DEF Others
        <3> QED BY <3>1
    <2> HIDE DEF Others, Lengths
    <2>2. PICK n \in Lengths : \A m \in Lengths : n <= m
        BY <2>1, LeastElement
    <2> QED BY <2>2 DEF Lengths
<1>2. f \in String /\ f # <<>> /\ Len(f) \in Nat
    BY DEF WellParted, String
<1>3. CASE \A i \in 1..Len(f) : f[i] \notin {":"}
    <2>1. get_tokens(f, {":"}) = <<f>>
        BY <1>2, <1>3, OneToken
    <2>2. <<f>> = Append(<<>>, f) /\ <<>> \in Seq(String)
        OBVIOUS
    <2>3. join(<<f>>, <<":">>) = f
        BY <1>0, <1>2, <2>2, JoinAppend
    <2> QED BY <2>1, <2>3
<1>4. CASE \E i \in 1..Len(f) : f[i] = ":"
    <2> DEFINE Back == {Len(f) - i : i \in {j \in 1..Len(f) : f[j] = ":"}}
    <2>1. Back \in SUBSET Nat /\ Back # {}
        BY <1>2, <1>4
    <2>2. PICK back \in Back : \A b \in Back : back <= b
        <3> HIDE DEF Back
        <3> QED BY <2>1, LeastElement
    <2>3. PICK k \in 1..Len(f) : f[k] = ":" /\ \A i \in 1..Len(f) : f[i] = ":" => i <= k
        <3>1. PICK k \in 1..Len(f) : f[k] = ":" /\ back = Len(f) - k
            BY <2>2
        <3>2. ASSUME NEW i \in 1..Len(f), f[i] = ":" PROVE i <= k
            <4>1. Len(f) - i \in Back
                BY <3>2
            <4> HIDE DEF Back
            <4>2. Len(f) - k <= Len(f) - i
                BY <2>2, <3>1, <4>1
            <4> QED BY <1>2, <4>2
        <3> QED BY <3>1, <3>2
    <2> DEFINE s == SubSeq(f, 1, k - 1)
               t == SubSeq(f, k + 1, Len(f))
    <2>4. /\ s \in String /\ Len(s) = k - 1 /\ \A i \in 1..k - 1 : s[i] = f[i]
          /\ t \in String /\ Len(t) = Len(f) - k /\ \A i \in 1..Len(f) - k : t[i] = f[k + i]
          /\ f = s \o <<":">> \o t
        BY <1>2, <2>3, Around
    <2> HIDE DEF s, t
    <2>5. k > 1 /\ k < Len(f) /\ f[k - 1] # ":"
        <3>1. k \in DOMAIN f /\ WellParted(f)
            BY <1>2 DEF String
        <3> QED BY <2>3, <3>1 DEF WellParted
    <2>6. s # <<>> /\ t # <<>> /\ Len(s) < Len(f)
        BY <1>2, <2>4, <2>5
    <2>7. ASSUME NEW i \in 1..Len(t) PROVE t[i] \notin {":"}
        <3>1. k + i \in 1..Len(f) /\ k + i > k
            BY <1>2, <2>4
        <3> QED BY <2>3, <2>4, <3>1
    <2>8. WellParted(s)
        <3>1. ASSUME NEW i \in DOMAIN s, s[i] = ":"
              PROVE  i > 1 /\ i < Len(s) /\ s[i - 1] # ":"
            <4>1. i \in 1..k - 1 /\ i \in DOMAIN f /\ f[i] = ":"
                BY <1>2, <2>4, <3>1 DEF String
            <4>2. i > 1 /\ f[i - 1] # ":"
                BY <4>1 DEF WellParted
            <4>3. i # k - 1
                BY <2>5, <4>1
            <4>4. i < k - 1 /\ s[i - 1] = f[i - 1]
                BY <2>4, <4>1, <4>2, <4>3
            <4> QED BY <2>4, <4>2, <4>4
        <3> QED BY <2>6, <3>1 DEF WellParted
    <2>9. Joins(s)
        <3>1. ~(Len(f) <= Len(s))
            BY <1>2, <2>4, <2>5
        <3> QED BY <1>1, <2>4, <2>8, <3>1
    <2> DEFINE tokens == get_tokens(s, {":"})
    <2>10. tokens \in Seq(String)
        BY <2>4, TokensType
    <2>11. get_tokens(f, {":"}) = Append(tokens, t)
        <3>1. /\ s \in String /\ ":" \in Character /\ t \in String /\ ":" \in {":"}
              /\ t # <<>> /\ \A i \in 1..Len(t) : t[i] \notin {":"}
            BY <1>0, <2>4, <2>6, <2>7
        <3>2. get_tokens(s \o <<":">> \o t, {":"}) = Append(get_tokens(s, {":"}), t)
            BY <3>1, TokensSplit
        <3> QED BY <2>4, <3>2
    <2>12. tokens # <<>>
        BY <1>0, <2>6, <2>9, JoinNone
    <2>13. join(tokens, <<":">>) = s
        BY <2>9
    <2> HIDE DEF tokens
    <2>14. join(Append(tokens, t), <<":">>) = f
        BY <1>0, <2>4, <2>10, <2>12, <2>13, JoinAppend
    <2> QED BY <2>11, <2>14
<1> QED BY <1>3, <1>4

-----------------------------------------------------------------------------
(* "file:line" and "file:line:column".                                     *)

\* A number is a text of digits and has no colon.
LEMMA DigitsAreCharacters ==
    ASSUME NEW str \in Seq(Digit) \ {<<>>}
    PROVE  /\ str \in String
           /\ is_digits(str)
           /\ \A i \in 1..Len(str) : str[i] \notin {":"}
<1>1. Digit \subseteq Character
    BY CharacterAssumption
<1>2. ":" \notin Digit
    BY DEF Digit
<1> HIDE DEF Digit
<1>3. str \in Seq(Character)
    BY <1>1
<1> QED BY <1>2, <1>3 DEF String, is_digits

\* A text that has only characters of a set begins with all of it.
LEMMA LeadingAll ==
    ASSUME NEW chars, NEW str \in Seq(chars)
    PROVE  Leading(str, chars) = str
<1> DEFINE All(k) == /\ \A i \in 1..k : str[i] \in chars
                     /\ k < Len(str) => str[k + 1] \notin chars
<1>0. Len(str) \in Nat /\ \A i \in 1..Len(str) : str[i] \in chars
    OBVIOUS
<1>1. SubSeq(str, 1, Len(str)) = str
    OBVIOUS
<1>2. All(Len(str))
    BY <1>0
<1>3. ASSUME NEW k \in 0..Len(str), All(k) PROVE k = Len(str)
    <2>1. ~(k < Len(str))
        <3> SUFFICES ASSUME k < Len(str) PROVE FALSE
            OBVIOUS
        <3>1. str[k + 1] \notin chars
            BY <1>3
        <3>2. k + 1 \in 1..Len(str)
            BY <1>0
        <3> HIDE DEF All
        <3> QED BY <1>0, <3>1, <3>2
    <2> HIDE DEF All
    <2> QED BY <1>0, <2>1
<1> HIDE DEF All
<1>4. Len(str) \in 0..Len(str)
    BY <1>0
<1>5. (CHOOSE k \in 0..Len(str) : All(k)) = Len(str)
    BY <1>2, <1>3, <1>4, Zenon
<1>6. SubSeq(str, 1, CHOOSE k \in 0..Len(str) : All(k)) = str
    BY <1>1, <1>5, Zenon
<1> QED BY <1>6, Zenon DEF Leading, All

\* One whose first character is not in the set begins with none.
LEMMA LeadingNone ==
    ASSUME NEW chars, NEW S, NEW str \in Seq(S) \ {<<>>}, str[1] \notin chars
    PROVE  Leading(str, chars) = <<>>
<1> DEFINE All(k) == /\ \A i \in 1..k : str[i] \in chars
                     /\ k < Len(str) => str[k + 1] \notin chars
<1>0. Len(str) \in Nat
    OBVIOUS
<1>1. SubSeq(str, 1, 0) = <<>>
    OBVIOUS
<1>2. All(0)
    OBVIOUS
<1>3. ASSUME NEW k \in 0..Len(str), All(k) PROVE k = 0
    <2> SUFFICES ASSUME k # 0 PROVE FALSE
        OBVIOUS
    <2>1. 1 \in 1..k
        BY <1>0
    <2> QED BY <1>3, <2>1
<1> HIDE DEF All
<1>4. 0 \in 0..Len(str)
    BY <1>0
<1>5. (CHOOSE k \in 0..Len(str) : All(k)) = 0
    BY <1>2, <1>3, <1>4, Zenon
<1>6. SubSeq(str, 1, CHOOSE k \in 0..Len(str) : All(k)) = <<>>
    BY <1>1, <1>5, Zenon
<1> QED BY <1>6, Zenon DEF Leading, All

\* std::stoi reads all of a text of digits.
LEMMA StoiOfDigits ==
    ASSUME NEW str \in Seq(Digit) \ {<<>>}
    PROVE  Unsigned(str) = str /\ stoi(str) = Number(str)
<1>1. str[1] \in Digit
    <2>1. 1 \in 1..Len(str)
        OBVIOUS
    <2> HIDE DEF Digit
    <2> QED BY <2>1
<1>2. str[1] \notin {" "} /\ str[1] \notin {"+", "-"}
    BY <1>1 DEF Digit
<1> HIDE DEF Digit
<1>3. Leading(str, {" "}) = <<>>
    BY <1>2, LeadingNone
<1>4. Unblanked(str) = str
    <2>1. Len(<<>>) + 1 = 1
        BY SMT
    <2>2. SubSeq(str, 1, Len(str)) = str
        OBVIOUS
    <2> QED BY <1>3, <2>1, <2>2 DEF Unblanked, From
<1>5. ~HasSign(Unblanked(str))
    BY <1>2, <1>4 DEF HasSign
<1>6. Unsigned(str) = str
    BY <1>4, <1>5, LeadingAll DEF Unsigned
<1> QED BY <1>5, <1>6 DEF stoi

\* A pair is its first element and the second after it.
LEMMA AppendSecond ==
    ASSUME NEW a \in String, NEW b \in String
    PROVE  Append(<<a>>, b) = <<a, b>>
<1> DEFINE p == Append(<<a>>, b)
           q == <<a, b>>
<1>1. p \in Seq(String) /\ q \in Seq(String) /\ Len(p) = 2 /\ Len(q) = 2
    OBVIOUS
<1>2. p[1] = q[1] /\ p[2] = q[2]
    OBVIOUS
<1> HIDE DEF p, q
<1>3. \A i \in 1..Len(p) : p[i] = q[i]
    BY <1>1, <1>2
<1>4. p = q
    BY <1>1, <1>3, SeqEqual
<1> QED BY <1>4 DEF p, q

\* "file:line" is taken apart as it was put together.
THEOREM FileAndLine ==
    ASSUME NEW file \in String, NEW line \in Seq(Digit) \ {<<>>},
           file # <<>>, \A i \in 1..Len(file) : file[i] \notin {":"}
    PROVE  get_tokens(file \o <<":">> \o line, {":"}) = <<file, line>>
<1>1. ":" \in Character
    BY CharacterAssumption
<1>2. line \in String /\ line # <<>> /\ \A i \in 1..Len(line) : line[i] \notin {":"}
    BY DigitsAreCharacters
<1>3. get_tokens(file \o <<":">> \o line, {":"}) = Append(get_tokens(file, {":"}), line)
    BY <1>1, <1>2, TokensSplit
<1>4. get_tokens(file, {":"}) = <<file>>
    BY OneToken
<1>5. Append(<<file>>, line) = <<file, line>>
    BY <1>2, AppendSecond
<1> QED BY <1>3, <1>4, <1>5

\* "file:line:column" leads to the file and the line, whatever colons are in the
\* name of the file, unless the line is more than an unsigned long holds, which
\* std::stoul throws at.
THEOREM FileLineColumn ==
    ASSUME NEW file \in String, WellParted(file),
           NEW line \in Seq(Digit) \ {<<>>}, NEW column \in Seq(Digit) \ {<<>>}, NEW modulus
    PROVE  LET at == get_fn_ln(file \o <<":">> \o line \o <<":">> \o column, modulus)
           IN /\ stoul_throws(line, modulus) => at = Thrown
              /\ ~stoul_throws(line, modulus) => at = Location(file, stoul(line, modulus), modulus)
<1> DEFINE parts == get_tokens(file, {":"})
           front == file \o <<":">> \o line
           path == front \o <<":">> \o column
           tokens == get_tokens(path, {":"})
<1>1. ":" \in Character /\ <<":">> \in String /\ ":" \in {":"}
    <2>1. ":" \in Character
        BY CharacterAssumption
    <2> QED BY <2>1 DEF String
<1>2. /\ line \in String /\ line # <<>> /\ \A i \in 1..Len(line) : line[i] \notin {":"}
      /\ column \in String /\ column # <<>> /\ \A i \in 1..Len(column) : column[i] \notin {":"}
    BY DigitsAreCharacters
<1>3. parts \in Seq(String) /\ join(parts, <<":">>) = file
    BY TokensType, JoinTokens
<1>4. parts # <<>>
    BY <1>1, <1>3, JoinNone DEF WellParted
<1>5. front \in String
    BY <1>1, <1>2, Between
<1>6. get_tokens(front, {":"}) = Append(parts, line)
    BY <1>1, <1>2, TokensSplit
<1>7. tokens = Append(Append(parts, line), column)
    <2> HIDE DEF front
    <2>1. tokens = Append(get_tokens(front, {":"}), column)
        <3>1. column \in String /\ column # <<>> /\ \A i \in 1..Len(column) : column[i] \notin {":"}
            BY <1>2
        <3> QED BY <1>1, <1>5, <3>1, TokensSplit
    <2> QED BY <1>6, <2>1
<1> HIDE DEF parts, front, tokens
<1> DEFINE n == Len(tokens)
<1>8. /\ n = Len(parts) + 2 /\ n > 2 /\ n # 2
      /\ tokens[n - 1] = line
      /\ tokens[n] = column
      /\ SubSeq(tokens, 1, n - 2) = parts
    <2>1. Len(parts) \in Nat \ {0}
        BY <1>3, <1>4
    <2>2. Append(parts, line) \in Seq(String) /\ Len(Append(parts, line)) = Len(parts) + 1
        BY <1>2, <1>3
    <2>3. tokens \in Seq(String) /\ n = Len(parts) + 2
        BY <1>2, <1>7, <2>1, <2>2
    <2>4. tokens[Len(parts) + 2] = column
        BY <1>2, <1>7, <2>1, <2>2
    <2>5. \A i \in 1..Len(parts) + 1 : tokens[i] = Append(parts, line)[i]
        BY <1>2, <1>7, <2>1, <2>2
    <2>6. tokens[Len(parts) + 1] = line
        BY <1>2, <1>3, <2>1, <2>5
    <2>7. \A i \in 1..Len(parts) : tokens[i] = parts[i]
        BY <1>2, <1>3, <2>1, <2>5
    <2>8. SubSeq(tokens, 1, Len(parts)) = parts
        <3> DEFINE sub == SubSeq(tokens, 1, Len(parts))
        <3>1. sub \in Seq(String) /\ Len(sub) = Len(parts)
              /\ \A i \in 1..Len(parts) : sub[i] = tokens[i]
            BY <2>1, <2>3
        <3> HIDE DEF sub
        <3>2. sub = parts
            BY <1>3, <2>7, <3>1, SeqEqual
        <3> QED BY <3>2 DEF sub
    <2>9. n - 2 = Len(parts) /\ n - 1 = Len(parts) + 1 /\ n > 2
        BY <2>1, <2>3
    <2> HIDE DEF n
    <2> QED BY <2>1, <2>3, <2>4, <2>6, <2>8, <2>9
<1>9. is_digits(line) /\ is_digits(column)
    BY DigitsAreCharacters
<1> HIDE DEF n, path
<1>10. get_fn_ln(path, modulus) =
          AtLine(join(SubSeq(tokens, 1, n - 2), <<":">>), tokens[n - 1], modulus)
    BY <1>8, <1>9 DEF get_fn_ln, n, tokens
<1>11. get_fn_ln(path, modulus) = AtLine(file, line, modulus)
    BY <1>3, <1>8, <1>10
<1> QED BY <1>11 DEF path, front, AtLine

-----------------------------------------------------------------------------
(* Names of signals.                                                       *)

\* An empty text adds nothing.
LEMMA ConcatEmpty ==
    ASSUME NEW s \in String
    PROVE  s \o <<>> = s /\ <<>> \o s = s /\ <<>> \in String
BY DEF String

\* What occurs in a text occurs in whatever begins with it.
LEMMA FindWithin ==
    ASSUME NEW s \in String, NEW t \in String, NEW u \in String, find(s, t) # 0
    PROVE  find(s \o u, t) # 0
<1> DEFINE i == find(s, t)
<1>1. i \in Occurrences(s, t)
    BY FindIsFirst
<1>2. /\ i \in 1..(Len(s) - Len(t) + 1)
      /\ SubSeq(s, i, i + Len(t) - 1) = t
      /\ Len(s) \in Nat /\ Len(t) \in Nat /\ Len(u) \in Nat
    BY <1>1 DEF Occurrences, String
<1> HIDE DEF i
<1>3. s \o u \in String /\ Len(s \o u) = Len(s) + Len(u) /\ \A k \in 1..Len(s) : (s \o u)[k] = s[k]
    BY Concat
<1>4. SubSeq(s \o u, i, i + Len(t) - 1) = t
    <2> DEFINE b == i + Len(t) - 1
               w == s \o u
    <2>1. i \in Nat \ {0} /\ b \in Nat /\ b <= Len(s) /\ b <= Len(w)
        BY <1>2, <1>3
    <2>2. \A k \in i..b : w[k] = s[k]
        BY <1>2, <1>3
    <2>3. w \in String
        BY <1>3
    <2> HIDE DEF b, w
    <2>4. SubSeq(w, i, b) = SubSeq(s, i, b)
        BY <2>1, <2>2, <2>3, SamePart
    <2> QED BY <1>2, <2>4 DEF b, w
<1>5. i \in Occurrences(s \o u, t)
    BY <1>2, <1>3, <1>4 DEF Occurrences
<1> QED BY <1>3, <1>5, FindIsFirst

\* With a top name as the code keeps it, a name becomes a full name once.
IsTop(top) == top \in String /\ top # <<>> /\ Last(top) = "."

\* get_handle_name puts the top name in front unless it occurs, and does nothing
\* to a name that it made.
THEOREM HandleName ==
    ASSUME NEW top, IsTop(top), NEW name \in String
    PROVE  /\ get_handle_name(top, name) = IF find(name, top) = 0 THEN top \o name ELSE name
           /\ get_handle_name(top, name) \in String
           /\ get_handle_name(top, get_handle_name(top, name)) = get_handle_name(top, name)
<1>1. top \in String /\ top # <<>> /\ Last(top) = "."
    BY DEF IsTop
<1>2. \A n : get_handle_name(top, n) = IF find(n, top) = 0 THEN top \o n ELSE n
    <2>1. top \o <<>> = top
        BY <1>1, ConcatEmpty
    <2> QED BY <1>1, <2>1 DEF get_handle_name
<1>3. top \o name \in String /\ find(top \o name, top) = 1
    BY <1>1, Concat, FindPrefix
<1>4. get_handle_name(top, top \o name) = top \o name
    <2>1. find(top \o name, top) # 0
        BY <1>3
    <2> QED BY <1>2, <2>1, Zenon
<1>5. CASE find(name, top) = 0
    <2>1. get_handle_name(top, name) = top \o name
        BY <1>2, <1>5
    <2> QED BY <1>3, <1>4, <1>5, <2>1
<1>6. CASE find(name, top) # 0
    <2>1. get_handle_name(top, name) = name
        BY <1>2, <1>6
    <2> QED BY <1>6, <2>1
<1> QED BY <1>5, <1>6

\* A text that begins with another is that one and a rest.
LEMMA PrefixRest ==
    ASSUME NEW s \in String, NEW t \in String, IsPrefix(s, t)
    PROVE  From(t, Len(s) + 1) \in String /\ t = s \o From(t, Len(s) + 1)
<1> DEFINE n == Len(s)
           rest == SubSeq(t, n + 1, Len(t))
<1>1. n \in Nat /\ Len(t) \in Nat /\ n <= Len(t)
    BY DEF String, IsPrefix
<1>2. /\ rest \in String /\ Len(rest) = Len(t) - n
      /\ \A i \in 1..Len(t) - n : rest[i] = t[n + i]
    <2>1. n + 1 \in Nat \ {0}
        BY <1>1
    <2> HIDE DEF rest
    <2>2. /\ rest \in String
          /\ Len(rest) = IF n + 1 <= Len(t) THEN Len(t) - (n + 1) + 1 ELSE 0
          /\ \A i \in 1..Len(t) - (n + 1) + 1 : rest[i] = t[n + 1 + i - 1]
        BY <1>1, <2>1, Part DEF rest
    <2> HIDE DEF n
    <2> QED BY <1>1, <2>2
<1>3. \A i \in 1..n : t[i] = s[i]
    <2>1. SubSeq(s, 1, n) = SubSeq(t, 1, n)
        BY DEF IsPrefix
    <2>2. ASSUME NEW i \in 1..n PROVE t[i] = s[i]
        <3>1. i \in 1..n - 1 + 1 /\ 1 + i - 1 = i /\ n <= Len(s)
            BY <1>1
        <3>2. SubSeq(s, 1, n)[i] = s[1 + i - 1] /\ SubSeq(t, 1, n)[i] = t[1 + i - 1]
            <4> HIDE DEF n
            <4> QED BY <1>1, <3>1, Part
        <3> QED BY <2>1, <3>1, <3>2
    <2> QED BY <2>2
<1> HIDE DEF rest
<1> DEFINE whole == s \o rest
<1>4. /\ whole \in String
      /\ Len(whole) = n + Len(rest)
      /\ \A i \in 1..n : whole[i] = s[i]
      /\ \A i \in 1..Len(rest) : whole[n + i] = rest[i]
    BY <1>2, Concat
<1> HIDE DEF whole
<1>5. Len(whole) = Len(t)
    <2> HIDE DEF n
    <2> QED BY <1>1, <1>2, <1>4
<1>6. ASSUME NEW i \in 1..Len(t) PROVE whole[i] = t[i]
    <2> HIDE DEF n
    <2>1. CASE i \in 1..n
        BY <1>3, <1>4, <2>1
    <2>2. CASE i - n \in 1..Len(t) - n
        <3>1. n + (i - n) = i
            BY <1>1
        <3> QED BY <1>2, <1>4, <2>2, <3>1
    <2> QED BY <1>1, <2>1, <2>2
<1>7. whole = t
    BY <1>4, <1>5, <1>6, SeqEqual DEF String
<1> QED BY <1>2, <1>7 DEF rest, whole, From

\* A text begins with another just if the other is found at its beginning.
LEMMA PrefixIsFoundFirst ==
    ASSUME NEW s \in String, NEW t \in String
    PROVE  IsPrefix(t, s) <=> find(s, t) = 1
<1> DEFINE n == Len(t)
<1>1. n \in Nat /\ Len(s) \in Nat
    BY DEF String
<1>2. SubSeq(t, 1, n) = t
    BY DEF String
<1> HIDE DEF n
<1>3. IsPrefix(t, s) <=> 1 \in Occurrences(s, t)
    <2>1. 1 + n - 1 = n /\ (1 \in 1..(Len(s) - n + 1) <=> n <= Len(s))
        BY <1>1
    <2> QED BY <1>2, <2>1 DEF IsPrefix, Occurrences, n
<1>4. ASSUME 1 \in Occurrences(s, t) PROVE find(s, t) = 1
    <2>1. find(s, t) \in Occurrences(s, t) /\ find(s, t) <= 1
        BY <1>4, FindIsFirst
    <2>2. find(s, t) \in Nat \ {0}
        BY <2>1 DEF Occurrences
    <2> QED BY <2>1, <2>2
<1>5. ASSUME find(s, t) = 1 PROVE 1 \in Occurrences(s, t)
    BY <1>5, FindIsFirst
<1> QED BY <1>3, <1>4, <1>5

-----------------------------------------------------------------------------
(* Paths.                                                                  *)

\* A folder's name with its slash is a text.
LEMMA SlashedType ==
    ASSUME NEW path \in String, path # <<>>
    PROVE  Slashed(path) \in String /\ Slashed(path) # <<>>
<1>1. "/" \in Character
    BY CharacterAssumption
<1>2. Append(path, "/") \in Seq(Character) /\ Append(path, "/") # <<>>
    BY <1>1 DEF String
<1> QED BY <1>2 DEF Slashed, String

\* replace takes a file from one folder to the other, the rest of its path after
\* one slash, however the names of the folders end.
THEOREM ReplaceFolder ==
    ASSUME NEW from \in String, NEW to \in String, NEW rest \in String,
           from # <<>>, to # <<>>, rest # <<>> => rest[1] # "/"
    PROVE  replace(Slashed(from) \o rest, from, to) = Slashed(to) \o rest
<1> DEFINE after == IF Last(from) = "/" THEN rest ELSE <<"/">> \o rest
           str == Slashed(from) \o rest
<1>0. "/" \in Character /\ <<"/">> \in String /\ Len(<<"/">>) = 1
    <2>1. "/" \in Character
        BY CharacterAssumption
    <2> QED BY <2>1 DEF String
<1>1. \A p \in String : Append(p, "/") = p \o <<"/">> /\ p \o <<"/">> \in String
    BY <1>0, Concat, AppendIsConcat DEF String
<1>2. after \in String
    BY <1>0, Concat
<1>3. str = from \o after
    <2>1. CASE Last(from) = "/"
        BY <2>1 DEF Slashed
    <2>2. CASE Last(from) # "/"
        BY <1>0, <1>1, <2>2, ConcatAssociative DEF Slashed, String
    <2> QED BY <2>1, <2>2
<1> HIDE DEF str
<1>4. find(str, from) = 1
    BY <1>2, <1>3, FindPrefix
<1>5. From(str, 1 + Len(from)) = after
    <2>1. /\ str \in String /\ Len(str) = Len(from) + Len(after)
          /\ \A i \in 1..Len(after) : str[Len(from) + i] = after[i]
        <3> HIDE DEF after
        <3> QED BY <1>2, <1>3, Concat
    <2>2. Len(from) \in Nat /\ Len(after) \in Nat
        BY <1>2 DEF String
    <2> HIDE DEF after
    <2> DEFINE part == SubSeq(str, 1 + Len(from), Len(str))
    <2>3. 1 + Len(from) \in Nat \ {0} /\ Len(str) \in Nat /\ Len(str) <= Len(str)
        BY <2>1, <2>2
    <2>4. /\ part \in String
          /\ Len(part) = IF 1 + Len(from) <= Len(str) THEN Len(str) - (1 + Len(from)) + 1 ELSE 0
          /\ \A i \in 1..Len(str) - (1 + Len(from)) + 1 : part[i] = str[1 + Len(from) + i - 1]
        BY <2>1, <2>3, Part
    <2> HIDE DEF part
    <2>5. Len(part) = Len(after) /\ \A i \in 1..Len(after) : part[i] = after[i]
        BY <2>1, <2>2, <2>4
    <2>6. part = after
        BY <1>2, <2>4, <2>5, SeqEqual DEF String
    <2> QED BY <2>6 DEF part, From
<1>6. SubSeq(str, 1, 1 - 1) = <<>>
    <2>1. str \in Seq(Character)
        <3> HIDE DEF after
        <3>1. str \in String
            BY <1>2, <1>3, Concat
        <3> QED BY <3>1 DEF String
    <2> QED BY <2>1
<1>7. after # <<>> /\ after[1] = "/" <=> Last(from) # "/"
    <2>1. CASE Last(from) = "/"
        BY <2>1
    <2>2. CASE Last(from) # "/"
        <3>1. Len(<<"/">> \o rest) = 1 + Len(rest) /\ (<<"/">> \o rest)[1] = <<"/">>[1]
            BY <1>0, Concat DEF String
        <3> QED BY <1>2, <2>2, <3>1 DEF String
    <2> QED BY <2>1, <2>2
<1> DEFINE to_path ==
        CASE Last(to) = "/" /\ Last(from) # "/" -> Front(to)
          [] Last(to) # "/" /\ Last(from) = "/" -> Append(to, "/")
          [] OTHER -> to
<1>8. replace(str, from, to) = <<>> \o to_path \o after
    <2> HIDE DEF after
    <2>1. /\ find(str, from) # 0
          /\ SubSeq(str, 1, find(str, from) - 1) = <<>>
          /\ From(str, find(str, from) + Len(from)) = after
        BY <1>4, <1>5, <1>6
    <2>2. replace(str, from, to) =
             LET path == CASE Last(to) = "/" /\ after # <<>> /\ after[1] = "/" -> Front(to)
                           [] Last(to) # "/" /\ Last(from) = "/" -> Append(to, "/")
                           [] OTHER -> to
             IN <<>> \o path \o after
        BY <2>1 DEF replace
    <2> QED BY <1>7, <2>2
<1>9. to_path \o after = Slashed(to) \o rest /\ to_path \in String
    <2>1. CASE Last(to) = "/" /\ Last(from) # "/"
        <3>1. Len(to) \in 1..Len(to) /\ to[Len(to)] = "/"
            BY <2>1 DEF String, Last
        <3> DEFINE front == SubSeq(to, 1, Len(to) - 1)
                   none == SubSeq(to, Len(to) + 1, Len(to))
        <3>2. /\ front \in String
              /\ to = front \o <<"/">> \o none
              /\ none \in String /\ Len(none) = Len(to) - Len(to)
            BY <3>1, Around
        <3>3. none = <<>>
            <4> HIDE DEF none
            <4> QED BY <3>1, <3>2 DEF String
        <3>4. to = front \o <<"/">>
            <4> HIDE DEF front, none
            <4> QED BY <1>1, <3>2, <3>3, ConcatEmpty
        <3>5. front \o (<<"/">> \o rest) = to \o rest
            <4> HIDE DEF front
            <4>1. front \in Seq(Character) /\ <<"/">> \in Seq(Character) /\ rest \in Seq(Character)
                BY <1>0, <3>2 DEF String
            <4>2. front \o (<<"/">> \o rest) = (front \o <<"/">>) \o rest
                BY <4>1, ConcatAssociative
            <4> QED BY <3>4, <4>2
        <3>6. to_path = front
            BY <2>1 DEF Front
        <3> HIDE DEF front
        <3> QED BY <2>1, <3>2, <3>5, <3>6 DEF Slashed
    <2>2. CASE Last(to) # "/" /\ Last(from) = "/"
        BY <1>1, <2>2 DEF Slashed
    <2>3. CASE Last(to) = "/" /\ Last(from) = "/"
        BY <2>3 DEF Slashed
    <2>4. CASE Last(to) # "/" /\ Last(from) # "/"
        BY <1>0, <1>1, <2>4, ConcatAssociative DEF Slashed, String
    <2> QED BY <2>1, <2>2, <2>3, <2>4
<1> HIDE DEF to_path, after
<1>10. <<>> \o to_path = to_path
    BY <1>9, ConcatEmpty
<1> QED BY <1>8, <1>9, <1>10 DEF str
=============================================================================
