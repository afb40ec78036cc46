----------------------------- MODULE ReportsProofs ----------------------------
(***************************************************************************)
(* Proofs about GameReports, for any words, users, files, keys and any     *)
(* number of reports: what report_game writes of an event, and the server  *)
(* passes on, parseServerMessage reads as it was, if no text of it holds a *)
(* word that the reader looks for; every report is on its way or stored;   *)
(* and a summary gives the latest value of each key, and the events in     *)
(* order as long as their times have the same number of digits.            *)
(***************************************************************************)
EXTENDS GameReports, ClientPartsProofs

-----------------------------------------------------------------------------
(* Texts within texts.                                                      *)

\* Text s stands in t behind its first n words.
At(t, n, s) ==
    n + Len(s) <= Len(t) /\ \A j \in 1 .. Len(s) : t[n + j] = s[j]

LEMMA WordFacts ==
    ASSUME NEW s \in Text
    PROVE  /\ s \in Seq(Vocabulary) /\ Len(s) \in Nat /\ DOMAIN s = 1 .. Len(s)
           /\ \A i \in 1 .. Len(s) : s[i] \in Vocabulary
           /\ Range(s) = {s[i] : i \in 1 .. Len(s)}
BY LenProperties, ElementOfSeq DEF Text, Range

LEMMA Joined ==
    ASSUME NEW a \in Text, NEW b \in Text
    PROVE  /\ a \o b \in Text /\ Len(a \o b) = Len(a) + Len(b)
           /\ \A i \in 1 .. Len(a) : (a \o b)[i] = a[i]
           /\ \A i \in 1 .. Len(b) : (a \o b)[Len(a) + i] = b[i]
<1>1. /\ a \o b \in Text /\ Len(a \o b) = Len(a) + Len(b)
      /\ \A i \in 1 .. Len(a) + Len(b) :
            (a \o b)[i] = IF i <= Len(a) THEN a[i] ELSE b[i - Len(a)]
  BY ONLY a \in Text, b \in Text, ConcatProperties DEF Text
<1>2. Len(a) \in Nat /\ Len(b) \in Nat
  BY WordFacts
<1>3. ASSUME NEW i \in 1 .. Len(a)  PROVE (a \o b)[i] = a[i]
  <2>1. i \in 1 .. Len(a) + Len(b) /\ i <= Len(a)
    BY ONLY <1>2, i \in 1 .. Len(a)
  <2> QED
    BY ONLY <1>1, <2>1
<1>4. ASSUME NEW i \in 1 .. Len(b)  PROVE (a \o b)[Len(a) + i] = b[i]
  <2>1. /\ Len(a) + i \in 1 .. Len(a) + Len(b)
        /\ ~(Len(a) + i <= Len(a)) /\ (Len(a) + i) - Len(a) = i
    BY ONLY <1>2, i \in 1 .. Len(b)
  <2> QED
    BY ONLY <1>1, <2>1
<1> QED
  BY ONLY <1>1, <1>3, <1>4, Zenon

LEMMA AtParts ==
    ASSUME NEW t \in Text, NEW n \in Nat, NEW a \in Text, NEW b \in Text
    PROVE  At(t, n, a \o b) <=> At(t, n, a) /\ At(t, n + Len(a), b)
<1>1. PICK k \in Nat, l \in Nat, m \in Nat : k = Len(a) /\ l = Len(b) /\ m = Len(t)
  BY WordFacts
<1>2. PICK c \in Text : c = a \o b
  BY Joined
<1>3. /\ Len(c) = k + l /\ \A i \in 1 .. k : c[i] = a[i]
      /\ \A i \in 1 .. l : c[k + i] = b[i]
  <2>1. Len(a \o b) = Len(a) + Len(b)
    BY Joined, Zenon
  <2>2. \A i \in 1 .. Len(a) : (a \o b)[i] = a[i]
    BY Joined, Zenon
  <2>3. \A i \in 1 .. Len(b) : (a \o b)[Len(a) + i] = b[i]
    BY Joined, Zenon
  <2> QED
    BY ONLY <1>1, <1>2, <2>1, <2>2, <2>3, Zenon
<1>4. ASSUME At(t, n, c)  PROVE At(t, n, a) /\ At(t, n + k, b)
  <2>1. n + (k + l) <= m /\ \A j \in 1 .. k + l : t[n + j] = c[j]
    BY <1>1, <1>3, <1>4 DEF At
  <2>2. ASSUME NEW j \in 1 .. k  PROVE t[n + j] = a[j]
    <3>1. j \in 1 .. k + l
      OBVIOUS
    <3> QED
      BY <1>3, <2>1, <3>1
  <2>3. ASSUME NEW j \in 1 .. l  PROVE t[(n + k) + j] = b[j]
    <3>1. k + j \in 1 .. k + l /\ n + (k + j) = (n + k) + j
      OBVIOUS
    <3> QED
      BY <1>3, <2>1, <3>1
  <2>4. n + k <= m /\ (n + k) + l <= m
    BY <2>1
  <2> QED
    BY ONLY <1>1, <2>2, <2>3, <2>4 DEF At
<1>5. ASSUME At(t, n, a), At(t, n + k, b)  PROVE At(t, n, c)
  <2>1. (n + k) + l <= m /\ n + (k + l) <= m
    BY <1>1, <1>5 DEF At
  <2>2. ASSUME NEW j \in 1 .. k + l  PROVE t[n + j] = c[j]
    <3>1. CASE j <= k
      <4>1. j \in 1 .. k
        BY <3>1
      <4> QED
        BY <1>1, <1>3, <1>5, <4>1 DEF At
    <3>2. CASE ~(j <= k)
      <4>1. PICK i \in 1 .. l : j = k + i /\ n + j = (n + k) + i
        <5>1. j - k \in 1 .. l /\ j = k + (j - k) /\ n + j = (n + k) + (j - k)
          BY <3>2
        <5> QED
          BY <5>1
      <4> QED
        BY <1>1, <1>3, <1>5, <4>1 DEF At
    <3> QED
      BY <3>1, <3>2
  <2> QED
    BY ONLY <1>1, <1>3, <2>1, <2>2 DEF At
<1> QED
  BY <1>1, <1>2, <1>4, <1>5

LEMMA OneElement ==
    ASSUME NEW S, NEW w \in S
    PROVE  <<w>> \in Seq(S) /\ Len(<<w>>) = 1 /\ <<w>>[1] = w
OBVIOUS

LEMMA AtOne ==
    ASSUME NEW t \in Text, NEW n \in Nat, NEW w \in Vocabulary
    PROVE  /\ <<w>> \in Text /\ Len(<<w>>) = 1
           /\ At(t, n, <<w>>) <=> n + 1 <= Len(t) /\ t[n + 1] = w
<1>1. <<w>> \in Text /\ Len(<<w>>) = 1 /\ <<w>>[1] = w
  BY OneElement, Zenon DEF Text
<1>2. \A j \in 1 .. 1 : j = 1
  OBVIOUS
<1>3. 1 \in 1 .. 1
  OBVIOUS
<1> QED
  BY ONLY <1>1, <1>2, <1>3 DEF At

\* What stands there is the subsequence.
LEMMA AtIsSubSeq ==
    ASSUME NEW t \in Text, NEW n \in Nat, NEW s \in Text, At(t, n, s)
    PROVE  SubSeq(t, n + 1, n + Len(s)) = s
<1>1. PICK l \in Nat, m \in Nat : l = Len(s) /\ m = Len(t)
  BY WordFacts
<1>2. n + l <= m /\ \A j \in 1 .. l : t[n + j] = s[j]
  BY <1>1 DEF At
<1>3. \A i \in n + 1 .. n + l : t[i] \in Vocabulary
  BY <1>1, <1>2, WordFacts
<1> DEFINE u == SubSeq(t, n + 1, n + l)
<1>4. /\ u \in Seq(Vocabulary)
      /\ Len(u) = (IF n + 1 <= n + l THEN n + l - (n + 1) + 1 ELSE 0)
      /\ \A i \in 1 .. n + l - (n + 1) + 1 : u[i] = t[n + 1 + i - 1]
  <2>1. n + 1 \in Int /\ n + l \in Int
    OBVIOUS
  <2> QED
    BY ONLY <1>3, <2>1, SubSeqProperties
<1> HIDE DEF u
<1>5. Len(u) = l
  BY ONLY <1>4, n \in Nat, l \in Nat
<1>6. ASSUME NEW i \in 1 .. Len(u)  PROVE u[i] = s[i]
  <2>1. i \in 1 .. l /\ i \in 1 .. n + l - (n + 1) + 1 /\ n + 1 + i - 1 = n + i
    BY ONLY <1>5, n \in Nat, l \in Nat, i \in 1 .. Len(u)
  <2> QED
    BY ONLY <1>2, <1>4, <2>1
<1>7. u = s
  BY ONLY <1>1, <1>4, <1>5, <1>6, s \in Text, SeqEqual DEF Text
<1> QED
  BY <1>1, <1>7 DEF u

\* Up to word n of t, w has not v behind it.
Apart(t, n, w, v) == \A i \in 1 .. n : t[i] = w => t[i + 1] # v

LEMMA FindFirst ==
    ASSUME NEW t \in Text, NEW n \in Nat, NEW pattern \in Text, Len(pattern) >= 2,
           At(t, n, pattern), Apart(t, n, pattern[1], pattern[2])
    PROVE  find(t, pattern, 1) = n + 1
<1>1. PICK l \in Nat, m \in Nat : l = Len(pattern) /\ m = Len(t)
  BY WordFacts
<1> DEFINE at == {i \in 1 .. Len(t) - Len(pattern) + 1 :
                     SubSeq(t, i, i + Len(pattern) - 1) = pattern}
<1>0. find(t, pattern, 1) = IF at = {} THEN 0 ELSE CHOOSE i \in at : \A j \in at : i <= j
  BY Zenon DEF find
<1>5. at = {i \in 1 .. m - l + 1 : SubSeq(t, i, i + l - 1) = pattern}
  BY ONLY <1>1
<1> HIDE DEF at
<1>2. n + 1 \in at
  <2>1. n + 1 \in 1 .. m - l + 1 /\ (n + 1) + l - 1 = n + l
    BY <1>1 DEF At
  <2>2. SubSeq(t, n + 1, n + l) = pattern
    BY <1>1, AtIsSubSeq
  <2> QED
    BY ONLY <1>5, <2>1, <2>2
<1>3. ASSUME NEW i \in at  PROVE n + 1 <= i
  <2>0. i \in 1 .. m - l + 1 /\ SubSeq(t, i, i + l - 1) = pattern /\ l >= 2
    BY <1>1, <1>5
  <2>1. i \in 1 .. m /\ i + 1 \in 1 .. m /\ i + l - 1 \in Int /\ i \in Int
    BY ONLY <2>0, m \in Nat, l \in Nat
  <2>2. \A j \in i .. i + l - 1 : t[j] \in Vocabulary
    <3>1. \A j \in i .. i + l - 1 : j \in 1 .. m
      BY ONLY <2>0, m \in Nat, l \in Nat
    <3> QED
      BY <1>1, <3>1, WordFacts
  <2>3. /\ SubSeq(t, i, i + l - 1) = pattern
        /\ \A j \in 1 .. i + l - 1 - i + 1 : SubSeq(t, i, i + l - 1)[j] = t[i + j - 1]
    BY ONLY <2>0, <2>1, <2>2, SubSeqProperties
  <2>4. 1 \in 1 .. i + l - 1 - i + 1 /\ 2 \in 1 .. i + l - 1 - i + 1
        /\ i + 1 - 1 = i /\ i + 2 - 1 = i + 1
    BY ONLY <2>0, m \in Nat, l \in Nat
  <2>5. pattern[1] = t[i] /\ pattern[2] = t[i + 1]
    BY ONLY <2>3, <2>4
  <2>6. ~(i \in 1 .. n)
    BY ONLY <2>5, Apart(t, n, pattern[1], pattern[2]) DEF Apart
  <2> QED
    BY <2>1, <2>6
<1>4. at \subseteq Nat
  BY ONLY <1>5, m \in Nat, l \in Nat
<1>6. \A i \in at : (\A j \in at : i <= j) => i = n + 1
  BY <1>2, <1>3, <1>4
<1> QED
  BY <1>0, <1>2, <1>3, <1>6

\* A word behind a text that does not hold it.
LEMMA FindNext ==
    ASSUME NEW t \in Text, NEW n \in Nat, NEW x \in Text, NEW w \in Vocabulary,
           At(t, n, x), At(t, n + Len(x), <<w>>), w \notin Range(x)
    PROVE  find(t, <<w>>, n + 1) = n + Len(x) + 1
<1>1. PICK l \in Nat, m \in Nat : l = Len(x) /\ m = Len(t)
  BY WordFacts
<1>2. n + l + 1 <= m /\ t[n + l + 1] = w /\ Len(<<w>>) = 1
  <2>1. n + l \in Nat /\ At(t, n + l, <<w>>)
    BY <1>1
  <2> QED
    BY ONLY <1>1, <2>1, t \in Text, w \in Vocabulary, AtOne
<1> DEFINE at == {i \in n + 1 .. Len(t) - Len(<<w>>) + 1 :
                     SubSeq(t, i, i + Len(<<w>>) - 1) = <<w>>}
<1>0. find(t, <<w>>, n + 1)
        = IF at = {} THEN 0 ELSE CHOOSE i \in at : \A j \in at : i <= j
  BY Zenon DEF find
<1>6. at = {i \in n + 1 .. m - 1 + 1 : SubSeq(t, i, i + 1 - 1) = <<w>>}
  BY ONLY <1>1, <1>2
<1>7. m - 1 + 1 = m
  OBVIOUS
<1> HIDE DEF at
<1>3. ASSUME NEW i \in n + 1 .. m
      PROVE  SubSeq(t, i, i + 1 - 1) = <<w>> <=> t[i] = w
  <2>1. i + 1 - 1 = i /\ i \in Int
    OBVIOUS
  <2>2. \A j \in i .. i : t[j] \in Vocabulary
    BY <1>1, WordFacts
  <2>3. /\ Len(SubSeq(t, i, i)) = (IF i <= i THEN i - i + 1 ELSE 0)
        /\ SubSeq(t, i, i) \in Seq(Vocabulary)
        /\ \A j \in 1 .. i - i + 1 : SubSeq(t, i, i)[j] = t[i + j - 1]
    BY ONLY <2>1, <2>2, SubSeqProperties
  <2>4. Len(SubSeq(t, i, i)) = 1 /\ SubSeq(t, i, i)[1] = t[i]
    <3>1. 1 \in 1 .. i - i + 1 /\ i + 1 - 1 = i /\ i - i + 1 = 1 /\ i <= i
      BY <2>1
    <3> QED
      BY ONLY <2>3, <3>1
  <2>5. <<w>>[1] = w /\ <<w>> \in Seq(Vocabulary)
    BY OneElement, Zenon
  <2>6. t[i] = w => SubSeq(t, i, i) = <<w>>
    <3> SUFFICES ASSUME t[i] = w  PROVE SubSeq(t, i, i) = <<w>>
      OBVIOUS
    <3>1. \A j \in 1 .. 1 : j = 1
      OBVIOUS
    <3>2. \A j \in 1 .. Len(SubSeq(t, i, i)) : SubSeq(t, i, i)[j] = <<w>>[j]
      BY ONLY <2>4, <2>5, <3>1, t[i] = w
    <3> QED
      BY ONLY <1>2, <2>3, <2>4, <2>5, <3>2, SeqEqual
  <2> QED
    BY ONLY <2>1, <2>4, <2>5, <2>6
<1>4. n + l + 1 \in at
  <2>1. n + l + 1 \in n + 1 .. m
    BY <1>2
  <2>2. SubSeq(t, n + l + 1, n + l + 1 + 1 - 1) = <<w>>
    BY ONLY <1>2, <1>3, <2>1
  <2> QED
    BY ONLY <1>6, <1>7, <2>1, <2>2
<1>5. ASSUME NEW i \in at  PROVE n + l + 1 <= i
  <2>1. i \in n + 1 .. m /\ t[i] = w
    <3>1. i \in n + 1 .. m /\ SubSeq(t, i, i + 1 - 1) = <<w>>
      BY ONLY <1>5, <1>6, <1>7, i \in at
    <3> QED
      BY ONLY <1>3, <3>1
  <2>2. ~(i <= n + l)
    <3> SUFFICES ASSUME i <= n + l  PROVE FALSE
      OBVIOUS
    <3>1. PICK j \in 1 .. l : i = n + j
      <4>1. i - n \in 1 .. l /\ i = n + (i - n)
        BY <2>1
      <4> QED
        BY <4>1
    <3>2. x[j] = w
      BY <1>1, <2>1, <3>1 DEF At
    <3> QED
      BY <1>1, <3>2, WordFacts
  <2> QED
    BY <2>1, <2>2
<1>9. at \subseteq Nat
  <2>1. \A i \in at : i \in n + 1 .. m
    BY ONLY <1>6, <1>7
  <2> QED
    BY ONLY <2>1, n \in Nat, m \in Nat
<1>8. \A i \in at : (\A j \in at : i <= j) => i = n + l + 1
  BY <1>4, <1>5, <1>9
<1> QED
  BY <1>0, <1>1, <1>4, <1>5, <1>8

\* What stands between its label and the word that ends it is extracted.
LEMMA Extract ==
    ASSUME NEW t \in Text, NEW n \in Nat, NEW label \in Text, Len(label) >= 2,
           NEW x \in Text, NEW w \in Vocabulary,
           At(t, n, label), At(t, n + Len(label), x),
           At(t, (n + Len(label)) + Len(x), <<w>>),
           Apart(t, n, label[1], label[2]), w \notin Range(x)
    PROVE  my_extract(t, label, <<w>>) = x
<1>1. PICK k \in Nat, l \in Nat : k = Len(label) /\ l = Len(x)
  BY WordFacts
<1>2. find(t, label, 1) = n + 1
  BY FindFirst
<1>3. find(t, <<w>>, (n + k) + 1) = (n + k) + l + 1
  <2>1. n + k \in Nat /\ At(t, n + k, x) /\ At(t, (n + k) + Len(x), <<w>>)
    BY <1>1
  <2> QED
    BY ONLY <1>1, <2>1, t \in Text, x \in Text, w \in Vocabulary, w \notin Range(x), FindNext
<1>4. (n + 1) + k = (n + k) + 1 /\ ((n + k) + l + 1) - 1 = (n + k) + l /\ (n + k) + l + 1 # 0
  OBVIOUS
<1>5. <<w>> # <<>>
  OBVIOUS
<1>6. my_extract(t, label, <<w>>) = SubSeq(t, (n + k) + 1, (n + k) + l)
  BY ONLY <1>1, <1>2, <1>3, <1>4, <1>5 DEF my_extract
<1>7. n + k \in Nat /\ At(t, n + k, x)
  BY <1>1
<1>8. SubSeq(t, (n + k) + 1, (n + k) + Len(x)) = x
  BY ONLY <1>7, t \in Text, x \in Text, AtIsSubSeq
<1> QED
  BY ONLY <1>1, <1>6, <1>8

\* Or up to the end of the text.
LEMMA ExtractRest ==
    ASSUME NEW t \in Text, NEW n \in Nat, NEW label \in Text, Len(label) >= 2,
           NEW x \in Text, At(t, n, label), At(t, n + Len(label), x),
           Len(t) = (n + Len(label)) + Len(x), Apart(t, n, label[1], label[2])
    PROVE  my_extract(t, label, <<>>) = x
<1>1. PICK k \in Nat, l \in Nat : k = Len(label) /\ l = Len(x)
  BY WordFacts
<1>2. find(t, label, 1) = n + 1
  BY FindFirst
<1>3. (n + 1) + k = (n + k) + 1
  OBVIOUS
<1>4. my_extract(t, label, <<>>) = SubSeq(t, (n + k) + 1, (n + k) + l)
  BY ONLY <1>1, <1>2, <1>3, Len(t) = (n + Len(label)) + Len(x) DEF my_extract
<1>5. n + k \in Nat /\ At(t, n + k, x)
  BY <1>1
<1>6. SubSeq(t, (n + k) + 1, (n + k) + Len(x)) = x
  BY ONLY <1>5, t \in Text, x \in Text, AtIsSubSeq
<1> QED
  BY ONLY <1>1, <1>4, <1>6

-----------------------------------------------------------------------------
(* Lines.                                                                   *)

LEMMA Distinct ==
    /\ NL \in Vocabulary /\ TAB \in Vocabulary /\ ":" \in Vocabulary
    /\ NL # TAB /\ NL # ":" /\ TAB # ":"
<1>1. NL \in Vocabulary /\ TAB \in Vocabulary /\ ":" \in Vocabulary
  BY ReportAssumption DEF reserved
<1>2. NL # TAB /\ NL # ":" /\ TAB # ":"
  BY DEF NL, TAB
<1> QED
  BY <1>1, <1>2

LEMMA Single ==
    ASSUME NEW w \in Vocabulary
    PROVE  <<w>> \in Text /\ Len(<<w>>) = 1 /\ <<w>>[1] = w /\ Range(<<w>>) = {w}
<1>1. <<w>> \in Text /\ Len(<<w>>) = 1 /\ <<w>>[1] = w
  BY OneElement, Zenon DEF Text
<1>2. \A i \in 1 .. 1 : i = 1
  OBVIOUS
<1>3. 1 \in 1 .. 1
  OBVIOUS
<1>4. Range(<<w>>) = {<<w>>[i] : i \in 1 .. 1}
  BY <1>1, WordFacts, Zenon
<1> QED
  BY <1>1, <1>2, <1>3, <1>4

LEMMA TwoElements ==
    ASSUME NEW S, NEW w \in S, NEW v \in S
    PROVE  /\ <<w, v>> \in Seq(S) /\ Len(<<w, v>>) = 2 /\ <<w, v>>[1] = w /\ <<w, v>>[2] = v
           /\ <<w, v>> = <<w>> \o <<v>>
<1>1. <<w, v>> = Append(<<w>>, v)
  OBVIOUS
<1>2. Append(<<w>>, v) = <<w>> \o <<v>>
  BY OneElement, AppendIsConcat
<1> QED
  BY <1>1, <1>2

LEMMA Pair ==
    ASSUME NEW w \in Vocabulary, NEW v \in Vocabulary
    PROVE  /\ <<w, v>> \in Text /\ Len(<<w, v>>) = 2 /\ <<w, v>>[1] = w /\ <<w, v>>[2] = v
           /\ <<w, v>> = <<w>> \o <<v>>
<1>1. <<w, v>> \in Seq(Vocabulary) /\ <<w, v>> = <<w>> \o <<v>>
  BY TwoElements
<1>2. Len(<<w, v>>) = 2 /\ <<w, v>>[1] = w /\ <<w, v>>[2] = v
  BY TwoElements
<1> QED
  BY ONLY <1>1, <1>2 DEF Text

LEMMA JoinedWords ==
    ASSUME NEW a \in Text, NEW b \in Text
    PROVE  Range(a \o b) = Range(a) \cup Range(b)
<1>1. PICK k \in Nat, l \in Nat : k = Len(a) /\ l = Len(b)
  BY WordFacts
<1>2. PICK c \in Text : c = a \o b
  BY Joined
<1>3. /\ Len(c) = k + l /\ \A i \in 1 .. k : c[i] = a[i]
      /\ \A i \in 1 .. l : c[k + i] = b[i]
  <2>1. Len(a \o b) = Len(a) + Len(b)
    BY Joined, Zenon
  <2>2. \A i \in 1 .. Len(a) : (a \o b)[i] = a[i]
    BY Joined, Zenon
  <2>3. \A i \in 1 .. Len(b) : (a \o b)[Len(a) + i] = b[i]
    BY Joined, Zenon
  <2> QED
    BY ONLY <1>1, <1>2, <2>1, <2>2, <2>3, Zenon
<1>4. /\ Range(a) = {a[i] : i \in 1 .. k} /\ Range(b) = {b[i] : i \in 1 .. l}
      /\ Range(c) = {c[i] : i \in 1 .. k + l}
  BY <1>1, <1>3, WordFacts
<1>5. ASSUME NEW i \in 1 .. k + l  PROVE c[i] \in Range(a) \cup Range(b)
  <2>1. CASE i \in 1 .. k
    BY <1>3, <1>4, <2>1
  <2>2. CASE ~(i \in 1 .. k)
    <3>1. i - k \in 1 .. l /\ k + (i - k) = i
      BY <2>2
    <3> QED
      BY <1>3, <1>4, <3>1
  <2> QED
    BY <2>1, <2>2
<1>6. \A i \in 1 .. k : i \in 1 .. k + l /\ a[i] = c[i]
  BY <1>3
<1>7. \A i \in 1 .. l : k + i \in 1 .. k + l /\ b[i] = c[k + i]
  BY <1>3
<1>8. Range(a) \subseteq Range(c) /\ Range(b) \subseteq Range(c)
  BY ONLY <1>4, <1>6, <1>7
<1>9. Range(c) \subseteq Range(a) \cup Range(b)
  BY ONLY <1>4, <1>5
<1> QED
  BY <1>2, <1>8, <1>9

\* A line is its label, a colon, its text and a line end.
LEMMA LineFacts ==
    ASSUME NEW label \in Text, NEW x \in Text
    PROVE  /\ Line(label, x) \in Text
           /\ Len(Line(label, x)) = ((Len(label) + 1) + Len(x)) + 1
           /\ Range(Line(label, x)) = ((Range(label) \cup {":"}) \cup Range(x)) \cup {NL}
           /\ Line(label, x) = ((label \o <<":">>) \o x) \o <<NL>>
<1>1. /\ <<":">> \in Text /\ Len(<<":">>) = 1 /\ Range(<<":">>) = {":"}
      /\ <<NL>> \in Text /\ Len(<<NL>>) = 1 /\ Range(<<NL>>) = {NL}
  BY Single, Distinct
<1> DEFINE a == label \o <<":">>
<1> DEFINE b == a \o x
<1> DEFINE c == b \o <<NL>>
<1>2. a \in Text /\ Len(a) = Len(label) + 1 /\ Range(a) = Range(label) \cup {":"}
  <2>1. a \in Text /\ Len(a) = Len(label) + Len(<<":">>)
    BY <1>1, Joined, Zenon
  <2>2. Range(a) = Range(label) \cup Range(<<":">>)
    BY <1>1, JoinedWords, Zenon
  <2> QED
    BY ONLY <1>1, <2>1, <2>2, Zenon
<1> HIDE DEF a
<1>3. b \in Text /\ Len(b) = Len(a) + Len(x) /\ Range(b) = Range(a) \cup Range(x)
  <2>1. b \in Text /\ Len(b) = Len(a) + Len(x)
    BY <1>2, Joined, Zenon
  <2> QED
    BY <1>2, <2>1, JoinedWords, Zenon
<1> HIDE DEF b
<1>4. c \in Text /\ Len(c) = Len(b) + 1 /\ Range(c) = Range(b) \cup {NL}
  <2>1. c \in Text /\ Len(c) = Len(b) + Len(<<NL>>)
    BY <1>1, <1>3, Joined, Zenon
  <2>2. Range(c) = Range(b) \cup Range(<<NL>>)
    BY <1>1, <1>3, JoinedWords, Zenon
  <2> QED
    BY ONLY <1>1, <2>1, <2>2, Zenon
<1> HIDE DEF c
<1>5. Line(label, x) = c /\ c = ((label \o <<":">>) \o x) \o <<NL>>
  BY DEF Line, a, b, c
<1> QED
  BY ONLY <1>2, <1>3, <1>4, <1>5, Zenon

LEMMA LineAt ==
    ASSUME NEW t \in Text, NEW n \in Nat, NEW label \in Text, NEW x \in Text
    PROVE  At(t, n, Line(label, x)) <=>
              /\ At(t, n, label) /\ At(t, n + Len(label), <<":">>)
              /\ At(t, n + (Len(label) + 1), x)
              /\ At(t, n + ((Len(label) + 1) + Len(x)), <<NL>>)
<1>1. /\ <<":">> \in Text /\ Len(<<":">>) = 1 /\ <<NL>> \in Text /\ Len(<<NL>>) = 1
  BY Single, Distinct
<1>2. PICK a \in Text : a = label \o <<":">> /\ Len(a) = Len(label) + 1
  BY <1>1, Joined
<1>3. PICK b \in Text : b = a \o x /\ Len(b) = Len(a) + Len(x)
  BY Joined
<1>4. Line(label, x) = b \o <<NL>>
  BY <1>2, <1>3 DEF Line
<1>5. At(t, n, b \o <<NL>>) <=> At(t, n, b) /\ At(t, n + Len(b), <<NL>>)
  BY <1>1, AtParts
<1>6. At(t, n, b) <=> At(t, n, a) /\ At(t, n + Len(a), x)
  BY <1>3, AtParts
<1>7. At(t, n, a) <=> At(t, n, label) /\ At(t, n + Len(label), <<":">>)
  BY <1>1, <1>2, AtParts
<1> QED
  BY ONLY <1>2, <1>3, <1>4, <1>5, <1>6, <1>7

\* No text without w in it makes w and v neighbours.
LEMMA ApartGrows ==
    ASSUME NEW t \in Text, NEW n \in Nat, NEW s \in Text, NEW w, NEW v,
           Apart(t, n, w, v), At(t, n, s), w \notin Range(s)
    PROVE  Apart(t, n + Len(s), w, v)
<1>1. PICK l \in Nat : l = Len(s)
  BY WordFacts
<1>2. ASSUME NEW i \in 1 .. n + l, t[i] = w  PROVE t[i + 1] # v
  <2>1. i \in 1 .. n
    <3> SUFFICES ASSUME ~(i \in 1 .. n)  PROVE FALSE
      OBVIOUS
    <3>1. PICK j \in 1 .. l : i = n + j
      <4>1. i - n \in 1 .. l /\ i = n + (i - n)
        OBVIOUS
      <4> QED
        BY <4>1
    <3>2. s[j] = w
      BY <1>1, <1>2, <3>1 DEF At
    <3> QED
      BY <1>1, <3>2, WordFacts
  <2> QED
    BY <1>2, <2>1 DEF Apart
<1> QED
  BY ONLY <1>1, <1>2 DEF Apart

\* Nor does a line with w for its label, when v is no colon, or w for its text.
LEMMA ApartHead ==
    ASSUME NEW t \in Text, NEW n \in Nat, NEW l \in Vocabulary, NEW x \in Text,
           NEW w \in Vocabulary, NEW v \in Vocabulary,
           Apart(t, n, w, v), At(t, n, Line(<<l>>, x)),
           w # ":", w # NL, v # NL, l # w \/ v # ":", w \notin Range(x) \/ Len(x) = 1
    PROVE  Apart(t, n + (Len(x) + 3), w, v)
<1>1. PICK k \in Nat : k = Len(x)
  BY WordFacts
<1>2. /\ <<l>> \in Text /\ Len(<<l>>) = 1
  BY Single
<1>3. /\ At(t, n, <<l>>) /\ At(t, n + 1, <<":">>) /\ At(t, n + (1 + 1), x)
      /\ At(t, n + ((1 + 1) + k), <<NL>>)
  BY <1>1, <1>2, LineAt
<1>4. /\ t[n + 1] = l /\ t[n + 2] = ":" /\ t[n + (k + 3)] = NL
  <2>1. /\ n + 1 \in Nat /\ n + ((1 + 1) + k) \in Nat /\ (n + 1) + 1 = n + 2
        /\ (n + ((1 + 1) + k)) + 1 = n + (k + 3)
    OBVIOUS
  <2> QED
    BY ONLY <1>3, <2>1, t \in Text, n \in Nat, l \in Vocabulary, Distinct, AtOne
<1>5. ASSUME NEW i \in 1 .. n + (k + 3), t[i] = w  PROVE t[i + 1] # v
  <2>1. CASE i \in 1 .. n
    BY <1>5, <2>1 DEF Apart
  <2>2. CASE i = n + 1
    BY <1>4, <1>5, <2>2
  <2>3. CASE i = n + 2
    BY <1>4, <1>5, <2>3
  <2>4. CASE i = n + (k + 3)
    BY <1>4, <1>5, <2>4
  <2>5. CASE i \in n + 3 .. n + 2 + k
    <3>1. PICK j \in 1 .. k : i = n + (1 + 1) + j
      <4>1. i - (n + 2) \in 1 .. k /\ i = n + (1 + 1) + (i - (n + 2))
        BY <2>5
      <4> QED
        BY <4>1
    <3>2. x[j] = w
      BY <1>1, <1>3, <1>5, <3>1 DEF At
    <3>3. w \in Range(x)
      BY <1>1, <3>2, WordFacts
    <3>4. k = 1 /\ i + 1 = n + (k + 3)
      BY <1>1, <3>1, <3>3
    <3> QED
      BY <1>4, <3>4
  <2> QED
    BY <2>1, <2>2, <2>3, <2>4, <2>5
<1> QED
  BY ONLY <1>1, <1>5 DEF Apart

-----------------------------------------------------------------------------
(* Induction over sequences, as a fact about sets.                          *)

LEMMA Beginning ==
    ASSUME NEW S, NEW s \in Seq(S), NEW j \in 1 .. Len(s)
    PROVE  /\ SubSeq(s, 1, j - 1) \in Seq(S) /\ s[j] \in S
           /\ SubSeq(s, 1, j) = Append(SubSeq(s, 1, j - 1), s[j])
<1>1. PICK l \in Nat : l = Len(s)
  BY LenProperties
<1>2. \A n \in 1 .. l : s[n] \in S
  BY <1>1, ElementOfSeq
<1>3. j \in 1 .. l /\ 1 \in Int /\ j - 1 \in Int
  BY <1>1
<1>4. SubSeq(s, 1, j) = SubSeq(s, 1, j - 1) \o <<s[j]>>
  <2>1. 1 \in 1 .. Len(s) /\ j \in 1 .. Len(s)
    BY <1>1, <1>3
  <2> QED
    BY <2>1, SubSeqRecursiveSecond
<1>5. SubSeq(s, 1, j - 1) \in Seq(S)
  <2>1. \A n \in 1 .. j - 1 : s[n] \in S
    BY <1>2, <1>3
  <2> QED
    BY ONLY <1>3, <2>1, SubSeqProperties
<1>6. s[j] \in S
  BY <1>2, <1>3
<1> QED
  BY ONLY <1>4, <1>5, <1>6, AppendIsConcat

LEMMA ByAppending ==
    ASSUME NEW S, NEW T, <<>> \in T, \A s \in Seq(S), e \in S : s \in T => Append(s, e) \in T
    PROVE  Seq(S) \subseteq T
<1> SUFFICES ASSUME NEW s \in Seq(S)  PROVE s \in T
  OBVIOUS
<1>1. PICK l \in Nat : l = Len(s)
  BY LenProperties
<1> DEFINE R == {n \in 0 .. l : SubSeq(s, 1, n) \in T}
<1>0. \A n : n \in R <=> n \in 0 .. l /\ SubSeq(s, 1, n) \in T
  BY Zenon
<1> HIDE DEF R
<1>2. 0 \in R
  <2>1. SubSeq(s, 1, 0) = <<>>
    BY SubSeqEmpty
  <2>2. 0 \in 0 .. l
    OBVIOUS
  <2> QED
    BY <1>0, <2>1, <2>2, Zenon
<1>3. ASSUME NEW i \in 1 .. l, i - 1 \in R  PROVE i \in R
  <2>1. /\ SubSeq(s, 1, i - 1) \in Seq(S) /\ s[i] \in S
        /\ SubSeq(s, 1, i) = Append(SubSeq(s, 1, i - 1), s[i])
    BY <1>1, Beginning
  <2>2. i \in 0 .. l
    OBVIOUS
  <2> QED
    BY <1>0, <1>3, <2>1, <2>2, Zenon
<1>4. 0 .. l \subseteq R
  BY <1>2, <1>3, UpTo
<1>5. SubSeq(s, 1, l) = s
  BY <1>1, SubSeqFull
<1>6. l \in 0 .. l
  OBVIOUS
<1> QED
  BY <1>0, <1>4, <1>5, <1>6, Zenon

LEMMA LastAppended ==
    ASSUME NEW S, NEW s \in Seq(S), NEW e \in S
    PROVE  /\ Append(s, e) \in Seq(S) /\ Append(s, e) # <<>>
           /\ Len(Append(s, e)) = Len(s) + 1
           /\ Front(Append(s, e)) = s /\ Last(Append(s, e)) = e
<1>1. PICK l \in Nat : l = Len(s)
  BY LenProperties
<1> DEFINE a == Append(s, e)
<1>2. a \in Seq(S) /\ Len(a) = l + 1 /\ a[l + 1] = e /\ \A i \in 1 .. l : a[i] = s[i]
  BY <1>1, AppendProperties
<1> HIDE DEF a
<1>3. Last(a) = e /\ a # <<>>
  BY ONLY <1>2, l \in Nat, EmptySeq DEF Last
<1>4. Front(a) = s
  <2>1. (l + 1) - 1 = l /\ l + 1 \in 1 .. l + 1 /\ l + 1 \in 1 .. Len(a)
    BY ONLY <1>2, l \in Nat
  <2>2. SubSeq(a, 1, (l + 1) - 1) \in Seq(S)
    BY ONLY <1>2, <2>1, Beginning
  <2>3. Front(a) = SubSeq(a, 1, l)
    BY ONLY <1>2, <2>1 DEF Front
  <2> DEFINE f == SubSeq(a, 1, l)
  <2>4. \A i \in 1 .. l : a[i] \in S
    BY <1>1, <1>2, ElementOfSeq
  <2>5. /\ f \in Seq(S) /\ Len(f) = (IF 1 <= l THEN l - 1 + 1 ELSE 0)
        /\ \A i \in 1 .. l - 1 + 1 : f[i] = a[1 + i - 1]
    BY ONLY <2>4, l \in Nat, SubSeqProperties
  <2> HIDE DEF f
  <2>6. Len(f) = l /\ \A i \in 1 .. l : i \in 1 .. l - 1 + 1 /\ 1 + i - 1 = i
    BY ONLY <2>5, l \in Nat
  <2>7. \A i \in 1 .. Len(f) : f[i] = s[i]
    BY ONLY <1>2, <2>5, <2>6
  <2>8. f = s
    BY ONLY <1>1, <2>5, <2>6, <2>7, s \in Seq(S), SeqEqual
  <2> QED
    BY ONLY <2>3, <2>8 DEF f
<1> QED
  BY <1>1, <1>2, <1>3, <1>4 DEF a

-----------------------------------------------------------------------------
(* split.                                                                   *)

Pieces(text, word, p) ==
    /\ p \in [0 .. Len(text) -> Seq(Text)] /\ p[0] = <<<<>>>>
    /\ \A i \in 1 .. Len(text) :
          p[i] = IF text[i] = word THEN Append(p[i - 1], <<>>)
                 ELSE Append(Front(p[i - 1]), Append(Last(p[i - 1]), text[i]))

LEMMA SplitLoop ==
    ASSUME NEW text \in Text, NEW word
    PROVE  \E p : Pieces(text, word, p) /\ split(text, word) = p[Len(text)]
<1>1. PICK n \in Nat : n = Len(text)
  BY WordFacts
<1>2. \A i \in 1 .. n : text[i] \in Vocabulary
  BY <1>1, WordFacts
<1> DEFINE S == {q \in Seq(Text) : \E f \in Seq(Text), e \in Text : q = Append(f, e)}
<1> DEFINE step == [x \in (1 .. n) \X S |->
                       IF text[x[1]] = word THEN Append(x[2], <<>>)
                       ELSE Append(Front(x[2]), Append(Last(x[2]), text[x[1]]))]
<1>3. step \in [(1 .. n) \X S -> S]
  <2>1. ASSUME NEW i \in 1 .. n, NEW q \in S
        PROVE  /\ Append(q, <<>>) \in S
               /\ Append(Front(q), Append(Last(q), text[i])) \in S
    <3>1. PICK f \in Seq(Text), e \in Text : q = Append(f, e)
      OBVIOUS
    <3>2. Front(q) = f /\ Last(q) = e /\ q \in Seq(Text)
      BY <3>1, LastAppended
    <3>3. Append(e, text[i]) \in Text /\ <<>> \in Text
      BY <1>2, AppendProperties DEF Text
    <3>4. Append(q, <<>>) \in Seq(Text) /\ Append(f, Append(e, text[i])) \in Seq(Text)
      BY <3>2, <3>3, AppendProperties
    <3> QED
      BY <3>2, <3>3, <3>4
  <2> HIDE DEF S
  <2> QED
    BY <2>1
<1>4. \A i \in 1 .. n, q \in S :
         step[<<i, q>>] = IF text[i] = word THEN Append(q, <<>>)
                          ELSE Append(Front(q), Append(Last(q), text[i]))
  OBVIOUS
<1>5. <<<<>>>> \in S /\ S \subseteq Seq(Text)
  <2>1. <<>> \in Seq(Text) /\ <<>> \in Text
    BY EmptySeq DEF Text
  <2>2. Append(<<>>, <<>>) = <<<<>>>>
    OBVIOUS
  <2>3. Append(<<>>, <<>>) \in Seq(Text)
    BY <2>1, AppendProperties
  <2> QED
    BY <2>1, <2>2, <2>3
<1> HIDE DEF S, step
<1>6. PICK f : Loop(f, n, S, <<<<>>>>, step)
  BY ONLY <1>3, <1>5, n \in Nat, LoopExists, Zenon
<1>7. \A i \in 1 .. n : i - 1 \in 0 .. n
  OBVIOUS
<1>8. Pieces(text, word, f)
  <2>1. f \in [0 .. n -> S] /\ f[0] = <<<<>>>>
    BY <1>6 DEF Loop
  <2>2. f \in [0 .. n -> Seq(Text)]
    BY <1>5, <2>1
  <2>3. ASSUME NEW i \in 1 .. n
        PROVE  f[i] = IF text[i] = word THEN Append(f[i - 1], <<>>)
                      ELSE Append(Front(f[i - 1]), Append(Last(f[i - 1]), text[i]))
    <3>1. f[i - 1] \in S /\ f[i] = step[<<i, f[i - 1]>>]
      BY <1>6, <1>7, <2>1 DEF Loop
    <3> QED
      BY <1>4, <3>1
  <2> QED
    BY ONLY <1>1, <2>1, <2>2, <2>3 DEF Pieces
<1> DEFINE body(h, i) == IF i = 0 THEN <<<<>>>>
                         ELSE IF text[i] = word THEN Append(h[i - 1], <<>>)
                         ELSE Append(Front(h[i - 1]), Append(Last(h[i - 1]), text[i]))
<1>9. \A i \in 1 .. n : i \in 0 .. n /\ i # 0
  OBVIOUS
<1>10. f \in [0 .. n -> Seq(Text)] /\ f[0] = body(f, 0) /\ \A i \in 1 .. n : f[i] = body(f, i)
  BY <1>1, <1>8 DEF Pieces
<1>11. ASSUME NEW h, h = [i \in 0 .. n |-> body(h, i)]  PROVE h = f
  <2>1. Alike(h, f, n)
    <3>1. 0 \in 0 .. n
      OBVIOUS
    <3>2. h[0] = f[0]
      BY ONLY <1>10, <1>11, <3>1
    <3>3. ASSUME NEW i \in 1 .. n, h[i - 1] = f[i - 1]  PROVE h[i] = f[i]
      <4>1. h[i] = body(h, i)
        <5> HIDE DEF body
        <5> QED
          BY ONLY <1>9, <1>11, i \in 1 .. n
      <4>2. body(h, i) = body(f, i)
        BY ONLY <3>3, Zenon
      <4> QED
        BY <1>10, <4>1, <4>2, Zenon
    <3> QED
      BY ONLY <3>2, <3>3, Zenon DEF Alike
  <2>2. \A i \in 0 .. n : h[i] = f[i]
    BY ONLY <2>1, n \in Nat, LoopUnique
  <2> HIDE DEF body
  <2> QED
    BY ONLY <1>10, <1>11, <2>2
<1>12. f = [i \in 0 .. n |-> body(f, i)]
  <2>1. \A i \in 0 .. n : i = 0 \/ i \in 1 .. n
    OBVIOUS
  <2> HIDE DEF body
  <2> QED
    BY ONLY <1>10, <2>1
<1>13. split(text, word) = f[n]
  BY ONLY <1>1, <1>11, <1>12 DEF split
<1> QED
  BY <1>1, <1>8, <1>13

LEMMA SplitGrows ==
    ASSUME NEW text \in Text, NEW e \in Vocabulary, NEW word
    PROVE  split(Append(text, e), word)
             = IF e = word THEN Append(split(text, word), <<>>)
               ELSE Append(Front(split(text, word)), Append(Last(split(text, word)), e))
<1> DEFINE long == Append(text, e)
<1>1. PICK n \in Nat : n = Len(text)
  BY WordFacts
<1>2. /\ long \in Text /\ Len(long) = n + 1 /\ long[n + 1] = e
      /\ \A i \in 1 .. n : long[i] = text[i]
  BY <1>1, AppendProperties DEF Text
<1> HIDE DEF long
<1>3. PICK f : Pieces(text, word, f) /\ split(text, word) = f[n]
  BY <1>1, SplitLoop
<1>4. PICK g : Pieces(long, word, g) /\ split(long, word) = g[n + 1]
  BY <1>2, SplitLoop
<1>5. \A i \in 1 .. n : i \in 1 .. n + 1
  OBVIOUS
<1>6. Alike(f, g, n)
  <2>1. f[0] = g[0]
    BY <1>3, <1>4 DEF Pieces
  <2>2. ASSUME NEW i \in 1 .. n, f[i - 1] = g[i - 1]  PROVE f[i] = g[i]
    <3>1. f[i] = IF text[i] = word THEN Append(f[i - 1], <<>>)
                 ELSE Append(Front(f[i - 1]), Append(Last(f[i - 1]), text[i]))
      BY <1>1, <1>3 DEF Pieces
    <3>2. g[i] = IF long[i] = word THEN Append(g[i - 1], <<>>)
                 ELSE Append(Front(g[i - 1]), Append(Last(g[i - 1]), long[i]))
      BY <1>2, <1>4, <1>5 DEF Pieces
    <3> QED
      BY ONLY <1>2, <2>2, <3>1, <3>2, i \in 1 .. n, Zenon
  <2> QED
    BY ONLY <2>1, <2>2, Zenon DEF Alike
<1>7. f[n] = g[n]
  <2>1. \A i \in 0 .. n : f[i] = g[i]
    BY ONLY <1>6, n \in Nat, LoopUnique
  <2> QED
    BY <2>1
<1>8. n + 1 \in 1 .. n + 1 /\ (n + 1) - 1 = n
  OBVIOUS
<1>9. g[n + 1] = IF e = word THEN Append(g[n], <<>>)
                 ELSE Append(Front(g[n]), Append(Last(g[n]), e))
  <2>1. g[n + 1] = IF long[n + 1] = word THEN Append(g[(n + 1) - 1], <<>>)
                   ELSE Append(Front(g[(n + 1) - 1]), Append(Last(g[(n + 1) - 1]), long[n + 1]))
    BY ONLY <1>2, <1>4, <1>8 DEF Pieces
  <2> QED
    BY ONLY <1>2, <1>8, <2>1, Zenon
<1> QED
  BY ONLY <1>3, <1>4, <1>7, <1>9, Zenon DEF long

\* The pieces of a text: those that are ended by the word, and the last one.
Cuts(text, word, g, c) ==
    g \in Seq(Text) /\ c \in Text /\ split(text, word) = Append(g, c)

LEMMA Empty == <<>> \in Text /\ <<>> \in Seq(Text) /\ Len(<<>>) = 0 /\ Range(<<>>) = {}
<1>1. <<>> \in Text /\ <<>> \in Seq(Text) /\ Len(<<>>) = 0
  BY EmptySeq DEF Text
<1>2. ~ \E i \in Int : i \in 1 .. 0
  OBVIOUS
<1> QED
  BY <1>1, <1>2, WordFacts

LEMMA CutsEmpty == ASSUME NEW word  PROVE Cuts(<<>>, word, <<>>, <<>>)
<1>1. split(<<>>, word) = <<<<>>>>
  BY Empty, SplitLoop DEF Pieces
<1>2. Append(<<>>, <<>>) = <<<<>>>>
  OBVIOUS
<1> QED
  BY <1>1, <1>2, Empty DEF Cuts

LEMMA CutsGrow ==
    ASSUME NEW text \in Text, NEW word, NEW g, NEW c, Cuts(text, word, g, c),
           NEW e \in Vocabulary
    PROVE  IF e = word THEN Cuts(Append(text, e), word, Append(g, c), <<>>)
           ELSE Cuts(Append(text, e), word, g, Append(c, e))
<1>1. g \in Seq(Text) /\ c \in Text /\ split(text, word) = Append(g, c)
  BY DEF Cuts
<1>2. Front(Append(g, c)) = g /\ Last(Append(g, c)) = c /\ Append(g, c) \in Seq(Text)
  BY <1>1, LastAppended
<1>3. Append(c, e) \in Text
  BY <1>1, AppendProperties DEF Text
<1>4. split(Append(text, e), word)
        = IF e = word THEN Append(Append(g, c), <<>>) ELSE Append(g, Append(c, e))
  <2>1. split(Append(text, e), word)
          = IF e = word THEN Append(split(text, word), <<>>)
            ELSE Append(Front(split(text, word)), Append(Last(split(text, word)), e))
    BY SplitGrows
  <2> QED
    BY ONLY <1>1, <1>2, <2>1, Zenon
<1>5. CASE e = word
  BY ONLY <1>1, <1>2, <1>4, <1>5, Empty DEF Cuts
<1>6. CASE e # word
  BY ONLY <1>1, <1>3, <1>4, <1>6 DEF Cuts
<1> QED
  BY <1>5, <1>6

LEMMA CutsExist ==
    ASSUME NEW text \in Text, NEW word
    PROVE  \E g, c : Cuts(text, word, g, c)
<1> DEFINE T == {t \in Text : \E g, c : Cuts(t, word, g, c)}
<1>1. <<>> \in T
  BY Empty, CutsEmpty
<1>2. ASSUME NEW s \in Text, NEW e \in Vocabulary, s \in T  PROVE Append(s, e) \in T
  <2>1. PICK g, c : Cuts(s, word, g, c)
    BY <1>2
  <2>2. Append(s, e) \in Text
    BY AppendProperties DEF Text
  <2> QED
    BY <2>1, <2>2, CutsGrow
<1> HIDE DEF T
<1>3. Text \subseteq T
  BY <1>1, <1>2, ByAppending DEF Text
<1> QED
  BY <1>3 DEF T

\* Behind the word a text is cut as if it stood alone.
LEMMA CutsBehind ==
    ASSUME NEW a \in Text, NEW b \in Text, NEW word, NEW f, NEW g, NEW c,
           Cuts(a, word, f, <<>>), Cuts(b, word, g, c)
    PROVE  Cuts(a \o b, word, f \o g, c)
<1>0. f \in Seq(Text)
  BY DEF Cuts
<1> DEFINE T == {t \in Text : \A h, d : Cuts(t, word, h, d) => Cuts(a \o t, word, f \o h, d)}
<1>1. <<>> \in T
  <2>1. a \o <<>> = a /\ f \o <<>> = f
    BY <1>0, ConcatEmptySeq DEF Text
  <2>2. ASSUME NEW h, NEW d, Cuts(<<>>, word, h, d)  PROVE Cuts(a \o <<>>, word, f \o h, d)
    <3>0. Cuts(<<>>, word, <<>>, <<>>)
      BY CutsEmpty
    <3>1. split(<<>>, word) = Append(h, d) /\ h \in Seq(Text) /\ d \in Text
      BY <2>2, Zenon DEF Cuts
    <3>3. split(<<>>, word) = Append(<<>>, <<>>)
      BY <3>0, Zenon DEF Cuts
    <3>2. h = <<>> /\ d = <<>>
      BY ONLY <3>1, <3>3, Empty, AppendInjective
    <3> QED
      BY <2>1, <3>2
  <2> QED
    BY <2>2, Empty
<1>2. ASSUME NEW s \in Text, NEW e \in Vocabulary, s \in T  PROVE Append(s, e) \in T
  <2>1. Append(s, e) \in Text /\ a \o Append(s, e) = Append(a \o s, e) /\ a \o s \in Text
    <3>1. Append(s, e) \in Text /\ a \o s \in Text
      BY AppendProperties, Joined DEF Text
    <3>2. <<e>> \in Text
      BY Single
    <3>3. Append(s, e) = s \o <<e>> /\ Append(a \o s, e) = (a \o s) \o <<e>>
      BY <3>1, AppendIsConcat DEF Text
    <3>4. (a \o s) \o <<e>> = a \o (s \o <<e>>)
      BY <3>2, ConcatAssociative DEF Text
    <3> QED
      BY <3>1, <3>3, <3>4
  <2>2. PICK h, d : Cuts(s, word, h, d)
    BY CutsExist
  <2>3. Cuts(a \o s, word, f \o h, d) /\ h \in Seq(Text) /\ d \in Text
    BY <1>2, <2>2 DEF Cuts
  <2>4. ASSUME NEW i, NEW j, Cuts(Append(s, e), word, i, j)
        PROVE  Cuts(a \o Append(s, e), word, f \o i, j)
    <3>1. CASE e = word
      <4>1. /\ Cuts(Append(s, e), word, Append(h, d), <<>>)
            /\ Cuts(Append(a \o s, e), word, Append(f \o h, d), <<>>)
        BY <2>1, <2>2, <2>3, <3>1, CutsGrow
      <4>2. Append(h, d) = i /\ <<>> = j
        <5>1. /\ Append(Append(h, d), <<>>) = Append(i, j)
              /\ Append(h, d) \in Seq(Text) /\ i \in Seq(Text) /\ j \in Text
          BY <2>4, <4>1 DEF Cuts
        <5> QED
          BY <5>1, Empty, AppendInjective
      <4>3. Append(f \o h, d) = f \o Append(h, d)
        <5>1. f \o h \in Seq(Text) /\ <<d>> \in Seq(Text)
          BY <1>0, <2>3, ConcatProperties, OneElement
        <5>2. Append(f \o h, d) = (f \o h) \o <<d>> /\ Append(h, d) = h \o <<d>>
          BY <2>3, <5>1, AppendIsConcat
        <5>3. (f \o h) \o <<d>> = f \o (h \o <<d>>)
          BY <1>0, <2>3, <5>1, ConcatAssociative
        <5> QED
          BY <5>2, <5>3
      <4> QED
        BY ONLY <2>1, <4>1, <4>2, <4>3
    <3>2. CASE e # word
      <4>1. /\ Cuts(Append(s, e), word, h, Append(d, e))
            /\ Cuts(Append(a \o s, e), word, f \o h, Append(d, e))
        BY <2>1, <2>2, <2>3, <3>2, CutsGrow
      <4>2. h = i /\ Append(d, e) = j
        <5>1. /\ Append(h, Append(d, e)) = Append(i, j) /\ Append(d, e) \in Text
              /\ h \in Seq(Text) /\ i \in Seq(Text) /\ j \in Text
          BY <2>4, <4>1 DEF Cuts
        <5> QED
          BY <5>1, AppendInjective
      <4> QED
        BY ONLY <2>1, <4>1, <4>2
    <3> QED
      BY <3>1, <3>2
  <2> HIDE DEF Cuts
  <2> QED
    BY <2>1, <2>4
<1> HIDE DEF T
<1>3. Text \subseteq T
  BY <1>1, <1>2, ByAppending DEF Text
<1> QED
  BY <1>3 DEF T

\* A text without the word stays whole.
LEMMA CutsWhole ==
    ASSUME NEW text \in Text, NEW word, word \notin Range(text)
    PROVE  Cuts(text, word, <<>>, text)
<1> DEFINE T == {t \in Text : word \notin Range(t) => Cuts(t, word, <<>>, t)}
<1>1. <<>> \in T
  BY Empty, CutsEmpty
<1>2. ASSUME NEW s \in Text, NEW e \in Vocabulary, s \in T  PROVE Append(s, e) \in T
  <2>1. Append(s, e) \in Text /\ Append(s, e) = s \o <<e>>
    BY AppendProperties, AppendIsConcat DEF Text
  <2>2. Range(Append(s, e)) = Range(s) \cup {e}
    BY <2>1, Single, JoinedWords
  <2>3. ASSUME word \notin Range(Append(s, e))  PROVE Cuts(Append(s, e), word, <<>>, Append(s, e))
    <3>1. Cuts(s, word, <<>>, s) /\ e # word
      BY <1>2, <2>2, <2>3
    <3> QED
      BY <3>1, CutsGrow
  <2> QED
    BY <2>1, <2>3
<1> HIDE DEF T
<1>3. Text \subseteq T
  BY <1>1, <1>2, ByAppending DEF Text
<1> QED
  BY <1>3 DEF T

-----------------------------------------------------------------------------
(* A line about a key, and what is read of it.                              *)

update_line(k, v) == (<<TAB, k>> \o <<":">>) \o v

LEMMA FirstPiece ==
    ASSUME NEW v \in Text, NEW word
    PROVE  split(v, word)[1] \in Text
<1>1. PICK g, c : Cuts(v, word, g, c)
  BY CutsExist
<1>2. g \in Seq(Text) /\ c \in Text /\ split(v, word) = Append(g, c)
  BY <1>1 DEF Cuts
<1>3. split(v, word) \in Seq(Text) /\ split(v, word) # <<>>
  BY ONLY <1>2, LastAppended
<1>4. 1 \in 1 .. Len(split(v, word))
  BY ONLY <1>3, EmptySeq, LenProperties
<1> QED
  BY ONLY <1>3, <1>4, ElementOfSeq

LEMMA KeyValue ==
    ASSUME NEW k \in Vocabulary, k # ":", k # NL, NEW v \in Text, NL \notin Range(v)
    PROVE  LET l == update_line(k, v)
           IN  /\ l \in Text /\ NL \notin Range(l) /\ ~blank(l) /\ has_colon(l)
               /\ key_of(l) = k /\ value_of(l) = split(v, ":")[1]
               /\ Line(<<TAB, k>>, v) = Append(l, NL)
<1> DEFINE p == <<TAB, k>>
<1> DEFINE q == p \o <<":">>
<1> DEFINE l == q \o v
<1>1. /\ p \in Text /\ Len(p) = 2 /\ p[1] = TAB /\ p[2] = k /\ p = <<TAB>> \o <<k>>
  BY Pair, Distinct
<1>2. Range(p) = {TAB, k}
  <2>1. <<TAB>> \in Text /\ <<k>> \in Text /\ Range(<<TAB>>) = {TAB} /\ Range(<<k>>) = {k}
    BY Single, Distinct
  <2>2. Range(<<TAB>> \o <<k>>) = Range(<<TAB>>) \cup Range(<<k>>)
    BY ONLY <2>1, JoinedWords, Zenon
  <2>3. Range(p) = Range(<<TAB>> \o <<k>>)
    BY ONLY <1>1, Zenon
  <2> QED
    BY ONLY <2>1, <2>2, <2>3
<1> HIDE DEF p
<1>3. /\ <<":">> \in Text /\ Range(<<":">>) = {":"} /\ Len(<<":">>) = 1 /\ <<":">>[1] = ":"
  BY Single, Distinct
<1>4. /\ q \in Text /\ Range(q) = Range(p) \cup {":"} /\ Len(q) = 3 /\ q[3] = ":"
      /\ q = Append(p, ":")
  <2>1. q \in Text /\ Range(q) = Range(p) \cup Range(<<":">>) /\ Len(q) = Len(p) + Len(<<":">>)
    BY <1>1, <1>3, Joined, JoinedWords, Zenon
  <2>2. \A i \in 1 .. Len(<<":">>) : q[Len(p) + i] = <<":">>[i]
    BY <1>1, <1>3, Joined, Zenon
  <2>3. 1 \in 1 .. 1
    OBVIOUS
  <2>4. q[3] = ":"
    BY ONLY <1>1, <1>3, <2>2, <2>3
  <2>5. q = Append(p, ":")
    BY <1>1, Distinct, AppendIsConcat DEF Text
  <2> QED
    BY ONLY <1>1, <1>3, <2>1, <2>4, <2>5
<1> HIDE DEF q
<1>5. /\ l \in Text /\ Range(l) = Range(q) \cup Range(v) /\ Len(l) = 3 + Len(v) /\ l[3] = ":"
  <2>1. l \in Text /\ Range(l) = Range(q) \cup Range(v) /\ Len(l) = Len(q) + Len(v)
    BY <1>4, Joined, JoinedWords, Zenon
  <2>2. \A i \in 1 .. Len(q) : l[i] = q[i]
    BY <1>4, Joined, Zenon
  <2>3. 3 \in 1 .. 3
    OBVIOUS
  <2> QED
    BY ONLY <1>4, <2>1, <2>2, <2>3
<1>6. update_line(k, v) = l
  BY DEF update_line, l, q, p
<1> HIDE DEF l
<1>7. NL \notin Range(l)
  BY <1>2, <1>4, <1>5, Distinct
<1>8. ~blank(l) /\ has_colon(l)
  <2>1. 3 \in DOMAIN l /\ Len(l) # 0
    BY <1>5, WordFacts
  <2> QED
    BY <1>5, <2>1, EmptySeq DEF blank, has_colon
<1>9. PICK g, c : Cuts(v, ":", g, c)
  BY CutsExist
<1>10. g \in Seq(Text) /\ c \in Text /\ split(v, ":") = Append(g, c)
  BY <1>9 DEF Cuts
<1>11. Cuts(q, ":", <<p>>, <<>>)
  <2>1. Cuts(p, ":", <<>>, p)
    BY <1>1, <1>2, Distinct, CutsWhole
  <2>2. Cuts(Append(p, ":"), ":", Append(<<>>, p), <<>>)
    BY <1>1, <2>1, Distinct, CutsGrow
  <2>3. Append(<<>>, p) = <<p>>
    OBVIOUS
  <2> QED
    BY <1>4, <2>2, <2>3
<1>12. Cuts(l, ":", <<p>> \o g, c)
  BY <1>4, <1>9, <1>11, CutsBehind DEF l
<1>13. split(l, ":") = Append(<<p>> \o g, c) /\ <<p>> \o g \in Seq(Text)
  BY <1>12 DEF Cuts
<1>14. Append(<<p>> \o g, c) = <<p>> \o Append(g, c)
  <2>1. <<p>> \in Seq(Text) /\ <<c>> \in Seq(Text)
    BY <1>1, <1>10, OneElement
  <2>2. Append(g, c) = g \o <<c>> /\ Append(<<p>> \o g, c) = (<<p>> \o g) \o <<c>>
    BY <1>10, <1>13, AppendIsConcat
  <2> QED
    BY <1>10, <2>1, <2>2, ConcatAssociative
<1>15. split(l, ":")[1] = p /\ split(l, ":")[2] = Append(g, c)[1]
  <2>1. /\ Append(g, c) \in Seq(Text) /\ Len(Append(g, c)) >= 1
        /\ <<p>> \in Seq(Text) /\ Len(<<p>>) = 1 /\ <<p>>[1] = p
    <3>1. Append(g, c) \in Seq(Text) /\ Append(g, c) # <<>>
      BY <1>10, LastAppended
    <3> QED
      BY <1>1, <3>1, OneElement, EmptySeq, LenProperties
  <2>2. /\ Len(<<p>> \o Append(g, c)) = Len(<<p>>) + Len(Append(g, c))
        /\ \A i \in 1 .. Len(<<p>>) + Len(Append(g, c)) :
              (<<p>> \o Append(g, c))[i]
                = IF i <= Len(<<p>>) THEN <<p>>[i] ELSE Append(g, c)[i - Len(<<p>>)]
    BY ONLY <2>1, ConcatProperties
  <2>3. PICK m \in Nat : m = Len(Append(g, c)) /\ m >= 1
    BY <2>1, LenProperties
  <2>4. 1 \in 1 .. 1 + m /\ 2 \in 1 .. 1 + m /\ 1 <= 1 /\ ~(2 <= 1) /\ 2 - 1 = 1
    BY <2>3
  <2>5. (<<p>> \o Append(g, c))[1] = p /\ (<<p>> \o Append(g, c))[2] = Append(g, c)[1]
    BY ONLY <2>1, <2>2, <2>3, <2>4
  <2> QED
    BY ONLY <1>13, <1>14, <2>5
<1>16. key_of(l) = k
  BY <1>1, <1>8, <1>15 DEF key_of, Last
<1>17. value_of(l) = split(v, ":")[1]
  BY <1>8, <1>10, <1>15 DEF value_of
<1>18. Line(<<TAB, k>>, v) = Append(l, NL)
  <2>1. Append(l, NL) = l \o <<NL>>
    BY <1>5, Distinct, AppendIsConcat DEF Text
  <2>2. Line(p, v) = ((p \o <<":">>) \o v) \o <<NL>>
    BY <1>1, LineFacts
  <2> QED
    BY <2>1, <2>2 DEF l, q, p
<1> QED
  BY ONLY <1>5, <1>6, <1>7, <1>8, <1>16, <1>17, <1>18, Zenon

-----------------------------------------------------------------------------
(* parse_updates.                                                           *)

Maps == UNION {[D -> Text] : D \in SUBSET Vocabulary}

LEMMA MapFacts ==
    ASSUME NEW f \in Maps, NEW k \in Vocabulary, NEW v \in Text
    PROVE  /\ insert(f, k, v) \in Maps /\ DOMAIN insert(f, k, v) = DOMAIN f \cup {k}
           /\ \A x \in DOMAIN f : insert(f, k, v)[x] = f[x]
           /\ k \notin DOMAIN f => insert(f, k, v)[k] = v
<1>1. PICK D \in SUBSET Vocabulary : f \in [D -> Text]
  BY DEF Maps
<1>2. insert(f, k, v) = [x \in D \cup {k} |-> IF x \in D THEN f[x] ELSE v]
  <2> DEFINE g == [key \in {k} |-> v]
  <2>1. insert(f, k, v) = [x \in DOMAIN f \cup DOMAIN g |->
                              IF x \in DOMAIN f THEN f[x] ELSE g[x]]
    BY DEF insert, filled
  <2>2. DOMAIN f = D /\ DOMAIN g = {k} /\ \A x \in {k} : g[x] = v
    BY <1>1
  <2> HIDE DEF g
  <2> QED
    BY ONLY <2>1, <2>2
<1>3. insert(f, k, v) \in [D \cup {k} -> Text] /\ D \cup {k} \in SUBSET Vocabulary
  BY <1>1, <1>2
<1> QED
  BY <1>1, <1>2, <1>3 DEF Maps

LEMMA NoMap == <<>> \in Maps /\ DOMAIN <<>> = {}
<1>1. <<>> = [x \in {} |-> <<>>]
  OBVIOUS
<1>2. [x \in {} |-> <<>>] \in [{} -> Text]
  OBVIOUS
<1> QED
  BY <1>1, <1>2 DEF Maps

\* Lines that are empty or about a key.
Legible(rows) ==
    /\ rows \in Seq(Text)
    /\ \A i \in 1 .. Len(rows) :
          blank(rows[i]) \/ (key_of(rows[i]) \in Vocabulary /\ value_of(rows[i]) \in Text)

Parsed(rows, m) ==
    /\ m \in [0 .. Len(rows) -> Maps] /\ m[0] = <<>>
    /\ \A i \in 1 .. Len(rows) :
          m[i] = IF blank(rows[i]) THEN m[i - 1]
                 ELSE insert(m[i - 1], key_of(rows[i]), value_of(rows[i]))

LEMMA ParseLoop ==
    ASSUME NEW rows, Legible(rows)
    PROVE  \E m : Parsed(rows, m) /\ parse_updates(rows) = m[Len(rows)]
<1>1. PICK n \in Nat : n = Len(rows)
  BY LenProperties DEF Legible
<1> DEFINE step == [x \in (1 .. n) \X Maps |->
                       IF blank(rows[x[1]]) THEN x[2]
                       ELSE insert(x[2], key_of(rows[x[1]]), value_of(rows[x[1]]))]
<1>2. \A i \in 1 .. n, q \in Maps :
         ~blank(rows[i]) => insert(q, key_of(rows[i]), value_of(rows[i])) \in Maps
  BY <1>1, MapFacts DEF Legible
<1>3. step \in [(1 .. n) \X Maps -> Maps]
  BY <1>2
<1>4. \A i \in 1 .. n, q \in Maps :
         step[<<i, q>>] = IF blank(rows[i]) THEN q
                          ELSE insert(q, key_of(rows[i]), value_of(rows[i]))
  OBVIOUS
<1>5. <<>> \in Maps
  BY NoMap
<1> HIDE DEF step
<1>6. PICK f : Loop(f, n, Maps, <<>>, step)
  BY ONLY <1>3, <1>5, n \in Nat, LoopExists, Zenon
<1>7. \A i \in 1 .. n : i - 1 \in 0 .. n
  OBVIOUS
<1> DEFINE body(h, i) == IF i = 0 THEN <<>>
                         ELSE IF blank(rows[i]) THEN h[i - 1]
                         ELSE insert(h[i - 1], key_of(rows[i]), value_of(rows[i]))
<1>8. f \in [0 .. n -> Maps] /\ f[0] = body(f, 0)
  BY <1>6 DEF Loop
<1>9. \A i \in 1 .. n : i \in 0 .. n /\ i # 0
  OBVIOUS
<1>10. ASSUME NEW i \in 1 .. n  PROVE f[i] = body(f, i)
  <2>1. f[i - 1] \in Maps /\ f[i] = step[<<i, f[i - 1]>>]
    BY <1>6, <1>7, <1>8 DEF Loop
  <2> QED
    BY <1>4, <1>9, <2>1
<1>11. ASSUME NEW h, h = [i \in 0 .. n |-> body(h, i)]  PROVE h = f
  <2>1. Alike(h, f, n)
    <3>1. 0 \in 0 .. n
      OBVIOUS
    <3>2. h[0] = f[0]
      BY ONLY <1>8, <1>11, <3>1
    <3>3. ASSUME NEW i \in 1 .. n, h[i - 1] = f[i - 1]  PROVE h[i] = f[i]
      <4>1. h[i] = body(h, i)
        <5> HIDE DEF body
        <5> QED
          BY ONLY <1>9, <1>11, i \in 1 .. n
      <4>2. body(h, i) = body(f, i)
        BY ONLY <3>3, Zenon
      <4> QED
        BY <1>10, <4>1, <4>2, Zenon
    <3> QED
      BY ONLY <3>2, <3>3, Zenon DEF Alike
  <2>2. \A i \in 0 .. n : h[i] = f[i]
    BY ONLY <2>1, n \in Nat, LoopUnique
  <2> HIDE DEF body
  <2> QED
    BY ONLY <1>8, <1>11, <2>2
<1>12. f = [i \in 0 .. n |-> body(f, i)]
  <2>1. \A i \in 0 .. n : i = 0 \/ i \in 1 .. n
    OBVIOUS
  <2> HIDE DEF body
  <2> QED
    BY ONLY <1>8, <1>10, <2>1
<1>13. parse_updates(rows) = f[n]
  BY ONLY <1>1, <1>11, <1>12 DEF parse_updates
<1>14. Parsed(rows, f)
  <2>1. \A i \in 1 .. n : f[i] = IF blank(rows[i]) THEN f[i - 1]
                               ELSE insert(f[i - 1], key_of(rows[i]), value_of(rows[i]))
    BY ONLY <1>9, <1>10, Zenon
  <2>2. f[0] = <<>>
    BY <1>8
  <2> QED
    BY ONLY <1>1, <1>8, <2>1, <2>2 DEF Parsed
<1> QED
  BY <1>1, <1>13, <1>14

LEMMA ParseGrows ==
    ASSUME NEW rows, NEW l, Legible(Append(rows, l)), rows \in Seq(Text), l \in Text
    PROVE  /\ Legible(rows) /\ parse_updates(rows) \in Maps
           /\ parse_updates(Append(rows, l))
                = IF blank(l) THEN parse_updates(rows)
                  ELSE insert(parse_updates(rows), key_of(l), value_of(l))
<1> DEFINE long == Append(rows, l)
<1>1. PICK n \in Nat : n = Len(rows)
  BY LenProperties
<1>2. /\ long \in Seq(Text) /\ Len(long) = n + 1 /\ long[n + 1] = l
      /\ \A i \in 1 .. n : long[i] = rows[i]
  BY <1>1, AppendProperties
<1>0. Legible(long)
  OBVIOUS
<1> HIDE DEF long
<1>5. \A i \in 1 .. n : i \in 1 .. n + 1
  OBVIOUS
<1>10. Legible(rows)
  BY ONLY <1>0, <1>1, <1>2, <1>5, rows \in Seq(Text) DEF Legible
<1>3. PICK f : Parsed(rows, f) /\ parse_updates(rows) = f[n]
  BY <1>1, <1>10, ParseLoop
<1>4. PICK g : Parsed(long, g) /\ parse_updates(long) = g[n + 1]
  BY <1>0, <1>2, ParseLoop
<1>6. Alike(f, g, n)
  <2>1. f[0] = g[0]
    BY <1>3, <1>4 DEF Parsed
  <2>2. ASSUME NEW i \in 1 .. n, f[i - 1] = g[i - 1]  PROVE f[i] = g[i]
    <3>1. f[i] = IF blank(rows[i]) THEN f[i - 1]
                 ELSE insert(f[i - 1], key_of(rows[i]), value_of(rows[i]))
      BY <1>1, <1>3 DEF Parsed
    <3>2. g[i] = IF blank(long[i]) THEN g[i - 1]
                 ELSE insert(g[i - 1], key_of(long[i]), value_of(long[i]))
      BY <1>2, <1>4, <1>5 DEF Parsed
    <3>3. long[i] = rows[i]
      BY <1>2
    <3> QED
      BY ONLY <2>2, <3>1, <3>2, <3>3, Zenon
  <2> QED
    BY ONLY <2>1, <2>2, Zenon DEF Alike
<1>7. f[n] = g[n]
  <2>1. \A i \in 0 .. n : f[i] = g[i]
    BY ONLY <1>6, n \in Nat, LoopUnique
  <2> QED
    BY <2>1
<1>8. n + 1 \in 1 .. n + 1 /\ (n + 1) - 1 = n /\ n \in 0 .. n
  OBVIOUS
<1>9. g[n + 1] = IF blank(l) THEN g[n] ELSE insert(g[n], key_of(l), value_of(l))
  <2>1. g[n + 1] = IF blank(long[n + 1]) THEN g[(n + 1) - 1]
                   ELSE insert(g[(n + 1) - 1], key_of(long[n + 1]), value_of(long[n + 1]))
    BY ONLY <1>2, <1>4, <1>8 DEF Parsed
  <2> QED
    BY ONLY <1>2, <1>8, <2>1, Zenon
<1>11. f[n] \in Maps
  BY <1>1, <1>3, <1>8 DEF Parsed
<1> QED
  BY ONLY <1>3, <1>4, <1>7, <1>9, <1>10, <1>11, Zenon DEF long

-----------------------------------------------------------------------------
(* update_lines, and what is read of them.                                  *)

Updates(map, f) ==
    /\ f \in [0 .. Len(Keys) -> Text] /\ f[0] = <<>>
    /\ \A i \in 1 .. Len(Keys) :
          f[i] = IF Keys[i] \in DOMAIN map
                 THEN f[i - 1] \o Line(<<TAB, Keys[i]>>, map[Keys[i]]) ELSE f[i - 1]

LEMMA KeyFacts ==
    /\ Len(Keys) \in Nat /\ \A i \in 1 .. Len(Keys) : Keys[i] \in Vocabulary
    /\ Range(Keys) = {Keys[i] : i \in 1 .. Len(Keys)} /\ Range(Keys) \subseteq Vocabulary
    /\ \A i, j \in 1 .. Len(Keys) : Keys[i] = Keys[j] => i = j
<1>1. Keys \in Text /\ IsInjective(Keys)
  BY ReportAssumption
<1>2. /\ Len(Keys) \in Nat /\ \A i \in 1 .. Len(Keys) : Keys[i] \in Vocabulary
      /\ Range(Keys) = {Keys[i] : i \in 1 .. Len(Keys)} /\ DOMAIN Keys = 1 .. Len(Keys)
  BY <1>1, WordFacts
<1>3. \A i, j \in 1 .. Len(Keys) : Keys[i] = Keys[j] => i = j
  BY <1>1, <1>2 DEF IsInjective
<1> QED
  BY <1>2, <1>3

LEMMA UpdateLoop ==
    ASSUME NEW map, is_map(map)
    PROVE  \E f : Updates(map, f) /\ update_lines(map) = f[Len(Keys)]
<1>1. PICK n \in Nat : n = Len(Keys)
  BY KeyFacts
<1> DEFINE step == [x \in (1 .. n) \X Text |->
                       IF Keys[x[1]] \in DOMAIN map
                       THEN x[2] \o Line(<<TAB, Keys[x[1]]>>, map[Keys[x[1]]]) ELSE x[2]]
<1>2. ASSUME NEW i \in 1 .. n, NEW q \in Text, Keys[i] \in DOMAIN map
      PROVE  q \o Line(<<TAB, Keys[i]>>, map[Keys[i]]) \in Text
  <2>1. Keys[i] \in Vocabulary /\ map[Keys[i]] \in Text
    BY <1>1, <1>2, KeyFacts DEF is_map
  <2>2. <<TAB, Keys[i]>> \in Text
    BY <2>1, Pair, Distinct
  <2>3. Line(<<TAB, Keys[i]>>, map[Keys[i]]) \in Text
    BY <2>1, <2>2, LineFacts
  <2> QED
    BY <2>3, Joined
<1>3. step \in [(1 .. n) \X Text -> Text]
  BY <1>2
<1>4. \A i \in 1 .. n, q \in Text :
         step[<<i, q>>] = IF Keys[i] \in DOMAIN map
                          THEN q \o Line(<<TAB, Keys[i]>>, map[Keys[i]]) ELSE q
  OBVIOUS
<1>5. <<>> \in Text
  BY Empty
<1> HIDE DEF step
<1>6. PICK f : Loop(f, n, Text, <<>>, step)
  BY ONLY <1>3, <1>5, n \in Nat, LoopExists, Zenon
<1>7. \A i \in 1 .. n : i - 1 \in 0 .. n
  OBVIOUS
<1> DEFINE body(h, i) == IF i = 0 THEN <<>>
                         ELSE IF Keys[i] \in DOMAIN map
                         THEN h[i - 1] \o Line(<<TAB, Keys[i]>>, map[Keys[i]])
                         ELSE h[i - 1]
<1>8. f \in [0 .. n -> Text] /\ f[0] = body(f, 0)
  BY <1>6 DEF Loop
<1>9. \A i \in 1 .. n : i \in 0 .. n /\ i # 0
  OBVIOUS
<1>10. ASSUME NEW i \in 1 .. n  PROVE f[i] = body(f, i)
  <2>1. f[i - 1] \in Text /\ f[i] = step[<<i, f[i - 1]>>]
    BY <1>6, <1>7, <1>8 DEF Loop
  <2> QED
    BY <1>4, <1>9, <2>1
<1>11. ASSUME NEW h, h = [i \in 0 .. n |-> body(h, i)]  PROVE h = f
  <2>1. Alike(h, f, n)
    <3>1. 0 \in 0 .. n
      OBVIOUS
    <3>2. h[0] = f[0]
      BY ONLY <1>8, <1>11, <3>1
    <3>3. ASSUME NEW i \in 1 .. n, h[i - 1] = f[i - 1]  PROVE h[i] = f[i]
      <4>1. h[i] = body(h, i)
        <5> HIDE DEF body
        <5> QED
          BY ONLY <1>9, <1>11, i \in 1 .. n
      <4>2. body(h, i) = body(f, i)
        BY ONLY <3>3, Zenon
      <4> QED
        BY <1>10, <4>1, <4>2, Zenon
    <3> QED
      BY ONLY <3>2, <3>3, Zenon DEF Alike
  <2>2. \A i \in 0 .. n : h[i] = f[i]
    BY ONLY <2>1, n \in Nat, LoopUnique
  <2> HIDE DEF body
  <2> QED
    BY ONLY <1>8, <1>11, <2>2
<1>12. f = [i \in 0 .. n |-> body(f, i)]
  <2>1. \A i \in 0 .. n : i = 0 \/ i \in 1 .. n
    OBVIOUS
  <2> HIDE DEF body
  <2> QED
    BY ONLY <1>8, <1>10, <2>1
<1>13. update_lines(map) = f[n]
  BY ONLY <1>1, <1>11, <1>12 DEF update_lines
<1>14. Updates(map, f)
  <2>1. \A i \in 1 .. n : f[i] = IF Keys[i] \in DOMAIN map
                               THEN f[i - 1] \o Line(<<TAB, Keys[i]>>, map[Keys[i]])
                               ELSE f[i - 1]
    BY ONLY <1>9, <1>10, Zenon
  <2>2. f[0] = <<>>
    BY <1>8
  <2> QED
    BY ONLY <1>1, <1>8, <2>1, <2>2 DEF Updates
<1> QED
  BY <1>1, <1>13, <1>14

\* What is read of the first i keys.
Read(map, i) ==
    [k \in {k \in DOMAIN map : \E j \in 1 .. i : Keys[j] = k} |-> split(map[k], ":")[1]]

Plain(map) ==
    is_map(map) /\ \A k \in DOMAIN map : k # ":" /\ k # NL /\ NL \notin Range(map[k])

Colons(rows) == \A i \in 1 .. Len(rows) : has_colon(rows[i])

LineReader(t, map, i, g) ==
    /\ t \in Text /\ Cuts(t, NL, g, <<>>) /\ Legible(g) /\ Colons(g)
    /\ parse_updates(g) = Read(map, i)

\* A word that is in none of the updates.
Foreign(w, map) ==
    /\ w # TAB /\ w # ":" /\ w # NL
    /\ \A k \in DOMAIN map : w # k /\ w \notin Range(map[k])

LEMMA ReadNothing == ASSUME NEW map  PROVE LineReader(<<>>, map, 0, <<>>)
<1>1. Cuts(<<>>, NL, <<>>, <<>>)
  BY CutsEmpty
<1>2. ~ \E i \in Int : i \in 1 .. 0
  OBVIOUS
<1>3. Legible(<<>>) /\ Colons(<<>>)
  BY <1>2, Empty DEF Legible, Colons
<1>4. parse_updates(<<>>) = <<>>
  BY <1>3, ParseLoop, Empty DEF Parsed
<1>5. Read(map, 0) = <<>>
  <2>1. {k \in DOMAIN map : \E j \in 1 .. 0 : Keys[j] = k} = {}
    BY <1>2
  <2>2. Read(map, 0) = [k \in {} |-> split(map[k], ":")[1]]
    BY <2>1 DEF Read
  <2> QED
    BY <2>2
<1> QED
  BY <1>1, <1>3, <1>4, <1>5, Empty DEF LineReader

LEMMA ReadOneMore ==
    ASSUME NEW map, Plain(map), NEW i \in 1 .. Len(Keys), NEW t, NEW g,
           LineReader(t, map, i - 1, g), Keys[i] \in DOMAIN map
    PROVE  \E h : LineReader(t \o Line(<<TAB, Keys[i]>>, map[Keys[i]]), map, i, h)
<1> DEFINE k == Keys[i]
<1> DEFINE v == map[k]
<1> DEFINE l == update_line(k, v)
<1>0. PICK n \in Nat : n = Len(Keys)
  BY KeyFacts
<1>1. /\ k \in Vocabulary /\ k # ":" /\ k # NL /\ v \in Text /\ NL \notin Range(v)
      /\ k \in DOMAIN map
  BY KeyFacts DEF Plain, is_map
<1>2. /\ t \in Text /\ Cuts(t, NL, g, <<>>) /\ Legible(g) /\ Colons(g)
      /\ parse_updates(g) = Read(map, i - 1)
  BY DEF LineReader
<1>30. Read(map, i)
         = [x \in {x \in DOMAIN map : \E j \in 1 .. i : Keys[j] = x} |-> split(map[x], ":")[1]]
  BY DEF Read
<1>31. Read(map, i - 1)
         = [x \in {x \in DOMAIN map : \E j \in 1 .. i - 1 : Keys[j] = x} |-> split(map[x], ":")[1]]
  BY DEF Read
<1>32. /\ k = Keys[i] /\ v = map[k]
       /\ \A j \in 1 .. i - 1 : Keys[j] # k /\ j \in 1 .. i
       /\ \A j \in 1 .. i : j = i \/ j \in 1 .. i - 1
       /\ i \in 1 .. i
  <2>1. \A j \in 1 .. i - 1 : j \in 1 .. Len(Keys) /\ j # i
    BY <1>0
  <2> QED
    BY <1>0, <2>1, KeyFacts
<1> HIDE DEF k, v
<1>3. /\ l \in Text /\ NL \notin Range(l) /\ ~blank(l) /\ has_colon(l)
      /\ key_of(l) = k /\ value_of(l) = split(v, ":")[1]
      /\ Line(<<TAB, k>>, v) = Append(l, NL)
  BY ONLY <1>1, KeyValue, Zenon
<1>4. split(v, ":")[1] \in Text
  BY <1>1, FirstPiece
<1> HIDE DEF l
<1>5. Cuts(Append(l, NL), NL, <<l>>, <<>>) /\ Append(l, NL) \in Text
  <2>1. Cuts(l, NL, <<>>, l)
    BY <1>3, CutsWhole
  <2>2. Cuts(Append(l, NL), NL, Append(<<>>, l), <<>>)
    BY <1>3, <2>1, CutsGrow, Distinct
  <2>3. Append(<<>>, l) = <<l>>
    OBVIOUS
  <2>4. Append(l, NL) \in Text
    BY <1>3, Distinct, AppendProperties DEF Text
  <2> QED
    BY <2>2, <2>3, <2>4
<1>6. g \in Seq(Text) /\ Append(g, l) = g \o <<l>>
  <2>1. g \in Seq(Text)
    BY <1>2 DEF Cuts
  <2> QED
    BY <1>3, <2>1, AppendIsConcat
<1>7. Cuts(t \o Append(l, NL), NL, Append(g, l), <<>>) /\ t \o Append(l, NL) \in Text
  BY <1>2, <1>5, <1>6, CutsBehind, Joined
<1>8. PICK m \in Nat : m = Len(g)
  BY <1>6, LenProperties
<1>9. /\ Append(g, l) \in Seq(Text) /\ Len(Append(g, l)) = m + 1 /\ Append(g, l)[m + 1] = l
      /\ \A j \in 1 .. m : Append(g, l)[j] = g[j]
      /\ \A j \in 1 .. m + 1 : j = m + 1 \/ j \in 1 .. m
  BY <1>3, <1>6, <1>8, AppendProperties
<1>10. Legible(Append(g, l)) /\ Colons(Append(g, l))
  <2>1. /\ \A j \in 1 .. m : blank(g[j]) \/ (key_of(g[j]) \in Vocabulary /\ value_of(g[j]) \in Text)
        /\ \A j \in 1 .. m : has_colon(g[j])
    BY <1>2, <1>8 DEF Legible, Colons
  <2>2. key_of(l) \in Vocabulary /\ value_of(l) \in Text
    BY <1>1, <1>3, <1>4
  <2>3. \A j \in 1 .. m + 1 : blank(Append(g, l)[j])
            \/ (key_of(Append(g, l)[j]) \in Vocabulary /\ value_of(Append(g, l)[j]) \in Text)
    BY ONLY <1>9, <2>1, <2>2
  <2>4. \A j \in 1 .. m + 1 : has_colon(Append(g, l)[j])
    BY ONLY <1>3, <1>9, <2>1
  <2> QED
    BY ONLY <1>9, <2>3, <2>4 DEF Legible, Colons
<1>11. parse_updates(Append(g, l)) = insert(Read(map, i - 1), k, split(v, ":")[1])
  <2>1. parse_updates(Append(g, l))
          = IF blank(l) THEN parse_updates(g)
            ELSE insert(parse_updates(g), key_of(l), value_of(l))
    BY ONLY <1>3, <1>6, <1>10, ParseGrows
  <2> QED
    BY ONLY <1>2, <1>3, <2>1, Zenon
<1>12. insert(Read(map, i - 1), k, split(v, ":")[1]) = Read(map, i)
  <2> DEFINE D == {x \in DOMAIN map : \E j \in 1 .. i - 1 : Keys[j] = x}
  <2> DEFINE E == {x \in DOMAIN map : \E j \in 1 .. i : Keys[j] = x}
  <2> DEFINE a == [key \in {k} |-> split(v, ":")[1]]
  <2>1. E = D \cup {k} /\ k \notin D
    BY ONLY <1>1, <1>32
  <2>2. Read(map, i) = [x \in E |-> split(map[x], ":")[1]]
    BY <1>30
  <2>3. Read(map, i - 1) = [x \in D |-> split(map[x], ":")[1]]
    BY <1>31
  <2>5. DOMAIN a = {k} /\ a[k] = split(v, ":")[1]
    OBVIOUS
  <2>4. insert(Read(map, i - 1), k, split(v, ":")[1])
          = [x \in DOMAIN Read(map, i - 1) \cup DOMAIN a |->
                IF x \in DOMAIN Read(map, i - 1) THEN Read(map, i - 1)[x] ELSE a[x]]
    BY DEF insert, filled
  <2> HIDE DEF D, E, a
  <2>6. insert(Read(map, i - 1), k, split(v, ":")[1])
          = [x \in E |-> IF x \in D THEN split(map[x], ":")[1] ELSE a[x]]
    BY ONLY <2>1, <2>3, <2>4, <2>5
  <2>7. \A x \in E : x \notin D => a[x] = split(map[x], ":")[1]
    BY ONLY <1>32, <2>1, <2>5
  <2> QED
    BY ONLY <2>2, <2>6, <2>7
<1> QED
  BY ONLY <1>3, <1>7, <1>10, <1>11, <1>12, <1>32, Zenon DEF LineReader

LEMMA UpdatesRead ==
    ASSUME NEW map, Plain(map)
    PROVE  \E g : LineReader(update_lines(map), map, Len(Keys), g)
<1>1. PICK n \in Nat : n = Len(Keys)
  BY KeyFacts
<1>2. PICK f : Updates(map, f) /\ update_lines(map) = f[n]
  BY <1>1, UpdateLoop DEF Plain
<1>3. /\ f[0] = <<>>
      /\ \A i \in 1 .. n :
            f[i] = IF Keys[i] \in DOMAIN map
                   THEN f[i - 1] \o Line(<<TAB, Keys[i]>>, map[Keys[i]]) ELSE f[i - 1]
  BY <1>1, <1>2 DEF Updates
<1> DEFINE R == {i \in 0 .. n : \E g : LineReader(f[i], map, i, g)}
<1>0. \A i : i \in R <=> i \in 0 .. n /\ \E g : LineReader(f[i], map, i, g)
  BY Zenon
<1> HIDE DEF R
<1>4. 0 \in R
  <2>1. 0 \in 0 .. n
    OBVIOUS
  <2> QED
    BY ONLY <1>0, <1>3, <2>1, ReadNothing, Zenon
<1>5. ASSUME NEW i \in 1 .. n, i - 1 \in R  PROVE i \in R
  <2>1. PICK g : LineReader(f[i - 1], map, i - 1, g)
    BY <1>0, <1>5, Zenon
  <2>2. i \in 0 .. n /\ i \in 1 .. Len(Keys)
    BY <1>1
  <2>3. CASE Keys[i] \in DOMAIN map
    <3>1. \E h : LineReader(f[i - 1] \o Line(<<TAB, Keys[i]>>, map[Keys[i]]), map, i, h)
      BY ONLY Plain(map), <2>1, <2>2, <2>3, ReadOneMore
    <3>2. f[i] = f[i - 1] \o Line(<<TAB, Keys[i]>>, map[Keys[i]])
      BY <1>3, <2>3
    <3> QED
      BY ONLY <1>0, <2>2, <3>1, <3>2, Zenon
  <2>4. CASE Keys[i] \notin DOMAIN map
    <3>1. f[i] = f[i - 1]
      BY <1>3, <2>4
    <3>2. \A x \in DOMAIN map :
             (\E j \in 1 .. i : Keys[j] = x) <=> \E j \in 1 .. i - 1 : Keys[j] = x
      <4>1. \A j \in 1 .. i : j = i \/ j \in 1 .. i - 1
        OBVIOUS
      <4>2. \A j \in 1 .. i - 1 : j \in 1 .. i
        OBVIOUS
      <4> QED
        BY ONLY <2>4, <4>1, <4>2
    <3>3. {x \in DOMAIN map : \E j \in 1 .. i : Keys[j] = x}
            = {x \in DOMAIN map : \E j \in 1 .. i - 1 : Keys[j] = x}
      BY ONLY <3>2
    <3>4. Read(map, i) = Read(map, i - 1)
      BY ONLY <3>3 DEF Read
    <3>5. LineReader(f[i], map, i, g)
      BY ONLY <2>1, <3>1, <3>4, Zenon DEF LineReader
    <3> QED
      BY ONLY <1>0, <2>2, <3>5, Zenon
  <2> QED
    BY <2>3, <2>4
<1>6. 0 .. n \subseteq R
  BY <1>4, <1>5, UpTo
<1>7. n \in 0 .. n
  OBVIOUS
<1> QED
  BY ONLY <1>0, <1>1, <1>2, <1>6, <1>7, Zenon

LEMMA ForeignWords ==
    ASSUME NEW map, Plain(map), NEW w, Foreign(w, map)
    PROVE  w \notin Range(update_lines(map))
<1>1. PICK n \in Nat : n = Len(Keys)
  BY KeyFacts
<1>2. PICK f : Updates(map, f) /\ update_lines(map) = f[n]
  BY <1>1, UpdateLoop DEF Plain
<1>3. /\ f[0] = <<>> /\ f \in [0 .. n -> Text]
      /\ \A i \in 1 .. n :
            f[i] = IF Keys[i] \in DOMAIN map
                   THEN f[i - 1] \o Line(<<TAB, Keys[i]>>, map[Keys[i]]) ELSE f[i - 1]
  BY <1>1, <1>2 DEF Updates
<1> DEFINE R == {i \in 0 .. n : w \notin Range(f[i])}
<1>0. \A i : i \in R <=> i \in 0 .. n /\ w \notin Range(f[i])
  BY Zenon
<1> HIDE DEF R
<1>4. 0 \in R
  BY <1>0, <1>3, Empty
<1>5. ASSUME NEW i \in 1 .. n, i - 1 \in R  PROVE i \in R
  <2>1. CASE Keys[i] \in DOMAIN map
    <3>1. /\ Keys[i] \in Vocabulary /\ map[Keys[i]] \in Text
          /\ w # TAB /\ w # ":" /\ w # NL /\ w # Keys[i] /\ w \notin Range(map[Keys[i]])
      BY <1>1, <2>1, KeyFacts DEF Plain, is_map, Foreign
    <3>2. <<TAB, Keys[i]>> \in Text
      BY <3>1, Distinct, Pair
    <3>3. Range(<<TAB, Keys[i]>>) = {TAB} \cup {Keys[i]}
      <4>1. <<TAB, Keys[i]>> = <<TAB>> \o <<Keys[i]>>
        BY <3>1, Distinct, Pair
      <4>2. /\ <<TAB>> \in Text /\ Range(<<TAB>>) = {TAB}
            /\ <<Keys[i]>> \in Text /\ Range(<<Keys[i]>>) = {Keys[i]}
        BY ONLY <3>1, Single, Distinct
      <4>3. Range(<<TAB>> \o <<Keys[i]>>) = Range(<<TAB>>) \cup Range(<<Keys[i]>>)
        BY ONLY <4>2, JoinedWords, Zenon
      <4> QED
        BY ONLY <4>1, <4>2, <4>3, Zenon
    <3> DEFINE s == Line(<<TAB, Keys[i]>>, map[Keys[i]])
    <3>4. s \in Text /\ w \notin Range(s)
      <4>1. /\ s \in Text
            /\ Range(s) = ((Range(<<TAB, Keys[i]>>) \cup {":"}) \cup Range(map[Keys[i]])) \cup {NL}
        BY <3>1, <3>2, LineFacts, Zenon
      <4> QED
        BY ONLY <3>1, <3>3, <4>1
    <3> HIDE DEF s
    <3>5. f[i - 1] \in Text /\ w \notin Range(f[i - 1])
      BY <1>0, <1>3, <1>5
    <3>6. Range(f[i - 1] \o s) = Range(f[i - 1]) \cup Range(s)
      BY ONLY <3>4, <3>5, JoinedWords
    <3>7. f[i] = f[i - 1] \o s
      <4>1. f[i] = IF Keys[i] \in DOMAIN map
                   THEN f[i - 1] \o Line(<<TAB, Keys[i]>>, map[Keys[i]]) ELSE f[i - 1]
        BY ONLY <1>3, i \in 1 .. n, Zenon
      <4> QED
        BY ONLY <2>1, <4>1, Zenon DEF s
    <3>8. w \notin Range(f[i])
      BY ONLY <3>4, <3>5, <3>6, <3>7
    <3>9. i \in 0 .. n
      OBVIOUS
    <3> QED
      BY ONLY <1>0, <3>8, <3>9, Zenon
  <2>2. CASE Keys[i] \notin DOMAIN map
    <3>1. f[i] = f[i - 1]
      BY ONLY <1>3, <2>2, i \in 1 .. n, Zenon
    <3>2. i \in 0 .. n
      OBVIOUS
    <3> QED
      BY ONLY <1>0, <1>5, <3>1, <3>2, Zenon
  <2> QED
    BY <2>1, <2>2
<1>6. 0 .. n \subseteq R
  BY <1>4, <1>5, UpTo
<1>7. n \in 0 .. n
  OBVIOUS
<1> QED
  BY ONLY <1>0, <1>2, <1>6, <1>7, Zenon

LEMMA UpdateTypes ==
    ASSUME NEW map, is_map(map)
    PROVE  update_lines(map) \in Text
<1>1. PICK f : Updates(map, f) /\ update_lines(map) = f[Len(Keys)]
  BY UpdateLoop
<1>2. Len(Keys) \in 0 .. Len(Keys)
  BY KeyFacts
<1> QED
  BY <1>1, <1>2 DEF Updates

\* A section that holds the updates of a map is read as what is in front of the
\* first colons, and without a throw.
LEMMA SectionRead ==
    ASSUME NEW map, Plain(map)
    PROVE  LET rows == split(update_lines(map), NL)
           IN  /\ parse_updates(rows) = cut(map) /\ parse_updates(rows) \in Maps
               /\ readable(rows)
<1>1. PICK n \in Nat : n = Len(Keys)
  BY KeyFacts
<1>2. PICK g : LineReader(update_lines(map), map, n, g)
  BY <1>1, UpdatesRead
<1>3. /\ g \in Seq(Text) /\ split(update_lines(map), NL) = Append(g, <<>>)
      /\ Legible(g) /\ Colons(g) /\ parse_updates(g) = Read(map, n)
  BY <1>2 DEF LineReader, Cuts
<1>4. PICK m \in Nat : m = Len(g)
  BY <1>3, LenProperties
<1>5. /\ Append(g, <<>>) \in Seq(Text) /\ Len(Append(g, <<>>)) = m + 1
      /\ Append(g, <<>>)[m + 1] = <<>>
      /\ \A j \in 1 .. m : Append(g, <<>>)[j] = g[j]
      /\ \A j \in 1 .. m + 1 : j = m + 1 \/ j \in 1 .. m
  BY <1>3, <1>4, Empty, AppendProperties
<1>6. blank(<<>>)
  BY DEF blank
<1>7. /\ Legible(Append(g, <<>>))
      /\ \A j \in 1 .. m + 1 : blank(Append(g, <<>>)[j]) \/ has_colon(Append(g, <<>>)[j])
  <2>1. /\ \A j \in 1 .. m : blank(g[j]) \/ (key_of(g[j]) \in Vocabulary /\ value_of(g[j]) \in Text)
        /\ \A j \in 1 .. m : has_colon(g[j])
    BY <1>3, <1>4 DEF Legible, Colons
  <2>2. \A j \in 1 .. m + 1 : blank(Append(g, <<>>)[j])
            \/ (key_of(Append(g, <<>>)[j]) \in Vocabulary /\ value_of(Append(g, <<>>)[j]) \in Text)
    BY ONLY <1>5, <1>6, <2>1
  <2>3. \A j \in 1 .. m + 1 : blank(Append(g, <<>>)[j]) \/ has_colon(Append(g, <<>>)[j])
    BY ONLY <1>5, <1>6, <2>1
  <2> QED
    BY ONLY <1>5, <2>2, <2>3 DEF Legible
<1>8. parse_updates(Append(g, <<>>)) = Read(map, n) /\ Read(map, n) \in Maps
  <2>1. /\ parse_updates(Append(g, <<>>))
             = IF blank(<<>>) THEN parse_updates(g)
               ELSE insert(parse_updates(g), key_of(<<>>), value_of(<<>>))
        /\ parse_updates(g) \in Maps
    BY ONLY <1>3, <1>7, Empty, ParseGrows
  <2> QED
    BY ONLY <1>3, <1>6, <2>1, Zenon
<1>9. Read(map, n) = cut(map)
  <2>1. \A k \in DOMAIN map : \E j \in 1 .. n : Keys[j] = k
    BY <1>1, KeyFacts DEF Plain, is_map
  <2>2. {k \in DOMAIN map : \E j \in 1 .. n : Keys[j] = k} = DOMAIN map
    BY <2>1
  <2> QED
    BY ONLY <2>2 DEF Read, cut
<1>10. readable(Append(g, <<>>))
  <2>1. DOMAIN Append(g, <<>>) = 1 .. m + 1
    BY <1>5, LenProperties
  <2> QED
    BY <1>7, <2>1 DEF readable
<1> QED
  BY ONLY <1>3, <1>8, <1>9, <1>10, Zenon
-----------------------------------------------------------------------------
(* trimmed.                                                                 *)

LEMMA LastWord ==
    ASSUME NEW x \in Text
    PROVE  /\ trimmed(x) \in Text
           /\ \E n \in 0 .. Len(x) :
                /\ n = 0 \/ x[n] # NL
                /\ \A i \in n + 1 .. Len(x) : x[i] = NL
                /\ trimmed(x) = SubSeq(x, 1, n)
<1>1. PICK l \in Nat : l = Len(x)
  BY WordFacts
<1> DEFINE Ends(n) == (n = 0 \/ x[n] # NL) /\ \A i \in n + 1 .. l : x[i] = NL
<1>2. \E n \in 0 .. l : Ends(n)
  <2> DEFINE T == {n \in 0 .. l : \A i \in n + 1 .. l : x[i] = NL}
  <2>1. T \in SUBSET Nat /\ l \in T
    OBVIOUS
  <2>2. PICK n \in T : \A k \in T : n <= k
    <3> HIDE DEF T
    <3> QED
      BY <2>1, LeastNatural
  <2>3. Ends(n)
    <3> SUFFICES ASSUME n # 0, x[n] = NL  PROVE FALSE
      OBVIOUS
    <3>1. n - 1 \in 0 .. l /\ ~(n <= n - 1)
      OBVIOUS
    <3>2. \A i \in (n - 1) + 1 .. l : i = n \/ i \in n + 1 .. l
      OBVIOUS
    <3>3. n - 1 \in T
      BY <3>1, <3>2
    <3> QED
      BY <2>2, <3>1, <3>3
  <2> QED
    BY <2>3
<1>3. trimmed(x) = SubSeq(x, 1, CHOOSE n \in 0 .. l : Ends(n))
  BY ONLY <1>1 DEF trimmed
<1> HIDE DEF Ends
<1>4. PICK n \in 0 .. l : Ends(n) /\ trimmed(x) = SubSeq(x, 1, n)
  BY ONLY <1>2, <1>3
<1>5. SubSeq(x, 1, n) \in Text
  <2>1. \A i \in 1 .. n : x[i] \in Vocabulary
    BY <1>1, WordFacts
  <2>2. 1 \in Int /\ n \in Int
    OBVIOUS
  <2> QED
    BY ONLY <2>1, <2>2, SubSeqProperties DEF Text
<1> QED
  BY <1>1, <1>4, <1>5 DEF Ends

\* Line ends behind a word that is none: only they are lost.
LEMMA TrimKeeps ==
    ASSUME NEW p \in Text, Len(p) > 0, p[Len(p)] # NL, NEW d \in Text
    PROVE  trimmed((p \o d) \o <<NL, NL>>) \o <<NL, NL>> = p \o (trimmed(d) \o <<NL, NL>>)
<1> DEFINE e == <<NL, NL>>
<1> DEFINE x == (p \o d) \o e
<1>1. PICK k \in Nat, l \in Nat : k = Len(p) /\ l = Len(d)
  BY WordFacts
<1>2. e \in Text /\ Len(e) = 2 /\ e[1] = NL /\ e[2] = NL
  BY Distinct, Pair
<1> HIDE DEF e
<1>3. /\ x \in Text /\ Len(x) = (k + l) + 2
      /\ \A i \in 1 .. k : x[i] = p[i]
      /\ \A i \in 1 .. l : x[k + i] = d[i]
      /\ \A i \in 1 .. 2 : x[(k + l) + i] = NL
  <2>1. p \o d \in Text /\ Len(p \o d) = k + l
    BY <1>1, Joined, Zenon
  <2>2. \A i \in 1 .. k : (p \o d)[i] = p[i]
    BY <1>1, Joined, Zenon
  <2>3. \A i \in 1 .. l : (p \o d)[k + i] = d[i]
    BY <1>1, Joined, Zenon
  <2> DEFINE q == p \o d
  <2>0. x = q \o e /\ q \in Text /\ Len(q) = k + l
    BY <2>1
  <2> HIDE DEF q, x
  <2>4. x \in Text /\ Len(x) = (k + l) + 2
    <3>1. q \o e \in Text /\ Len(q \o e) = Len(q) + Len(e)
      BY ONLY <1>2, <2>0, Joined, Zenon
    <3> QED
      BY ONLY <1>2, <2>0, <3>1, Zenon
  <2>5. \A i \in 1 .. k + l : x[i] = (p \o d)[i]
    <3>1. \A i \in 1 .. Len(q) : (q \o e)[i] = q[i]
      BY ONLY <1>2, <2>0, Joined, Zenon
    <3> QED
      BY ONLY <2>0, <3>1, Zenon DEF q
  <2>6. \A i \in 1 .. 2 : x[(k + l) + i] = e[i]
    <3>1. \A i \in 1 .. Len(e) : (q \o e)[Len(q) + i] = e[i]
      BY ONLY <1>2, <2>0, Joined, Zenon
    <3> QED
      BY ONLY <1>2, <2>0, <3>1, Zenon
  <2>7. \A i \in 1 .. 2 : i = 1 \/ i = 2
    OBVIOUS
  <2>8. (\A i \in 1 .. k : i \in 1 .. k + l) /\ \A i \in 1 .. l : k + i \in 1 .. k + l
    OBVIOUS
  <2>9. \A i \in 1 .. 2 : x[(k + l) + i] = NL
    BY ONLY <1>2, <2>6, <2>7
  <2> QED
    BY ONLY <2>2, <2>3, <2>4, <2>5, <2>8, <2>9
<1> HIDE DEF x
<1>4. PICK m \in 0 .. (k + l) + 2 :
         /\ m = 0 \/ x[m] # NL
         /\ \A i \in m + 1 .. (k + l) + 2 : x[i] = NL
         /\ trimmed(x) = SubSeq(x, 1, m)
  BY ONLY <1>3, LastWord
<1>5. PICK n \in 0 .. l :
         /\ n = 0 \/ d[n] # NL
         /\ \A i \in n + 1 .. l : d[i] = NL
         /\ trimmed(d) = SubSeq(d, 1, n)
  BY <1>1, LastWord
<1>6. k \in 1 .. k /\ k > 0 /\ x[k] # NL
  BY <1>1, <1>3
<1>7. m = k + n
  <2>1. ~(m < k)
    BY <1>4, <1>6
  <2>2. ~(m > k + l)
    <3> SUFFICES ASSUME m > k + l  PROVE FALSE
      OBVIOUS
    <3>1. m - (k + l) \in 1 .. 2 /\ (k + l) + (m - (k + l)) = m /\ m # 0
      OBVIOUS
    <3> QED
      BY <1>3, <1>4, <3>1
  <2>3. ~(m > k + n)
    <3> SUFFICES ASSUME m > k + n  PROVE FALSE
      OBVIOUS
    <3>1. m - k \in n + 1 .. l /\ m - k \in 1 .. l /\ k + (m - k) = m /\ m # 0
      BY <2>2
    <3> QED
      BY <1>3, <1>4, <1>5, <3>1
  <2>4. ~(m < k + n)
    <3> SUFFICES ASSUME m < k + n  PROVE FALSE
      OBVIOUS
    <3>1. n \in 1 .. l /\ n # 0 /\ k + n \in m + 1 .. (k + l) + 2
      BY <2>1
    <3> QED
      BY <1>3, <1>4, <1>5, <3>1
  <2> QED
    BY <2>3, <2>4
<1>8. trimmed(x) = p \o trimmed(d)
  <2>1. trimmed(d) \in Text /\ trimmed(x) \in Text
    BY <1>3, LastWord
  <2>2. /\ Len(trimmed(d)) = n /\ \A i \in 1 .. n : trimmed(d)[i] = d[i]
    <3>1. \A i \in 1 .. n : d[i] \in Vocabulary
      BY <1>1, WordFacts
    <3>2. /\ Len(SubSeq(d, 1, n)) = (IF 1 <= n THEN n - 1 + 1 ELSE 0)
          /\ \A i \in 1 .. n - 1 + 1 : SubSeq(d, 1, n)[i] = d[1 + i - 1]
      BY ONLY <3>1, n \in 0 .. l, l \in Nat, SubSeqProperties
    <3>3. /\ (IF 1 <= n THEN n - 1 + 1 ELSE 0) = n
          /\ \A i \in 1 .. n : i \in 1 .. n - 1 + 1 /\ 1 + i - 1 = i
      OBVIOUS
    <3> QED
      BY ONLY <1>5, <3>2, <3>3
  <2>3. Len(trimmed(x)) = m /\ \A i \in 1 .. m : trimmed(x)[i] = x[i]
    <3>1. \A i \in 1 .. m : x[i] \in Vocabulary
      BY <1>3, WordFacts
    <3>2. /\ Len(SubSeq(x, 1, m)) = (IF 1 <= m THEN m - 1 + 1 ELSE 0)
          /\ \A i \in 1 .. m - 1 + 1 : SubSeq(x, 1, m)[i] = x[1 + i - 1]
      BY ONLY <3>1, m \in 0 .. (k + l) + 2, k \in Nat, l \in Nat, SubSeqProperties
    <3>3. /\ (IF 1 <= m THEN m - 1 + 1 ELSE 0) = m
          /\ \A i \in 1 .. m : i \in 1 .. m - 1 + 1 /\ 1 + i - 1 = i
      OBVIOUS
    <3> QED
      BY ONLY <1>4, <3>2, <3>3
  <2>4. p \o trimmed(d) \in Text /\ Len(p \o trimmed(d)) = k + n
    BY <1>1, <2>1, <2>2, Joined, Zenon
  <2>5. \A i \in 1 .. k : (p \o trimmed(d))[i] = p[i]
    BY <1>1, <2>1, Joined, Zenon
  <2>6. \A i \in 1 .. n : (p \o trimmed(d))[k + i] = trimmed(d)[i]
    BY <1>1, <2>1, <2>2, Joined, Zenon
  <2>7. ASSUME NEW i \in 1 .. m  PROVE trimmed(x)[i] = (p \o trimmed(d))[i]
    <3>1. CASE i \in 1 .. k
      BY <1>3, <2>3, <2>5, <3>1
    <3>2. CASE ~(i \in 1 .. k)
      <4>1. PICK j \in 1 .. n : i = k + j
        <5>1. i - k \in 1 .. n /\ i = k + (i - k)
          BY <1>7, <3>2
        <5> QED
          BY <5>1
      <4>2. j \in 1 .. l
        OBVIOUS
      <4> QED
        BY ONLY <1>3, <2>2, <2>3, <2>6, <4>1, <4>2, i \in 1 .. m
    <3> QED
      BY <3>1, <3>2
  <2> QED
    BY ONLY <1>7, <2>1, <2>3, <2>4, <2>7, SeqEqual DEF Text
<1>10. (p \o trimmed(d)) \o e = p \o (trimmed(d) \o e)
  <2>1. trimmed(d) \in Text
    BY LastWord
  <2> QED
    BY ONLY <1>2, <2>1, p \in Text, ConcatAssociative DEF Text
<1> QED
  BY <1>8, <1>10 DEF x, e

-----------------------------------------------------------------------------
(* A report as it is laid out, and its fields.                              *)

\* A line with one word for its label, from behind n words to behind m.
HeadLine(t, n, m, l, x) ==
    /\ n \in Nat /\ m \in Nat /\ l \in Vocabulary /\ x \in Text
    /\ At(t, n, Line(<<l>>, x)) /\ m = n + (Len(x) + 3)

LEMMA HeadStep ==
    ASSUME NEW t \in Text, NEW n, NEW m, NEW l, NEW x, HeadLine(t, n, m, l, x),
           NEW w \in Vocabulary, NEW v \in Vocabulary, Apart(t, n, w, v),
           w # ":", w # NL, v # NL, l # w \/ v # ":", w \notin Range(x) \/ Len(x) = 1
    PROVE  Apart(t, m, w, v)
<1>1. /\ n \in Nat /\ l \in Vocabulary /\ x \in Text /\ At(t, n, Line(<<l>>, x))
      /\ m = n + (Len(x) + 3)
  BY DEF HeadLine
<1> QED
  BY <1>1, ApartHead

LEMMA HeadField ==
    ASSUME NEW t \in Text, NEW n, NEW m, NEW l, NEW x, HeadLine(t, n, m, l, x),
           Apart(t, n, l, ":"), NL \notin Range(x)
    PROVE  field(t, l) = x
<1>1. n \in Nat /\ l \in Vocabulary /\ x \in Text /\ At(t, n, Line(<<l>>, x))
  BY DEF HeadLine
<1>2. <<l>> \in Text /\ Len(<<l>>) = 1
  BY <1>1, Single
<1>3. /\ <<l, ":">> \in Text /\ Len(<<l, ":">>) = 2
      /\ <<l, ":">>[1] = l /\ <<l, ":">>[2] = ":" /\ <<l, ":">> = <<l>> \o <<":">>
  BY <1>1, Distinct, Pair
<1>4. /\ At(t, n, <<l>>) /\ At(t, n + 1, <<":">>)
      /\ At(t, n + (1 + 1), x) /\ At(t, n + ((1 + 1) + Len(x)), <<NL>>)
  <2>1. At(t, n, Line(<<l>>, x)) <=>
              /\ At(t, n, <<l>>) /\ At(t, n + Len(<<l>>), <<":">>)
              /\ At(t, n + (Len(<<l>>) + 1), x)
              /\ At(t, n + ((Len(<<l>>) + 1) + Len(x)), <<NL>>)
    BY ONLY <1>1, <1>2, t \in Text, LineAt
  <2> QED
    BY ONLY <1>1, <1>2, <2>1
<1>5. At(t, n, <<l, ":">>)
  <2>1. <<":">> \in Text
    BY Single, Distinct
  <2>2. At(t, n, <<l>> \o <<":">>) <=> At(t, n, <<l>>) /\ At(t, n + Len(<<l>>), <<":">>)
    BY ONLY <1>1, <1>2, <2>1, t \in Text, AtParts
  <2> QED
    BY ONLY <1>2, <1>3, <1>4, <2>2
<1>6. At(t, n + Len(<<l, ":">>), x) /\ At(t, (n + Len(<<l, ":">>)) + Len(x), <<NL>>)
  <2>1. Len(x) \in Nat
    BY <1>1, WordFacts
  <2>2. n + (1 + 1) = n + 2 /\ n + ((1 + 1) + Len(x)) = (n + 2) + Len(x)
    BY <1>1, <2>1
  <2> QED
    BY ONLY <1>3, <1>4, <2>2
<1>7. Apart(t, n, <<l, ":">>[1], <<l, ":">>[2])
  BY ONLY <1>3, Apart(t, n, l, ":"), Zenon
<1>8. my_extract(t, <<l, ":">>, <<NL>>) = x
  <2>1. Len(<<l, ":">>) >= 2
    BY ONLY <1>3
  <2>2. NL \in Vocabulary
    BY Distinct
  <2> DEFINE label == <<l, ":">>
  <2>3. /\ label \in Text /\ Len(label) >= 2 /\ At(t, n, label) /\ At(t, n + Len(label), x)
        /\ At(t, (n + Len(label)) + Len(x), <<NL>>) /\ Apart(t, n, label[1], label[2])
    BY ONLY <1>3, <1>5, <1>6, <1>7, <2>1, Zenon
  <2>5. my_extract(t, label, <<NL>>) = x
    <3> HIDE DEF label
    <3> QED
      BY ONLY <1>1, <2>2, <2>3, t \in Text, NL \notin Range(x), Extract, Zenon
  <2> QED
    BY ONLY <2>5, Zenon
<1> QED
  BY ONLY <1>8, Zenon DEF field

\* The labels.
LEMMA Labels ==
    /\ "user" \in Vocabulary /\ "team a" \in Vocabulary /\ "team b" \in Vocabulary
    /\ "event name" \in Vocabulary /\ "time" \in Vocabulary
    /\ "general game updates" \in Vocabulary /\ "description" \in Vocabulary
    /\ " updates" \in Vocabulary /\ " " \in Vocabulary
    /\ "destination" \in Vocabulary /\ "_" \in Vocabulary
BY ReportAssumption DEF reserved

\* What a text may begin with: of all the labels only that of the destination.
Header(t, k, ta, tb) ==
    /\ k \in Nat
    /\ \A w, v \in Vocabulary :
          /\ w \notin {":", NL, "_"} /\ v # NL
          /\ w # "destination" \/ v # ":"
          /\ w \notin Range(ta) /\ w \notin Range(tb)
          => Apart(t, k, w, v)

\* The headers, and what is in front of the updates of the game.
Heads(t, n, user, ta, tb, name, w) ==
    /\ Header(t, n[1], ta, tb)
    /\ HeadLine(t, n[1], n[2], "user", <<user>>)
    /\ HeadLine(t, n[2], n[3], "team a", ta)
    /\ HeadLine(t, n[3], n[4], "team b", tb)
    /\ HeadLine(t, n[4], n[5], "event name", name)
    /\ HeadLine(t, n[5], n[6], "time", <<w>>)
    /\ HeadLine(t, n[6], n[7], "general game updates", <<>>)

Words(user, ta, tb, name, w) ==
    /\ user \in Vocabulary /\ w \in Vocabulary /\ ta \in Text /\ tb \in Text /\ name \in Text

ApartAtStart == \A t, w, v : Apart(t, 0, w, v)

LEMMA NothingBefore == ApartAtStart
<1>1. ~ \E i \in Int : i \in 1 .. 0
  OBVIOUS
<1> QED
  BY <1>1 DEF Apart, ApartAtStart

LEMMA HeadsApart ==
    ASSUME NEW t \in Text, NEW n, NEW user, NEW ta, NEW tb, NEW name, NEW time,
           Words(user, ta, tb, name, time), Heads(t, n, user, ta, tb, name, time),
           NEW w \in Vocabulary, NEW v \in Vocabulary, w # ":", w # NL, v # NL,
           w # "_", w # "destination",
           w \notin Range(ta), w \notin Range(tb), w \notin Range(name),
           v # ":" \/ w \notin {"user", "team a", "team b", "event name", "time"}
    PROVE  /\ Apart(t, n[6], w, v)
           /\ v # ":" \/ w # "general game updates" => Apart(t, n[7], w, v)
<1>1. Apart(t, n[1], w, v)
  BY DEF Heads, Header
<1>2. Len(<<user>>) = 1 /\ Len(<<time>>) = 1
  BY Single DEF Words
<1>3. Apart(t, n[2], w, v)
  <2>1. HeadLine(t, n[1], n[2], "user", <<user>>) /\ ("user" # w \/ v # ":")
    BY DEF Heads
  <2> QED
    BY <1>1, <1>2, <2>1, HeadStep
<1>4. Apart(t, n[3], w, v)
  <2>1. HeadLine(t, n[2], n[3], "team a", ta) /\ ("team a" # w \/ v # ":")
    BY DEF Heads
  <2> QED
    BY <1>3, <2>1, HeadStep
<1>5. Apart(t, n[4], w, v)
  <2>1. HeadLine(t, n[3], n[4], "team b", tb) /\ ("team b" # w \/ v # ":")
    BY DEF Heads
  <2> QED
    BY <1>4, <2>1, HeadStep
<1>6. Apart(t, n[5], w, v)
  <2>1. HeadLine(t, n[4], n[5], "event name", name) /\ ("event name" # w \/ v # ":")
    BY DEF Heads
  <2> QED
    BY <1>5, <2>1, HeadStep
<1>7. Apart(t, n[6], w, v)
  <2>1. HeadLine(t, n[5], n[6], "time", <<time>>) /\ ("time" # w \/ v # ":")
    BY DEF Heads
  <2> QED
    BY <1>2, <1>6, <2>1, HeadStep
<1>8. ASSUME v # ":" \/ w # "general game updates"  PROVE Apart(t, n[7], w, v)
  <2>1. /\ HeadLine(t, n[6], n[7], "general game updates", <<>>)
        /\ ("general game updates" # w \/ v # ":")
    BY <1>8 DEF Heads
  <2>2. w \notin Range(<<>>)
    BY Empty
  <2> QED
    BY <1>7, <2>1, <2>2, HeadStep
<1> QED
  BY <1>7, <1>8

\* No line end in a header, and no label that comes later.
Apt(user, ta, tb, name, time) ==
    /\ user # NL /\ time # NL
    /\ NL \notin Range(ta) /\ NL \notin Range(tb) /\ NL \notin Range(name)
    /\ "user" \notin Range(ta) /\ "user" \notin Range(tb)
    /\ "team a" \notin Range(ta) /\ "team a" \notin Range(tb)
    /\ "team b" \notin Range(ta) /\ "team b" \notin Range(tb)
    /\ "event name" \notin Range(ta) /\ "event name" \notin Range(tb)
    /\ "time" \notin Range(ta) /\ "time" \notin Range(tb) /\ "time" \notin Range(name)

\* The fields in the headers.
HeadsRead(t, user, ta, tb, name, time) ==
    /\ field(t, "user") = <<user>> /\ field(t, "team a") = ta
    /\ field(t, "team b") = tb /\ field(t, "event name") = name
    /\ field(t, "time") = <<time>>

LEMMA HeadFields ==
    ASSUME NEW t \in Text, NEW n, NEW user, NEW ta, NEW tb, NEW name, NEW time,
           Words(user, ta, tb, name, time), Heads(t, n, user, ta, tb, name, time),
           Apt(user, ta, tb, name, time)
    PROVE  HeadsRead(t, user, ta, tb, name, time)
<1>1. ASSUME NEW w \in Vocabulary, w \notin {":", NL, "_", "destination"},
             w \notin Range(ta), w \notin Range(tb)
      PROVE  Apart(t, n[1], w, ":")
  BY ONLY <1>1, Heads(t, n, user, ta, tb, name, time), Distinct DEF Heads, Header
<1>2. /\ Len(<<user>>) = 1 /\ Range(<<user>>) = {user}
      /\ Len(<<time>>) = 1 /\ Range(<<time>>) = {time}
  BY Single DEF Words
<1>3. /\ HeadLine(t, n[1], n[2], "user", <<user>>)
      /\ HeadLine(t, n[2], n[3], "team a", ta)
      /\ HeadLine(t, n[3], n[4], "team b", tb)
      /\ HeadLine(t, n[4], n[5], "event name", name)
      /\ HeadLine(t, n[5], n[6], "time", <<time>>)
  BY DEF Heads
<1>12. /\ user # NL /\ time # NL
       /\ NL \notin Range(ta) /\ NL \notin Range(tb) /\ NL \notin Range(name)
       /\ "user" \notin Range(ta) /\ "user" \notin Range(tb)
       /\ "team a" \notin Range(ta) /\ "team a" \notin Range(tb)
       /\ "team b" \notin Range(ta) /\ "team b" \notin Range(tb)
       /\ "event name" \notin Range(ta) /\ "event name" \notin Range(tb)
       /\ "time" \notin Range(ta) /\ "time" \notin Range(tb) /\ "time" \notin Range(name)
  BY DEF Apt
<1>4. ":" \in Vocabulary /\ ":" # NL
  BY Distinct
<1>0. NL # "user" /\ NL # "team a" /\ NL # "team b" /\ NL # "event name" /\ NL # "time"
  BY DEF NL
<1>5. field(t, "user") = <<user>>
  <2>1. NL \notin Range(<<user>>)
    BY <1>2, <1>12
  <2>2. Apart(t, n[1], "user", ":")
    BY ONLY <1>0, <1>1, <1>12, Labels
  <2> QED
    BY <1>3, <2>1, <2>2, HeadField
<1>10. ASSUME NEW w \in Vocabulary, w # ":", w # NL, w # "user", Apart(t, n[1], w, ":")
       PROVE  /\ Apart(t, n[2], w, ":")
              /\ w # "team a" /\ w \notin Range(ta) =>
                    /\ Apart(t, n[3], w, ":")
                    /\ w # "team b" /\ w \notin Range(tb) =>
                          /\ Apart(t, n[4], w, ":")
                          /\ w # "event name" /\ w \notin Range(name) =>
                                Apart(t, n[5], w, ":")
  <2>1. Apart(t, n[2], w, ":")
    BY <1>1, <1>2, <1>3, <1>4, <1>10, HeadStep
  <2>2. ASSUME w # "team a", w \notin Range(ta)  PROVE Apart(t, n[3], w, ":")
    BY ONLY <1>3, <1>4, <2>1, <2>2, t \in Text, w \in Vocabulary, w # ":", w # NL, HeadStep
  <2>3. ASSUME Apart(t, n[3], w, ":"), w # "team b", w \notin Range(tb)
        PROVE  Apart(t, n[4], w, ":")
    BY ONLY <1>3, <1>4, <2>3, t \in Text, w \in Vocabulary, w # ":", w # NL, HeadStep
  <2>4. ASSUME Apart(t, n[4], w, ":"), w # "event name", w \notin Range(name)
        PROVE  Apart(t, n[5], w, ":")
    BY ONLY <1>3, <1>4, <2>4, t \in Text, w \in Vocabulary, w # ":", w # NL, HeadStep
  <2> QED
    BY ONLY <2>1, <2>2, <2>3, <2>4, Zenon
<1>11. /\ "team a" # "user" /\ "team a" # ":"
       /\ "team b" # "user" /\ "team b" # ":" /\ "team b" # "team a"
       /\ "event name" # "user" /\ "event name" # ":" /\ "event name" # "team a"
       /\ "event name" # "team b"
       /\ "time" # "user" /\ "time" # ":" /\ "time" # "team a"
       /\ "time" # "team b" /\ "time" # "event name"
  OBVIOUS
<1>13. ASSUME NEW w \in {"team a", "team b", "event name", "time"}
       PROVE  Apart(t, n[1], w, ":")
  BY ONLY <1>0, <1>1, <1>11, <1>12, Labels
<1>6. field(t, "team a") = ta
  <2>1. Apart(t, n[2], "team a", ":")
    BY ONLY <1>0, <1>10, <1>11, <1>13, Labels
  <2> QED
    BY <1>3, <1>12, <2>1, HeadField
<1>7. field(t, "team b") = tb
  <2>1. Apart(t, n[3], "team b", ":")
    BY ONLY <1>0, <1>10, <1>11, <1>12, <1>13, Labels
  <2> QED
    BY <1>3, <1>12, <2>1, HeadField
<1>8. field(t, "event name") = name
  <2>1. Apart(t, n[4], "event name", ":")
    BY ONLY <1>0, <1>10, <1>11, <1>12, <1>13, Labels
  <2> QED
    BY <1>3, <1>12, <2>1, HeadField
<1>9. field(t, "time") = <<time>>
  <2>1. Apart(t, n[5], "time", ":")
    BY ONLY <1>0, <1>10, <1>11, <1>12, <1>13, Labels
  <2>2. NL \notin Range(<<time>>)
    BY <1>2, <1>12
  <2> QED
    BY <1>3, <2>1, <2>2, HeadField
<1> QED
  BY ONLY <1>5, <1>6, <1>7, <1>8, <1>9, Zenon DEF HeadsRead

-----------------------------------------------------------------------------
(* The three sections and the description.                                  *)

LEMMA AtFirst ==
    ASSUME NEW t \in Text, NEW n \in Nat, NEW s \in Text, At(t, n, s), Len(s) >= 1
    PROVE  s[1] \in Vocabulary /\ At(t, n, <<s[1]>>)
<1>1. PICK l \in Nat : l = Len(s)
  BY WordFacts
<1>2. 1 \in 1 .. l /\ l >= 1
  BY <1>1
<1>3. s[1] \in Vocabulary
  BY <1>1, <1>2, WordFacts
<1>4. n + l <= Len(t) /\ t[n + 1] = s[1] /\ Len(t) \in Nat
  BY <1>1, <1>2, WordFacts DEF At
<1>5. n + 1 <= Len(t)
  BY ONLY <1>2, <1>4, n \in Nat, l \in Nat
<1>6. At(t, n, <<s[1]>>) <=> n + 1 <= Len(t) /\ t[n + 1] = s[1]
  BY ONLY <1>3, t \in Text, n \in Nat, AtOne
<1> QED
  BY ONLY <1>3, <1>4, <1>5, <1>6

LEMMA WholeText == ASSUME NEW s \in Text  PROVE At(s, 0, s)
<1>1. Len(s) \in Nat
  BY WordFacts
<1>2. 0 + Len(s) <= Len(s) /\ \A j \in 1 .. Len(s) : 0 + j = j
  BY <1>1
<1> QED
  BY <1>2 DEF At

\* The line in front of the updates of a team.
TeamHeader(l, team) == Line(<<l, " updates">>, <<" ">> \o team)

LEMMA FourElements ==
    ASSUME NEW l \in Vocabulary, NEW u \in Vocabulary, NEW c \in Vocabulary, NEW d \in Vocabulary
    PROVE  /\ <<l, u, c>> = <<l, u>> \o <<c>> /\ <<l, u, c>> \in Text
           /\ <<l, u, c, d>> = <<l, u, c>> \o <<d>>
<1>1. <<l, u, c>> = Append(<<l, u>>, c) /\ <<l, u, c, d>> = Append(<<l, u, c>>, d)
  OBVIOUS
<1>2. <<l, u>> \in Seq(Vocabulary) /\ <<l, u, c>> \in Seq(Vocabulary)
  OBVIOUS
<1>3. Append(<<l, u>>, c) = <<l, u>> \o <<c>>
  BY ONLY <1>2, c \in Vocabulary, AppendIsConcat
<1>4. Append(<<l, u, c>>, d) = <<l, u, c>> \o <<d>>
  BY ONLY <1>2, d \in Vocabulary, AppendIsConcat
<1> QED
  BY ONLY <1>1, <1>2, <1>3, <1>4, Zenon DEF Text

LEMMA TeamHeaderFacts ==
    ASSUME NEW l \in Vocabulary, NEW team \in Text
    PROVE  /\ TeamHeader(l, team) \in Text
           /\ Len(TeamHeader(l, team)) >= 2 /\ Len(TeamHeader(l, team)) >= 1
           /\ TeamHeader(l, team)[1] = l /\ TeamHeader(l, team)[2] = " updates"
           /\ TeamHeader(l, team) = (<<l, " updates", ":", " ">> \o team) \o <<NL>>
           /\ \A w : w \notin {l, " updates", ":", " ", NL} /\ w \notin Range(team)
                        => w \notin Range(TeamHeader(l, team))
<1>0. PICK u \in Vocabulary, c \in Vocabulary, d \in Vocabulary :
         u = " updates" /\ c = ":" /\ d = " "
  BY Labels, Distinct
<1> DEFINE p == <<l, u>>
<1> DEFINE y == <<d>> \o team
<1> DEFINE s == Line(p, y)
<1>1. /\ p \in Text /\ Len(p) = 2 /\ p[1] = l /\ p[2] = u
      /\ p = <<l>> \o <<u>>
  BY Pair
<1>2. /\ <<d>> \in Text /\ Range(<<d>>) = {d} /\ Len(<<d>>) = 1
      /\ <<l>> \in Text /\ Range(<<l>>) = {l}
      /\ <<u>> \in Text /\ Range(<<u>>) = {u}
      /\ <<c>> \in Text
  BY Single
<1>21. <<NL>> \in Text
  BY Single, Distinct
<1>3. Range(p) = {l} \cup {u}
  <2>1. Range(<<l>> \o <<u>>) = Range(<<l>>) \cup Range(<<u>>)
    BY ONLY <1>2, JoinedWords
  <2> QED
    BY ONLY <1>1, <1>2, <2>1, Zenon
<1>4. y \in Text /\ Range(y) = {d} \cup Range(team) /\ Len(y) \in Nat
  <2>1. y \in Text /\ Range(y) = Range(<<d>>) \cup Range(team)
    BY ONLY <1>2, team \in Text, Joined, JoinedWords, Zenon
  <2>2. Len(y) \in Nat
    BY ONLY <2>1, WordFacts
  <2> QED
    BY ONLY <1>2, <2>1, <2>2, Zenon
<1>10. p \o <<c>> = <<l, u, c>> /\ <<l, u, c, d>> = <<l, u, c>> \o <<d>> /\ <<l, u, c>> \in Text
  <2>1. <<l, u, c>> = <<l, u>> \o <<c>>
    BY ONLY l \in Vocabulary, u \in Vocabulary, c \in Vocabulary, d \in Vocabulary, FourElements
  <2>2. <<l, u, c, d>> = <<l, u, c>> \o <<d>>
    BY ONLY l \in Vocabulary, u \in Vocabulary, c \in Vocabulary, d \in Vocabulary, FourElements
  <2>3. <<l, u, c>> \in Text
    BY ONLY l \in Vocabulary, u \in Vocabulary, c \in Vocabulary, d \in Vocabulary, FourElements
  <2> QED
    BY ONLY <2>1, <2>2, <2>3, Zenon DEF p
<1>11. TeamHeader(l, team) = s
  BY ONLY <1>0, Zenon DEF TeamHeader
<1>13. s = ((p \o <<c>>) \o y) \o <<NL>>
  <2>1. s = ((p \o <<":">>) \o y) \o <<NL>>
    BY ONLY <1>1, <1>4, LineFacts
  <2> QED
    BY ONLY <1>0, <2>1, Zenon
<1>14. s = (<<l, u, c, d>> \o team) \o <<NL>>
  <2> DEFINE h == <<l, u, c>>
  <2>1. h \in Text
    BY <1>10
  <2>2. h \o (<<d>> \o team) = (h \o <<d>>) \o team
    <3> HIDE DEF h
    <3> QED
      BY ONLY <1>2, <2>1, team \in Text, ConcatAssociative DEF Text
  <2> QED
    BY ONLY <1>10, <1>13, <2>2, Zenon DEF y, h
<1> HIDE DEF p, y
<1>5. /\ s \in Text /\ Len(s) = ((2 + 1) + Len(y)) + 1
      /\ Range(s) = ((Range(p) \cup {c}) \cup Range(y)) \cup {NL}
  <2>1. /\ s \in Text /\ Len(s) = ((Len(p) + 1) + Len(y)) + 1
        /\ Range(s) = ((Range(p) \cup {":"}) \cup Range(y)) \cup {NL}
    BY ONLY <1>1, <1>4, LineFacts, Zenon
  <2> QED
    BY ONLY <1>0, <1>1, <2>1, Zenon
<1>6. At(s, 0, p)
  <2>1. At(s, 0, s)
    BY <1>5, WholeText
  <2>2. 0 \in Nat
    OBVIOUS
  <2> QED
    BY ONLY <1>1, <1>4, <1>5, <2>1, <2>2, LineAt
<1> HIDE DEF s
<1>7. s[1] = l /\ s[2] = u
  <2>1. \A j \in 1 .. 2 : s[0 + j] = p[j]
    BY ONLY <1>1, <1>6 DEF At
  <2>2. 1 \in 1 .. 2 /\ 2 \in 1 .. 2 /\ 0 + 1 = 1 /\ 0 + 2 = 2
    OBVIOUS
  <2> QED
    BY ONLY <1>1, <2>1, <2>2
<1>8. Len(s) >= 2 /\ Len(s) >= 1
  BY ONLY <1>4, <1>5
<1>9. ASSUME NEW w, w \notin {l, u, c, d, NL}, w \notin Range(team)
      PROVE  w \notin Range(s)
  BY ONLY <1>3, <1>4, <1>5, <1>9
<1> QED
  BY ONLY <1>0, <1>5, <1>7, <1>8, <1>9, <1>11, <1>14, Zenon

\* Behind the headers.
Bodies(t, n, ta, tb, g, a, b, x) ==
    /\ n[7] \in Nat /\ n[8] \in Nat /\ n[9] \in Nat
    /\ n[10] \in Nat /\ n[11] \in Nat /\ n[12] \in Nat
    /\ At(t, n[7], g) /\ n[8] = n[7] + Len(g)
    /\ At(t, n[8], TeamHeader("team a", ta)) /\ n[9] = n[8] + Len(TeamHeader("team a", ta))
    /\ At(t, n[9], a) /\ n[10] = n[9] + Len(a)
    /\ At(t, n[10], TeamHeader("team b", tb))
    /\ n[11] = n[10] + Len(TeamHeader("team b", tb))
    /\ At(t, n[11], b) /\ n[12] = n[11] + Len(b)
    /\ At(t, n[12], <<"description", ":">>) /\ At(t, n[12] + 2, x)
    /\ Len(t) = (n[12] + 2) + Len(x)

\* What the texts are free of.
Tame(ta, tb, name, g, a, b) ==
    /\ \A w \in {NL, "description", "team b", "team a", "user", "event name", "time",
                 "general game updates"} : w \notin Range(ta) /\ w \notin Range(tb)
    /\ \A w \in {NL, "description", "team b", "team a", "time", "general game updates"} :
          w \notin Range(name)
    /\ g \in Text /\ a \in Text /\ b \in Text
    /\ \A w \in {"description", "team b", "team a"} : w \notin Range(g)
    /\ \A w \in {"description", "team b"} : w \notin Range(a)
    /\ "description" \notin Range(b)

LEMMA Extracted ==
    ASSUME NEW t \in Text, NEW n \in Nat, NEW label \in Text, Len(label) >= 2,
           NEW x \in Text, NEW s \in Text, Len(s) >= 1, NEW m,
           At(t, n, label), m = n + Len(label), At(t, m, x), At(t, m + Len(x), s),
           Apart(t, n, label[1], label[2]), s[1] \notin Range(x)
    PROVE  my_extract(t, label, <<s[1]>>) = x
<1>1. Len(label) \in Nat /\ Len(x) \in Nat
  BY WordFacts
<1>2. m \in Nat /\ m + Len(x) \in Nat
  BY <1>1
<1>3. s[1] \in Vocabulary /\ At(t, m + Len(x), <<s[1]>>)
  BY ONLY <1>2, t \in Text, s \in Text, At(t, m + Len(x), s), Len(s) >= 1, AtFirst
<1>4. /\ At(t, n, label) /\ At(t, n + Len(label), x)
      /\ At(t, (n + Len(label)) + Len(x), <<s[1]>>)
  BY ONLY <1>3, m = n + Len(label), At(t, n, label), At(t, m, x), Zenon
<1> QED
  BY ONLY <1>3, <1>4, t \in Text, n \in Nat, label \in Text, Len(label) >= 2, x \in Text,
          Apart(t, n, label[1], label[2]), s[1] \notin Range(x), Extract

Laid(t, n, user, ta, tb, name, w, g, a, b, x) ==
    /\ Words(user, ta, tb, name, w) /\ Heads(t, n, user, ta, tb, name, w)
    /\ Tame(ta, tb, name, g, a, b) /\ Bodies(t, n, ta, tb, g, a, b, x)

LEMMA GameSection ==
    ASSUME NEW t \in Text, NEW n, NEW user, NEW ta, NEW tb, NEW name, NEW time,
           NEW g, NEW a, NEW b, NEW x, Laid(t, n, user, ta, tb, name, time, g, a, b, x)
    PROVE  my_extract(t, <<"general game updates", ":", NL>>, <<"team a">>) = g
<1>0. PICK u \in Vocabulary, c \in Vocabulary, e \in Vocabulary :
         u = "general game updates" /\ c = ":" /\ e = NL
  BY Labels, Distinct
<1> DEFINE l == <<u, c, e>>
<1>1. Len(l) = 3 /\ l[1] = u /\ l[2] = c /\ l \in Text
  BY FourElements
<1>2. l = Line(<<u>>, <<>>)
  <2>1. /\ <<u>> \in Text /\ <<u>> \o <<c>> = <<u, c>> /\ <<u, c>> \in Text
        /\ <<u, c, e>> = <<u, c>> \o <<e>>
    BY Single, Pair, FourElements
  <2>2. Line(<<u>>, <<>>) = ((<<u>> \o <<":">>) \o <<>>) \o <<NL>>
    BY DEF Line
  <2>3. <<u, c>> \o <<>> = <<u, c>>
    BY ONLY <2>1, ConcatEmptySeq DEF Text
  <2>4. ((<<u>> \o <<c>>) \o <<>>) \o <<e>> = <<u, c, e>>
    BY ONLY <2>1, <2>3, Zenon
  <2> QED
    BY ONLY <1>0, <2>2, <2>4, Zenon
<1>20. <<"general game updates", ":", NL>> = l
  BY ONLY <1>0, Zenon
<1> HIDE DEF l
<1>3. /\ n[6] \in Nat /\ At(t, n[6], l) /\ n[7] = n[6] + 3
  <2>1. /\ n[6] \in Nat /\ At(t, n[6], Line(<<"general game updates">>, <<>>))
        /\ n[7] = n[6] + (Len(<<>>) + 3)
    BY DEF Laid, Heads, HeadLine
  <2>2. Len(<<>>) + 3 = 3
    BY Empty
  <2>3. Line(<<"general game updates">>, <<>>) = l
    BY ONLY <1>0, <1>2, Zenon
  <2> QED
    BY ONLY <2>1, <2>2, <2>3, Zenon
<1>4. Apart(t, n[6], "general game updates", ":")
  <2>1. /\ Words(user, ta, tb, name, time) /\ Heads(t, n, user, ta, tb, name, time)
        /\ Tame(ta, tb, name, g, a, b)
    BY DEF Laid
  <2>2. /\ "general game updates" \notin Range(ta)
        /\ "general game updates" \notin Range(tb)
        /\ "general game updates" \notin Range(name)
    BY <2>1 DEF Tame
  <2>3. /\ "general game updates" # ":" /\ "general game updates" # NL /\ ":" # NL
        /\ "general game updates" \notin {"user", "team a", "team b", "event name", "time"}
    BY DEF NL
  <2> QED
    BY ONLY <2>1, <2>2, <2>3, t \in Text, Labels, Distinct, HeadsApart
<1> DEFINE s == TeamHeader("team a", ta)
<1>5. s \in Text /\ Len(s) >= 1 /\ s[1] = "team a"
  BY TeamHeaderFacts, Labels DEF Laid, Words
<1>6. At(t, n[7], g) /\ n[8] = n[7] + Len(g) /\ At(t, n[8], s)
  BY DEF Laid, Bodies
<1> HIDE DEF s
<1>7. g \in Text /\ "team a" \notin Range(g)
  BY DEF Laid, Tame
<1>9. my_extract(t, l, <<s[1]>>) = g
  <2>1. Len(l) >= 2 /\ n[7] = n[6] + Len(l) /\ At(t, n[7] + Len(g), s)
    BY ONLY <1>1, <1>3, <1>6
  <2>2. Apart(t, n[6], l[1], l[2]) /\ s[1] \notin Range(g)
    BY ONLY <1>0, <1>1, <1>4, <1>5, <1>7, Zenon
  <2>3. /\ n[6] \in Nat /\ l \in Text /\ g \in Text /\ s \in Text /\ Len(s) >= 1
        /\ At(t, n[6], l) /\ At(t, n[7], g)
    BY ONLY <1>1, <1>3, <1>5, <1>6, <1>7, Zenon
  <2> QED
    BY ONLY <2>1, <2>2, <2>3, t \in Text, Extracted
<1> QED
  BY ONLY <1>5, <1>9, <1>20, Zenon

LEMMA TeamA ==
    ASSUME NEW t \in Text, NEW n, NEW user, NEW ta, NEW tb, NEW name, NEW time,
           NEW g, NEW a, NEW b, NEW x, Laid(t, n, user, ta, tb, name, time, g, a, b, x)
    PROVE  my_extract(t, TeamHeader("team a", ta), <<"team b">>) = a
<1> DEFINE l == TeamHeader("team a", ta)
<1> DEFINE s == TeamHeader("team b", tb)
<1>1. /\ Words(user, ta, tb, name, time) /\ Heads(t, n, user, ta, tb, name, time)
      /\ Tame(ta, tb, name, g, a, b) /\ Bodies(t, n, ta, tb, g, a, b, x)
  BY DEF Laid
<1>2. ta \in Text /\ tb \in Text
  BY <1>1 DEF Words
<1>3. l \in Text /\ Len(l) >= 2 /\ l[1] = "team a" /\ l[2] = " updates"
  BY <1>2, TeamHeaderFacts, Labels
<1>4. s \in Text /\ Len(s) >= 1 /\ s[1] = "team b"
  BY <1>2, TeamHeaderFacts, Labels
<1>5. /\ At(t, n[7], g) /\ n[8] = n[7] + Len(g)
      /\ At(t, n[8], l) /\ n[9] = n[8] + Len(l)
      /\ At(t, n[9], a) /\ n[10] = n[9] + Len(a) /\ At(t, n[10], s)
  BY <1>1 DEF Bodies
<1>6. n[7] \in Nat /\ n[8] \in Nat
  BY <1>1 DEF Bodies
<1> HIDE DEF l, s
<1>7. /\ "team a" \notin Range(ta) /\ "team a" \notin Range(tb) /\ "team a" \notin Range(name)
      /\ g \in Text /\ "team a" \notin Range(g) /\ a \in Text /\ "team b" \notin Range(a)
  BY <1>1 DEF Tame
<1>8. Apart(t, n[7], "team a", " updates")
  <2>1. "team a" # ":" /\ "team a" # NL /\ " updates" # NL /\ " updates" # ":"
    BY DEF NL
  <2> QED
    BY ONLY <1>1, <1>7, <2>1, t \in Text, Labels, HeadsApart
<1>9. Apart(t, n[8], "team a", " updates")
  <2>1. Apart(t, n[7] + Len(g), "team a", " updates")
    BY ONLY <1>5, <1>6, <1>7, <1>8, t \in Text, ApartGrows
  <2> QED
    BY ONLY <1>5, <2>1, Zenon
<1>10. my_extract(t, l, <<s[1]>>) = a
  <2>1. At(t, n[9] + Len(a), s) /\ Apart(t, n[8], l[1], l[2]) /\ s[1] \notin Range(a)
    BY ONLY <1>3, <1>4, <1>5, <1>7, <1>9, Zenon
  <2> QED
    BY ONLY <1>3, <1>4, <1>5, <1>6, <1>7, <2>1, t \in Text, Extracted
<1> QED
  BY ONLY <1>4, <1>10, Zenon DEF l

LEMMA TeamB ==
    ASSUME NEW t \in Text, NEW n, NEW user, NEW ta, NEW tb, NEW name, NEW time,
           NEW g, NEW a, NEW b, NEW x, Laid(t, n, user, ta, tb, name, time, g, a, b, x)
    PROVE  /\ my_extract(t, TeamHeader("team b", tb), <<"description">>) = b
           /\ x \in Text => my_extract(t, <<"description", ":">>, <<>>) = x
<1> DEFINE h == TeamHeader("team a", ta)
<1> DEFINE l == TeamHeader("team b", tb)
<1> DEFINE s == <<"description", ":">>
<1>1. /\ Words(user, ta, tb, name, time) /\ Heads(t, n, user, ta, tb, name, time)
      /\ Tame(ta, tb, name, g, a, b) /\ Bodies(t, n, ta, tb, g, a, b, x)
  BY DEF Laid
<1>2. ta \in Text /\ tb \in Text
  BY <1>1 DEF Words
<1>7. /\ \A w \in {"team b", "description"} :
             /\ w \notin Range(ta) /\ w \notin Range(tb) /\ w \notin Range(name)
             /\ w \notin Range(g) /\ w \notin Range(a)
      /\ g \in Text /\ a \in Text /\ b \in Text /\ "description" \notin Range(b)
  BY <1>1 DEF Tame
<1>3. /\ l \in Text /\ Len(l) >= 2 /\ l[1] = "team b" /\ l[2] = " updates"
  BY <1>2, TeamHeaderFacts, Labels
<1>31. "description" \notin Range(l)
  <2>1. "description" \notin {"team b", " updates", ":", " ", NL}
    BY DEF NL
  <2>2. "description" \notin Range(tb)
    BY <1>7
  <2> QED
    BY ONLY <1>2, <2>1, <2>2, TeamHeaderFacts, Labels
<1>32. h \in Text
  BY <1>2, TeamHeaderFacts, Labels
<1>33. ASSUME NEW w \in {"team b", "description"}  PROVE w \notin Range(h)
  <2>1. w \notin {"team a", " updates", ":", " ", NL}
    BY DEF NL
  <2>2. w \notin Range(ta)
    BY <1>7
  <2> QED
    BY ONLY <1>2, <2>1, <2>2, TeamHeaderFacts, Labels
<1>4. /\ s \in Text /\ Len(s) = 2 /\ Len(s) >= 1 /\ Len(s) >= 2
      /\ s[1] = "description" /\ s[2] = ":"
  <2>1. /\ s \in Text /\ Len(s) = 2 /\ s[1] = "description" /\ s[2] = ":"
    BY ONLY Pair, Labels, Distinct, Zenon
  <2>2. \A m : m = 2 => m >= 1 /\ m >= 2
    OBVIOUS
  <2> QED
    BY ONLY <2>1, <2>2, Zenon
<1>5. /\ At(t, n[7], g) /\ n[8] = n[7] + Len(g)
      /\ At(t, n[8], h) /\ n[9] = n[8] + Len(h)
      /\ At(t, n[9], a) /\ n[10] = n[9] + Len(a)
      /\ At(t, n[10], l) /\ n[11] = n[10] + Len(l)
      /\ At(t, n[11], b) /\ n[12] = n[11] + Len(b)
      /\ At(t, n[12], s) /\ At(t, n[12] + 2, x) /\ Len(t) = (n[12] + 2) + Len(x)
  BY <1>1 DEF Bodies
<1>6. /\ n[7] \in Nat /\ n[8] \in Nat /\ n[9] \in Nat /\ n[10] \in Nat /\ n[11] \in Nat
      /\ n[12] \in Nat
  BY <1>1 DEF Bodies
<1> HIDE DEF h, l, s
<1>8. ASSUME NEW w \in {"team b", "description"}, NEW v \in Vocabulary, v # NL,
             v # ":" \/ w = "description"
      PROVE  Apart(t, n[10], w, v)
  <2>1. w # ":" /\ w # NL /\ w # "general game updates" /\ w \in Vocabulary
    BY Labels DEF NL
  <2>2. v # ":" \/ w \notin {"user", "team a", "team b", "event name", "time"}
    BY ONLY <1>8
  <2>3. w \notin Range(ta) /\ w \notin Range(tb) /\ w \notin Range(name)
        /\ w \notin Range(g) /\ w \notin Range(a) /\ w \notin Range(h)
    BY ONLY <1>7, <1>33, w \in {"team b", "description"}
  <2>4. Apart(t, n[7], w, v)
    <3>1. Words(user, ta, tb, name, time) /\ Heads(t, n, user, ta, tb, name, time)
      BY ONLY <1>1
    <3>2. /\ w # ":" /\ w # NL /\ v # NL /\ w # "general game updates"
          /\ w \in Vocabulary /\ v \in Vocabulary
          /\ w \notin Range(ta) /\ w \notin Range(tb) /\ w \notin Range(name)
          /\ (v # ":" \/ w \notin {"user", "team a", "team b", "event name", "time"})
      BY ONLY <1>8, <2>1, <2>2, <2>3, v \in Vocabulary, Zenon
    <3> QED
      BY ONLY <3>1, <3>2, t \in Text, HeadsApart
  <2>5. Apart(t, n[7] + Len(g), w, v)
    BY ONLY <1>5, <1>6, <1>7, <2>3, <2>4, t \in Text, ApartGrows
  <2>6. Apart(t, n[8] + Len(h), w, v)
    BY ONLY <1>5, <1>6, <1>32, <2>3, <2>5, t \in Text, ApartGrows
  <2>7. Apart(t, n[9] + Len(a), w, v)
    BY ONLY <1>5, <1>6, <1>7, <2>3, <2>6, t \in Text, ApartGrows
  <2> QED
    BY ONLY <1>5, <2>7, Zenon
<1>9. my_extract(t, l, <<s[1]>>) = b
  <2>1. Apart(t, n[10], "team b", " updates")
    <3>1. " updates" # ":" /\ " updates" # NL /\ "team b" \in {"team b", "description"}
      BY DEF NL
    <3> QED
      BY ONLY <1>8, <3>1, Labels
  <2>2. At(t, n[11] + Len(b), s) /\ Apart(t, n[10], l[1], l[2]) /\ s[1] \notin Range(b)
    BY ONLY <1>3, <1>4, <1>5, <1>7, <2>1, Zenon
  <2> QED
    <3>1. /\ n[10] \in Nat /\ l \in Text /\ b \in Text /\ s \in Text /\ Len(s) >= 1
          /\ Len(l) >= 2 /\ n[11] = n[10] + Len(l) /\ At(t, n[10], l) /\ At(t, n[11], b)
      BY ONLY <1>3, <1>4, <1>5, <1>6, <1>7, Zenon
    <3> QED
      BY ONLY <2>2, <3>1, t \in Text, Extracted
<1>10. ASSUME x \in Text  PROVE my_extract(t, s, <<>>) = x
  <2>1. Apart(t, n[10], "description", ":")
    <3>1. ":" # NL /\ "description" \in {"team b", "description"}
      BY DEF NL
    <3> QED
      BY ONLY <1>8, <3>1, Distinct
  <2>2. Apart(t, n[10] + Len(l), "description", ":")
    BY ONLY <1>3, <1>5, <1>6, <1>31, <2>1, t \in Text, ApartGrows
  <2>3. Apart(t, n[11] + Len(b), "description", ":")
    BY ONLY <1>5, <1>6, <1>7, <2>2, t \in Text, ApartGrows
  <2>4. Apart(t, n[12], s[1], s[2])
    BY ONLY <1>4, <1>5, <2>3, Zenon
  <2>5. At(t, n[12] + Len(s), x) /\ Len(t) = (n[12] + Len(s)) + Len(x)
    BY ONLY <1>4, <1>5, Zenon
  <2> QED
    BY ONLY <1>4, <1>5, <1>6, <1>10, <2>4, <2>5, t \in Text, ExtractRest
<1> QED
  BY ONLY <1>4, <1>9, <1>10, Zenon DEF l, s

-----------------------------------------------------------------------------
(* A report, and what is read of it.                                        *)

LEMMA JoinStep ==
    ASSUME NEW t \in Text, NEW k \in Nat, NEW p \in Text, NEW q \in Text,
           NEW r, r = p \o q
    PROVE  /\ r \in Text /\ Len(r) = Len(p) + Len(q)
           /\ At(t, k, r) => At(t, k, p) /\ At(t, k + Len(p), q)
<1>1. r \in Text /\ Len(r) = Len(p) + Len(q)
  BY Joined, Zenon
<1>2. ASSUME At(t, k, r)  PROVE At(t, k, p) /\ At(t, k + Len(p), q)
  BY <1>2, AtParts
<1> QED
  BY <1>1, <1>2

LEMMA HeadLength ==
    ASSUME NEW l \in Vocabulary, NEW x \in Text
    PROVE  Line(<<l>>, x) \in Text /\ Len(Line(<<l>>, x)) = Len(x) + 3
<1>1. <<l>> \in Text /\ Len(<<l>>) = 1 /\ Len(x) \in Nat
  BY Single, WordFacts
<1>2. Line(<<l>>, x) \in Text /\ Len(Line(<<l>>, x)) = ((Len(<<l>>) + 1) + Len(x)) + 1
  BY ONLY <1>1, x \in Text, LineFacts, Zenon
<1> QED
  BY ONLY <1>1, <1>2

\* What is in front of the description.
Before(user, ta, tb, name, w, g, a, b) ==
    Line(<<"user">>, <<user>>) \o Line(<<"team a">>, ta) \o Line(<<"team b">>, tb)
    \o Line(<<"event name">>, name) \o Line(<<"time">>, <<w>>)
    \o Line(<<"general game updates">>, <<>>) \o g
    \o (TeamHeader("team a", ta) \o a) \o (TeamHeader("team b", tb) \o b)
    \o <<"description", ":">>

LEMMA Layout ==
    ASSUME NEW user, NEW ta, NEW tb, NEW name, NEW w, NEW g, NEW a, NEW b, NEW x \in Text,
           Words(user, ta, tb, name, w), Tame(ta, tb, name, g, a, b),
           NEW h \in Text,
           NEW t, t = h \o (Before(user, ta, tb, name, w, g, a, b) \o x),
           Header(t, Len(h), ta, tb)
    PROVE  /\ t \in Text
           /\ LET p == Before(user, ta, tb, name, w, g, a, b)
              IN  p \in Text /\ Len(p) > 0 /\ p[Len(p)] # NL
           /\ \E n : Laid(t, n, user, ta, tb, name, w, g, a, b, x)
<1>1. /\ user \in Vocabulary /\ w \in Vocabulary /\ ta \in Text /\ tb \in Text /\ name \in Text
      /\ g \in Text /\ a \in Text /\ b \in Text
  BY DEF Words, Tame
<1>2. <<user>> \in Text /\ <<w>> \in Text /\ Len(<<user>>) = 1 /\ Len(<<w>>) = 1
  BY <1>1, Single
<1> DEFINE l1 == Line(<<"user">>, <<user>>)
<1> DEFINE l2 == Line(<<"team a">>, ta)
<1> DEFINE l3 == Line(<<"team b">>, tb)
<1> DEFINE l4 == Line(<<"event name">>, name)
<1> DEFINE l5 == Line(<<"time">>, <<w>>)
<1> DEFINE l6 == Line(<<"general game updates">>, <<>>)
<1> DEFINE ha == TeamHeader("team a", ta)
<1> DEFINE hb == TeamHeader("team b", tb)
<1> DEFINE d == <<"description", ":">>
<1> DEFINE p1 == l1
<1> DEFINE p2 == p1 \o l2
<1> DEFINE p3 == p2 \o l3
<1> DEFINE p4 == p3 \o l4
<1> DEFINE p5 == p4 \o l5
<1> DEFINE p6 == p5 \o l6
<1> DEFINE p7 == p6 \o g
<1> DEFINE sa == ha \o a
<1> DEFINE p8 == p7 \o sa
<1> DEFINE sb == hb \o b
<1> DEFINE p9 == p8 \o sb
<1> DEFINE p10 == p9 \o d
<1> DEFINE y == p10 \o x
<1>3. t = h \o y
  BY DEF Before
<1>4. d \in Text /\ Len(d) = 2 /\ d[2] = ":"
  BY Pair, Labels, Distinct
<1>0. Before(user, ta, tb, name, w, g, a, b) = p10
  BY Zenon DEF Before
<1>5. ha \in Text /\ hb \in Text
  BY <1>1, TeamHeaderFacts, Labels
<1>6. l1 \in Text /\ Len(l1) = Len(<<user>>) + 3
  BY ONLY <1>2, HeadLength, Labels
<1>7. l2 \in Text /\ Len(l2) = Len(ta) + 3
  BY ONLY <1>1, HeadLength, Labels
<1>8. l3 \in Text /\ Len(l3) = Len(tb) + 3
  BY ONLY <1>1, HeadLength, Labels
<1>9. l4 \in Text /\ Len(l4) = Len(name) + 3
  BY ONLY <1>1, HeadLength, Labels
<1>10. l5 \in Text /\ Len(l5) = Len(<<w>>) + 3
  BY ONLY <1>2, HeadLength, Labels
<1>11. l6 \in Text /\ Len(l6) = Len(<<>>) + 3
  BY ONLY Empty, HeadLength, Labels
<1> HIDE DEF l1, l2, l3, l4, l5, l6, ha, hb, d
<1>12. /\ sa \in Text /\ Len(sa) = Len(ha) + Len(a)
       /\ sb \in Text /\ Len(sb) = Len(hb) + Len(b)
  BY ONLY <1>1, <1>5, Joined, Zenon
<1>13. /\ y = p10 \o x
       /\ p1 = l1
       /\ p2 = p1 \o l2
       /\ p3 = p2 \o l3
       /\ p4 = p3 \o l4
       /\ p5 = p4 \o l5
       /\ p6 = p5 \o l6
       /\ p7 = p6 \o g
       /\ p8 = p7 \o sa
       /\ p9 = p8 \o sb
       /\ p10 = p9 \o d
  BY Zenon
<1>14. sa = ha \o a /\ sb = hb \o b
  BY Zenon
<1> HIDE DEF p1, p2, p3, p4, p5, p6, p7, p8, p9, p10, sa, sb, y
<1>15. p1 \in Text /\ Len(p1) = Len(<<user>>) + 3
  BY ONLY <1>6, <1>13, Zenon
<1>16. p2 \in Text /\ Len(p2) = Len(p1) + Len(l2)
  BY ONLY <1>15, <1>7, <1>13, Joined, Zenon
<1>17. p3 \in Text /\ Len(p3) = Len(p2) + Len(l3)
  BY ONLY <1>16, <1>8, <1>13, Joined, Zenon
<1>18. p4 \in Text /\ Len(p4) = Len(p3) + Len(l4)
  BY ONLY <1>17, <1>9, <1>13, Joined, Zenon
<1>19. p5 \in Text /\ Len(p5) = Len(p4) + Len(l5)
  BY ONLY <1>18, <1>10, <1>13, Joined, Zenon
<1>20. p6 \in Text /\ Len(p6) = Len(p5) + Len(l6)
  BY ONLY <1>19, <1>11, <1>13, Joined, Zenon
<1>21. p7 \in Text /\ Len(p7) = Len(p6) + Len(g)
  BY ONLY <1>20, <1>1, <1>13, Joined, Zenon
<1>22. p8 \in Text /\ Len(p8) = Len(p7) + Len(sa)
  BY ONLY <1>21, <1>12, <1>13, Joined, Zenon
<1>23. p9 \in Text /\ Len(p9) = Len(p8) + Len(sb)
  BY ONLY <1>22, <1>12, <1>13, Joined, Zenon
<1>24. p10 \in Text /\ Len(p10) = Len(p9) + Len(d)
  BY ONLY <1>23, <1>4, <1>13, Joined, Zenon
<1>42. y \in Text /\ Len(y) = Len(p10) + Len(x)
  BY ONLY <1>13, <1>24, x \in Text, Joined, Zenon
<1>43. PICK k \in Nat : k = Len(h)
  BY WordFacts
<1>25. t \in Text /\ Len(t) = k + (Len(p10) + Len(x))
  BY ONLY <1>3, <1>42, <1>43, h \in Text, Joined, Zenon
<1>26. At(t, k, p10) /\ At(t, k + Len(p10), x)
  <2>1. At(t, 0, t)
    BY <1>25, WholeText
  <2>2. At(t, 0 + Len(h), y)
    BY ONLY <1>3, <1>25, <1>42, <2>1, h \in Text, 0 \in Nat, JoinStep
  <2>3. At(t, k, y)
    BY ONLY <1>43, <2>2
  <2> QED
    BY ONLY <1>13, <1>24, <1>25, <2>3, k \in Nat, x \in Text, JoinStep
<1>27. At(t, k, p9) /\ At(t, k + Len(p9), d)
  BY ONLY k \in Nat, <1>26, <1>25, <1>23, <1>4, <1>13, JoinStep
<1>28. At(t, k, p8) /\ At(t, k + Len(p8), sb)
  BY ONLY k \in Nat, <1>27, <1>25, <1>22, <1>12, <1>13, JoinStep
<1>29. At(t, k, p7) /\ At(t, k + Len(p7), sa)
  BY ONLY k \in Nat, <1>28, <1>25, <1>21, <1>12, <1>13, JoinStep
<1>30. At(t, k, p6) /\ At(t, k + Len(p6), g)
  BY ONLY k \in Nat, <1>29, <1>25, <1>20, <1>1, <1>13, JoinStep
<1>31. At(t, k, p5) /\ At(t, k + Len(p5), l6)
  BY ONLY k \in Nat, <1>30, <1>25, <1>19, <1>11, <1>13, JoinStep
<1>32. At(t, k, p4) /\ At(t, k + Len(p4), l5)
  BY ONLY k \in Nat, <1>31, <1>25, <1>18, <1>10, <1>13, JoinStep
<1>33. At(t, k, p3) /\ At(t, k + Len(p3), l4)
  BY ONLY k \in Nat, <1>32, <1>25, <1>17, <1>9, <1>13, JoinStep
<1>34. At(t, k, p2) /\ At(t, k + Len(p2), l3)
  BY ONLY k \in Nat, <1>33, <1>25, <1>16, <1>8, <1>13, JoinStep
<1>35. At(t, k, p1) /\ At(t, k + Len(p1), l2)
  BY ONLY k \in Nat, <1>34, <1>25, <1>15, <1>7, <1>13, JoinStep
<1>36. /\ At(t, k + Len(p7), ha) /\ At(t, (k + Len(p7)) + Len(ha), a)
       /\ At(t, k + Len(p8), hb) /\ At(t, (k + Len(p8)) + Len(hb), b)
  <2>0. Len(p7) \in Nat /\ Len(p8) \in Nat
    BY <1>21, <1>22, WordFacts
  <2>1. k + Len(p7) \in Nat /\ k + Len(p8) \in Nat
    BY ONLY <2>0, k \in Nat
  <2>2. At(t, k + Len(p7), ha \o a) /\ At(t, k + Len(p8), hb \o b)
    BY ONLY <1>29, <1>28, <1>14, Zenon
  <2>3. At(t, k + Len(p7), ha) /\ At(t, (k + Len(p7)) + Len(ha), a)
    BY ONLY <1>1, <1>5, <1>25, <2>1, <2>2, AtParts
  <2>4. At(t, k + Len(p8), hb) /\ At(t, (k + Len(p8)) + Len(hb), b)
    BY ONLY <1>1, <1>5, <1>25, <2>1, <2>2, AtParts
  <2> QED
    BY ONLY <2>3, <2>4
<1>37. /\ Len(p1) \in Nat /\ Len(p2) \in Nat /\ Len(p3) \in Nat /\ Len(p4) \in Nat
       /\ Len(p5) \in Nat /\ Len(p6) \in Nat /\ Len(p7) \in Nat /\ Len(p8) \in Nat
       /\ Len(p9) \in Nat /\ Len(ha) \in Nat /\ Len(hb) \in Nat
       /\ Len(ta) \in Nat /\ Len(tb) \in Nat /\ Len(name) \in Nat
       /\ Len(a) \in Nat /\ Len(b) \in Nat /\ Len(g) \in Nat
  BY ONLY <1>1, <1>5, <1>15, <1>16, <1>17, <1>18, <1>19, <1>20, <1>21, <1>22, <1>23,
     WordFacts, Zenon
<1> DEFINE n == <<k, k + Len(p1), k + Len(p2), k + Len(p3), k + Len(p4), k + Len(p5),
                 k + Len(p6), k + Len(p7), (k + Len(p7)) + Len(ha), k + Len(p8),
                 (k + Len(p8)) + Len(hb), k + Len(p9)>>
<1>38. /\ n[1] = k
       /\ n[2] = k + Len(p1) /\ n[3] = k + Len(p2) /\ n[4] = k + Len(p3)
       /\ n[5] = k + Len(p4) /\ n[6] = k + Len(p5) /\ n[7] = k + Len(p6)
       /\ n[8] = k + Len(p7) /\ n[9] = (k + Len(p7)) + Len(ha)
       /\ n[10] = k + Len(p8) /\ n[11] = (k + Len(p8)) + Len(hb) /\ n[12] = k + Len(p9)
  OBVIOUS
<1> HIDE DEF n
<1>44. \A i, j, m \in Nat : j = i + (m + 3) =>
           k + i \in Nat /\ k + j \in Nat /\ k + j = (k + i) + (m + 3)
  OBVIOUS
<1>45. Len(<<>>) \in Nat /\ Len(<<user>>) \in Nat /\ Len(<<w>>) \in Nat
  BY ONLY <1>2, Empty
<1>39. Heads(t, n, user, ta, tb, name, w)
  <2>7. Header(t, n[1], ta, tb)
    BY ONLY <1>38, <1>43, Header(t, Len(h), ta, tb), Zenon
  <2>1. HeadLine(t, n[1], n[2], "user", <<user>>)
    <3>1. At(t, n[1], Line(<<"user">>, <<user>>))
      BY ONLY <1>13, <1>35, <1>38, Zenon DEF l1
    <3>2. n[1] \in Nat /\ n[2] \in Nat /\ n[2] = n[1] + (Len(<<user>>) + 3)
      BY ONLY <1>2, <1>15, <1>37, <1>38, k \in Nat
    <3> QED
      BY ONLY <1>2, <3>1, <3>2, Labels DEF HeadLine
  <2>2. HeadLine(t, n[2], n[3], "team a", ta)
    <3>1. At(t, n[2], Line(<<"team a">>, ta))
      BY ONLY <1>35, <1>38, Zenon DEF l2
    <3>2. n[2] \in Nat /\ n[3] \in Nat /\ n[3] = n[2] + (Len(ta) + 3)
      <4>1. /\ Len(p1) \in Nat /\ Len(p2) \in Nat /\ Len(ta) \in Nat
            /\ Len(p2) = Len(p1) + (Len(ta) + 3)
        BY ONLY <1>7, <1>16, <1>37, <1>45, Zenon
      <4>2. /\ k + Len(p1) \in Nat /\ k + Len(p2) \in Nat
            /\ k + Len(p2) = (k + Len(p1)) + (Len(ta) + 3)
        BY ONLY <1>44, <4>1
      <4> QED
        BY ONLY <1>38, <4>2, Zenon
    <3> QED
      BY ONLY <1>1, <3>1, <3>2, Labels DEF HeadLine
  <2>3. HeadLine(t, n[3], n[4], "team b", tb)
    <3>1. At(t, n[3], Line(<<"team b">>, tb))
      BY ONLY <1>34, <1>38, Zenon DEF l3
    <3>2. n[3] \in Nat /\ n[4] \in Nat /\ n[4] = n[3] + (Len(tb) + 3)
      <4>1. /\ Len(p2) \in Nat /\ Len(p3) \in Nat /\ Len(tb) \in Nat
            /\ Len(p3) = Len(p2) + (Len(tb) + 3)
        BY ONLY <1>8, <1>17, <1>37, <1>45, Zenon
      <4>2. /\ k + Len(p2) \in Nat /\ k + Len(p3) \in Nat
            /\ k + Len(p3) = (k + Len(p2)) + (Len(tb) + 3)
        BY ONLY <1>44, <4>1
      <4> QED
        BY ONLY <1>38, <4>2, Zenon
    <3> QED
      BY ONLY <1>1, <3>1, <3>2, Labels DEF HeadLine
  <2>4. HeadLine(t, n[4], n[5], "event name", name)
    <3>1. At(t, n[4], Line(<<"event name">>, name))
      BY ONLY <1>33, <1>38, Zenon DEF l4
    <3>2. n[4] \in Nat /\ n[5] \in Nat /\ n[5] = n[4] + (Len(name) + 3)
      <4>1. /\ Len(p3) \in Nat /\ Len(p4) \in Nat /\ Len(name) \in Nat
            /\ Len(p4) = Len(p3) + (Len(name) + 3)
        BY ONLY <1>9, <1>18, <1>37, <1>45, Zenon
      <4>2. /\ k + Len(p3) \in Nat /\ k + Len(p4) \in Nat
            /\ k + Len(p4) = (k + Len(p3)) + (Len(name) + 3)
        BY ONLY <1>44, <4>1
      <4> QED
        BY ONLY <1>38, <4>2, Zenon
    <3> QED
      BY ONLY <1>1, <3>1, <3>2, Labels DEF HeadLine
  <2>5. HeadLine(t, n[5], n[6], "time", <<w>>)
    <3>1. At(t, n[5], Line(<<"time">>, <<w>>))
      BY ONLY <1>32, <1>38, Zenon DEF l5
    <3>2. n[5] \in Nat /\ n[6] \in Nat /\ n[6] = n[5] + (Len(<<w>>) + 3)
      <4>1. /\ Len(p4) \in Nat /\ Len(p5) \in Nat /\ Len(<<w>>) \in Nat
            /\ Len(p5) = Len(p4) + (Len(<<w>>) + 3)
        BY ONLY <1>10, <1>19, <1>37, <1>45, Zenon
      <4>2. /\ k + Len(p4) \in Nat /\ k + Len(p5) \in Nat
            /\ k + Len(p5) = (k + Len(p4)) + (Len(<<w>>) + 3)
        BY ONLY <1>44, <4>1
      <4> QED
        BY ONLY <1>38, <4>2, Zenon
    <3> QED
      BY ONLY <1>2, <3>1, <3>2, Labels DEF HeadLine
  <2>6. HeadLine(t, n[6], n[7], "general game updates", <<>>)
    <3>1. At(t, n[6], Line(<<"general game updates">>, <<>>))
      BY ONLY <1>31, <1>38, Zenon DEF l6
    <3>2. n[6] \in Nat /\ n[7] \in Nat /\ n[7] = n[6] + (Len(<<>>) + 3)
      <4>1. /\ Len(p5) \in Nat /\ Len(p6) \in Nat /\ Len(<<>>) \in Nat
            /\ Len(p6) = Len(p5) + (Len(<<>>) + 3)
        BY ONLY <1>11, <1>20, <1>37, <1>45, Zenon
      <4>2. /\ k + Len(p5) \in Nat /\ k + Len(p6) \in Nat
            /\ k + Len(p6) = (k + Len(p5)) + (Len(<<>>) + 3)
        BY ONLY <1>44, <4>1
      <4> QED
        BY ONLY <1>38, <4>2, Zenon
    <3> QED
      BY ONLY Empty, <3>1, <3>2, Labels DEF HeadLine
  <2> QED
    BY ONLY <2>1, <2>2, <2>3, <2>4, <2>5, <2>6, <2>7 DEF Heads
<1>40. Bodies(t, n, ta, tb, g, a, b, x)
  <2>1. /\ n[7] \in Nat /\ n[8] \in Nat /\ n[9] \in Nat
        /\ n[10] \in Nat /\ n[11] \in Nat /\ n[12] \in Nat
    <3>1. \A i, j \in Nat : k + i \in Nat /\ (k + i) + j \in Nat
      OBVIOUS
    <3>2. /\ k + Len(p6) \in Nat /\ k + Len(p7) \in Nat /\ k + Len(p8) \in Nat
          /\ k + Len(p9) \in Nat
          /\ (k + Len(p7)) + Len(ha) \in Nat /\ (k + Len(p8)) + Len(hb) \in Nat
      BY ONLY <1>37, <3>1, Zenon
    <3> QED
      BY ONLY <1>38, <3>2, Zenon
  <2>2. /\ n[8] = n[7] + Len(g) /\ n[9] = n[8] + Len(ha) /\ n[10] = n[9] + Len(a)
        /\ n[11] = n[10] + Len(hb) /\ n[12] = n[11] + Len(b)
    <3>1. /\ Len(p7) = Len(p6) + Len(g) /\ Len(p8) = Len(p7) + (Len(ha) + Len(a))
          /\ Len(p9) = Len(p8) + (Len(hb) + Len(b))
      BY ONLY <1>12, <1>21, <1>22, <1>23, Zenon
    <3> QED
      BY ONLY <1>37, <1>38, <3>1, k \in Nat
  <2>3. k + Len(p10) = n[12] + 2 /\ Len(t) = (n[12] + 2) + Len(x)
    <3>1. Len(x) \in Nat /\ Len(p10) = Len(p9) + 2
      BY ONLY <1>4, <1>24, x \in Text, WordFacts, Zenon
    <3> QED
      BY ONLY <1>25, <1>37, <1>38, <3>1, k \in Nat
  <2>4. /\ At(t, n[7], g) /\ At(t, n[8], ha) /\ At(t, n[9], a) /\ At(t, n[10], hb)
        /\ At(t, n[11], b) /\ At(t, n[12], d) /\ At(t, n[12] + 2, x)
        /\ Len(t) = (n[12] + 2) + Len(x)
    BY ONLY <1>25, <1>26, <1>30, <1>27, <1>36, <1>38, <2>3, Zenon
  <2> QED
    BY ONLY <2>1, <2>2, <2>4, Zenon DEF Bodies, ha, hb, d
<1>41. Len(p10) > 0 /\ p10[Len(p10)] # NL
  <2>1. Len(p9) + 2 > 0
    <3>1. Len(p9) \in Nat
      BY ONLY <1>37, Zenon
    <3> QED
      BY ONLY <3>1
  <2>2. \A i \in 1 .. Len(d) : p10[Len(p9) + i] = d[i]
    <3>1. \A i \in 1 .. Len(d) : (p9 \o d)[Len(p9) + i] = d[i]
      BY ONLY <1>4, <1>23, Joined, Zenon
    <3> QED
      BY ONLY <1>13, <3>1, Zenon
  <2>3. 2 \in 1 .. 2
    OBVIOUS
  <2>4. p10[Len(p9) + 2] = ":"
    BY ONLY <1>4, <2>2, <2>3, Zenon
  <2>5. Len(p10) = Len(p9) + 2 /\ ":" # NL
    BY ONLY <1>4, <1>24, Distinct, Zenon
  <2> QED
    BY ONLY <2>1, <2>4, <2>5, Zenon
<1> QED
  BY ONLY <1>0, <1>24, <1>25, <1>39, <1>40, <1>41, Words(user, ta, tb, name, w),
          Tame(ta, tb, name, g, a, b), Zenon DEF Laid

-----------------------------------------------------------------------------
(* A report that is read again.                                             *)

Reportable(r) ==
    /\ r.user \in Reporters /\ r.file \in Files /\ r.event \in Range(r.file.events)

message(r) == relay(report_game(r.user, r.file, r.event))

LEMMA ReportTypes ==
    ASSUME NEW r, Reportable(r)
    PROVE  LET w == to_string(r.event.time)
           IN  /\ r.user \in Vocabulary /\ r.user # NL
               /\ w \in DOMAIN Number /\ w \in Vocabulary /\ w # NL
               /\ Number[w] = r.event.time
               /\ r.file.team_a \in Text /\ r.file.team_b \in Text
               /\ r.event.name \in Text /\ r.event.description \in Text
               /\ is_map(r.event.game) /\ is_map(r.event.a) /\ is_map(r.event.b)
<1>1. /\ r.file.team_a \in Text /\ r.file.team_b \in Text /\ is_event(r.event)
      /\ r.user \in Vocabulary /\ r.user # NL
      /\ DOMAIN Number \subseteq Vocabulary \ {NL}
  BY ReportAssumption DEF Reportable
<1>2. /\ r.event.name \in Text /\ r.event.description \in Text
      /\ is_map(r.event.game) /\ is_map(r.event.a) /\ is_map(r.event.b)
      /\ \E w \in DOMAIN Number : Number[w] = r.event.time
  BY <1>1, Zenon DEF is_event
<1> DEFINE w == to_string(r.event.time)
<1>3. w = CHOOSE v \in DOMAIN Number : Number[v] = r.event.time
  BY DEF to_string
<1> HIDE DEF w
<1>4. w \in DOMAIN Number /\ Number[w] = r.event.time
  BY ONLY <1>2, <1>3
<1>5. w \in Vocabulary /\ w # NL
  BY ONLY <1>1, <1>4
<1> QED
  BY ONLY <1>1, <1>2, <1>4, <1>5, Zenon DEF w

LEMMA PlainMap ==
    ASSUME NEW map, is_map(map), NEW ends, NL \in ends, map_free_of(map, ends)
    PROVE  /\ Plain(map) /\ update_lines(map) \in Text
           /\ \A w \in ends : w # TAB /\ w # ":" /\ w # NL => w \notin Range(update_lines(map))
<1>1. \A k \in DOMAIN map : /\ k # ":" /\ \A w \in ends : w # k /\ w \notin Range(map[k])
  BY DEF map_free_of, free_of
<1>2. Plain(map)
  BY <1>1 DEF Plain
<1>3. ASSUME NEW w \in ends, w # TAB, w # ":", w # NL  PROVE w \notin Range(update_lines(map))
  <2>1. Foreign(w, map)
    BY <1>1, <1>3 DEF Foreign
  <2> QED
    BY <1>2, <2>1, ForeignWords
<1> QED
  BY <1>2, <1>3, UpdateTypes

LEMMA TameParts ==
    ASSUME NEW r, Reportable(r), tame(r)
    PROVE  LET g == update_lines(r.event.game)
               a == update_lines(r.event.a)
               b == update_lines(r.event.b)
           IN  /\ Words(r.user, r.file.team_a, r.file.team_b, r.event.name,
                        to_string(r.event.time))
               /\ Tame(r.file.team_a, r.file.team_b, r.event.name, g, a, b)
               /\ Plain(r.event.game) /\ Plain(r.event.a) /\ Plain(r.event.b)
<1> DEFINE ta == r.file.team_a
<1> DEFINE tb == r.file.team_b
<1> DEFINE name == r.event.name
<1> DEFINE g == update_lines(r.event.game)
<1> DEFINE a == update_lines(r.event.a)
<1> DEFINE b == update_lines(r.event.b)
<1>1. Words(r.user, ta, tb, name, to_string(r.event.time))
  BY ReportTypes, Zenon DEF Words
<1>2. /\ \A team \in {ta, tb} :
            free_of(team, ends_game \cup {"user", "event name", "time",
                                           "general game updates"})
      /\ free_of(name, ends_game \cup {"time", "general game updates"})
      /\ map_free_of(r.event.game, ends_game)
      /\ map_free_of(r.event.a, ends_a)
      /\ map_free_of(r.event.b, ends_b)
  BY Zenon DEF tame
<1>3. /\ is_map(r.event.game) /\ is_map(r.event.a) /\ is_map(r.event.b)
  BY ReportTypes, Zenon
<1>4. /\ ends_b = {NL, "description"} /\ ends_a = {NL, "description", "team b"}
      /\ ends_game = {NL, "description", "team b", "team a"}
  BY DEF ends_b, ends_a, ends_game
<1>5. \A w \in {"description", "team b", "team a"} : w # TAB /\ w # ":" /\ w # NL
  BY DEF TAB, NL
<1>6. /\ Plain(r.event.game) /\ g \in Text
      /\ \A w \in ends_game : w # TAB /\ w # ":" /\ w # NL => w \notin Range(g)
  BY ONLY <1>2, <1>3, <1>4, PlainMap
<1>7. /\ Plain(r.event.a) /\ a \in Text
      /\ \A w \in ends_a : w # TAB /\ w # ":" /\ w # NL => w \notin Range(a)
  BY ONLY <1>2, <1>3, <1>4, PlainMap
<1>8. /\ Plain(r.event.b) /\ b \in Text
      /\ \A w \in ends_b : w # TAB /\ w # ":" /\ w # NL => w \notin Range(b)
  BY ONLY <1>2, <1>3, <1>4, PlainMap
<1> HIDE DEF ta, tb, name, g, a, b
<1>9. /\ \A w \in {NL, "description", "team b", "team a", "user", "event name", "time",
                   "general game updates"} : w \notin Range(ta) /\ w \notin Range(tb)
      /\ \A w \in {NL, "description", "team b", "team a", "time", "general game updates"} :
            w \notin Range(name)
  BY ONLY <1>2, <1>4 DEF free_of
<1>10. /\ \A w \in {"description", "team b", "team a"} : w \notin Range(g)
       /\ \A w \in {"description", "team b"} : w \notin Range(a)
       /\ "description" \notin Range(b)
  BY ONLY <1>4, <1>5, <1>6, <1>7, <1>8
<1>11. Tame(ta, tb, name, g, a, b)
  BY ONLY <1>6, <1>7, <1>8, <1>9, <1>10, Zenon DEF Tame
<1> QED
  BY ONLY <1>1, <1>6, <1>7, <1>8, <1>11, Zenon DEF ta, tb, name, g, a, b

LEMMA NoHeader == ASSUME NEW t, NEW ta, NEW tb  PROVE Header(t, 0, ta, tb)
BY NothingBefore DEF Header, ApartAtStart

\* The line of the destination, and the empty ones behind it.
Destination(ta, tb) == Line(<<"destination">>, game_name(ta, tb)) \o <<NL, NL, NL>>

LEMMA DestinationHeader ==
    ASSUME NEW ta \in Text, NEW tb \in Text
    PROVE  /\ Destination(ta, tb) \in Text
           /\ \A t \in Text : At(t, 0, Destination(ta, tb))
                    => Header(t, Len(Destination(ta, tb)), ta, tb)
<1> DEFINE y == game_name(ta, tb)
<1> DEFINE line == Line(<<"destination">>, y)
<1> DEFINE gap == <<NL, NL, NL>>
<1> DEFINE h == Destination(ta, tb)
<1>1. y \in Text /\ Range(y) = (Range(ta) \cup {"_"}) \cup Range(tb)
  <2>1. <<"_">> \in Text /\ Range(<<"_">>) = {"_"}
    BY Single, Labels
  <2>2. ta \o <<"_">> \in Text /\ Range(ta \o <<"_">>) = Range(ta) \cup {"_"}
    BY ONLY <2>1, ta \in Text, Joined, JoinedWords, Zenon
  <2> DEFINE q == ta \o <<"_">>
  <2>3. y = q \o tb
    BY DEF game_name
  <2> HIDE DEF q, y
  <2>4. q \o tb \in Text /\ Range(q \o tb) = Range(q) \cup Range(tb)
    <3>1. q \in Text
      BY ONLY <2>2, Zenon DEF q
    <3> QED
      BY ONLY <3>1, tb \in Text, Joined, JoinedWords, Zenon
  <2> QED
    BY ONLY <2>2, <2>3, <2>4, Zenon DEF q
<1> HIDE DEF y
<1>2. line \in Text /\ Len(line) = Len(y) + 3 /\ Len(y) \in Nat
  BY ONLY <1>1, HeadLength, Labels, WordFacts
<1>3. gap \in Text /\ Range(gap) = {NL} /\ Len(gap) = 3
  <2>1. NL \in Vocabulary
    BY Distinct
  <2>2. <<NL, NL, NL>> = <<NL, NL>> \o <<NL>> /\ <<NL, NL, NL>> \in Text
    BY ONLY <2>1, FourElements
  <2>3. <<NL, NL>> = <<NL>> \o <<NL>> /\ <<NL, NL>> \in Text
    BY ONLY <2>1, Pair
  <2>4. <<NL>> \in Text /\ Range(<<NL>>) = {NL}
    BY ONLY <2>1, Single
  <2>5. Range(<<NL, NL>>) = {NL}
    <3>1. Range(<<NL>> \o <<NL>>) = Range(<<NL>>) \cup Range(<<NL>>)
      BY ONLY <2>4, JoinedWords
    <3> QED
      BY ONLY <2>3, <2>4, <3>1
  <2>6. Range(gap) = {NL}
    <3>1. Range(<<NL, NL>> \o <<NL>>) = Range(<<NL, NL>>) \cup Range(<<NL>>)
      BY ONLY <2>3, <2>4, JoinedWords
    <3> QED
      BY ONLY <2>2, <2>4, <2>5, <3>1
  <2>7. Len(gap) = 3
    OBVIOUS
  <2> QED
    BY ONLY <2>2, <2>6, <2>7, Zenon
<1>4. h = line \o gap
  BY DEF Destination, y
<1> HIDE DEF line, gap, h
<1>5. h \in Text /\ Len(h) = Len(line) + Len(gap)
  BY ONLY <1>2, <1>3, <1>4, Joined, Zenon
<1>6. ASSUME NEW t \in Text, At(t, 0, h)  PROVE Header(t, Len(h), ta, tb)
  <2>1. At(t, 0, line) /\ At(t, 0 + Len(line), gap)
    BY ONLY <1>2, <1>3, <1>4, <1>6, 0 \in Nat, JoinStep
  <2>2. PICK m \in Nat : m = Len(line)
    BY <1>2, WordFacts
  <2>3. 0 + Len(line) = m /\ m = 0 + (Len(y) + 3)
    BY ONLY <1>2, <2>2
  <2>4. HeadLine(t, 0, m, "destination", y)
    BY ONLY <1>1, <2>1, <2>2, <2>3, Labels DEF HeadLine, line
  <2>5. ASSUME NEW w \in Vocabulary, NEW v \in Vocabulary, w \notin {":", NL, "_"}, v # NL,
               w # "destination" \/ v # ":", w \notin Range(ta), w \notin Range(tb)
        PROVE  Apart(t, Len(h), w, v)
    <3>1. Apart(t, 0, w, v)
      BY NothingBefore DEF ApartAtStart
    <3>2. w \notin Range(y) /\ w # ":" /\ w # NL /\ ("destination" # w \/ v # ":")
      BY ONLY <1>1, <2>5
    <3>3. Apart(t, m, w, v)
      BY ONLY <2>4, <2>5, <3>1, <3>2, t \in Text, HeadStep
    <3>4. At(t, m, gap) /\ w \notin Range(gap)
      BY ONLY <1>3, <2>1, <2>3, <3>2
    <3>5. Apart(t, m + Len(gap), w, v)
      BY ONLY <1>3, <2>2, <3>3, <3>4, t \in Text, ApartGrows
    <3> QED
      BY ONLY <1>5, <2>2, <3>5, Zenon
  <2>6. Len(h) \in Nat
    BY ONLY <1>5, WordFacts
  <2> QED
    BY ONLY <2>5, <2>6 DEF Header
<1> QED
  BY ONLY <1>5, <1>6, Zenon DEF h

\* The label of the description is the end of what is in front of it.
LEMMA BeforeFacts ==
    ASSUME NEW user, NEW ta, NEW tb, NEW name, NEW w, NEW g, NEW a, NEW b,
           Words(user, ta, tb, name, w), Tame(ta, tb, name, g, a, b)
    PROVE  LET p == Before(user, ta, tb, name, w, g, a, b)
           IN  p \in Text /\ Len(p) > 0 /\ p[Len(p)] # NL
<1> DEFINE p == Before(user, ta, tb, name, w, g, a, b)
<1> DEFINE t == <<>> \o (p \o <<>>)
<1>1. <<>> \in Text /\ Len(<<>>) = 0
  BY Empty
<1>2. Header(t, Len(<<>>), ta, tb)
  BY ONLY <1>1, NoHeader
<1> HIDE DEF t
<1>3. t = <<>> \o (p \o <<>>)
  BY DEF t
<1> QED
  BY ONLY <1>1, <1>2, <1>3, Words(user, ta, tb, name, w), Tame(ta, tb, name, g, a, b), Layout

LEMMA TameApt ==
    ASSUME NEW user, NEW ta, NEW tb, NEW name, NEW w, NEW g, NEW a, NEW b,
           Tame(ta, tb, name, g, a, b), user # NL, w # NL
    PROVE  Apt(user, ta, tb, name, w)
BY DEF Tame, Apt

TeamsRead(t, ta, tb) == field(t, "team a") = ta /\ field(t, "team b") = tb

\* Whatever follows the label of the description, the client that sends the
\* report finds the teams in it.
LEMMA TeamsFound ==
    ASSUME NEW user, NEW ta, NEW tb, NEW name, NEW w, NEW g, NEW a, NEW b, NEW x \in Text,
           Words(user, ta, tb, name, w), Tame(ta, tb, name, g, a, b), user # NL, w # NL,
           NEW t, t = Before(user, ta, tb, name, w, g, a, b) \o x
    PROVE  TeamsRead(t, ta, tb)
<1> DEFINE p == Before(user, ta, tb, name, w, g, a, b)
<1>0. t = p \o x
  OBVIOUS
<1>1. p \in Text
  BY BeforeFacts
<1>2. <<>> \in Text /\ Len(<<>>) = 0
  BY Empty
<1> HIDE DEF p
<1>3. t \in Text
  BY ONLY <1>0, <1>1, x \in Text, Joined
<1>4. t = <<>> \o (p \o x)
  <2>1. t = <<>> \o t
    BY ONLY <1>3, ConcatEmptySeq DEF Text
  <2> QED
    BY ONLY <1>0, <2>1, Zenon
<1>5. Header(t, Len(<<>>), ta, tb)
  BY <1>2, NoHeader
<1>6. PICK n : Laid(t, n, user, ta, tb, name, w, g, a, b, x)
  BY ONLY <1>2, <1>4, <1>5, x \in Text, Words(user, ta, tb, name, w),
          Tame(ta, tb, name, g, a, b), Layout DEF p
<1>7. Heads(t, n, user, ta, tb, name, w)
  BY ONLY <1>6, Zenon DEF Laid
<1>8. Apt(user, ta, tb, name, w)
  BY TameApt
<1>9. HeadsRead(t, user, ta, tb, name, w)
  BY ONLY <1>3, <1>7, <1>8, Words(user, ta, tb, name, w), HeadFields
<1> QED
  BY ONLY <1>9, Zenon DEF HeadsRead, TeamsRead

\* A tame report is read as it should be, and without a throw.
LEMMA ReportIsRead ==
    ASSUME NEW r, Reportable(r), tame(r)
    PROVE  /\ parsable(message(r)) /\ parse_message(message(r)) = expected(r)
           /\ \A part \in {"game", "a", "b"} : readable(sections(message(r))[part])
           /\ expected(r).user \in Vocabulary
<1> DEFINE user == r.user
<1> DEFINE ta == r.file.team_a
<1> DEFINE tb == r.file.team_b
<1> DEFINE name == r.event.name
<1> DEFINE w == to_string(r.event.time)
<1> DEFINE g == update_lines(r.event.game)
<1> DEFINE a == update_lines(r.event.a)
<1> DEFINE b == update_lines(r.event.b)
<1> DEFINE d == r.event.description
<1> DEFINE x == trimmed(d) \o <<NL, NL>>
<1> DEFINE p == Before(user, ta, tb, name, w, g, a, b)
<1> DEFINE t == message(r)
<1>1. /\ Words(user, ta, tb, name, w) /\ Tame(ta, tb, name, g, a, b)
      /\ Plain(r.event.game) /\ Plain(r.event.a) /\ Plain(r.event.b)
  BY TameParts, Zenon
<1>2. /\ user \in Vocabulary /\ user # NL /\ w \in DOMAIN Number /\ w \in Vocabulary /\ w # NL
      /\ Number[w] = r.event.time /\ d \in Text
  BY ReportTypes, Zenon
<1>3. report_game(user, r.file, r.event) = (p \o d) \o <<NL, NL>>
  BY Zenon DEF report_game, head_lines, team_lines, Before, TeamHeader
<1>4. x \in Text
  <2>1. trimmed(d) \in Text
    BY ONLY <1>2, LastWord
  <2>2. <<NL, NL>> \in Text
    BY Pair, Distinct
  <2> QED
    BY ONLY <2>1, <2>2, Joined
<1> HIDE DEF user, ta, tb, name, w, g, a, b, d
<1>5. p \in Text /\ Len(p) > 0 /\ p[Len(p)] # NL
  BY ONLY <1>1, BeforeFacts
<1> DEFINE e == <<NL, NL>>
<1> DEFINE z == report_game(r.user, r.file, r.event)
<1> DEFINE h == Destination(ta, tb)
<1>23. e \in Text
  BY Pair, Distinct
<1> HIDE DEF e
<1>24. z = p \o (d \o e) /\ d \o e \in Text /\ z \in Text
  <2> HIDE DEF p
  <2>1. z = (p \o d) \o e
    BY ONLY <1>3 DEF user, e
  <2>2. (p \o d) \o e = p \o (d \o e)
    BY ONLY <1>2, <1>5, <1>23, ConcatAssociative DEF Text
  <2>3. d \o e \in Text
    BY ONLY <1>2, <1>23, Joined
  <2>4. p \o (d \o e) \in Text
    BY ONLY <1>5, <2>3, Joined
  <2> QED
    BY ONLY <2>1, <2>2, <2>3, <2>4
<1>25. field(z, "team a") = ta /\ field(z, "team b") = tb
  <2>1. PICK f \in Text : f = d \o e
    BY <1>24
  <2>2. z = Before(user, ta, tb, name, w, g, a, b) \o f
    BY ONLY <1>24, <2>1, Zenon DEF p
  <2> HIDE DEF z
  <2>3. Words(user, ta, tb, name, w) /\ Tame(ta, tb, name, g, a, b) /\ user # NL /\ w # NL
    BY ONLY <1>1, <1>2, Zenon
  <2>4. TeamsRead(z, ta, tb)
    BY ONLY <2>2, <2>3, f \in Text, TeamsFound
  <2> QED
    BY ONLY <2>4, Zenon DEF TeamsRead
<1>26. trimmed(z) \o e = p \o x /\ trimmed(z) \in Text
  <2>1. trimmed((p \o d) \o e) \o e = p \o (trimmed(d) \o e)
    <3> HIDE DEF p
    <3> QED
      BY ONLY <1>2, <1>5, TrimKeeps DEF e
  <2>2. z = (p \o d) \o e
    BY ONLY <1>3 DEF user, e
  <2>3. trimmed(z) \in Text
    BY ONLY <1>24, LastWord
  <2> QED
    BY ONLY <2>1, <2>2, <2>3, Zenon DEF e
<1>27. ta \in Text /\ tb \in Text
  BY ONLY <1>1 DEF Words
<1>28. h \in Text
  BY ONLY <1>27, DestinationHeader
<1>6. t = h \o (p \o x)
  <2>1. t = (h \o trimmed(z)) \o e
    <3>1. t = relay(z)
      BY DEF message
    <3>2. relay(z) = ((Line(<<"destination">>, game_name(field(z, "team a"), field(z, "team b")))
                       \o <<NL, NL, NL>>) \o trimmed(z)) \o <<NL, NL>>
      BY ONLY Zenon DEF relay, topic_name
    <3> HIDE DEF z, t
    <3> QED
      BY ONLY <1>25, <3>1, <3>2, Zenon DEF e, Destination
  <2>2. (h \o trimmed(z)) \o e = h \o (trimmed(z) \o e)
    <3>1. PICK c \in Text : c = trimmed(z)
      BY ONLY <1>26
    <3>2. (h \o c) \o e = h \o (c \o e)
      <4> HIDE DEF h
      <4> QED
        BY ONLY <1>23, <1>28, <3>1, ConcatAssociative DEF Text
    <3> HIDE DEF h, z
    <3> QED
      BY ONLY <3>1, <3>2, Zenon
  <2> HIDE DEF t, h, p, x, z
  <2> QED
    BY ONLY <1>26, <2>1, <2>2, Zenon
<1> HIDE DEF e, z
<1>7. t \in Text /\ \E n : Laid(t, n, user, ta, tb, name, w, g, a, b, x)
  <2> HIDE DEF t, x, h
  <2>1. p \o x \in Text
    BY ONLY <1>4, <1>5, Joined
  <2>2. t \in Text
    BY ONLY <1>6, <1>28, <2>1, Joined
  <2>3. At(t, 0, h)
    <3>1. At(t, 0, t)
      BY ONLY <2>2, WholeText
    <3> DEFINE q == p \o x
    <3>2. t = h \o q /\ q \in Text
      BY ONLY <1>6, <2>1
    <3> HIDE DEF q
    <3> QED
      BY ONLY <1>28, <2>2, <3>1, <3>2, 0 \in Nat, JoinStep
  <2>4. Header(t, Len(h), ta, tb)
    BY ONLY <1>27, <2>2, <2>3, DestinationHeader DEF h
  <2> QED
    BY ONLY <1>1, <1>4, <1>6, <1>28, <2>2, <2>4, Layout
<1>8. PICK n : Laid(t, n, user, ta, tb, name, w, g, a, b, x)
  BY ONLY <1>7, Zenon
<1> HIDE DEF t, x, p
<1>9. /\ field(t, "user") = <<user>> /\ field(t, "team a") = ta
      /\ field(t, "team b") = tb /\ field(t, "event name") = name
      /\ field(t, "time") = <<w>>
  <2>1. Heads(t, n, user, ta, tb, name, w)
    BY ONLY <1>8, Zenon DEF Laid
  <2>2. Apt(user, ta, tb, name, w)
    BY ONLY <1>1, <1>2, TameApt
  <2>3. t \in Text /\ Words(user, ta, tb, name, w)
    BY ONLY <1>1, <1>7, Zenon
  <2> QED
    <3>1. HeadsRead(t, user, ta, tb, name, w)
      BY ONLY <2>1, <2>2, <2>3, HeadFields
    <3> QED
      BY ONLY <3>1, Zenon DEF HeadsRead
<1>10. my_extract(t, <<"general game updates", ":", NL>>, <<"team a">>) = g
  BY ONLY <1>7, <1>8, GameSection
<1>11. my_extract(t, TeamHeader("team a", ta), <<"team b">>) = a
  BY ONLY <1>7, <1>8, TeamA
<1>12. my_extract(t, TeamHeader("team b", tb), <<"description">>) = b
  BY ONLY <1>7, <1>8, TeamB
<1>13. my_extract(t, <<"description", ":">>, <<>>) = x
  BY ONLY <1>4, <1>7, <1>8, TeamB
<1>14. /\ TeamHeader("team a", ta) = (<<"team a", " updates", ":", " ">> \o ta) \o <<NL>>
       /\ TeamHeader("team b", tb) = (<<"team b", " updates", ":", " ">> \o tb) \o <<NL>>
  <2>1. ta \in Text /\ tb \in Text
    BY <1>1 DEF Words
  <2> QED
    BY ONLY <2>1, Labels, TeamHeaderFacts
<1> DEFINE rows(text) == split(text, NL)
<1>15. /\ sections(t).game = rows(g) /\ sections(t).a = rows(a) /\ sections(t).b = rows(b)
  BY ONLY <1>9, <1>10, <1>11, <1>12, <1>14 DEF sections, section
<1>16. /\ parse_updates(rows(g)) = cut(r.event.game) /\ readable(rows(g))
       /\ parse_updates(rows(a)) = cut(r.event.a) /\ readable(rows(a))
       /\ parse_updates(rows(b)) = cut(r.event.b) /\ readable(rows(b))
  BY ONLY <1>1, SectionRead, Zenon DEF g, a, b
<1> HIDE DEF rows
<1>17. \A part \in {"game", "a", "b"} : readable(sections(t)[part])
  BY ONLY <1>15, <1>16, Zenon
<1>18. time_of(t) = <<w>> /\ <<w>>[1] = w /\ <<w>> # <<>> /\ <<user>>[1] = user
  <2>1. <<w>>[1] = w /\ <<w>> # <<>> /\ <<user>>[1] = user
    OBVIOUS
  <2> QED
    BY ONLY <1>9, <2>1, Zenon DEF time_of
<1>19. parsable(t)
  BY ONLY <1>2, <1>18, Zenon DEF parsable
<1>20. /\ field(t, "user")[1] = user
       /\ game_name(field(t, "team a"), field(t, "team b")) = game_of(r)
       /\ field(t, "event name") = name
       /\ Number[time_of(t)[1]] = r.event.time
  BY ONLY <1>2, <1>9, <1>18, Zenon DEF game_of, ta, tb
<1>21. parse_message(t) = expected(r)
  BY ONLY <1>13, <1>15, <1>16, <1>20, Zenon DEF parse_message, expected, x, d, user, name
<1>22. expected(r).user \in Vocabulary
  BY <1>2 DEF expected, user
<1> QED
  BY ONLY <1>17, <1>19, <1>21, <1>22, Zenon DEF t

-----------------------------------------------------------------------------
(* Every report is on its way, or stored as it was read.                    *)

Events == UNION {Range(file.events) : file \in Files}
Reports == {r \in [user : Reporters, file : Files, event : Events] : Reportable(r)}
Messages == {message(r) : r \in Reports}
Stories == {parse_message(message(r)) : r \in {r \in Reports : parsable(message(r))}}

OnTheWay ==
    /\ Len(wire) + Len(updates) = Len(reported)
    /\ \A i \in 1 .. Len(wire) : wire[i] = message(reported[Len(updates) + i])

ReportsIInv ==
    /\ wire \in Seq(Messages) /\ reported \in Seq(Reports) /\ updates \in Seq(Stories)
    /\ Len(updates) <= Len(reported)
    /\ \A i \in 1 .. Len(updates) : updates[i] = parse_message(message(reported[i]))
    /\ reading \in BOOLEAN
    /\ reading => OnTheWay
    /\ all_tame => reading

LEMMA ReportsInitially == ReportsInit => ReportsIInv
<1> SUFFICES ASSUME ReportsInit  PROVE ReportsIInv
  OBVIOUS
<1>1. wire = <<>> /\ updates = <<>> /\ reported = <<>> /\ reading = TRUE
  BY DEF ReportsInit
<1>2. wire \in Seq(Messages) /\ reported \in Seq(Reports) /\ updates \in Seq(Stories)
  BY ONLY <1>1, EmptySeq
<1>3. Len(wire) = 0 /\ Len(updates) = 0 /\ Len(reported) = 0
  BY ONLY <1>1, EmptySeq
<1>4. /\ \A i \in 1 .. Len(wire) : wire[i] = message(reported[Len(updates) + i])
      /\ \A i \in 1 .. Len(updates) : updates[i] = parse_message(message(reported[i]))
      /\ Len(updates) <= Len(reported) /\ Len(wire) + Len(updates) = Len(reported)
  BY ONLY <1>3
<1> QED
  BY ONLY <1>1, <1>2, <1>4, Zenon DEF ReportsIInv, OnTheWay

\* What is reported stays reported.
LEMMA ReportsTyped ==
    ASSUME ReportsIInv
    PROVE  /\ Len(wire) \in Nat /\ Len(updates) \in Nat /\ Len(reported) \in Nat
           /\ DOMAIN reported = 1 .. Len(reported) /\ DOMAIN updates = 1 .. Len(updates)
           /\ \A i \in 1 .. Len(reported) : reported[i] \in Reports
<1>1. wire \in Seq(Messages) /\ reported \in Seq(Reports) /\ updates \in Seq(Stories)
  BY DEF ReportsIInv
<1>2. Len(wire) \in Nat
  BY ONLY <1>1, LenProperties
<1>3. Len(updates) \in Nat /\ DOMAIN updates = 1 .. Len(updates)
  BY ONLY <1>1, LenProperties
<1>4. /\ Len(reported) \in Nat /\ DOMAIN reported = 1 .. Len(reported)
      /\ \A i \in 1 .. Len(reported) : reported[i] \in Reports
  BY ONLY <1>1, LenProperties, ElementOfSeq
<1> QED
  BY ONLY <1>2, <1>3, <1>4

LEMMA SequencesOf ==
    ASSUME NEW S, NEW n \in Nat, NEW f \in [1 .. n -> S]
    PROVE  f \in Seq(S)
OBVIOUS

LEMMA ReportStep ==
    ASSUME ReportsIInv, NEW user \in Reporters, NEW file \in Files \cup {Broken},
           Report(user, file)
    PROVE  ReportsIInv'
<1>1. updates' = updates /\ reading' = reading
  BY DEF Report
<1>2. CASE file = Broken
  <2>1. wire' = wire /\ reported' = reported
    BY <1>2 DEF Report
  <2> QED
    BY <1>1, <2>1 DEF ReportsIInv, OnTheWay, all_tame
<1>3. CASE file # Broken
  <2> DEFINE l == Len(file.events)
  <2> DEFINE r(i) == [user |-> user, file |-> file, event |-> file.events[i]]
  <2> DEFINE new == [i \in 1 .. l |-> r(i)]
  <2> DEFINE out == [i \in 1 .. l |-> message(r(i))]
  <2>1. file \in Files
    BY <1>3
  <2>2. /\ l \in Nat /\ DOMAIN file.events = 1 .. l
        /\ \A i \in 1 .. l : file.events[i] \in Range(file.events)
    <3> DEFINE e == file.events
    <3>1. e \in Seq(Range(e))
      BY <2>1, ReportAssumption
    <3> HIDE DEF e
    <3>2. Len(e) \in Nat /\ DOMAIN e = 1 .. Len(e)
      BY ONLY <3>1, LenProperties
    <3>3. \A i \in 1 .. Len(e) : e[i] \in Range(e)
      BY ONLY <3>1, ElementOfSeq
    <3> QED
      BY ONLY <3>2, <3>3, Zenon DEF e
  <2>3. \A i \in 1 .. l : /\ r(i).user = user /\ r(i).file = file
                          /\ r(i).event = file.events[i]
    OBVIOUS
  <2>4. \A i \in 1 .. l : r(i) \in Reports
    BY <2>1, <2>2 DEF Reports, Reportable, Events
  <2>5. /\ wire' = wire \o [i \in 1 .. l |-> relay(report_game(user, file, file.events[i]))]
        /\ reported' = reported \o new
    BY <1>3, <2>2 DEF Report
  <2>6. [i \in 1 .. l |-> relay(report_game(user, file, file.events[i]))] = out
    BY ONLY <2>3 DEF message
  <2> HIDE DEF l, r
  <2>7. new \in Seq(Reports) /\ Len(new) = l /\ \A i \in 1 .. l : new[i] = r(i)
    <3>1. new \in [1 .. l -> Reports]
      BY ONLY <2>4
    <3>2. new \in Seq(Reports)
      BY ONLY <2>2, <3>1, SequencesOf
    <3>3. DOMAIN new = 1 .. l
      OBVIOUS
    <3>4. \A i \in 1 .. l : new[i] = r(i)
      OBVIOUS
    <3> HIDE DEF new
    <3>5. Len(new) = l
      <4>1. Len(new) \in Nat /\ DOMAIN new = 1 .. Len(new)
        BY ONLY <3>2, LenProperties
      <4> QED
        BY ONLY <2>2, <3>3, <4>1
    <3> QED
      BY ONLY <3>2, <3>4, <3>5, Zenon
  <2>8. out \in Seq(Messages) /\ Len(out) = l /\ \A i \in 1 .. l : out[i] = message(r(i))
    <3>1. out \in [1 .. l -> Messages]
      BY ONLY <2>4 DEF Messages
    <3>2. out \in Seq(Messages)
      BY ONLY <2>2, <3>1, SequencesOf
    <3>3. DOMAIN out = 1 .. l
      OBVIOUS
    <3>4. \A i \in 1 .. l : out[i] = message(r(i))
      OBVIOUS
    <3> HIDE DEF out
    <3>5. Len(out) = l
      <4>1. Len(out) \in Nat /\ DOMAIN out = 1 .. Len(out)
        BY ONLY <3>2, LenProperties
      <4> QED
        BY ONLY <2>2, <3>3, <4>1
    <3> QED
      BY ONLY <3>2, <3>4, <3>5, Zenon
  <2>9. wire' = wire \o out /\ reported' = reported \o new
    BY <2>5, <2>6
  <2> HIDE DEF new, out
  <2>10. PICK w \in Nat, u \in Nat, m \in Nat :
            w = Len(wire) /\ u = Len(updates) /\ m = Len(reported)
    BY ReportsTyped
  <2>11. /\ reported' \in Seq(Reports) /\ Len(reported') = m + l
         /\ \A i \in 1 .. m + l : reported'[i] = IF i <= m THEN reported[i] ELSE new[i - m]
    BY ONLY ReportsIInv, <2>7, <2>9, <2>10, ConcatProperties DEF ReportsIInv
  <2>12. /\ wire' \in Seq(Messages) /\ Len(wire') = w + l
         /\ \A i \in 1 .. w + l : wire'[i] = IF i <= w THEN wire[i] ELSE out[i - w]
    BY ONLY ReportsIInv, <2>8, <2>9, <2>10, ConcatProperties DEF ReportsIInv
  <2>13. u <= m /\ updates \in Seq(Stories)
         /\ \A i \in 1 .. u : updates[i] = parse_message(message(reported[i]))
    BY <2>10 DEF ReportsIInv
  <2>14. /\ Len(updates') = u /\ u <= m + l
         /\ \A i \in 1 .. u : updates'[i] = parse_message(message(reported'[i]))
    <3>1. \A i \in 1 .. u : i \in 1 .. m + l /\ i <= m
      BY ONLY <2>2, <2>13, u \in Nat, m \in Nat
    <3>2. u <= m + l
      BY ONLY <2>2, <2>13, u \in Nat, m \in Nat
    <3> QED
      BY ONLY <1>1, <2>10, <2>11, <2>13, <3>1, <3>2, Zenon
  <2>15. ASSUME reading'  PROVE OnTheWay'
    <3>1. w + u = m /\ \A i \in 1 .. w : wire[i] = message(reported[u + i])
      BY ONLY <1>1, <2>10, <2>15, ReportsIInv DEF ReportsIInv, OnTheWay
    <3>2. ASSUME NEW i \in 1 .. w + l  PROVE wire'[i] = message(reported'[u + i])
      <4>1. CASE i <= w
        <5>1. i \in 1 .. w /\ u + i \in 1 .. m + l /\ u + i <= m
          BY ONLY <2>2, <3>1, <4>1, w \in Nat, u \in Nat, m \in Nat, i \in 1 .. w + l
        <5> QED
          BY ONLY <2>11, <2>12, <3>1, <4>1, <5>1, i \in 1 .. w + l, Zenon
      <4>2. CASE ~(i <= w)
        <5>1. /\ i - w \in 1 .. l /\ u + i \in 1 .. m + l /\ ~(u + i <= m)
              /\ (u + i) - m = i - w
          BY ONLY <2>2, <3>1, <4>2, w \in Nat, u \in Nat, m \in Nat, i \in 1 .. w + l
        <5>2. wire'[i] = message(r(i - w)) /\ new[i - w] = r(i - w)
          BY ONLY <2>7, <2>8, <2>12, <4>2, <5>1, i \in 1 .. w + l, Zenon
        <5>3. reported'[u + i] = new[i - w]
          BY ONLY <2>11, <5>1, Zenon
        <5> QED
          BY ONLY <5>2, <5>3, Zenon
      <4> QED
        BY <4>1, <4>2
    <3>3. (w + l) + u = m + l
      BY ONLY <2>2, <3>1, w \in Nat, u \in Nat, m \in Nat
    <3> QED
      BY ONLY <2>11, <2>12, <2>14, <3>2, <3>3, Zenon DEF OnTheWay
  <2>16. all_tame' => all_tame
    <3>1. DOMAIN reported = 1 .. m /\ DOMAIN reported' = 1 .. m + l
      BY ONLY ReportsTyped, ReportsIInv, <2>10, <2>11, LenProperties
    <3>2. \A i \in 1 .. m : i \in 1 .. m + l /\ reported'[i] = reported[i]
      BY ONLY <2>2, <2>11, m \in Nat
    <3> QED
      BY ONLY <3>1, <3>2 DEF all_tame
  <2>17. all_tame' => reading'
    BY ONLY <1>1, <2>16, ReportsIInv, Zenon DEF ReportsIInv
  <2>18. reading' \in BOOLEAN /\ updates' \in Seq(Stories)
    BY <1>1, <2>13 DEF ReportsIInv
  <2> QED
    BY ONLY <2>11, <2>12, <2>14, <2>15, <2>17, <2>18, Zenon DEF ReportsIInv
<1> QED
  BY <1>2, <1>3

\* The first message on the way is the one of the next report.
LEMMA NextMessage ==
    ASSUME ReportsIInv, take_frame
    PROVE  /\ Len(updates) + 1 \in 1 .. Len(reported)
           /\ Head(wire) = message(reported[Len(updates) + 1])
           /\ reported[Len(updates) + 1] \in Reports
           /\ wire' \in Seq(Messages) /\ Len(wire') = Len(wire) - 1
           /\ \A i \in 1 .. Len(wire') : wire'[i] = wire[i + 1]
<1>1. PICK w \in Nat, u \in Nat, m \in Nat :
         w = Len(wire) /\ u = Len(updates) /\ m = Len(reported)
  BY ReportsTyped
<1>2. /\ w + u = m /\ \A i \in 1 .. w : wire[i] = message(reported[u + i])
      /\ wire \in Seq(Messages) /\ wire # <<>> /\ wire' = Tail(wire)
  BY <1>1 DEF ReportsIInv, OnTheWay, take_frame
<1>3. w # 0 /\ Head(wire) = wire[1]
  <2>1. Len(wire) # 0
    BY ONLY <1>2, EmptySeq
  <2>2. Head(wire) = wire[1]
    BY ONLY <1>2
  <2> QED
    BY ONLY <1>1, <2>1, <2>2
<1>4. /\ Tail(wire) \in Seq(Messages) /\ Len(Tail(wire)) = w - 1
      /\ \A i \in 1 .. w - 1 : Tail(wire)[i] = wire[i + 1]
  BY ONLY <1>1, <1>2, HeadTailProperties
<1>5. 1 \in 1 .. w /\ u + 1 \in 1 .. m
  BY ONLY <1>2, <1>3, w \in Nat, u \in Nat, m \in Nat
<1>6. reported[u + 1] \in Reports
  BY <1>1, <1>5, ReportsTyped
<1> QED
  BY ONLY <1>1, <1>2, <1>3, <1>4, <1>5, <1>6, Zenon

LEMMA ReceiveStep ==
    ASSUME ReportsIInv, Receive
    PROVE  ReportsIInv'
<1>1. /\ take_frame /\ updates' = Append(updates, parse_message(Head(wire)))
      /\ reading' = reading /\ reported' = reported /\ reading /\ parsable(Head(wire))
  BY DEF Receive, take_frame
<1>2. PICK w \in Nat, u \in Nat, m \in Nat :
         w = Len(wire) /\ u = Len(updates) /\ m = Len(reported)
  BY ReportsTyped
<1>3. /\ u + 1 \in 1 .. m /\ Head(wire) = message(reported[u + 1])
      /\ reported[u + 1] \in Reports
      /\ wire' \in Seq(Messages) /\ Len(wire') = w - 1
      /\ \A i \in 1 .. w - 1 : wire'[i] = wire[i + 1]
  BY <1>1, <1>2, NextMessage
<1>4. /\ w + u = m /\ \A i \in 1 .. w : wire[i] = message(reported[u + i])
  BY <1>1, <1>2 DEF ReportsIInv, OnTheWay
<1>5. /\ updates \in Seq(Stories) /\ reported \in Seq(Reports)
      /\ \A i \in 1 .. u : updates[i] = parse_message(message(reported[i]))
      /\ reading \in BOOLEAN /\ (all_tame => reading)
  BY <1>2 DEF ReportsIInv
<1> DEFINE e == parse_message(message(reported[u + 1]))
<1>6. e \in Stories
  <2>1. parsable(message(reported[u + 1]))
    BY ONLY <1>1, <1>3, Zenon
  <2> QED
    BY ONLY <1>3, <2>1 DEF Stories
<1>7. updates' = Append(updates, e)
  BY ONLY <1>1, <1>3, Zenon
<1> HIDE DEF e
<1>8. /\ updates' \in Seq(Stories) /\ Len(updates') = u + 1 /\ updates'[u + 1] = e
      /\ \A i \in 1 .. u : updates'[i] = updates[i]
  BY ONLY <1>2, <1>5, <1>6, <1>7, AppendProperties
<1>9. ASSUME NEW i \in 1 .. u + 1  PROVE updates'[i] = parse_message(message(reported[i]))
  <2>1. i = u + 1 \/ i \in 1 .. u
    OBVIOUS
  <2> QED
    BY ONLY <1>5, <1>8, <2>1, Zenon DEF e
<1>10. ASSUME NEW i \in 1 .. w - 1
       PROVE  wire'[i] = message(reported[(u + 1) + i])
  <2>1. i + 1 \in 1 .. w /\ u + (i + 1) = (u + 1) + i
    OBVIOUS
  <2> QED
    BY ONLY <1>3, <1>4, <2>1, i \in 1 .. w - 1, Zenon
<1>11. (w - 1) + (u + 1) = m /\ u + 1 <= m
  BY ONLY <1>3, <1>4, w \in Nat, u \in Nat, m \in Nat
<1>12. OnTheWay'
  BY ONLY <1>1, <1>2, <1>3, <1>8, <1>10, <1>11, Zenon DEF OnTheWay
<1>13. all_tame' <=> all_tame
  BY ONLY <1>1 DEF all_tame
<1> QED
  BY ONLY <1>1, <1>2, <1>3, <1>5, <1>8, <1>9, <1>11, <1>12, <1>13, Zenon DEF ReportsIInv

LEMMA ThrowStep ==
    ASSUME ReportsIInv, ThrowAtReport
    PROVE  ReportsIInv'
<1>1. /\ take_frame /\ updates' = updates /\ reported' = reported /\ reading' = FALSE
      /\ \/ ~parsable(Head(wire))
         \/ \E part \in {"game", "a", "b"} : ~readable(sections(Head(wire))[part])
  BY DEF ThrowAtReport, take_frame
<1>2. /\ Len(updates) + 1 \in 1 .. Len(reported)
      /\ Head(wire) = message(reported[Len(updates) + 1])
      /\ reported[Len(updates) + 1] \in Reports
      /\ wire' \in Seq(Messages)
  BY <1>1, NextMessage
<1> DEFINE r == reported[Len(updates) + 1]
<1>3. Reportable(r)
  BY <1>2 DEF Reports
<1>4. ~tame(r)
  <2> HIDE DEF r
  <2>1. Head(wire) = message(r)
    BY ONLY <1>2, Zenon DEF r
  <2> SUFFICES ASSUME tame(r)  PROVE FALSE
    OBVIOUS
  <2>2. parsable(message(r))
    BY <1>3, ReportIsRead, Zenon
  <2>3. \A part \in {"game", "a", "b"} : readable(sections(message(r))[part])
    BY <1>3, ReportIsRead, Zenon
  <2> QED
    BY ONLY <1>1, <2>1, <2>2, <2>3, Zenon
<1>5. ~all_tame
  <2>1. DOMAIN reported = 1 .. Len(reported)
    BY ReportsTyped
  <2> QED
    BY ONLY <1>2, <1>4, <2>1, Zenon DEF all_tame
<1>6. ~all_tame'
  BY ONLY <1>1, <1>5 DEF all_tame
<1>7. /\ reported \in Seq(Reports) /\ updates \in Seq(Stories)
      /\ Len(updates) <= Len(reported)
      /\ \A i \in 1 .. Len(updates) : updates[i] = parse_message(message(reported[i]))
  BY DEF ReportsIInv
<1>8. reading' \in BOOLEAN /\ ~reading'
  BY <1>1
<1> QED
  BY ONLY <1>1, <1>2, <1>6, <1>7, <1>8, Zenon DEF ReportsIInv

LEMMA ReportsInductive == ReportsIInv /\ [ReportsNext]_reportVars => ReportsIInv'
<1> SUFFICES ASSUME ReportsIInv, [ReportsNext]_reportVars  PROVE ReportsIInv'
  OBVIOUS
<1>1. CASE \E user \in Reporters, file \in Files \cup {Broken} : Report(user, file)
  BY <1>1, ReportStep
<1>2. CASE Receive
  BY <1>2, ReceiveStep
<1>3. CASE ThrowAtReport
  BY <1>3, ThrowStep
<1>4. CASE UNCHANGED reportVars
  BY <1>4 DEF reportVars, ReportsIInv, OnTheWay, all_tame
<1> QED
  BY <1>1, <1>2, <1>3, <1>4 DEF ReportsNext

LEMMA ReportsInvariant == ReportsSpec => []ReportsIInv
BY ReportsInitially, ReportsInductive, PTL DEF ReportsSpec

LEMMA UpdateIsReport ==
    ASSUME ReportsIInv, NEW n \in DOMAIN updates, tame(reported[n])
    PROVE  updates[n] = expected(reported[n])
<1>1. n \in 1 .. Len(updates) /\ n \in 1 .. Len(reported)
  BY ReportsTyped DEF ReportsIInv
<1>2. updates[n] = parse_message(message(reported[n]))
  BY <1>1 DEF ReportsIInv
<1>3. Reportable(reported[n])
  BY <1>1, ReportsTyped DEF Reports
<1>4. parse_message(message(reported[n])) = expected(reported[n])
  BY <1>3, ReportIsRead, Zenon
<1> QED
  BY <1>2, <1>4

\* A tame report is stored as it was made.
THEOREM ReportsAreStoredWhole == ReportsSpec => []StoredAsReported
<1>1. ReportsIInv => StoredAsReported
  BY UpdateIsReport DEF StoredAsReported
<1> QED
  BY <1>1, ReportsInvariant, PTL

\* No tame report ends the thread of the socket.
THEOREM TameReportsPass == ReportsSpec => []TameReportsAreRead
<1>1. ReportsIInv => TameReportsAreRead
  BY DEF ReportsIInv, TameReportsAreRead
<1> QED
  BY <1>1, ReportsInvariant, PTL

-----------------------------------------------------------------------------
(* The summary.                                                             *)

LEMMA FilledFacts ==
    ASSUME NEW f \in Maps, NEW g \in Maps
    PROVE  /\ filled(f, g) \in Maps /\ DOMAIN filled(f, g) = DOMAIN f \cup DOMAIN g
           /\ \A k \in DOMAIN f : filled(f, g)[k] = f[k]
           /\ \A k \in DOMAIN g : k \notin DOMAIN f => filled(f, g)[k] = g[k]
<1>1. PICK D \in SUBSET Vocabulary : f \in [D -> Text]
  BY DEF Maps
<1>2. PICK E \in SUBSET Vocabulary : g \in [E -> Text]
  BY DEF Maps
<1>3. filled(f, g) = [k \in D \cup E |-> IF k \in D THEN f[k] ELSE g[k]]
  <2>1. DOMAIN f = D /\ DOMAIN g = E
    BY <1>1, <1>2
  <2> QED
    BY ONLY <2>1 DEF filled
<1>4. filled(f, g) \in [D \cup E -> Text] /\ D \cup E \in SUBSET Vocabulary
  BY <1>1, <1>2, <1>3
<1> QED
  BY <1>1, <1>2, <1>3, <1>4 DEF Maps

\* f[i] is what the updates among v[1], ..., v[i] that are in S add up to.
Merged(f, n, S, v) ==
    /\ f \in [0 .. n -> Maps] /\ f[0] = <<>>
    /\ \A i \in 1 .. n : f[i] = IF i \in S THEN filled(v[i], f[i - 1]) ELSE f[i - 1]

Speaks(S, v, k, j) == j \in S /\ k \in DOMAIN v[j]

\* The value of k is the one of the last update that speaks of it.
FromLast(map, S, v, k, i) ==
    \E j \in 1 .. i : /\ Speaks(S, v, k, j) /\ map[k] = v[j][k]
                      /\ \A l \in 1 .. i : Speaks(S, v, k, l) => l <= j

Latest(map, S, v, i) ==
    \A k : /\ k \in DOMAIN map => FromLast(map, S, v, k, i)
           /\ (\E j \in 1 .. i : Speaks(S, v, k, j)) => k \in DOMAIN map

LEMMA NothingTold == ASSUME NEW S, NEW v  PROVE Latest(<<>>, S, v, 0)
<1>1. DOMAIN <<>> = {} /\ ~ \E j \in Int : j \in 1 .. 0
  BY NoMap
<1> QED
  BY ONLY <1>1 DEF Latest

LEMMA OneMoreTold ==
    ASSUME NEW i \in Nat, i >= 1, NEW S, NEW v, NEW map \in Maps, v[i] \in Maps,
           Latest(map, S, v, i - 1)
    PROVE  Latest(IF i \in S THEN filled(v[i], map) ELSE map, S, v, i)
<1>1. /\ i \in 1 .. i /\ i <= i /\ \A j \in 1 .. i - 1 : j \in 1 .. i /\ j <= i
      /\ \A j \in 1 .. i : j <= i /\ (j = i \/ j \in 1 .. i - 1)
  OBVIOUS
<1>2. /\ \A k \in DOMAIN map : FromLast(map, S, v, k, i - 1)
      /\ \A k : (\E j \in 1 .. i - 1 : Speaks(S, v, k, j)) => k \in DOMAIN map
  BY Zenon DEF Latest
<1>3. ASSUME NEW new, NEW k, k \in DOMAIN map, new[k] = map[k], ~Speaks(S, v, k, i)
      PROVE  FromLast(new, S, v, k, i)
  <2>1. PICK j \in 1 .. i - 1 : /\ Speaks(S, v, k, j) /\ map[k] = v[j][k]
                                /\ \A l \in 1 .. i - 1 : Speaks(S, v, k, l) => l <= j
    BY ONLY <1>2, <1>3, Zenon DEF FromLast
  <2>2. \A l \in 1 .. i : Speaks(S, v, k, l) => l <= j
    BY ONLY <1>1, <1>3, <2>1, Zenon
  <2> QED
    BY ONLY <1>1, <1>3, <2>1, <2>2, Zenon DEF FromLast
<1>4. CASE i \in S
  <2> DEFINE new == filled(v[i], map)
  <2>1. /\ DOMAIN new = DOMAIN v[i] \cup DOMAIN map
        /\ \A k \in DOMAIN v[i] : new[k] = v[i][k]
        /\ \A k \in DOMAIN map : k \notin DOMAIN v[i] => new[k] = map[k]
    BY FilledFacts
  <2> HIDE DEF new
  <2>2. ASSUME NEW k, k \in DOMAIN new  PROVE FromLast(new, S, v, k, i)
    <3>1. CASE k \in DOMAIN v[i]
      <4>1. Speaks(S, v, k, i) /\ new[k] = v[i][k]
        BY ONLY <1>4, <2>1, <3>1, Zenon DEF Speaks
      <4> QED
        BY ONLY <1>1, <4>1, Zenon DEF FromLast
    <3>2. CASE k \notin DOMAIN v[i]
      <4>1. k \in DOMAIN map
        BY ONLY <2>1, <2>2, <3>2
      <4>2. new[k] = map[k]
        BY ONLY <2>1, <3>2, <4>1, Zenon
      <4>3. ~Speaks(S, v, k, i)
        BY ONLY <3>2, Zenon DEF Speaks
      <4> QED
        BY ONLY <1>3, <4>1, <4>2, <4>3, Zenon
    <3> QED
      BY ONLY <3>1, <3>2, Zenon
  <2>3. ASSUME NEW k, NEW j \in 1 .. i, Speaks(S, v, k, j)  PROVE k \in DOMAIN new
    <3>1. CASE j = i
      BY ONLY <2>1, <2>3, <3>1 DEF Speaks
    <3>2. CASE j \in 1 .. i - 1
      <4>1. k \in DOMAIN map
        BY ONLY <1>2, <2>3, <3>2, Zenon
      <4> QED
        BY ONLY <2>1, <4>1
    <3> QED
      BY ONLY <1>1, <3>1, <3>2, j \in 1 .. i, Zenon
  <2> QED
    BY ONLY <1>4, <2>2, <2>3, Zenon DEF Latest, new
<1>5. CASE i \notin S
  <2>1. \A k : ~Speaks(S, v, k, i)
    BY ONLY <1>5, Zenon DEF Speaks
  <2>2. ASSUME NEW k, k \in DOMAIN map  PROVE FromLast(map, S, v, k, i)
    BY ONLY <1>3, <2>1, <2>2, Zenon
  <2>3. ASSUME NEW k, NEW j \in 1 .. i, Speaks(S, v, k, j)  PROVE k \in DOMAIN map
    BY ONLY <1>1, <1>2, <2>1, <2>3, j \in 1 .. i, Zenon
  <2> QED
    BY ONLY <1>5, <2>2, <2>3, Zenon DEF Latest
<1> QED
  BY ONLY <1>4, <1>5, Zenon

LEMMA MergedIsLatest ==
    ASSUME NEW n \in Nat, NEW S, NEW v, NEW f, Merged(f, n, S, v),
           \A i \in 1 .. n : v[i] \in Maps
    PROVE  Latest(f[n], S, v, n)
<1> DEFINE Told == {i \in 0 .. n : Latest(f[i], S, v, i)}
<1>1. 0 \in Told
  <2>1. 0 \in 0 .. n
    OBVIOUS
  <2> QED
    BY <2>1, NothingTold DEF Merged
<1>2. ASSUME NEW i \in 1 .. n, i - 1 \in Told  PROVE i \in Told
  <2>1. i \in Nat /\ i >= 1 /\ i \in 0 .. n /\ i - 1 \in 0 .. n
    OBVIOUS
  <2>2. f[i - 1] \in Maps /\ f[i] = IF i \in S THEN filled(v[i], f[i - 1]) ELSE f[i - 1]
    BY <2>1 DEF Merged
  <2>3. Latest(f[i - 1], S, v, i - 1)
    BY <1>2
  <2>4. Latest(IF i \in S THEN filled(v[i], f[i - 1]) ELSE f[i - 1], S, v, i)
    <3>1. v[i] \in Maps
      OBVIOUS
    <3> QED
      BY ONLY <2>1, <2>2, <2>3, <3>1, OneMoreTold, Zenon
  <2> QED
    BY ONLY <2>1, <2>2, <2>4, Zenon
<1> HIDE DEF Told
<1>3. 0 .. n \subseteq Told
  BY ONLY <1>1, <1>2, n \in Nat, UpTo
<1>4. n \in 0 .. n
  OBVIOUS
<1> QED
  BY ONLY <1>3, <1>4 DEF Told

\* What is stored for one part of the events, and who tells it.
Telling(user, game) == {i \in 1 .. Len(updates) : tells(updates[i], user, game)}
Parts(part) == [i \in 1 .. Len(updates) |-> updates[i].event[part]]

LEMMA StatsLoop ==
    ASSUME NEW user, NEW game, NEW part, NEW n \in Nat, n = Len(updates),
           \A i \in 1 .. n : updates[i].event[part] \in Maps
    PROVE  \E f : Merged(f, n, Telling(user, game), Parts(part))
                  /\ stats(user, game, part) = f[n]
<1> DEFINE step == [x \in (1 .. n) \X Maps |->
                       IF tells(updates[x[1]], user, game)
                       THEN construct_summary(x[2], updates[x[1]].event[part]) ELSE x[2]]
<1>1. \A i \in 1 .. n, q \in Maps :
         construct_summary(q, updates[i].event[part]) \in Maps
  BY FilledFacts DEF construct_summary
<1>2. step \in [(1 .. n) \X Maps -> Maps]
  BY <1>1
<1>3. \A i \in 1 .. n, q \in Maps :
         step[<<i, q>>] = IF tells(updates[i], user, game)
                          THEN construct_summary(q, updates[i].event[part]) ELSE q
  OBVIOUS
<1>4. <<>> \in Maps
  BY NoMap
<1> HIDE DEF step
<1>5. PICK f : Loop(f, n, Maps, <<>>, step)
  BY ONLY <1>2, <1>4, n \in Nat, LoopExists, Zenon
<1>6. \A i \in 1 .. n : i - 1 \in 0 .. n /\ i \in 0 .. n /\ i # 0
  OBVIOUS
<1> DEFINE body(h, i) == IF i = 0 THEN <<>>
                         ELSE IF tells(updates[i], user, game)
                         THEN construct_summary(h[i - 1], updates[i].event[part])
                         ELSE h[i - 1]
<1>7. f \in [0 .. n -> Maps] /\ f[0] = body(f, 0)
  BY <1>5 DEF Loop
<1>8. ASSUME NEW i \in 1 .. n  PROVE f[i] = body(f, i)
  <2>1. f[i - 1] \in Maps /\ f[i] = step[<<i, f[i - 1]>>]
    BY <1>5, <1>6, <1>7 DEF Loop
  <2> QED
    BY <1>3, <1>6, <2>1
<1>9. ASSUME NEW h, h = [i \in 0 .. n |-> body(h, i)]  PROVE h = f
  <2>1. Alike(h, f, n)
    <3>1. 0 \in 0 .. n
      OBVIOUS
    <3>2. h[0] = f[0]
      BY ONLY <1>7, <1>9, <3>1
    <3>3. ASSUME NEW i \in 1 .. n, h[i - 1] = f[i - 1]  PROVE h[i] = f[i]
      <4>1. h[i] = body(h, i)
        <5> HIDE DEF body
        <5> QED
          BY ONLY <1>6, <1>9, i \in 1 .. n
      <4>2. body(h, i) = body(f, i)
        BY ONLY <3>3, Zenon
      <4> QED
        BY <1>8, <4>1, <4>2, Zenon
    <3> QED
      BY ONLY <3>2, <3>3, Zenon DEF Alike
  <2>2. \A i \in 0 .. n : h[i] = f[i]
    BY ONLY <2>1, n \in Nat, LoopUnique
  <2> HIDE DEF body
  <2> QED
    BY ONLY <1>7, <1>9, <2>2
<1>10. f = [i \in 0 .. n |-> body(f, i)]
  <2>1. \A i \in 0 .. n : i = 0 \/ i \in 1 .. n
    OBVIOUS
  <2> HIDE DEF body
  <2> QED
    BY ONLY <1>7, <1>8, <2>1
<1>11. stats(user, game, part) = f[n]
  BY ONLY n = Len(updates), <1>9, <1>10 DEF stats
<1>12. Merged(f, n, Telling(user, game), Parts(part))
  <2>1. ASSUME NEW i \in 1 .. n
        PROVE  f[i] = IF i \in Telling(user, game)
                      THEN filled(Parts(part)[i], f[i - 1]) ELSE f[i - 1]
    <3>1. i \in Telling(user, game) <=> tells(updates[i], user, game)
      BY ONLY n = Len(updates), i \in 1 .. n, Zenon DEF Telling
    <3>2. Parts(part)[i] = updates[i].event[part]
      BY ONLY n = Len(updates), i \in 1 .. n, Zenon DEF Parts
    <3>3. f[i] = IF tells(updates[i], user, game)
                 THEN filled(updates[i].event[part], f[i - 1]) ELSE f[i - 1]
      BY ONLY <1>6, <1>8, i \in 1 .. n, Zenon DEF construct_summary
    <3> QED
      BY ONLY <3>1, <3>2, <3>3, Zenon
  <2>2. f[0] = <<>>
    BY <1>7
  <2> QED
    BY ONLY <1>7, <2>1, <2>2, Zenon DEF Merged
<1> QED
  BY <1>11, <1>12

\* The part of a tame report, and what is stored of it.
LEMMA PartOfReport ==
    ASSUME NEW r, Reportable(r), tame(r), NEW part \in {"game", "a", "b"}
    PROVE  /\ expected(r).event[part] = cut(r.event[part])
           /\ cut(r.event[part]) \in Maps
           /\ DOMAIN r.event[part] \subseteq Range(Keys)
<1>1. Plain(r.event.game) /\ Plain(r.event.a) /\ Plain(r.event.b)
  BY TameParts, Zenon
<1>2. part = "game" \/ part = "a" \/ part = "b"
  OBVIOUS
<1>3. Plain(r.event[part])
  BY ONLY <1>1, <1>2, Zenon
<1>4. cut(r.event[part]) \in Maps
  <2>1. ASSUME NEW map, Plain(map)  PROVE cut(map) \in Maps
    BY ONLY <2>1, SectionRead, Zenon
  <2> QED
    BY ONLY <1>3, <2>1, Zenon
<1>5. DOMAIN r.event[part] \subseteq Range(Keys)
  BY ONLY <1>3 DEF Plain, is_map
<1>6. /\ expected(r).event.game = cut(r.event.game)
      /\ expected(r).event.a = cut(r.event.a)
      /\ expected(r).event.b = cut(r.event.b)
  BY DEF expected
<1>7. expected(r).event[part] = cut(r.event[part])
  BY ONLY <1>2, <1>6, Zenon
<1> QED
  BY ONLY <1>4, <1>5, <1>7

LEMMA Greatest ==
    ASSUME NEW S \in SUBSET Nat, NEW j \in S, \A l \in S : l <= j
    PROVE  Max(S) = j
<1>1. \A x \in S : (\A y \in S : x >= y) => x = j
  OBVIOUS
<1>2. \A y \in S : j >= y
  OBVIOUS
<1> QED
  BY ONLY <1>1, <1>2, j \in S DEF Max

\* The update tells what was reported.
LEMMA TellsAsReported ==
    ASSUME ReportsIInv, all_tame, NEW i \in 1 .. Len(updates), NEW user, NEW game,
           NEW part \in {"game", "a", "b"}
    PROVE  /\ updates[i].event[part] = cut(reported[i].event[part])
           /\ updates[i].event[part] \in Maps
           /\ DOMAIN reported[i].event[part] \subseteq Range(Keys)
           /\ tells(updates[i], user, game)
                <=> (reported[i].user = user /\ game_of(reported[i]) = game)
<1>1. i \in DOMAIN updates /\ i \in DOMAIN reported /\ Reportable(reported[i])
  <2>1. i \in 1 .. Len(reported)
    BY ReportsTyped DEF ReportsIInv
  <2> QED
    BY <2>1, ReportsTyped DEF Reports
<1>2. tame(reported[i])
  BY <1>1, Zenon DEF all_tame
<1>3. updates[i] = expected(reported[i])
  BY <1>1, <1>2, UpdateIsReport, Zenon
<1> DEFINE r == reported[i]
<1>4. /\ expected(r).event[part] = cut(r.event[part])
      /\ cut(r.event[part]) \in Maps
      /\ DOMAIN r.event[part] \subseteq Range(Keys)
  <2> HIDE DEF r
  <2>1. Reportable(r) /\ tame(r)
    BY ONLY <1>1, <1>2, Zenon DEF r
  <2> QED
    BY ONLY <2>1, part \in {"game", "a", "b"}, PartOfReport
<1>5. expected(r).user = r.user /\ expected(r).game = game_of(r)
  BY DEF expected
<1> QED
  BY ONLY <1>3, <1>4, <1>5, Zenon DEF tells

\* What a summary of the game by the user tells of one part of the events.
Summarised(user, game, part) ==
    LET latest == stats(user, game, part)
        told(k) == about(user, game, part, k, Len(updates))
    IN  /\ DOMAIN latest = {k \in Range(Keys) : told(k) # {}}
        /\ \A k \in DOMAIN latest :
              latest[k] = cut(reported[Max(told(k))].event[part])[k]

LEMMA SummaryIsLatest ==
    ASSUME ReportsIInv, all_tame, NEW user, NEW game, NEW part \in {"game", "a", "b"}
    PROVE  Summarised(user, game, part)
<1>1. PICK n \in Nat : n = Len(updates)
  BY ReportsTyped
<1> DEFINE v == Parts(part)
<1> DEFINE S == Telling(user, game)
<1> DEFINE told(k) == about(user, game, part, k, n)
<1>2. ASSUME NEW i \in 1 .. n
      PROVE  /\ v[i] = cut(reported[i].event[part]) /\ v[i] \in Maps
             /\ DOMAIN reported[i].event[part] \subseteq Range(Keys)
             /\ i \in S <=> (reported[i].user = user /\ game_of(reported[i]) = game)
  <2>1. /\ updates[i].event[part] = cut(reported[i].event[part])
        /\ updates[i].event[part] \in Maps
        /\ DOMAIN reported[i].event[part] \subseteq Range(Keys)
        /\ tells(updates[i], user, game)
             <=> (reported[i].user = user /\ game_of(reported[i]) = game)
    <3>1. i \in 1 .. Len(updates)
      BY <1>1
    <3> QED
      BY <3>1, TellsAsReported
  <2>2. v[i] = updates[i].event[part]
    BY ONLY <1>1, i \in 1 .. n, Zenon DEF Parts
  <2>3. i \in S <=> tells(updates[i], user, game)
    BY ONLY <1>1, i \in 1 .. n, Zenon DEF Telling
  <2> QED
    BY ONLY <2>1, <2>2, <2>3, Zenon
<1>3. PICK f : Merged(f, n, S, v) /\ stats(user, game, part) = f[n]
  <2>1. \A i \in 1 .. n : updates[i].event[part] \in Maps
    BY <1>1, TellsAsReported
  <2> QED
    BY ONLY <1>1, <2>1, n \in Nat, StatsLoop
<1> HIDE DEF v, S
<1>4. Latest(f[n], S, v, n)
  BY ONLY <1>2, <1>3, n \in Nat, MergedIsLatest
<1>5. ASSUME NEW k, NEW i \in 1 .. n
      PROVE  i \in told(k) <=> Speaks(S, v, k, i)
  <2>1. DOMAIN v[i] = DOMAIN reported[i].event[part]
    BY ONLY <1>2, i \in 1 .. n DEF cut
  <2>2. i \in told(k) <=> /\ reported[i].user = user /\ game_of(reported[i]) = game
                          /\ k \in DOMAIN reported[i].event[part]
    BY ONLY i \in 1 .. n, Zenon DEF about
  <2> QED
    BY ONLY <1>2, <2>1, <2>2, i \in 1 .. n, Zenon DEF Speaks
<1>6. \A k : told(k) \subseteq 1 .. n
  BY DEF about
<1> HIDE DEF told
<1> DEFINE latest == f[n]
<1>7. ASSUME NEW k, k \in DOMAIN latest
      PROVE  /\ told(k) # {} /\ k \in Range(Keys)
             /\ latest[k] = cut(reported[Max(told(k))].event[part])[k]
  <2>1. PICK j \in 1 .. n : /\ Speaks(S, v, k, j) /\ latest[k] = v[j][k]
                            /\ \A l \in 1 .. n : Speaks(S, v, k, l) => l <= j
    BY ONLY <1>4, <1>7, Zenon DEF Latest, FromLast
  <2>2. j \in told(k)
    BY ONLY <1>5, <2>1, Zenon
  <2>3. \A l \in told(k) : l <= j
    BY ONLY <1>5, <1>6, <2>1
  <2>4. Max(told(k)) = j
    <3>1. told(k) \in SUBSET Nat
      BY ONLY <1>6, n \in Nat
    <3> QED
      BY ONLY <2>2, <2>3, <3>1, Greatest
  <2>5. v[j] = cut(reported[j].event[part]) /\ DOMAIN reported[j].event[part] \subseteq Range(Keys)
    BY ONLY <1>2, <2>1
  <2>6. k \in Range(Keys)
    <3>1. k \in DOMAIN v[j]
      BY ONLY <2>1, Zenon DEF Speaks
    <3>2. DOMAIN v[j] = DOMAIN reported[j].event[part]
      BY ONLY <2>5 DEF cut
    <3> QED
      BY ONLY <2>5, <3>1, <3>2
  <2> QED
    BY ONLY <2>1, <2>2, <2>4, <2>5, <2>6, Zenon
<1>8. ASSUME NEW k, told(k) # {}  PROVE k \in DOMAIN latest
  <2>1. PICK j \in told(k) : TRUE
    BY ONLY <1>8
  <2>2. j \in 1 .. n
    BY ONLY <1>6, <2>1
  <2>3. Speaks(S, v, k, j)
    BY ONLY <1>5, <2>1, <2>2, Zenon
  <2> QED
    BY ONLY <1>4, <2>2, <2>3, Zenon DEF Latest
<1>9. DOMAIN latest = {k \in Range(Keys) : told(k) # {}}
  BY ONLY <1>7, <1>8
<1>10. \A k \in DOMAIN latest : latest[k] = cut(reported[Max(told(k))].event[part])[k]
  BY ONLY <1>7
<1> QED
  BY ONLY <1>1, <1>3, <1>9, <1>10 DEF told, Summarised

\* The summary gives of each key what the latest report of it said.
THEOREM SummaryIsTheLatest == ReportsSpec => []SummaryTellsLatest
<1>1. ReportsIInv => SummaryTellsLatest
  <2>1. ASSUME ReportsIInv, all_tame, NEW r \in Range(reported), NEW part \in {"game", "a", "b"}
        PROVE  Summarised(r.user, game_of(r), part)
    BY ONLY <2>1, SummaryIsLatest, Zenon
  <2> QED
    BY ONLY <2>1, Zenon DEF SummaryTellsLatest, Summarised
<1> QED
  BY <1>1, ReportsInvariant, PTL

-----------------------------------------------------------------------------
(* Numbers as texts.                                                        *)

\* What is left of n as the digits are taken away, w of them.
Spelled(n, w, left) ==
    /\ w \in Nat /\ w >= 1
    /\ left \in [0 .. w -> Nat] /\ left[0] = n /\ left[w] = 0
    /\ \A i \in 1 .. w : left[i] = left[i - 1] \div 10

Digit == 0 .. 9

LEMMA Tenth ==
    ASSUME NEW a \in Nat, NEW b \in Nat
    PROVE  /\ a \div 10 \in Nat /\ (a = 0 \/ a \div 10 < a) /\ a % 10 \in Digit
           /\ a <= b => a \div 10 <= b \div 10
           /\ a < b /\ a \div 10 = b \div 10 => a % 10 < b % 10
BY DEF Digit

LEMMA Spelling ==
    ASSUME NEW n \in Nat
    PROVE  \E w, left : /\ Spelled(n, w, left)
                        /\ digits(n) = [i \in 1 .. w |-> left[w - i] % 10]
<1> DEFINE m == n + 1
<1> DEFINE step == [x \in (1 .. m) \X Nat |-> x[2] \div 10]
<1>1. m \in Nat /\ n \in Nat /\ m >= 1 /\ ~(m <= n)
  OBVIOUS
<1> HIDE DEF m
<1>2. step \in [(1 .. m) \X Nat -> Nat]
  BY Tenth
<1>3. \A i \in 1 .. m, q \in Nat : step[<<i, q>>] = q \div 10
  OBVIOUS
<1> HIDE DEF step
<1>4. PICK f : Loop(f, m, Nat, n, step)
  BY ONLY <1>1, <1>2, LoopExists, Zenon
<1>5. \A i \in 1 .. m : i - 1 \in 0 .. m /\ i \in 0 .. m /\ i # 0
  BY ONLY <1>1
<1> DEFINE body(h, i) == IF i = 0 THEN n ELSE h[i - 1] \div 10
<1>6. f \in [0 .. m -> Nat] /\ f[0] = n /\ f[0] = body(f, 0)
  BY <1>4 DEF Loop
<1>7. ASSUME NEW i \in 1 .. m
      PROVE  f[i] = body(f, i) /\ f[i] = f[i - 1] \div 10 /\ f[i - 1] \in Nat
  <2>1. f[i - 1] \in Nat /\ f[i] = step[<<i, f[i - 1]>>]
    BY <1>4, <1>5, <1>6 DEF Loop
  <2>2. f[i] = f[i - 1] \div 10
    BY ONLY <1>3, <2>1, i \in 1 .. m
  <2> QED
    BY ONLY <1>5, <2>1, <2>2, i \in 1 .. m, Zenon
<1>8. ASSUME NEW h, h = [i \in 0 .. m |-> body(h, i)]  PROVE h = f
  <2>1. Alike(h, f, m)
    <3>1. 0 \in 0 .. m
      BY ONLY <1>1
    <3>2. h[0] = f[0]
      BY ONLY <1>6, <1>8, <3>1
    <3>3. ASSUME NEW i \in 1 .. m, h[i - 1] = f[i - 1]  PROVE h[i] = f[i]
      <4>1. h[i] = body(h, i)
        <5> HIDE DEF body
        <5> QED
          BY ONLY <1>5, <1>8, i \in 1 .. m
      <4>2. body(h, i) = body(f, i)
        BY ONLY <3>3, Zenon
      <4> QED
        BY <1>7, <4>1, <4>2, Zenon
    <3> QED
      BY ONLY <3>2, <3>3, Zenon DEF Alike
  <2>2. \A i \in 0 .. m : h[i] = f[i]
    BY ONLY <2>1, <1>1, LoopUnique
  <2> HIDE DEF body
  <2> QED
    BY ONLY <1>6, <1>8, <2>2
<1>9. f = [i \in 0 .. m |-> body(f, i)]
  <2>1. \A i \in 0 .. m : i = 0 \/ i \in 1 .. m
    BY ONLY <1>1
  <2> HIDE DEF body
  <2> QED
    BY ONLY <1>6, <1>7, <2>1
<1>10. f[m] = 0
  <2> DEFINE Small == {i \in 0 .. m : f[i] = 0 \/ f[i] + i <= n}
  <2>1. 0 \in Small
    BY ONLY <1>1, <1>6
  <2>2. ASSUME NEW i \in 1 .. m, i - 1 \in Small  PROVE i \in Small
    <3>1. PICK a \in Nat : a = f[i - 1]
      BY ONLY <1>7, i \in 1 .. m
    <3>2. PICK b \in Nat : b = f[i] /\ b = a \div 10
      BY ONLY <1>7, <3>1, Tenth, i \in 1 .. m
    <3>3. a = 0 \/ a + (i - 1) <= n
      BY ONLY <2>2, <3>1
    <3>4. b = 0 \/ b + i <= n
      BY ONLY <3>2, <3>3, <1>1, i \in 1 .. m
    <3> QED
      BY ONLY <1>5, <3>2, <3>4, i \in 1 .. m
  <2>3. m \in Small
    <3> HIDE DEF Small
    <3>1. 0 .. m \subseteq Small
      BY ONLY <1>1, <2>1, <2>2, UpTo
    <3> QED
      BY ONLY <1>1, <3>1
  <2> QED
    BY ONLY <1>1, <1>6, <2>3
<1> DEFINE Ends(w) == f[w] = 0 /\ \A i \in 1 .. w - 1 : f[i] # 0
<1>11. \E w \in 1 .. m : Ends(w)
  <2> DEFINE T == {w \in 1 .. m : f[w] = 0}
  <2>1. m \in T /\ T \in SUBSET Nat
    BY ONLY <1>1, <1>10
  <2>2. PICK w \in T : \A k \in T : w <= k
    BY <2>1, LeastNatural
  <2>3. \A i \in 1 .. w - 1 : i \in 1 .. m /\ ~(w <= i)
    BY ONLY <1>1, <2>2
  <2> QED
    BY ONLY <2>2, <2>3
<1> DEFINE width == CHOOSE w \in 1 .. m : Ends(w)
<1>12. width \in 1 .. m /\ Ends(width)
  <2> HIDE DEF Ends
  <2> QED
    BY ONLY <1>11
<1>13. digits(n) = [i \in 1 .. width |-> f[width - i] % 10]
  <2> DEFINE rest == CHOOSE h : h = [i \in 0 .. n + 1 |-> body(h, i)]
  <2>1. rest = f
    BY ONLY <1>8, <1>9 DEF m
  <2>2. digits(n) = LET v == CHOOSE w \in 1 .. n + 1 :
                                rest[w] = 0 /\ \A i \in 1 .. w - 1 : rest[i] # 0
                    IN  [i \in 1 .. v |-> rest[v - i] % 10]
    BY ONLY Zenon DEF digits
  <2> HIDE DEF rest
  <2> QED
    BY ONLY <2>1, <2>2, Zenon DEF m
<1> HIDE DEF width
<1>14. width \in Nat /\ width >= 1 /\ \A i \in 0 .. width : i \in 0 .. m
  BY ONLY <1>1, <1>12
<1> DEFINE left == [i \in 0 .. width |-> f[i]]
<1>15. /\ \A i \in 0 .. width : left[i] = f[i]
       /\ left \in [0 .. width -> Nat]
  BY ONLY <1>6, <1>14
<1> HIDE DEF left
<1>16. Spelled(n, width, left)
  <2>1. 0 \in 0 .. width /\ width \in 0 .. width
    BY ONLY <1>14
  <2>2. \A i \in 1 .. width : i \in 0 .. width /\ i - 1 \in 0 .. width /\ i \in 1 .. m
    BY ONLY <1>1, <1>12
  <2>3. \A i \in 1 .. width : left[i] = left[i - 1] \div 10
    BY ONLY <1>7, <1>15, <2>2
  <2> QED
    BY ONLY <1>6, <1>12, <1>14, <1>15, <2>1, <2>3, Zenon DEF Spelled
<1>17. digits(n) = [i \in 1 .. width |-> left[width - i] % 10]
  <2>1. \A i \in 1 .. width : width - i \in 0 .. width
    BY ONLY <1>14
  <2> QED
    BY ONLY <1>13, <1>15, <2>1
<1> QED
  BY ONLY <1>14, <1>16, <1>17

LEMMA DigitTypes ==
    ASSUME NEW n \in Nat
    PROVE  digits(n) \in Seq(Digit) /\ Len(digits(n)) \in Nat
<1>1. PICK w, left : /\ Spelled(n, w, left)
                     /\ digits(n) = [i \in 1 .. w |-> left[w - i] % 10]
  BY Spelling
<1>0. w \in Nat
  BY <1>1 DEF Spelled
<1>2. \A i \in 1 .. w : left[w - i] % 10 \in Digit
  <2>1. \A i \in 1 .. w : w - i \in 0 .. w
    BY <1>0
  <2>2. \A i \in 1 .. w : left[w - i] \in Nat
    BY <1>1, <2>1 DEF Spelled
  <2> QED
    BY <2>2, Tenth
<1>3. digits(n) \in [1 .. w -> Digit]
  BY ONLY <1>1, <1>2
<1>4. digits(n) \in Seq(Digit)
  BY ONLY <1>0, <1>3, SequencesOf
<1> QED
  BY ONLY <1>4, LenProperties

\* The i-th digit, or what is less than any digit.
digit(d, i) == IF i <= Len(d) THEN d[i] ELSE -1

Below(d, e, i) ==
    /\ i \in Nat /\ i >= 1 /\ digit(d, i) < digit(e, i)
    /\ \A j \in 1 .. i - 1 : digit(d, j) = digit(e, j)

Lesser(d, e) == \E i : Below(d, e, i)

LEMMA DigitIs ==
    ASSUME NEW d \in Seq(Digit), NEW i \in Nat, i >= 1
    PROVE  /\ digit(d, i) \in Int /\ -1 <= digit(d, i)
           /\ i <= Len(d) => digit(d, i) = d[i] /\ 0 <= digit(d, i)
           /\ ~(i <= Len(d)) => digit(d, i) = -1
<1>1. Len(d) \in Nat
  BY LenProperties
<1>2. CASE i <= Len(d)
  <2>1. i \in 1 .. Len(d)
    BY <1>1, <1>2
  <2>2. d[i] \in Digit
    BY <2>1, ElementOfSeq
  <2> QED
    BY ONLY <1>2, <2>2 DEF digit, Digit
<1>3. CASE ~(i <= Len(d))
  BY ONLY <1>3 DEF digit
<1> QED
  BY <1>2, <1>3

LEMMA BeginsAlike ==
    ASSUME NEW d \in Seq(Digit), NEW e \in Seq(Digit), NEW n \in Nat,
           n <= Len(d), n <= Len(e)
    PROVE  SubSeq(d, 1, n) = SubSeq(e, 1, n) <=> \A j \in 1 .. n : digit(d, j) = digit(e, j)
<1>1. Len(d) \in Nat /\ Len(e) \in Nat
  BY LenProperties
<1>2. \A j \in 1 .. n : /\ j \in 1 .. Len(d) /\ j \in 1 .. Len(e)
                        /\ j \in Nat /\ j >= 1 /\ j <= Len(d) /\ j <= Len(e)
                        /\ 1 + j - 1 = j /\ j \in 1 .. n - 1 + 1
  BY <1>1
<1>3. \A j \in 1 .. n : /\ digit(d, j) = d[j] /\ digit(e, j) = e[j]
                        /\ d[j] \in Digit /\ e[j] \in Digit
  BY <1>2, DigitIs, ElementOfSeq
<1>4. /\ SubSeq(d, 1, n) \in Seq(Digit) /\ Len(SubSeq(d, 1, n)) = n
      /\ \A j \in 1 .. n : SubSeq(d, 1, n)[j] = d[j]
  <2>1. Len(SubSeq(d, 1, n)) = IF 1 <= n THEN n - 1 + 1 ELSE 0
    BY ONLY <1>3, n \in Nat, SubSeqProperties
  <2>2. /\ SubSeq(d, 1, n) \in Seq(Digit)
        /\ \A j \in 1 .. n - 1 + 1 : SubSeq(d, 1, n)[j] = d[1 + j - 1]
    BY ONLY <1>3, n \in Nat, SubSeqProperties
  <2> QED
    BY ONLY <1>2, <2>1, <2>2, n \in Nat
<1>5. /\ SubSeq(e, 1, n) \in Seq(Digit) /\ Len(SubSeq(e, 1, n)) = n
      /\ \A j \in 1 .. n : SubSeq(e, 1, n)[j] = e[j]
  <2>1. Len(SubSeq(e, 1, n)) = IF 1 <= n THEN n - 1 + 1 ELSE 0
    BY ONLY <1>3, n \in Nat, SubSeqProperties
  <2>2. /\ SubSeq(e, 1, n) \in Seq(Digit)
        /\ \A j \in 1 .. n - 1 + 1 : SubSeq(e, 1, n)[j] = e[1 + j - 1]
    BY ONLY <1>3, n \in Nat, SubSeqProperties
  <2> QED
    BY ONLY <1>2, <2>1, <2>2, n \in Nat
<1>6. ASSUME \A j \in 1 .. n : digit(d, j) = digit(e, j)
      PROVE  SubSeq(d, 1, n) = SubSeq(e, 1, n)
  <2>1. \A j \in 1 .. n : SubSeq(d, 1, n)[j] = SubSeq(e, 1, n)[j]
    BY ONLY <1>3, <1>4, <1>5, <1>6, Zenon
  <2> QED
    BY ONLY <1>4, <1>5, <2>1, SeqEqual
<1>7. ASSUME SubSeq(d, 1, n) = SubSeq(e, 1, n)
      PROVE  \A j \in 1 .. n : digit(d, j) = digit(e, j)
  BY ONLY <1>3, <1>4, <1>5, <1>7, Zenon
<1> QED
  BY ONLY <1>6, <1>7, Zenon

LEMMA TextOrder ==
    ASSUME NEW d \in Seq(Digit), NEW e \in Seq(Digit)
    PROVE  text_before(d, e) <=> Lesser(d, e)
<1>1. PICK m \in Nat, n \in Nat :
         m = Len(d) /\ n = Len(e) /\ DOMAIN d = 1 .. m /\ DOMAIN e = 1 .. n
  BY LenProperties
<1>2. ASSUME IsStrictPrefix(d, e)  PROVE Lesser(d, e)
  <2>1. m <= n /\ SubSeq(d, 1, m) = SubSeq(e, 1, m) /\ d # e
    BY ONLY <1>1, <1>2 DEF IsStrictPrefix, IsPrefix
  <2>2. m # n
    <3> SUFFICES ASSUME m = n  PROVE FALSE
      OBVIOUS
    <3>1. SubSeq(d, 1, m) = d /\ SubSeq(e, 1, m) = e
      BY <1>1, SubSeqFull
    <3> QED
      BY ONLY <2>1, <3>1
  <2>3. \A j \in 1 .. m : digit(d, j) = digit(e, j)
    BY ONLY <1>1, <2>1, BeginsAlike, d \in Seq(Digit), e \in Seq(Digit)
  <2>4. /\ m + 1 \in Nat /\ m + 1 >= 1 /\ (m + 1) - 1 = m /\ ~(m + 1 <= m) /\ m + 1 <= n
    BY ONLY <2>1, <2>2, m \in Nat, n \in Nat
  <2>5. digit(d, m + 1) = -1 /\ digit(e, m + 1) \in Int /\ 0 <= digit(e, m + 1)
    BY <1>1, <2>4, DigitIs
  <2>6. digit(d, m + 1) < digit(e, m + 1)
    BY ONLY <2>5
  <2>7. \A j \in 1 .. (m + 1) - 1 : digit(d, j) = digit(e, j)
    BY ONLY <2>3, <2>4
  <2>8. Below(d, e, m + 1)
    BY ONLY <2>4, <2>6, <2>7, Zenon DEF Below
  <2> QED
    BY ONLY <2>8, Zenon DEF Lesser
<1>3. ASSUME NEW i \in DOMAIN d \cap DOMAIN e,
             SubSeq(d, 1, i - 1) = SubSeq(e, 1, i - 1), d[i] < e[i]
      PROVE  Lesser(d, e)
  <2>1. i \in Nat /\ i >= 1 /\ i <= m /\ i <= n /\ i - 1 \in Nat /\ i - 1 <= m /\ i - 1 <= n
    BY ONLY <1>1, i \in DOMAIN d \cap DOMAIN e
  <2>2. \A j \in 1 .. i - 1 : digit(d, j) = digit(e, j)
    BY ONLY <1>1, <1>3, <2>1, BeginsAlike, d \in Seq(Digit), e \in Seq(Digit)
  <2>3. digit(d, i) = d[i] /\ digit(e, i) = e[i]
    BY <1>1, <2>1, DigitIs
  <2> QED
    BY ONLY <1>3, <2>1, <2>2, <2>3, Zenon DEF Lesser, Below
<1>4. ASSUME Lesser(d, e)  PROVE text_before(d, e)
  <2>1. PICK i : Below(d, e, i)
    BY ONLY <1>4, Zenon DEF Lesser
  <2>2. /\ i \in Nat /\ i >= 1 /\ digit(d, i) < digit(e, i)
        /\ \A j \in 1 .. i - 1 : digit(d, j) = digit(e, j)
    BY ONLY <2>1, Zenon DEF Below
  <2>3. i <= n
    <3>1. digit(d, i) \in Int /\ digit(e, i) \in Int /\ -1 <= digit(d, i)
      BY <2>2, DigitIs
    <3>2. ~(i <= n) => digit(e, i) = -1
      BY <1>1, <2>2, DigitIs
    <3> QED
      BY ONLY <2>2, <3>1, <3>2
  <2>4. CASE i <= m
    <3>1. /\ i \in DOMAIN d \cap DOMAIN e
          /\ i - 1 \in Nat /\ i - 1 <= m /\ i - 1 <= n
      BY ONLY <1>1, <2>2, <2>3, <2>4
    <3>2. d[i] < e[i]
      <4>1. digit(d, i) = d[i] /\ digit(e, i) = e[i]
        BY <1>1, <2>2, <2>3, <2>4, DigitIs
      <4> QED
        BY ONLY <2>2, <4>1
    <3>3. SubSeq(d, 1, i - 1) = SubSeq(e, 1, i - 1)
      BY ONLY <1>1, <2>2, <3>1, BeginsAlike, d \in Seq(Digit), e \in Seq(Digit)
    <3> QED
      BY ONLY <3>1, <3>2, <3>3, Zenon DEF text_before
  <2>5. CASE ~(i <= m)
    <3>1. i = m + 1
      <4> SUFFICES ASSUME i # m + 1  PROVE FALSE
        OBVIOUS
      <4>1. /\ m + 1 \in 1 .. i - 1 /\ m + 1 \in Nat /\ m + 1 >= 1
            /\ ~(m + 1 <= m) /\ m + 1 <= n
        BY ONLY <2>2, <2>3, <2>5, i # m + 1, m \in Nat, n \in Nat
      <4>2. digit(d, m + 1) = -1 /\ digit(e, m + 1) \in Int /\ 0 <= digit(e, m + 1)
        BY <1>1, <4>1, DigitIs
      <4>3. digit(d, m + 1) = digit(e, m + 1)
        BY ONLY <2>2, <4>1
      <4> QED
        BY ONLY <4>2, <4>3
    <3>2. i - 1 = m /\ m <= m /\ m <= n /\ m # n
      BY ONLY <2>3, <3>1, m \in Nat, n \in Nat
    <3>3. SubSeq(d, 1, m) = SubSeq(e, 1, m)
      BY ONLY <1>1, <2>2, <3>2, BeginsAlike, d \in Seq(Digit), e \in Seq(Digit)
    <3>4. d # e
      BY ONLY <1>1, <3>2
    <3> QED
      BY ONLY <1>1, <3>2, <3>3, <3>4 DEF text_before, IsStrictPrefix, IsPrefix
  <2> QED
    BY ONLY <2>4, <2>5
<1> QED
  BY ONLY <1>2, <1>3, <1>4, Zenon DEF text_before

LEMMA LesserFacts ==
    ASSUME NEW d \in Seq(Digit), NEW e \in Seq(Digit), NEW f \in Seq(Digit)
    PROVE  ~Lesser(d, d) /\ (Lesser(d, e) /\ Lesser(e, f) => Lesser(d, f))
<1>1. \A i : i \in Nat /\ i >= 1 =>
         digit(d, i) \in Int /\ digit(e, i) \in Int /\ digit(f, i) \in Int
  BY DigitIs
<1>2. ~Lesser(d, d)
  BY <1>1 DEF Lesser, Below
<1>3. ASSUME NEW i, Below(d, e, i), NEW k, Below(e, f, k)  PROVE Lesser(d, f)
  <2>1. /\ i \in Nat /\ i >= 1 /\ digit(d, i) < digit(e, i)
        /\ \A j \in 1 .. i - 1 : digit(d, j) = digit(e, j)
    BY ONLY <1>3, Zenon DEF Below
  <2>2. /\ k \in Nat /\ k >= 1 /\ digit(e, k) < digit(f, k)
        /\ \A j \in 1 .. k - 1 : digit(e, j) = digit(f, j)
    BY ONLY <1>3, Zenon DEF Below
  <2>3. PICK l \in Nat : l >= 1 /\ l <= i /\ l <= k /\ (l = i \/ l = k)
    <3>1. i <= k \/ k <= i
      BY ONLY <2>1, <2>2
    <3>2. i <= i /\ k <= k
      BY ONLY <2>1, <2>2
    <3> QED
      BY ONLY <2>1, <2>2, <3>1, <3>2, Zenon
  <2>4. \A j \in 1 .. l - 1 : j \in 1 .. i - 1 /\ j \in 1 .. k - 1
    BY ONLY <2>1, <2>2, <2>3
  <2>5. \A j \in 1 .. l - 1 : digit(d, j) = digit(f, j)
    BY ONLY <2>1, <2>2, <2>4, Zenon
  <2>6. /\ l = i \/ l \in 1 .. i - 1
        /\ l = k \/ l \in 1 .. k - 1
    BY ONLY <2>1, <2>2, <2>3
  <2>7. /\ l = i \/ digit(d, l) = digit(e, l)
        /\ l = k \/ digit(e, l) = digit(f, l)
    BY ONLY <2>1, <2>2, <2>6, Zenon
  <2>8. digit(d, l) < digit(f, l)
    <3>1. digit(d, l) \in Int /\ digit(e, l) \in Int /\ digit(f, l) \in Int
      BY ONLY <1>1, <2>3
    <3> QED
      BY ONLY <2>1, <2>2, <2>3, <2>7, <3>1
  <2> QED
    BY ONLY <2>3, <2>5, <2>8, Zenon DEF Lesser, Below
<1> QED
  BY ONLY <1>2, <1>3, Zenon DEF Lesser

\* Of two numbers with as many digits the smaller one comes first.
LEMMA SameWidth ==
    ASSUME NEW m \in Nat, NEW n \in Nat, m < n, Len(digits(m)) = Len(digits(n))
    PROVE  text_before(digits(m), digits(n))
<1>1. PICK w, a : Spelled(m, w, a) /\ digits(m) = [i \in 1 .. w |-> a[w - i] % 10]
  BY Spelling
<1>2. PICK x, b : Spelled(n, x, b) /\ digits(n) = [i \in 1 .. x |-> b[x - i] % 10]
  BY Spelling
<1> DEFINE d == digits(m)
<1> DEFINE e == digits(n)
<1>3. /\ w \in Nat /\ w >= 1 /\ a \in [0 .. w -> Nat] /\ a[0] = m /\ a[w] = 0
      /\ \A i \in 1 .. w : a[i] = a[i - 1] \div 10
  BY ONLY <1>1, Zenon DEF Spelled
<1>4. /\ x \in Nat /\ b \in [0 .. x -> Nat] /\ b[0] = n /\ b[x] = 0
      /\ \A i \in 1 .. x : b[i] = b[i - 1] \div 10
  BY ONLY <1>2, Zenon DEF Spelled
<1>5. d \in Seq(Digit) /\ e \in Seq(Digit) /\ Len(d) = Len(e)
  BY DigitTypes
<1>6. w = Len(d) /\ x = Len(e)
  <2>1. DOMAIN d = 1 .. w /\ DOMAIN e = 1 .. x
    BY ONLY <1>1, <1>2
  <2> HIDE DEF d, e
  <2>2. DOMAIN d = 1 .. Len(d) /\ Len(d) \in Nat
    BY ONLY <1>5, LenProperties
  <2>3. DOMAIN e = 1 .. Len(e) /\ Len(e) \in Nat
    BY ONLY <1>5, LenProperties
  <2> QED
    BY ONLY <1>3, <1>4, <2>1, <2>2, <2>3
<1>7. x = w
  BY ONLY <1>5, <1>6
<1>8. ASSUME NEW i \in 1 .. w
      PROVE  d[i] = a[w - i] % 10 /\ e[i] = b[w - i] % 10
  BY ONLY <1>1, <1>2, <1>7, i \in 1 .. w
<1>9. ASSUME NEW i \in 1 .. w
      PROVE  /\ i - 1 \in 0 .. w /\ i \in 0 .. w /\ a[i - 1] \in Nat /\ b[i - 1] \in Nat
             /\ a[i] = a[i - 1] \div 10 /\ b[i] = b[i - 1] \div 10
  <2>1. i - 1 \in 0 .. w /\ i \in 0 .. w
    BY ONLY <1>3, i \in 1 .. w
  <2> QED
    BY ONLY <1>3, <1>4, <1>7, <2>1, i \in 1 .. w
<1> HIDE DEF d, e
<1>10. \A i \in 0 .. w : a[i] <= b[i]
  <2> DEFINE Rising == {i \in 0 .. w : a[i] <= b[i]}
  <2>1. 0 \in Rising
    BY ONLY <1>3, <1>4, m < n, m \in Nat, n \in Nat
  <2>2. ASSUME NEW i \in 1 .. w, i - 1 \in Rising  PROVE i \in Rising
    <3>1. PICK p \in Nat, q \in Nat : p = a[i - 1] /\ q = b[i - 1]
      BY ONLY <1>9, i \in 1 .. w
    <3>2. p <= q
      BY ONLY <2>2, <3>1
    <3>3. p \div 10 <= q \div 10
      BY ONLY <3>2, p \in Nat, q \in Nat, Tenth
    <3> QED
      BY ONLY <1>9, <3>1, <3>3, i \in 1 .. w
  <2> HIDE DEF Rising
  <2>3. 0 .. w \subseteq Rising
    BY ONLY <1>3, <2>1, <2>2, UpTo
  <2> QED
    BY ONLY <2>3 DEF Rising
<1> DEFINE T == {i \in 1 .. w : a[i] = b[i]}
<1>11. w \in T /\ T \in SUBSET Nat
  BY ONLY <1>3, <1>4, <1>7
<1>12. PICK j \in T : \A k \in T : j <= k
  BY ONLY <1>11, LeastNatural
<1>13. j \in 1 .. w /\ a[j] = b[j]
  OBVIOUS
<1>14. a[j - 1] < b[j - 1]
  <2>1. a[j - 1] <= b[j - 1] /\ a[j - 1] \in Nat /\ b[j - 1] \in Nat
    BY ONLY <1>9, <1>10, <1>13
  <2>2. a[j - 1] # b[j - 1]
    <3>1. CASE j = 1
      BY ONLY <1>3, <1>4, <3>1, m < n, m \in Nat, n \in Nat
    <3>2. CASE j # 1
      <4>1. j - 1 \in 1 .. w /\ ~(j <= j - 1)
        BY ONLY <1>3, <1>13, <3>2
      <4> QED
        BY ONLY <1>12, <4>1
    <3> QED
      BY <3>1, <3>2
  <2> QED
    BY ONLY <2>1, <2>2
<1>15. \A i \in j .. w : a[i] = b[i]
  <2> DEFINE Same == {i \in 0 .. w : i < j \/ a[i] = b[i]}
  <2>1. 0 \in Same
    BY ONLY <1>3, <1>13
  <2>2. ASSUME NEW i \in 1 .. w, i - 1 \in Same  PROVE i \in Same
    <3>1. CASE i < j
      BY ONLY <1>9, <3>1, i \in 1 .. w
    <3>2. CASE i = j
      BY ONLY <1>9, <1>13, <3>2, i \in 1 .. w
    <3>3. CASE i > j
      <4>1. ~(i - 1 < j)
        BY ONLY <1>3, <1>13, <3>3, i \in 1 .. w
      <4>2. a[i - 1] = b[i - 1]
        BY ONLY <2>2, <4>1
      <4> QED
        BY ONLY <1>9, <4>2, i \in 1 .. w
    <3> QED
      BY ONLY <1>13, <3>1, <3>2, <3>3, i \in 1 .. w
  <2> HIDE DEF Same
  <2>3. 0 .. w \subseteq Same
    BY ONLY <1>3, <2>1, <2>2, UpTo
  <2>4. \A i \in j .. w : i \in 0 .. w /\ ~(i < j)
    BY ONLY <1>3, <1>13
  <2> QED
    BY ONLY <2>3, <2>4 DEF Same
<1>16. PICK i \in 1 .. w : i = w - j + 1
  BY ONLY <1>3, <1>13
<1>17. digit(d, i) < digit(e, i)
  <2>1. w - i = j - 1
    BY ONLY <1>3, <1>13, <1>16
  <2>2. PICK p \in Nat, q \in Nat : p = a[j - 1] /\ q = b[j - 1]
    BY ONLY <1>9, <1>13
  <2>3. p < q /\ p \div 10 = q \div 10
    BY ONLY <1>9, <1>13, <1>14, <2>2
  <2>4. p % 10 < q % 10
    BY ONLY <2>3, p \in Nat, q \in Nat, Tenth
  <2>5. d[i] < e[i]
    BY ONLY <1>8, <2>1, <2>2, <2>4, i \in 1 .. w
  <2>6. i <= Len(d) /\ i <= Len(e)
    BY ONLY <1>3, <1>5, <1>6, i \in 1 .. w
  <2> QED
    BY ONLY <2>5, <2>6 DEF digit
<1>18. ASSUME NEW k \in 1 .. i - 1  PROVE digit(d, k) = digit(e, k)
  <2>1. k \in 1 .. w /\ k <= w /\ w - k \in j .. w
    BY ONLY <1>3, <1>13, <1>16, k \in 1 .. i - 1, i \in 1 .. w
  <2>2. d[k] = e[k]
    BY ONLY <1>8, <1>15, <2>1, Zenon
  <2> QED
    BY ONLY <1>5, <1>6, <2>1, <2>2, Zenon DEF digit
<1>19. Lesser(d, e)
  <2>1. i \in Nat /\ i >= 1
    BY ONLY <1>3, i \in 1 .. w
  <2> QED
    BY ONLY <1>17, <1>18, <2>1, Zenon DEF Lesser, Below
<1> QED
  BY ONLY <1>5, <1>19, TextOrder DEF d, e

-----------------------------------------------------------------------------
(* The events of a summary.                                                 *)

Entries == {entry(u.event) : u \in Stories}

\* No time is before one that it stands behind.
Sorted(list) ==
    \A i, j \in 1 .. Len(list) :
        i < j => ~Lesser(digits(list[j].time), digits(list[i].time))

Lists == {list \in Seq(Entries) : Sorted(list)}

LEMMA EntryTimes == \A e \in Entries : e.time \in Nat
<1>1. ASSUME NEW u \in Stories  PROVE entry(u.event).time \in Nat
  <2>1. PICK r \in Reports : parsable(message(r)) /\ u = parse_message(message(r))
    BY DEF Stories
  <2>2. time_of(message(r))[1] \in DOMAIN Number
    BY <2>1 DEF parsable
  <2>3. Number[time_of(message(r))[1]] \in Nat
    BY <2>2, ReportAssumption
  <2>4. entry(u.event).time = Number[time_of(message(r))[1]]
    BY <2>1 DEF parse_message, entry
  <2> QED
    BY <2>3, <2>4
<1> QED
  BY <1>1 DEF Entries

\* An element that is put in between.
LEMMA Inserted ==
    ASSUME NEW S, NEW s \in Seq(S), NEW e \in S, NEW at \in 1 .. Len(s) + 1
    PROVE  /\ InsertAt(s, at, e) \in Seq(S) /\ Len(InsertAt(s, at, e)) = Len(s) + 1
           /\ \A i \in 1 .. Len(s) + 1 :
                 InsertAt(s, at, e)[i] = IF i < at THEN s[i]
                                         ELSE IF i = at THEN e ELSE s[i - 1]
<1>1. PICK n \in Nat : n = Len(s)
  BY LenProperties
<1>2. \A i \in 1 .. n : s[i] \in S
  BY <1>1, ElementOfSeq
<1> DEFINE p == SubSeq(s, 1, at - 1)
<1> DEFINE q == SubSeq(s, at, n)
<1>3. at \in Int /\ at - 1 \in Int /\ 1 <= at /\ at <= n + 1
  BY <1>1
<1>4. p \in Seq(S) /\ Len(p) = at - 1 /\ \A i \in 1 .. at - 1 : p[i] = s[i]
  <2>1. \A i \in 1 .. at - 1 : s[i] \in S
    BY ONLY <1>2, <1>3, n \in Nat
  <2>2. p \in Seq(S)
    BY ONLY <1>3, <2>1, SubSeqProperties
  <2>3. Len(p) = IF 1 <= at - 1 THEN (at - 1) - 1 + 1 ELSE 0
    BY ONLY <1>3, <2>1, SubSeqProperties
  <2>4. \A i \in 1 .. (at - 1) - 1 + 1 : p[i] = s[1 + i - 1]
    BY ONLY <1>3, <2>1, SubSeqProperties
  <2> HIDE DEF p
  <2>5. \A i \in 1 .. at - 1 : i \in 1 .. (at - 1) - 1 + 1 /\ 1 + i - 1 = i
    BY ONLY <1>3
  <2>6. \A i \in 1 .. at - 1 : p[i] = s[i]
    BY ONLY <2>4, <2>5
  <2> QED
    BY ONLY <1>3, <2>2, <2>3, <2>6
<1>5. /\ q \in Seq(S) /\ Len(q) = n - at + 1
      /\ \A i \in 1 .. n - at + 1 : q[i] = s[at + i - 1]
  <2>1. \A i \in at .. n : s[i] \in S
    BY ONLY <1>2, <1>3, n \in Nat
  <2>2. q \in Seq(S)
    BY ONLY <1>3, <2>1, n \in Nat, SubSeqProperties
  <2>3. Len(q) = IF at <= n THEN n - at + 1 ELSE 0
    BY ONLY <1>3, <2>1, n \in Nat, SubSeqProperties
  <2>4. \A i \in 1 .. n - at + 1 : q[i] = s[at + i - 1]
    BY ONLY <1>3, <2>1, n \in Nat, SubSeqProperties
  <2> HIDE DEF q
  <2> QED
    BY ONLY <1>3, <2>2, <2>3, <2>4, n \in Nat
<1>6. InsertAt(s, at, e) = (p \o <<e>>) \o q
  BY ONLY <1>1, Zenon DEF InsertAt
<1> HIDE DEF p, q
<1>7. <<e>> \in Seq(S) /\ Len(<<e>>) = 1 /\ <<e>>[1] = e
  OBVIOUS
<1> DEFINE o == <<e>>
<1> HIDE DEF o
<1>8. /\ p \o o \in Seq(S) /\ Len(p \o o) = at
      /\ \A i \in 1 .. at : (p \o o)[i] = IF i <= at - 1 THEN p[i] ELSE o[i - (at - 1)]
  <2>1. o \in Seq(S) /\ Len(o) = 1
    BY ONLY <1>7 DEF o
  <2>2. /\ p \o o \in Seq(S) /\ Len(p \o o) = Len(p) + Len(o)
        /\ \A i \in 1 .. Len(p) + Len(o) :
              (p \o o)[i] = IF i <= Len(p) THEN p[i] ELSE o[i - Len(p)]
    BY ONLY <1>4, <2>1, ConcatProperties
  <2>3. Len(p) + Len(o) = at
    BY ONLY <1>3, <1>4, <2>1
  <2> QED
    BY ONLY <1>4, <2>2, <2>3, Zenon
<1> DEFINE po == p \o o
<1> HIDE DEF po
<1>9. /\ po \o q \in Seq(S) /\ Len(po \o q) = n + 1
      /\ \A i \in 1 .. n + 1 : (po \o q)[i] = IF i <= at THEN po[i] ELSE q[i - at]
  <2>1. po \in Seq(S) /\ Len(po) = at
    BY ONLY <1>8 DEF po
  <2>2. /\ po \o q \in Seq(S) /\ Len(po \o q) = Len(po) + Len(q)
        /\ \A i \in 1 .. Len(po) + Len(q) :
              (po \o q)[i] = IF i <= Len(po) THEN po[i] ELSE q[i - Len(po)]
    BY ONLY <1>5, <2>1, ConcatProperties
  <2>3. Len(po) + Len(q) = n + 1
    BY ONLY <1>3, <1>5, <2>1, n \in Nat
  <2> QED
    BY ONLY <2>1, <2>2, <2>3, Zenon
<1>10. InsertAt(s, at, e) = po \o q
  BY ONLY <1>6, Zenon DEF po, o
<1>11. ASSUME NEW i \in 1 .. n + 1
       PROVE  (po \o q)[i] = IF i < at THEN s[i] ELSE IF i = at THEN e ELSE s[i - 1]
  <2>1. CASE i < at
    <3>1. i \in 1 .. at /\ i <= at /\ i <= at - 1 /\ i \in 1 .. at - 1
      BY ONLY <1>3, <2>1, i \in 1 .. n + 1, n \in Nat
    <3>2. (po \o q)[i] = s[i]
      BY ONLY <1>4, <1>8, <1>9, <3>1, i \in 1 .. n + 1, Zenon DEF po
    <3> QED
      BY ONLY <2>1, <3>2, Zenon
  <2>2. CASE i = at
    <3>1. at \in 1 .. at /\ at <= at /\ ~(at <= at - 1) /\ at - (at - 1) = 1 /\ ~(at < at)
      BY ONLY <1>3
    <3>2. po[at] = o[at - (at - 1)]
      BY ONLY <1>8, <3>1, Zenon DEF po
    <3>3. po[at] = e
      BY ONLY <1>7, <3>1, <3>2 DEF o
    <3>4. (po \o q)[i] = e
      BY ONLY <1>9, <2>2, <3>1, <3>3, i \in 1 .. n + 1, Zenon
    <3> QED
      BY ONLY <2>2, <3>1, <3>4, Zenon
  <2>3. CASE i > at
    <3>1. /\ i - at \in 1 .. n - at + 1 /\ ~(i <= at) /\ ~(i < at) /\ i # at
          /\ at + (i - at) - 1 = i - 1
      BY ONLY <1>3, <2>3, i \in 1 .. n + 1, n \in Nat
    <3>2. (po \o q)[i] = q[i - at]
      BY ONLY <1>9, <3>1, i \in 1 .. n + 1, Zenon
    <3>3. q[i - at] = s[i - 1]
      BY ONLY <1>5, <3>1
    <3> QED
      BY ONLY <3>1, <3>2, <3>3, Zenon
  <2>4. i < at \/ i = at \/ i > at
    BY ONLY <1>3, i \in 1 .. n + 1
  <2> QED
    BY ONLY <2>1, <2>2, <2>3, <2>4, Zenon
<1> QED
  BY ONLY <1>1, <1>9, <1>10, <1>11, Zenon

LEMMA Placed ==
    ASSUME NEW list \in Lists, NEW e \in Entries
    PROVE  place(list, e) \in Lists
<1>1. list \in Seq(Entries) /\ Sorted(list)
  BY DEF Lists
<1>2. PICK n \in Nat : n = Len(list)
  BY <1>1, LenProperties
<1> DEFINE there == \E i \in DOMAIN list : list[i].time = e.time /\ list[i].name = e.name
<1>3. CASE there
  BY <1>3 DEF place
<1>4. CASE ~there
  <2> DEFINE Fits(i) == i = n + 1 \/ key_before(e, list[i])
  <2> DEFINE Place(i) == Fits(i) /\ \A j \in 1 .. i - 1 : ~key_before(e, list[j])
  <2>1. \E i \in 1 .. n + 1 : Place(i)
    <3> DEFINE T == {i \in 1 .. n + 1 : Fits(i)}
    <3>1. n + 1 \in T /\ T \in SUBSET Nat
      BY ONLY n \in Nat
    <3>2. PICK i \in T : \A k \in T : i <= k
      BY ONLY <3>1, LeastNatural
    <3>3. ASSUME NEW j \in 1 .. i - 1  PROVE ~key_before(e, list[j])
      <4>1. j \in 1 .. n + 1 /\ ~(i <= j)
        BY ONLY <3>2, j \in 1 .. i - 1, n \in Nat
      <4> QED
        BY ONLY <3>2, <4>1
    <3> QED
      BY ONLY <3>2, <3>3
  <2> DEFINE at == CHOOSE i \in 1 .. n + 1 : Place(i)
  <2>2. at \in 1 .. n + 1 /\ Place(at)
    <3> HIDE DEF Place
    <3> QED
      BY ONLY <2>1
  <2>3. place(list, e) = InsertAt(list, at, e)
    BY ONLY <1>2, <1>4, Zenon DEF place
  <2> HIDE DEF at
  <2> DEFINE new == InsertAt(list, at, e)
  <2>4. /\ new \in Seq(Entries) /\ Len(new) = n + 1
        /\ \A i \in 1 .. n + 1 : new[i] = IF i < at THEN list[i]
                                          ELSE IF i = at THEN e ELSE list[i - 1]
    <3> HIDE DEF Place
    <3>1. at \in 1 .. Len(list) + 1
      BY ONLY <1>2, <2>2
    <3>2. /\ new \in Seq(Entries) /\ Len(new) = Len(list) + 1
          /\ \A i \in 1 .. Len(list) + 1 :
                new[i] = IF i < at THEN list[i] ELSE IF i = at THEN e ELSE list[i - 1]
      BY ONLY <1>1, <3>1, e \in Entries, Inserted
    <3> QED
      BY ONLY <1>2, <3>2, Zenon
  <2> HIDE DEF new
  <2> DEFINE text(x) == digits(x.time)
  <2>5. \A x \in Entries : text(x) \in Seq(Digit)
    BY EntryTimes, DigitTypes
  <2>6. \A i \in 1 .. n : list[i] \in Entries
    BY <1>1, <1>2, ElementOfSeq
  <2>7. \A i, j \in 1 .. n : i < j => ~Lesser(text(list[j]), text(list[i]))
    BY ONLY <1>1, <1>2, Zenon DEF Sorted
  <2>8. \A x \in Entries : /\ Lesser(text(e), text(x)) => key_before(e, x)
                           /\ key_before(e, x) => \/ Lesser(text(e), text(x))
                                                  \/ text(e) = text(x)
    <3>1. ASSUME NEW x \in Entries  PROVE text_before(text(e), text(x)) <=> Lesser(text(e), text(x))
      <4> HIDE DEF text
      <4> QED
        BY ONLY <2>5, x \in Entries, e \in Entries, TextOrder
    <3> QED
      BY ONLY <3>1, Zenon DEF key_before
  <2>9. ASSUME NEW i \in 1 .. at - 1, i \in 1 .. n  PROVE ~Lesser(text(e), text(list[i]))
    BY ONLY <2>2, <2>6, <2>8, <2>9, i \in 1 .. at - 1, Zenon
  <2>10. ASSUME NEW i \in at .. n, i \in 1 .. n  PROVE ~Lesser(text(list[i]), text(e))
    <3> HIDE DEF text, Place, Fits
    <3>1. at # n + 1 /\ at \in 1 .. n /\ (at = i \/ at < i)
      BY ONLY <2>2, i \in at .. n, n \in Nat
    <3>2. key_before(e, list[at])
      BY ONLY <2>2, <3>1, Zenon DEF Place, Fits
    <3>3. Lesser(text(e), text(list[at])) \/ text(e) = text(list[at])
      BY ONLY <2>6, <2>8, <3>1, <3>2, Zenon
    <3>4. text(e) \in Seq(Digit) /\ text(list[at]) \in Seq(Digit) /\ text(list[i]) \in Seq(Digit)
      BY ONLY <2>5, <2>6, <2>10, <3>1, e \in Entries, Zenon
    <3>5. ~Lesser(text(list[i]), text(list[at]))
      <4>1. CASE at = i
        BY ONLY <3>4, <4>1, LesserFacts
      <4>2. CASE at < i
        BY ONLY <2>7, <2>10, <3>1, <4>2, Zenon
      <4> QED
        BY ONLY <3>1, <4>1, <4>2, Zenon
    <3>6. Lesser(text(list[i]), text(e)) /\ Lesser(text(e), text(list[at]))
             => Lesser(text(list[i]), text(list[at]))
      BY ONLY <3>4, LesserFacts
    <3> QED
      BY ONLY <3>3, <3>5, <3>6, Zenon
  <2>11. ASSUME NEW i \in 1 .. n + 1, NEW j \in 1 .. n + 1, i < j
         PROVE  ~Lesser(text(new[j]), text(new[i]))
    <3> HIDE DEF text
    <3>1. CASE j < at
      <4>1. /\ i \in 1 .. n /\ j \in 1 .. n /\ i < at
        BY ONLY <2>2, <2>11, <3>1, n \in Nat, i \in 1 .. n + 1, j \in 1 .. n + 1
      <4> QED
        BY ONLY <2>4, <2>7, <2>11, <3>1, <4>1, i \in 1 .. n + 1, j \in 1 .. n + 1, Zenon
    <3>2. CASE j = at
      <4>1. i \in 1 .. at - 1 /\ i \in 1 .. n /\ i < at /\ ~(j < at)
        BY ONLY <2>2, <2>11, <3>2, n \in Nat, i \in 1 .. n + 1, j \in 1 .. n + 1
      <4>2. new[i] = list[i] /\ new[j] = e
        BY ONLY <2>4, <3>2, <4>1, i \in 1 .. n + 1, j \in 1 .. n + 1, Zenon
      <4> QED
        BY ONLY <2>9, <4>1, <4>2, Zenon
    <3>3. CASE i < at /\ at < j
      <4>1. /\ i \in 1 .. n /\ j - 1 \in 1 .. n /\ ~(j < at) /\ j # at /\ i < j - 1
        BY ONLY <2>2, <3>3, n \in Nat, i \in 1 .. n + 1, j \in 1 .. n + 1
      <4>2. new[i] = list[i] /\ new[j] = list[j - 1]
        BY ONLY <2>4, <3>3, <4>1, i \in 1 .. n + 1, j \in 1 .. n + 1, Zenon
      <4> QED
        BY ONLY <2>7, <4>1, <4>2, Zenon
    <3>4. CASE i = at /\ at < j
      <4>1. /\ ~(i < at) /\ j - 1 \in at .. n /\ j - 1 \in 1 .. n /\ ~(j < at) /\ j # at
        BY ONLY <2>2, <3>4, n \in Nat, i \in 1 .. n + 1, j \in 1 .. n + 1
      <4>2. new[i] = e /\ new[j] = list[j - 1]
        BY ONLY <2>4, <3>4, <4>1, i \in 1 .. n + 1, j \in 1 .. n + 1, Zenon
      <4> QED
        BY ONLY <2>10, <4>1, <4>2, Zenon
    <3>5. CASE at < i
      <4>1. /\ ~(i < at) /\ i # at /\ ~(j < at) /\ j # at
            /\ i - 1 \in 1 .. n /\ j - 1 \in 1 .. n /\ i - 1 < j - 1
        BY ONLY <2>2, <2>11, <3>5, n \in Nat, i \in 1 .. n + 1, j \in 1 .. n + 1
      <4>2. new[i] = list[i - 1] /\ new[j] = list[j - 1]
        BY ONLY <2>4, <4>1, i \in 1 .. n + 1, j \in 1 .. n + 1, Zenon
      <4> QED
        BY ONLY <2>7, <4>1, <4>2, Zenon
    <3>6. j < at \/ j = at \/ (i < at /\ at < j) \/ (i = at /\ at < j) \/ at < i
      BY ONLY <2>2, <2>11, n \in Nat, i \in 1 .. n + 1, j \in 1 .. n + 1
    <3> QED
      BY ONLY <3>1, <3>2, <3>3, <3>4, <3>5, <3>6, Zenon
  <2>12. Sorted(new)
    BY ONLY <2>4, <2>11, Zenon DEF Sorted
  <2> QED
    BY ONLY <2>3, <2>4, <2>12 DEF Lists, new
<1> QED
  BY <1>3, <1>4

LEMMA ListingLoop ==
    ASSUME ReportsIInv, NEW user, NEW game
    PROVE  event_stats(user, game) \in Lists
<1>1. PICK n \in Nat : n = Len(updates)
  BY ReportsTyped
<1>2. \A i \in 1 .. n : entry(updates[i].event) \in Entries
  <2>1. updates \in Seq(Stories)
    BY DEF ReportsIInv
  <2>2. \A i \in 1 .. n : updates[i] \in Stories
    BY ONLY <1>1, <2>1, ElementOfSeq
  <2> QED
    BY ONLY <2>2 DEF Entries
<1> DEFINE step == [x \in (1 .. n) \X Lists |->
                       IF tells(updates[x[1]], user, game)
                       THEN place(x[2], entry(updates[x[1]].event)) ELSE x[2]]
<1>3. \A i \in 1 .. n, q \in Lists : place(q, entry(updates[i].event)) \in Lists
  BY <1>2, Placed
<1>4. step \in [(1 .. n) \X Lists -> Lists]
  BY ONLY <1>3
<1>5. \A i \in 1 .. n, q \in Lists :
         step[<<i, q>>] = IF tells(updates[i], user, game)
                          THEN place(q, entry(updates[i].event)) ELSE q
  OBVIOUS
<1>6. <<>> \in Lists
  <2>1. <<>> \in Seq(Entries) /\ Len(<<>>) = 0
    BY EmptySeq
  <2>2. \A i, j \in 1 .. Len(<<>>) : FALSE
    BY ONLY <2>1
  <2> QED
    BY ONLY <2>1, <2>2 DEF Lists, Sorted
<1> HIDE DEF step
<1>7. PICK f : Loop(f, n, Lists, <<>>, step)
  BY ONLY <1>4, <1>6, n \in Nat, LoopExists, Zenon
<1>8. \A i \in 1 .. n : i - 1 \in 0 .. n /\ i \in 0 .. n /\ i # 0
  OBVIOUS
<1> DEFINE body(h, i) == IF i = 0 THEN <<>>
                         ELSE IF tells(updates[i], user, game)
                         THEN place(h[i - 1], entry(updates[i].event))
                         ELSE h[i - 1]
<1>9. f \in [0 .. n -> Lists] /\ f[0] = body(f, 0)
  BY <1>7 DEF Loop
<1>10. ASSUME NEW i \in 1 .. n  PROVE f[i] = body(f, i)
  <2>1. f[i - 1] \in Lists /\ f[i] = step[<<i, f[i - 1]>>]
    BY <1>7, <1>8, <1>9 DEF Loop
  <2> QED
    BY ONLY <1>5, <1>8, <2>1, i \in 1 .. n
<1>11. ASSUME NEW h, h = [i \in 0 .. n |-> body(h, i)]  PROVE h = f
  <2>1. Alike(h, f, n)
    <3>1. 0 \in 0 .. n
      OBVIOUS
    <3>2. h[0] = f[0]
      BY ONLY <1>9, <1>11, <3>1
    <3>3. ASSUME NEW i \in 1 .. n, h[i - 1] = f[i - 1]  PROVE h[i] = f[i]
      <4>1. h[i] = body(h, i)
        <5> HIDE DEF body
        <5> QED
          BY ONLY <1>8, <1>11, i \in 1 .. n
      <4>2. body(h, i) = body(f, i)
        BY ONLY <3>3, Zenon
      <4> QED
        BY <1>10, <4>1, <4>2, Zenon
    <3> QED
      BY ONLY <3>2, <3>3, Zenon DEF Alike
  <2>2. \A i \in 0 .. n : h[i] = f[i]
    BY ONLY <2>1, n \in Nat, LoopUnique
  <2> HIDE DEF body
  <2> QED
    BY ONLY <1>9, <1>11, <2>2
<1>12. f = [i \in 0 .. n |-> body(f, i)]
  <2>1. \A i \in 0 .. n : i = 0 \/ i \in 1 .. n
    OBVIOUS
  <2> HIDE DEF body
  <2> QED
    BY ONLY <1>9, <1>10, <2>1
<1>13. event_stats(user, game) = f[n]
  BY ONLY <1>1, <1>11, <1>12 DEF event_stats
<1>14. n \in 0 .. n
  OBVIOUS
<1> QED
  BY ONLY <1>9, <1>13, <1>14

\* In the list of events the shorter of two times with as many digits is first.
THEOREM EventsAreListedInOrder == ReportsSpec => []OrderedWithinWidth
<1>1. ASSUME NEW list \in Lists, NEW i \in DOMAIN list, NEW j \in DOMAIN list, i < j,
             Len(digits(list[i].time)) = Len(digits(list[j].time))
      PROVE  list[i].time <= list[j].time
  <2>1. list \in Seq(Entries) /\ Sorted(list)
    BY DEF Lists
  <2>2. i \in 1 .. Len(list) /\ j \in 1 .. Len(list)
    BY ONLY <2>1, i \in DOMAIN list, j \in DOMAIN list, LenProperties
  <2>3. list[i].time \in Nat /\ list[j].time \in Nat
    BY ONLY <2>1, <2>2, ElementOfSeq, EntryTimes
  <2>4. ~Lesser(digits(list[j].time), digits(list[i].time))
    BY ONLY <1>1, <2>1, <2>2, Zenon DEF Sorted
  <2>5. PICK m \in Nat, n \in Nat : m = list[i].time /\ n = list[j].time
    BY ONLY <2>3
  <2>6. ~text_before(digits(n), digits(m))
    <3>1. digits(n) \in Seq(Digit) /\ digits(m) \in Seq(Digit)
      BY DigitTypes
    <3> QED
      BY ONLY <2>4, <2>5, <3>1, TextOrder
  <2>7. Len(digits(m)) = Len(digits(n))
    BY ONLY <1>1, <2>5, Zenon
  <2>8. ~(n < m)
    BY ONLY <2>6, <2>7, SameWidth, m \in Nat, n \in Nat
  <2> QED
    BY ONLY <2>5, <2>8
<1>2. ReportsIInv => OrderedWithinWidth
  <2>1. ASSUME ReportsIInv, NEW r \in Range(reported)
        PROVE  event_stats(r.user, game_of(r)) \in Lists
    BY ONLY <2>1, ListingLoop
  <2> QED
    BY ONLY <1>1, <2>1, Zenon DEF OrderedWithinWidth
<1> QED
  BY <1>2, ReportsInvariant, PTL
=============================================================================
