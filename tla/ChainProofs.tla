----------------------------- MODULE ChainProofs -----------------------------
(***************************************************************************)
(* Theorems about one partition: for any keys, batch size, segment size,   *)
(* numbers of segments, lines and processes, and any failing operation,    *)
(* its files form one verifiable chain, sealed at every seam and declared  *)
(* where it was cut, unless one of the four windows was met.               *)
(***************************************************************************)
EXTENDS Chain, WellFoundedInduction, TLAPS

(* One file.                                                               *)

\* A file of segment s: Walks, with the sequence numbers counted from the header.
Whole(f, s) ==
  /\ f # <<>> /\ f[1].kind = "header" /\ f[1].segment = s /\ f[1].seq > 0
  /\ IF s > 1 THEN f[1].prev # NoHash ELSE f[1].seq = 1 /\ f[1].prev = NoHash
  /\ \A i \in 1 .. Len(f) : f[i].seq = f[1].seq + i - 1
  /\ \A i \in 2 .. Len(f) : f[i].prev = Hash(f[i-1]) /\ f[i].kind # "header"
  /\ \A i \in 1 .. Len(f) : f[i].kind = "batchsig" => f[i].kid = f[1].kid

LastLine(f) == f[Len(f)]

LEMMA LineTypes ==
  \A l \in Line : /\ l.seq \in Nat /\ l.instance \in Nat /\ l.through \in Nat
                   /\ l.kid \in Keys \cup {NoKey} /\ l.kind \in Kinds
BY DEF Line

LEMMA LinesOf ==
  ASSUME NEW f \in Seq(Line)
  PROVE  /\ Len(f) \in Nat
         /\ \A i \in 1 .. Len(f) : f[i] \in Line /\ f[i].seq \in Nat
         /\ f # <<>> => /\ Len(f) > 0 /\ LastLine(f) \in Line /\ LastLine(f).seq \in Nat
                        /\ f[1] \in Line /\ f[1].seq \in Nat
<1>1. Len(f) \in Nat /\ \A i \in 1 .. Len(f) : f[i] \in Line
  OBVIOUS
<1>2. \A i \in 1 .. Len(f) : f[i].seq \in Nat
  BY <1>1, LineTypes
<1>3. f # <<>> => Len(f) > 0 /\ 1 \in 1 .. Len(f) /\ Len(f) \in 1 .. Len(f)
  BY <1>1
<1> QED  BY <1>1, <1>2, <1>3 DEF LastLine

LEMMA WholeWalks ==
  ASSUME NEW f \in Seq(Line), NEW s \in Nat \ {0}, Whole(f, s)
  PROVE  Walks(f)
<1>1. Len(f) \in Nat /\ Len(f) > 0
  BY DEF Whole
<1>2. \A i \in 1 .. Len(f) : f[i].seq \in Nat
  BY LinesOf
<1>3. Anchored(f) /\ HeaderFirst(f) /\ OneKey(f)
  BY DEF Whole, Anchored, HeaderFirst, OneKey
<1>4. Linked(f)
  <2> SUFFICES ASSUME NEW i \in 2 .. Len(f)
               PROVE  f[i].seq = f[i-1].seq + 1 /\ f[i].prev = Hash(f[i-1])
    BY DEF Linked
  <2>1. i \in 1 .. Len(f) /\ i - 1 \in 1 .. Len(f) /\ 1 \in 1 .. Len(f)
    BY <1>1
  <2>2. f[i].seq = f[1].seq + i - 1 /\ f[i-1].seq = f[1].seq + (i - 1) - 1
    BY <2>1 DEF Whole
  <2>3. f[1].seq \in Nat /\ i \in Nat
    BY <1>1, <1>2, <2>1
  <2>4. f[i].prev = Hash(f[i-1])
    BY DEF Whole
  <2>5. f[i].seq = f[i-1].seq + 1
    BY <2>2, <2>3
  <2> QED  BY <2>4, <2>5
<1> QED  BY <1>3, <1>4 DEF Walks, Whole

LEMMA WholeAppend ==
  ASSUME NEW f \in Seq(Line), NEW s \in Nat \ {0}, Whole(f, s), NEW l \in Line,
         l.seq = LastLine(f).seq + 1, l.prev = Hash(LastLine(f)), l.kind # "header",
         l.kind = "batchsig" => l.kid = f[1].kid
  PROVE  Whole(Append(f, l), s)
<1> DEFINE g == Append(f, l)
<1>1. Len(f) \in Nat /\ Len(f) > 0
  BY DEF Whole
<1>2. /\ g # <<>> /\ Len(g) = Len(f) + 1 /\ g[1] = f[1] /\ g[Len(f) + 1] = l
      /\ \A i \in 1 .. Len(f) : g[i] = f[i]
  BY <1>1
<1>3. \A i \in 1 .. Len(f) : f[i].seq \in Nat
  BY LinesOf
<1> HIDE DEF g
<1>4. l.seq = f[1].seq + (Len(f) + 1) - 1
  <2>1. Len(f) \in 1 .. Len(f) /\ 1 \in 1 .. Len(f)
    BY <1>1
  <2>2. f[Len(f)].seq = f[1].seq + Len(f) - 1
    BY <2>1 DEF Whole
  <2> QED  BY <1>1, <1>3, <2>1, <2>2 DEF LastLine
<1>5. \A i \in 1 .. Len(g) : g[i].seq = g[1].seq + i - 1
  <2> SUFFICES ASSUME NEW i \in 1 .. Len(g) PROVE g[i].seq = g[1].seq + i - 1
    OBVIOUS
  <2>1. CASE i = Len(f) + 1
    BY <2>1, <1>2, <1>4
  <2>2. CASE i # Len(f) + 1
    <3>1. i \in 1 .. Len(f)
      BY <2>2, <1>1, <1>2
    <3> QED  BY <3>1, <1>2 DEF Whole
  <2> QED  BY <2>1, <2>2
<1>6. \A i \in 2 .. Len(g) : g[i].prev = Hash(g[i-1]) /\ g[i].kind # "header"
  <2> SUFFICES ASSUME NEW i \in 2 .. Len(g)
               PROVE  g[i].prev = Hash(g[i-1]) /\ g[i].kind # "header"
    OBVIOUS
  <2>1. CASE i = Len(f) + 1
    <3>1. i - 1 = Len(f) /\ Len(f) \in 1 .. Len(f)
      BY <2>1, <1>1
    <3> QED  BY <2>1, <3>1, <1>2 DEF LastLine
  <2>2. CASE i # Len(f) + 1
    <3>1. i \in 2 .. Len(f) /\ i \in 1 .. Len(f) /\ i - 1 \in 1 .. Len(f)
      BY <2>2, <1>1, <1>2
    <3> QED  BY <3>1, <1>2 DEF Whole
  <2> QED  BY <2>1, <2>2
<1>7. \A i \in 1 .. Len(g) : g[i].kind = "batchsig" => g[i].kid = g[1].kid
  <2> SUFFICES ASSUME NEW i \in 1 .. Len(g), g[i].kind = "batchsig" PROVE g[i].kid = g[1].kid
    OBVIOUS
  <2>1. CASE i = Len(f) + 1
    BY <2>1, <1>2
  <2>2. CASE i # Len(f) + 1
    <3>1. i \in 1 .. Len(f)
      BY <2>2, <1>1, <1>2
    <3> QED  BY <3>1, <1>2 DEF Whole
  <2> QED  BY <2>1, <2>2
<1>8. Whole(g, s)
  BY <1>2, <1>5, <1>6, <1>7 DEF Whole
<1> QED  BY <1>8 DEF g

LEMMA WholeCut ==
  ASSUME NEW f \in Seq(Line), NEW s \in Nat \ {0}, Whole(f, s), NEW k \in 1 .. Len(f)
  PROVE  Whole(SubSeq(f, 1, k), s)
<1> DEFINE g == SubSeq(f, 1, k)
<1>1. /\ Len(f) \in Nat /\ k \in Nat /\ k >= 1
      /\ g = [i \in 1 .. k |-> f[i]]
  OBVIOUS
<1>2. g \in Seq(Line) /\ Len(g) = k /\ g # <<>>
  BY <1>1
<1>3. \A i \in 1 .. k : g[i] = f[i] /\ i \in 1 .. Len(f)
  BY <1>1
<1> HIDE DEF g
<1>4. \A i \in 2 .. k : i \in 1 .. k /\ i - 1 \in 1 .. k /\ i \in 2 .. Len(f)
  BY <1>1
<1>5. 1 \in 1 .. k
  BY <1>1
<1>6. Whole(g, s)
  BY <1>2, <1>3, <1>4, <1>5, ZenonT(30) DEF Whole
<1> QED  BY <1>6 DEF g

LEMMA WholeNew ==
  ASSUME NEW l \in Line, NEW s \in Nat \ {0}, l.kind = "header", l.segment = s, l.seq > 0,
         IF s > 1 THEN l.prev # NoHash ELSE l.seq = 1 /\ l.prev = NoHash
  PROVE  Whole(<<l>>, s)
<1>1. <<l>> # <<>> /\ Len(<<l>>) = 1 /\ <<l>>[1] = l
  OBVIOUS
<1>2. l.seq \in Nat
  BY DEF Line
<1> QED  BY <1>1, <1>2 DEF Whole
-----------------------------------------------------------------------------
(* The files.                                                              *)

Convex(F) == \A s, t \in F : s .. t \subseteq F

\* What holds of segment s once another one follows it.
Sealed(L, Y, s) ==
  /\ L[s] # <<>> /\ Y[s] = Len(L[s]) /\ LastLine(L[s]).kind = "batchsig"
  /\ L[s + 1] # <<>> => Continues(L[s], L[s + 1])

\* Sequence numbers grow from file to file.
Ordered(L, F) ==
  \A s, t \in F : s < t =>
    \A i \in 1 .. Len(L[s]), j \in 1 .. Len(L[t]) : L[s][i].seq < L[t][j].seq

FilesOK(L, F, Y) ==
  /\ Convex(F) /\ Ordered(L, F)
  /\ \A s \in Segments \ F : L[s] = <<>> /\ Y[s] = 0
  /\ \A s \in F : Y[s] <= Len(L[s])
  /\ \A s \in F : L[s] # <<>> => Whole(L[s], s)
  /\ \A s \in F : s + 1 \in F => Sealed(L, Y, s)

\* The witness of PruneDeclared: a retention and a signature after it, both synced.
Covers(L, Y, t, n) ==
  \E i, j \in 1 .. Y[t] : /\ L[t][i].kind = "retention" /\ L[t][i].through >= n
                          /\ i < j /\ L[t][j].kind = "batchsig"

First(F, s) == s \in F /\ \A t \in F : s <= t

Declared(L, F, Y) ==
  \A s \in F : s > 1 /\ First(F, s) => \E t \in F : Covers(L, Y, t, L[s][1].seq - 1)

LEMMA AppendKeeps ==
  ASSUME NEW L \in [Segments -> Seq(Line)], NEW F \in SUBSET Segments,
         NEW Y \in [Segments -> Nat], FilesOK(L, F, Y),
         NEW s \in F, s + 1 \notin F, L[s] # <<>>, NEW l \in Line,
         l.seq = LastLine(L[s]).seq + 1, l.prev = Hash(LastLine(L[s])), l.kind # "header",
         l.kind = "batchsig" => l.kid = L[s][1].kid
  PROVE  FilesOK([L EXCEPT ![s] = Append(@, l)], F, Y)
<1> PICK M : M = [L EXCEPT ![s] = Append(@, l)]
  OBVIOUS
<1>1. /\ s \in Nat \ {0} /\ s \in Segments /\ F \subseteq Nat /\ L[s] \in Seq(Line)
      /\ M[s] = Append(L[s], l) /\ \A t \in Segments : t # s => M[t] = L[t]
  BY ChainAssumption DEF Segments
<1>2. Len(M[s]) = Len(L[s]) + 1 /\ Len(L[s]) \in Nat /\ M[s] # <<>> /\ M[s][1] = L[s][1]
  BY <1>1
<1>3. Whole(M[s], s) /\ Whole(L[s], s)
  BY <1>1, WholeAppend DEF FilesOK
<1>4. \A t \in F : t <= s
  <2> SUFFICES ASSUME NEW t \in F, t > s PROVE FALSE
    BY <1>1
  <2>1. s + 1 \in s .. t
    BY <1>1
  <2> QED  BY <2>1 DEF FilesOK, Convex
<1>5. Ordered(M, F)
  <2> SUFFICES ASSUME NEW a \in F, NEW b \in F, a < b,
                      NEW i \in 1 .. Len(M[a]), NEW j \in 1 .. Len(M[b])
               PROVE  M[a][i].seq < M[b][j].seq
    BY DEF Ordered
  <2>1. a # s /\ M[a] = L[a]
    BY <1>1, <1>4
  <2>2. CASE b # s
    BY <1>1, <2>1, <2>2 DEF FilesOK, Ordered
  <2>3. CASE b = s
    <3>1. L[a][i].seq < L[s][1].seq
      BY <1>2, <2>1, <2>3 DEF FilesOK, Ordered
    <3>2. M[s][j].seq = M[s][1].seq + j - 1
      BY <1>3, <2>3 DEF Whole
    <3>3. L[a] \in Seq(Line) /\ L[s][1] \in Line /\ j >= 1 /\ j \in Nat
      BY <1>1, <1>2, <2>3
    <3>4. L[a][i].seq \in Nat /\ L[s][1].seq \in Nat
      BY <1>1, <2>1, <3>3, LinesOf
    <3> QED  BY <1>2, <2>1, <2>3, <3>1, <3>2, <3>3, <3>4, SMTT(30)
  <2> QED  BY <2>2, <2>3
<1>6. \A t \in Segments \ F : M[t] = <<>> /\ Y[t] = 0
  BY <1>1 DEF FilesOK
<1>7. \A t \in F : Y[t] <= Len(M[t])
  BY <1>1, <1>2 DEF FilesOK
<1>8. \A t \in F : M[t] # <<>> => Whole(M[t], t)
  BY <1>1, <1>3 DEF FilesOK
<1>9. ASSUME NEW t \in F, t + 1 \in F PROVE Sealed(M, Y, t)
  <2>1. Sealed(L, Y, t) /\ t # s /\ M[t] = L[t]
    BY <1>1, <1>9 DEF FilesOK
  <2>2. CASE t + 1 = s
    BY <1>2, <2>1, <2>2 DEF Sealed, Continues
  <2>3. CASE t + 1 # s
    BY <1>1, <1>9, <2>1, <2>3 DEF Sealed
  <2> QED  BY <2>2, <2>3
<1> QED  BY <1>5, <1>6, <1>7, <1>8, <1>9 DEF FilesOK

LEMMA BeginKeeps ==
  ASSUME NEW L \in [Segments -> Seq(Line)], NEW F \in SUBSET Segments,
         NEW Y \in [Segments -> Nat], FilesOK(L, F, Y),
         NEW s \in Segments, L[s] = <<>>, \A t \in F : t <= s,
         NEW l \in Line, l.kind = "header", l.segment = s,
         \/ s = 1 /\ l.seq = 1 /\ l.prev = NoHash
         \/ /\ s > 1 /\ s - 1 \in F /\ L[s - 1] # <<>> /\ Y[s - 1] = Len(L[s - 1])
            /\ LastLine(L[s - 1]).kind = "batchsig"
            /\ l.seq = LastLine(L[s - 1]).seq + 1 /\ l.prev = Hash(LastLine(L[s - 1]))
  PROVE  FilesOK([L EXCEPT ![s] = <<l>>], F \cup {s}, Y)
<1> PICK M : M = [L EXCEPT ![s] = <<l>>]
  OBVIOUS
<1> PICK G : G = F \cup {s}
  OBVIOUS
<1>1. /\ s \in Nat \ {0} /\ G \subseteq Nat /\ F \subseteq Nat /\ G \subseteq Segments
      /\ M[s] = <<l>> /\ \A t \in Segments : t # s => M[t] = L[t]
  <2>1. Segments \subseteq Nat /\ 0 \notin Segments
    BY ChainAssumption DEF Segments
  <2>2. G \subseteq Segments
    OBVIOUS
  <2> QED  BY <2>1, <2>2
<1>2. M[s] # <<>> /\ Len(M[s]) = 1 /\ M[s][1] = l
  BY <1>1
<1>3. s > 1 => /\ LastLine(L[s - 1]) \in Line /\ LastLine(L[s - 1]).seq \in Nat
               /\ LastLine(L[s - 1]).instance \in Nat /\ LastLine(L[s - 1]).seq > 0
  <2> SUFFICES ASSUME s > 1 PROVE /\ LastLine(L[s - 1]) \in Line /\ LastLine(L[s - 1]).seq \in Nat
                                  /\ LastLine(L[s - 1]).instance \in Nat /\ LastLine(L[s - 1]).seq > 0
    OBVIOUS
  <2>1. s - 1 \in Segments /\ L[s - 1] \in Seq(Line) /\ L[s - 1] # <<>> /\ Whole(L[s - 1], s - 1)
    BY <1>1 DEF FilesOK
  <2>2. Len(L[s - 1]) \in 1 .. Len(L[s - 1]) /\ 1 \in 1 .. Len(L[s - 1])
    BY <2>1
  <2>3. LastLine(L[s - 1]) \in Line /\ L[s - 1][1] \in Line
    BY <2>1, <2>2 DEF LastLine
  <2>4. LastLine(L[s - 1]).seq = L[s - 1][1].seq + Len(L[s - 1]) - 1 /\ L[s - 1][1].seq > 0
    BY <2>1, <2>2 DEF Whole, LastLine
  <2>5. LastLine(L[s - 1]).seq \in Nat /\ LastLine(L[s - 1]).instance \in Nat
        /\ L[s - 1][1].seq \in Nat
    BY <2>3, LineTypes
  <2> QED  BY <2>2, <2>3, <2>4, <2>5
<1>4. Whole(M[s], s)
  <2>1. CASE s = 1
    BY <1>1, <2>1, WholeNew
  <2>2. CASE s > 1
    <3>1. l.prev # NoHash
      BY <1>3, <2>2 DEF Hash, NoHash
    <3>2. l.seq > 0
      BY <1>3, <2>2
    <3> QED  BY <1>1, <2>2, <3>1, <3>2, WholeNew
  <2> QED  BY <1>1, <2>1, <2>2
<1>5. Convex(G)
  <2> SUFFICES ASSUME NEW a \in G, NEW b \in G, NEW u \in a .. b PROVE u \in G
    BY DEF Convex
  <2>1. CASE a \in F /\ b \in F
    BY <2>1 DEF FilesOK, Convex
  <2>2. CASE a = s
    <3>1. u = s
      BY <1>1, <2>2
    <3> QED  BY <3>1
  <2>3. CASE a # s /\ b = s
    <3>1. a \in F /\ s > 1 /\ s - 1 \in F
      BY <1>1, <2>3 DEF Segments
    <3>2. u = s \/ u \in a .. s - 1
      BY <1>1, <2>3
    <3> QED  BY <3>1, <3>2 DEF FilesOK, Convex
  <2> QED  BY <2>1, <2>2, <2>3
<1>6. Ordered(M, G)
  <2> SUFFICES ASSUME NEW a \in G, NEW b \in G, a < b,
                      NEW i \in 1 .. Len(M[a]), NEW j \in 1 .. Len(M[b])
               PROVE  M[a][i].seq < M[b][j].seq
    BY DEF Ordered
  <2>1. a # s /\ M[a] = L[a] /\ a \in F
    BY <1>1
  <2>2. CASE b # s
    BY <1>1, <2>1, <2>2 DEF FilesOK, Ordered
  <2>3. CASE b = s
    <3>1. s > 1 /\ s - 1 \in F /\ j = 1 /\ M[b][j] = l
      BY <1>1, <1>2, <2>1, <2>3 DEF Segments
    <3>2. l.seq = LastLine(L[s - 1]).seq + 1 /\ LastLine(L[s - 1]).seq \in Nat
      BY <1>3, <3>1
    <3>3. L[a] \in Seq(Line) /\ L[a][i] \in Line
      BY <1>1, <2>1
    <3>4. L[a][i].seq \in Nat
      BY <3>3, LineTypes
    <3>5. L[a][i].seq <= LastLine(L[s - 1]).seq
      <4>1. CASE a = s - 1
        <5>1. Whole(L[a], a)
          BY <4>1, <3>1 DEF FilesOK
        <5>2. Len(L[a]) \in 1 .. Len(L[a])
          BY <2>1, <3>3
        <5>3. L[a][i].seq = L[a][1].seq + i - 1 /\ L[a][Len(L[a])].seq = L[a][1].seq + Len(L[a]) - 1
          BY <2>1, <5>1, <5>2 DEF Whole
        <5>4. L[a][1].seq \in Nat
          BY <2>1, <3>3, LinesOf
        <5>5. i \in Nat /\ i <= Len(L[a]) /\ Len(L[a]) \in Nat
          BY <2>1, <3>3
        <5>6. L[a][i].seq <= L[a][Len(L[a])].seq
          BY <5>3, <5>4, <5>5
        <5> QED  BY <4>1, <5>6 DEF LastLine
      <4>2. CASE a # s - 1
        <5>1. a < s - 1
          BY <1>1, <2>1, <2>3, <4>2
        <5>2. Len(L[s - 1]) \in 1 .. Len(L[s - 1])
          BY <1>1, <3>1
        <5>3. L[a][i].seq < LastLine(L[s - 1]).seq
          BY <2>1, <3>1, <5>1, <5>2 DEF FilesOK, Ordered, LastLine
        <5> QED  BY <3>2, <3>4, <5>3
      <4> QED  BY <4>1, <4>2
    <3> QED  BY <2>1, <3>1, <3>2, <3>4, <3>5, SMTT(30)
  <2> QED  BY <2>2, <2>3
<1>7. \A t \in Segments \ G : M[t] = <<>> /\ Y[t] = 0
  BY <1>1 DEF FilesOK
<1>8. \A t \in G : Y[t] <= Len(M[t])
  <2>1. Y[s] = 0
    BY <1>1 DEF FilesOK
  <2> QED  BY <1>1, <1>2, <2>1 DEF FilesOK
<1>9. \A t \in G : M[t] # <<>> => Whole(M[t], t)
  BY <1>1, <1>4 DEF FilesOK
<1>10. ASSUME NEW t \in G, t + 1 \in G PROVE Sealed(M, Y, t)
  <2>1. t # s /\ t \in F /\ M[t] = L[t]
    BY <1>1, <1>10
  <2>2. CASE t + 1 = s
    <3>1. s > 1 /\ t = s - 1
      BY <1>1, <2>1, <2>2 DEF Segments
    <3> QED  BY <1>1, <1>2, <2>1, <2>2, <3>1 DEF Sealed, Continues, LastLine
  <2>3. CASE t + 1 # s
    <3>1. t + 1 \in F /\ M[t + 1] = L[t + 1]
      BY <1>1, <1>10, <2>3
    <3> QED  BY <2>1, <3>1 DEF FilesOK, Sealed
  <2> QED  BY <2>2, <2>3
<1> QED  BY <1>5, <1>6, <1>7, <1>8, <1>9, <1>10 DEF FilesOK

LEMMA CutKeeps ==
  ASSUME NEW L \in [Segments -> Seq(Line)], NEW F \in SUBSET Segments,
         NEW Y \in [Segments -> Nat], FilesOK(L, F, Y),
         NEW s \in F, NEW k \in Nat, Y[s] <= k, k <= Len(L[s]),
         s + 1 \in F => k = Len(L[s])
  PROVE  FilesOK([L EXCEPT ![s] = SubSeq(@, 1, k)], F, Y)
<1> PICK M : M = [L EXCEPT ![s] = SubSeq(@, 1, k)]
  OBVIOUS
<1>1. /\ s \in Nat \ {0} /\ s \in Segments /\ F \subseteq Nat /\ F \subseteq Segments
      /\ L[s] \in Seq(Line) /\ Len(L[s]) \in Nat
      /\ M[s] = SubSeq(L[s], 1, k) /\ \A t \in Segments : t # s => M[t] = L[t]
  BY ChainAssumption DEF Segments
<1>2. /\ SubSeq(L[s], 1, k) = [i \in 1 .. k |-> L[s][i]]
      /\ \A i \in 1 .. k : L[s][i] \in Line
  BY <1>1
<1>3. /\ M[s] \in Seq(Line) /\ Len(M[s]) = k /\ \A i \in 1 .. k : M[s][i] = L[s][i]
      /\ M[s] # <<>> => k >= 1
      /\ k >= 1 => M[s] # <<>>
  BY <1>1, <1>2
<1>4. CASE k = Len(L[s])
  <2>1. M[s] = L[s]
    BY <1>1, <1>2, <1>4
  <2>2. M = L
    BY <1>1, <2>1
  <2> QED  BY <2>2
<1>5. CASE k # Len(L[s])
  <2>1. s + 1 \notin F
    BY <1>5
  <2>2. Ordered(M, F)
    <3> SUFFICES ASSUME NEW a \in F, NEW b \in F, a < b,
                        NEW i \in 1 .. Len(M[a]), NEW j \in 1 .. Len(M[b])
                 PROVE  M[a][i].seq < M[b][j].seq
      BY DEF Ordered
    <3>1. i \in 1 .. Len(L[a]) /\ M[a][i] = L[a][i]
      BY <1>1, <1>3
    <3>2. j \in 1 .. Len(L[b]) /\ M[b][j] = L[b][j]
      BY <1>1, <1>3
    <3> QED  BY <3>1, <3>2 DEF FilesOK, Ordered
  <2>3. \A t \in Segments \ F : M[t] = <<>> /\ Y[t] = 0
    BY <1>1 DEF FilesOK
  <2>4. \A t \in F : Y[t] <= Len(M[t])
    BY <1>1, <1>3 DEF FilesOK
  <2>5. \A t \in F : M[t] # <<>> => Whole(M[t], t)
    <3>1. ASSUME M[s] # <<>> PROVE Whole(M[s], s)
      <4>1. k \in 1 .. Len(L[s]) /\ L[s] # <<>>
        BY <1>1, <1>3, <3>1
      <4>2. Whole(L[s], s)
        BY <4>1 DEF FilesOK
      <4> QED  BY <1>1, <4>1, <4>2, WholeCut
    <3> QED  BY <1>1, <3>1 DEF FilesOK
  <2>6. ASSUME NEW t \in F, t + 1 \in F PROVE Sealed(M, Y, t)
    <3>1. Sealed(L, Y, t) /\ t # s /\ M[t] = L[t]
      BY <1>1, <2>1, <2>6 DEF FilesOK
    <3>2. CASE t + 1 = s
      <4>1. M[s] # <<>> => M[s][1] = L[s][1] /\ L[s] # <<>>
        BY <1>1, <1>3
      <4> QED  BY <3>1, <3>2, <4>1 DEF Sealed, Continues
    <3>3. CASE t + 1 # s
      BY <1>1, <2>6, <3>1, <3>3 DEF Sealed
    <3> QED  BY <3>2, <3>3
  <2> QED  BY <2>2, <2>3, <2>4, <2>5, <2>6 DEF FilesOK
<1> QED  BY <1>4, <1>5

LEMMA DropKeeps ==
  ASSUME NEW L \in [Segments -> Seq(Line)], NEW F \in SUBSET Segments,
         NEW Y \in [Segments -> Nat], FilesOK(L, F, Y), NEW S, Convex(F \ S),
         NEW M, M = [s \in Segments |-> IF s \in S THEN <<>> ELSE L[s]],
         NEW Z, Z = [s \in Segments |-> IF s \in S THEN 0 ELSE Y[s]]
  PROVE  FilesOK(M, F \ S, Z)
<1> PICK G : G = F \ S
  OBVIOUS
<1>1. /\ G \subseteq F /\ F \subseteq Segments
      /\ \A s \in G : M[s] = L[s] /\ Z[s] = Y[s]
      /\ \A s \in Segments \ G : M[s] = <<>> /\ Z[s] = 0
  BY DEF FilesOK
<1>2. Convex(G)
  OBVIOUS
<1>3. Ordered(M, G)
  <2> SUFFICES ASSUME NEW a \in G, NEW b \in G, a < b,
                      NEW i \in 1 .. Len(M[a]), NEW j \in 1 .. Len(M[b])
               PROVE  M[a][i].seq < M[b][j].seq
    BY DEF Ordered
  <2>1. a \in F /\ b \in F /\ M[a] = L[a] /\ M[b] = L[b]
    BY <1>1
  <2> QED  BY <2>1 DEF FilesOK, Ordered
<1>4. \A s \in G : Z[s] <= Len(M[s])
  BY <1>1 DEF FilesOK
<1>5. \A s \in G : M[s] # <<>> => Whole(M[s], s)
  BY <1>1 DEF FilesOK
<1>6. \A s \in G : s + 1 \in G => Sealed(M, Z, s)
  BY <1>1 DEF FilesOK, Sealed
<1> QED  BY <1>1, <1>2, <1>3, <1>4, <1>5, <1>6 DEF FilesOK

\* The file below all others is not empty once it was pruned up to.
LEMMA FirstHasLines ==
  ASSUME NEW L \in [Segments -> Seq(Line)], NEW F \in SUBSET Segments,
         NEW Y \in [Segments -> Nat], FilesOK(L, F, Y), Declared(L, F, Y),
         NEW s \in F, s > 1, First(F, s)
  PROVE  L[s] # <<>> /\ \E t \in F : Y[t] > 0 /\ Covers(L, Y, t, L[s][1].seq - 1)
<1>1. PICK t \in F : Covers(L, Y, t, L[s][1].seq - 1)
  BY DEF Declared
<1>2. F \subseteq Segments /\ F \subseteq Nat /\ Y[t] \in Nat
  BY DEF Segments
<1>3. Y[t] > 0
  BY <1>1, <1>2 DEF Covers
<1>4. CASE t = s
  <2>1. Len(L[s]) > 0
    BY <1>2, <1>3, <1>4 DEF FilesOK
  <2> QED  BY <1>1, <1>3, <2>1
<1>5. CASE t # s
  <2>1. s < t
    BY <1>2, <1>5 DEF First
  <2>2. s + 1 \in s .. t
    BY <1>2, <2>1
  <2>3. s + 1 \in F
    BY <2>2 DEF FilesOK, Convex
  <2> QED  BY <1>1, <1>3, <2>3 DEF FilesOK, Sealed
<1> QED  BY <1>4, <1>5

\* A step from L, F, Y to M, G, Z that keeps every synced line and the lowest file.
Retains(L, F, Y, M, G, Z) ==
  /\ \A s \in G : s > 1 /\ First(G, s) => First(F, s)
  /\ \A s \in F : First(F, s) /\ L[s] # <<>> /\ s > 1 => M[s][1] = L[s][1]
  /\ \A t \in F : Y[t] > 0 => /\ t \in G /\ Z[t] \in Nat /\ Y[t] <= Z[t]
                             /\ \A i \in 1 .. Y[t] : M[t][i] = L[t][i]

LEMMA DeclaredKeeps ==
  ASSUME NEW L \in [Segments -> Seq(Line)], NEW F \in SUBSET Segments,
         NEW Y \in [Segments -> Nat], FilesOK(L, F, Y), Declared(L, F, Y),
         NEW M, NEW G, NEW Z, Retains(L, F, Y, M, G, Z)
  PROVE  Declared(M, G, Z)
<1> SUFFICES ASSUME NEW s \in G, s > 1, First(G, s)
             PROVE  \E t \in G : Covers(M, Z, t, M[s][1].seq - 1)
  BY DEF Declared
<1>1. s \in F /\ First(F, s)
  BY DEF First, Retains
<1>2. L[s] # <<>>
  BY <1>1, FirstHasLines
<1>3. PICK t \in F : Y[t] > 0 /\ Covers(L, Y, t, L[s][1].seq - 1)
  BY <1>1, FirstHasLines
<1>4. M[s][1] = L[s][1]
  BY <1>1, <1>2 DEF Retains
<1>5. /\ t \in G /\ Z[t] \in Nat /\ Y[t] <= Z[t] /\ Y[t] \in Nat
      /\ \A i \in 1 .. Y[t] : M[t][i] = L[t][i] /\ i \in 1 .. Z[t]
  BY <1>3 DEF Retains
<1>6. PICK i \in 1 .. Y[t], j \in 1 .. Y[t] :
        /\ L[t][i].kind = "retention" /\ L[t][i].through >= L[s][1].seq - 1
        /\ i < j /\ L[t][j].kind = "batchsig"
  BY <1>3 DEF Covers
<1>7. Covers(M, Z, t, M[s][1].seq - 1)
  BY <1>4, <1>5, <1>6 DEF Covers
<1> QED  BY <1>5, <1>7

LEMMA Least ==
  ASSUME NEW T, T \subseteq Nat, T # {}
  PROVE  \E m \in T : \A k \in T : m <= k
<1>1. \E m \in T : \A k \in T : ~ (<<k, m>> \in OpToRel(<, Nat))
  BY NatLessThanWellFounded, WFMin
<1>2. \A k, m \in Nat : ~ (<<k, m>> \in OpToRel(<, Nat)) => m <= k
  BY DEF OpToRel
<1> QED  BY <1>1, <1>2

LEMMA LatestIs ==
  ASSUME NEW F \in SUBSET Segments, 1 \in F
  PROVE  /\ LatestSegment(F) \in F /\ LatestSegment(F) + 1 \notin F
         /\ 1 .. LatestSegment(F) \subseteq F
<1> DEFINE T == {m \in Nat : m >= 1 /\ m \notin F}
<1>1. MaxSegments + 1 \in T /\ T \subseteq Nat
  BY ChainAssumption DEF Segments
<1>2. PICK m \in T : \A k \in T : m <= k
  <2> HIDE DEF T
  <2> QED  BY <1>1, Least
<1>3. m \in Nat /\ m > 1
  BY <1>2
<1>4. 1 .. m - 1 \subseteq F
  <2> SUFFICES ASSUME NEW u \in 1 .. m - 1, u \notin F PROVE FALSE
    OBVIOUS
  <2>1. u \in T /\ u < m
    BY <1>3
  <2> QED  BY <1>2, <1>3, <2>1
<1>5. m - 1 \in F /\ 1 .. m - 1 \subseteq F /\ (m - 1) + 1 \notin F
  BY <1>2, <1>3, <1>4
<1>6. \E n \in F : 1 .. n \subseteq F /\ n + 1 \notin F
  BY <1>5
<1>7. LatestSegment(F) = CHOOSE n \in F : 1 .. n \subseteq F /\ n + 1 \notin F
  BY DEF LatestSegment
<1> QED  BY <1>6, <1>7
-----------------------------------------------------------------------------
(* The struct.                                                             *)

\* The struct knows the end of the newest file.
Struct(d) ==
  /\ d.known => /\ d.segment \in d.files /\ d.segment + 1 \notin d.files
                /\ Current(d) # <<>>
                /\ d.head = Hash(LastLine(Current(d))) /\ d.seq = LastLine(Current(d)).seq
  /\ d.open => d.synced[d.segment] <= d.flushed /\ d.flushed <= Len(Current(d))

\* Every file is under the key the process loaded.
Keyed(d) == \A s \in d.files : d.lines[s] # <<>> => d.lines[s][1].kid = key

Sound(d) == /\ FilesOK(d.lines, d.files, d.synced) /\ Declared(d.lines, d.files, d.synced)
            /\ Struct(d) /\ Keyed(d)

Fit(d) == /\ d \in ChainType /\ (d.open => d.known)
          /\ d.departed = {} => Sound(d)

Env == run \in Nat /\ key \in Keys \cup {NoKey}

\* A line that may be appended to a file that has a header.
NextLine(d, l) == /\ l \in Line /\ l.seq = d.seq + 1 /\ l.prev = d.head /\ l.kind # "header"
                  /\ l.kind = "batchsig" => l.kid = key

\* What writing to the open file leaves alone.
Same(d, r) == /\ r.files = d.files /\ r.segment = d.segment /\ r.known = d.known
              /\ r.open = d.open /\ r.departed = d.departed /\ r.synced = d.synced

LEMMA Fields ==
  ASSUME NEW d \in ChainType
  PROVE  /\ d.lines \in [Segments -> Seq(Line)] /\ d.files \in SUBSET Segments
         /\ d.synced \in [Segments -> Nat] /\ d.flushed \in Nat /\ d.seq \in Nat
         /\ d.head \in Nat \X Nat /\ d.unsigned \in Nat /\ d.first \in Nat
         /\ d.segment \in Segments /\ d.segment \in Nat \ {0} /\ d.bytes \in Nat
         /\ Current(d) \in Seq(Line) /\ Len(Current(d)) \in Nat
         /\ d.torn \in 0 .. MaxSegments /\ d.departed \subseteq Departures
         /\ d.known \in BOOLEAN /\ d.open \in BOOLEAN /\ d.broken \in BOOLEAN
<1>1. Segments \subseteq Nat \ {0}
  BY ChainAssumption DEF Segments
<1>2. /\ d.lines \in [Segments -> Seq(Line)] /\ d.files \in SUBSET Segments
      /\ d.synced \in [Segments -> Nat] /\ d.flushed \in Nat /\ d.seq \in Nat
      /\ d.head \in Nat \X Nat /\ d.unsigned \in Nat /\ d.first \in Nat
      /\ d.segment \in Segments /\ d.bytes \in Nat
  BY DEF ChainType
<1>3. /\ d.torn \in 0 .. MaxSegments /\ d.departed \in SUBSET Departures
      /\ d.known \in BOOLEAN /\ d.open \in BOOLEAN /\ d.broken \in BOOLEAN
  BY DEF ChainType
<1>4. d.lines[d.segment] \in Seq(Line)
  BY <1>2
<1>5. d.segment \in Nat \ {0} /\ d.departed \subseteq Departures /\ Current(d) \in Seq(Line)
  BY <1>1, <1>2, <1>3, <1>4 DEF Current
<1>6. Len(Current(d)) \in Nat
  BY <1>5
<1> QED  BY <1>2, <1>3, <1>5, <1>6

LEMMA NewLines ==
  ASSUME Env, NEW d \in ChainType
  PROVE  /\ NextLine(d, NewLine(d, "record")) /\ NextLine(d, NewLine(d, "resumed"))
         /\ NextLine(d, BatchSig(d)) /\ BatchSig(d).kind = "batchsig"
         /\ \A n \in Nat : /\ NextLine(d, Retention(d, n))
                           /\ Retention(d, n).kind = "retention" /\ Retention(d, n).through = n
         /\ Header(d) \in Line /\ Header(d).kind = "header" /\ Header(d).segment = d.segment
         /\ Header(d).seq = d.seq + 1 /\ Header(d).prev = d.head /\ Header(d).kid = key
         /\ NewLine(d, "record").kind = "record" /\ NewLine(d, "resumed").kind = "resumed"
<1>1. /\ d.seq + 1 \in Nat /\ d.head \in Nat \X Nat /\ d.segment \in Nat /\ d.first \in Nat
      /\ run \in Nat /\ key \in Keys \cup {NoKey}
  BY Fields DEF Env
<1>2. \A kind \in Kinds : NewLine(d, kind) \in Line
  BY <1>1 DEF NewLine, Line
<1>3. /\ Header(d) \in Line /\ BatchSig(d) \in Line
      /\ \A n \in Nat : Retention(d, n) \in Line
  BY <1>1 DEF Header, BatchSig, Retention, NewLine, Line, Kinds
<1>4. "record" \in Kinds /\ "resumed" \in Kinds
  BY DEF Kinds
<1> QED  BY <1>2, <1>3, <1>4 DEF NextLine, Header, BatchSig, Retention, NewLine

LEMMA PutIs ==
  ASSUME NEW d \in ChainType, NEW l \in Line
  PROVE  /\ Put(d, l) \in ChainType /\ Same(d, Put(d, l))
         /\ Put(d, l).lines = [d.lines EXCEPT ![d.segment] = Append(@, l)]
         /\ Current(Put(d, l)) = Append(Current(d), l)
         /\ LastLine(Current(Put(d, l))) = l
         /\ Put(d, l).seq = l.seq /\ Put(d, l).head = Hash(l)
         /\ Put(d, l).flushed = d.flushed /\ Put(d, l).broken = d.broken
         /\ Put(d, l).first = d.first
         /\ l.kind = "record" => Put(d, l).unsigned = d.unsigned + 1
<1> DEFINE e == Put(d, l)
<1>0. l.seq \in Nat /\ l.instance \in Nat
  BY LineTypes
<1>1. /\ d.segment \in Segments /\ d.lines \in [Segments -> Seq(Line)] /\ Current(d) \in Seq(Line)
      /\ d.bytes \in Nat /\ d.unsigned \in Nat
  BY Fields
<1>2. [d.lines EXCEPT ![d.segment] = Append(@, l)] \in [Segments -> Seq(Line)]
  BY <1>1
<1>3. e \in ChainType
  <2>1. Hash(l) \in Nat \X Nat /\ d.unsigned + 1 \in Nat /\ d.bytes + 1 \in Nat
    BY <1>0, <1>1 DEF Hash
  <2> QED  BY <1>0, <1>1, <1>2, <2>1 DEF Put, ChainType
<1>4. /\ Same(d, e)
      /\ e.lines = [d.lines EXCEPT ![d.segment] = Append(@, l)]
      /\ e.seq = l.seq /\ e.head = Hash(l) /\ e.flushed = d.flushed /\ e.broken = d.broken
      /\ e.first = d.first /\ (l.kind = "record" => e.unsigned = d.unsigned + 1)
  BY DEF Put, Same, ChainType, Evidence
<1>5. Current(e) = Append(Current(d), l)
  BY <1>1, <1>4 DEF Current, Same
<1>6. LastLine(Append(Current(d), l)) = l
  BY <1>1 DEF LastLine
<1> QED  BY <1>3, <1>4, <1>5, <1>6

LEMMA PutFits ==
  ASSUME Env, NEW d, Fit(d), d.open, NEW l, NextLine(d, l)
  PROVE  Fit(Put(d, l))
<1> PICK e : e = Put(d, l)
  OBVIOUS
<1>1. d \in ChainType /\ l \in Line /\ d.known
  BY DEF Fit, NextLine
<1>2. /\ e \in ChainType /\ Same(d, e)
      /\ e.lines = [d.lines EXCEPT ![d.segment] = Append(@, l)]
      /\ Current(e) = Append(Current(d), l) /\ LastLine(Current(e)) = l
      /\ e.seq = l.seq /\ e.head = Hash(l) /\ e.flushed = d.flushed
  BY <1>1, PutIs
<1>3. ASSUME d.departed = {} PROVE Sound(e)
  <2>1. Sound(d) /\ Struct(d) /\ FilesOK(d.lines, d.files, d.synced)
    BY <1>3 DEF Fit, Sound
  <2>2. /\ d.segment \in d.files /\ d.segment + 1 \notin d.files /\ Current(d) # <<>>
        /\ d.lines[d.segment] = Current(d)
        /\ l.seq = LastLine(Current(d)).seq + 1 /\ l.prev = Hash(LastLine(Current(d)))
        /\ l.kind # "header" /\ d.synced[d.segment] <= d.flushed /\ d.flushed <= Len(Current(d))
    BY <1>1, <2>1 DEF Struct, NextLine, Current
  <2>3. l.kind = "batchsig" => l.kid = d.lines[d.segment][1].kid
    BY <2>1, <2>2 DEF Sound, Keyed, NextLine
  <2>4. /\ d.lines \in [Segments -> Seq(Line)] /\ d.files \in SUBSET Segments
        /\ d.synced \in [Segments -> Nat] /\ Current(d) \in Seq(Line) /\ Len(Current(d)) \in Nat
        /\ d.flushed \in Nat
    BY <1>1, Fields
  <2>5. FilesOK(e.lines, d.files, d.synced)
    <3> PICK s : s = d.segment
      OBVIOUS
    <3>1. /\ s \in d.files /\ s + 1 \notin d.files /\ d.lines[s] # <<>>
          /\ l.seq = LastLine(d.lines[s]).seq + 1 /\ l.prev = Hash(LastLine(d.lines[s]))
          /\ l.kind = "batchsig" => l.kid = d.lines[s][1].kid
      BY <2>2, <2>3
    <3>2. e.lines = [d.lines EXCEPT ![s] = Append(@, l)]
      BY <1>2
    <3>3. FilesOK([d.lines EXCEPT ![s] = Append(@, l)], d.files, d.synced)
      BY <1>1, <2>1, <2>2, <2>4, <3>1, AppendKeeps
    <3> QED  BY <3>2, <3>3
  <2>6. /\ \A t \in Segments : t # d.segment => e.lines[t] = d.lines[t]
        /\ e.lines[d.segment] = Append(Current(d), l)
        /\ \A i \in 1 .. Len(Current(d)) : Append(Current(d), l)[i] = Current(d)[i]
        /\ Append(Current(d), l) # <<>> /\ Len(Append(Current(d), l)) = Len(Current(d)) + 1
        /\ Append(Current(d), l)[1] = Current(d)[1]
    BY <1>2, <2>2, <2>4
  <2>7. Declared(e.lines, d.files, d.synced)
    <3>1. \A s \in d.files : d.lines[s] # <<>> => e.lines[s][1] = d.lines[s][1]
      BY <2>2, <2>4, <2>6
    <3>2. \A t \in d.files : \A i \in 1 .. d.synced[t] : e.lines[t][i] = d.lines[t][i]
      <4> SUFFICES ASSUME NEW t \in d.files, NEW i \in 1 .. d.synced[t]
                   PROVE  e.lines[t][i] = d.lines[t][i]
        OBVIOUS
      <4>1. i \in 1 .. Len(d.lines[t])
        BY <2>1, <2>4 DEF FilesOK
      <4>2. t \in Segments
        BY <2>4
      <4>3. CASE t = d.segment
        BY <2>2, <2>6, <4>1, <4>3
      <4>4. CASE t # d.segment
        BY <2>6, <4>2, <4>4
      <4> QED  BY <4>3, <4>4
    <3>3. \A t \in d.files : d.synced[t] \in Nat
      BY <2>4
    <3>4. Declared(d.lines, d.files, d.synced)
      BY <2>1 DEF Sound
    <3>5. Retains(d.lines, d.files, d.synced, e.lines, d.files, d.synced)
      BY <3>1, <3>2, <3>3 DEF Retains
    <3> QED  BY <2>1, <2>4, <3>4, <3>5, DeclaredKeeps
  <2>8. Struct(e)
    BY <1>1, <1>2, <2>2, <2>4, <2>6 DEF Struct, Same
  <2>9. Keyed(e)
    BY <1>2, <2>1, <2>2, <2>4, <2>6 DEF Keyed, Same, Sound
  <2> QED  BY <1>2, <2>5, <2>7, <2>8, <2>9 DEF Sound, Same
<1> QED  BY <1>1, <1>2, <1>3 DEF Fit, Same

LEMMA BreakFits ==
  ASSUME NEW d, Fit(d)
  PROVE  /\ Fit([d EXCEPT !.broken = TRUE]) /\ Same(d, [d EXCEPT !.broken = TRUE])
         /\ [d EXCEPT !.broken = TRUE].broken
<1> PICK e : e = [d EXCEPT !.broken = TRUE]
  OBVIOUS
<1>1. d \in ChainType
  BY DEF Fit
<1>2. /\ e \in ChainType /\ Same(d, e) /\ e.broken /\ e.lines = d.lines
      /\ e.head = d.head /\ e.seq = d.seq /\ e.flushed = d.flushed
  BY <1>1 DEF ChainType, Same
<1>3. Current(e) = Current(d)
  BY <1>2 DEF Current, Same
<1>4. Struct(d) => Struct(e)
  BY <1>2, <1>3 DEF Struct, Same
<1>5. Keyed(d) => Keyed(e)
  BY <1>2 DEF Keyed, Same
<1>6. Sound(d) => Sound(e)
  BY <1>2, <1>4, <1>5 DEF Sound, Same
<1>7. Fit(e)
  BY <1>2, <1>6 DEF Fit, Same
<1> QED  BY <1>2, <1>7

LEMMA AppendLineFits ==
  ASSUME Env, NEW d, Fit(d), d.open, NEW l, NextLine(d, l), NEW fail
  PROVE  /\ Fit(AppendLine(d, l, fail)) /\ Same(d, AppendLine(d, l, fail))
         /\ ~ AppendLine(d, l, fail).broken => ~ d.broken /\ AppendLine(d, l, fail) = Put(d, l)
<1>1. d \in ChainType /\ l \in Line
  BY DEF Fit, NextLine
<1>2. CASE d.broken \/ fail = "append"
  <2>1. AppendLine(d, l, fail) = [d EXCEPT !.broken = TRUE]
    BY <1>2 DEF AppendLine
  <2> QED  BY <2>1, BreakFits
<1>3. CASE ~ (d.broken \/ fail = "append")
  <2>1. AppendLine(d, l, fail) = Put(d, l)
    BY <1>3 DEF AppendLine
  <2>2. Fit(Put(d, l))
    BY PutFits
  <2>3. Same(d, Put(d, l))
    BY <1>1, PutIs
  <2> QED  BY <1>3, <2>1, <2>2, <2>3
<1> QED  BY <1>2, <1>3

LEMMA FlushFits ==
  ASSUME NEW d, Fit(d), d.open, NEW fail
  PROVE  /\ Fit(Flush(d, fail)) /\ Same(d, Flush(d, fail)) /\ Flush(d, fail).lines = d.lines
         /\ ~ Flush(d, fail).broken => /\ ~ d.broken
                                       /\ Flush(d, fail).flushed = Len(Current(d))
                                       /\ Current(Flush(d, fail)) = Current(d)
<1>1. d \in ChainType
  BY DEF Fit
<1>2. CASE d.broken \/ (fail = "flush" /\ d.flushed < Len(Current(d)))
  <2>1. Flush(d, fail) = [d EXCEPT !.broken = TRUE]
    BY <1>2 DEF Flush
  <2>2. [d EXCEPT !.broken = TRUE].lines = d.lines
    BY <1>1 DEF ChainType
  <2> QED  BY <2>1, <2>2, BreakFits
<1>3. CASE ~ (d.broken \/ (fail = "flush" /\ d.flushed < Len(Current(d))))
  <2> PICK e : e = [d EXCEPT !.flushed = Len(Current(d))]
    OBVIOUS
  <2>1. Flush(d, fail) = e
    BY <1>3 DEF Flush
  <2>2. Len(Current(d)) \in Nat
    BY <1>1, Fields
  <2>3. /\ e \in ChainType /\ Same(d, e) /\ e.lines = d.lines /\ e.flushed = Len(Current(d))
        /\ e.head = d.head /\ e.seq = d.seq
    BY <1>1, <2>2 DEF ChainType, Same
  <2>4. Current(e) = Current(d)
    BY <2>3 DEF Current, Same
  <2>5. ASSUME Sound(d) PROVE Sound(e)
    <3>1. d.segment \in d.files /\ d.synced[d.segment] <= Len(d.lines[d.segment])
      BY <2>5 DEF Sound, Struct, FilesOK, Fit
    <3>2. Struct(e)
      BY <2>2, <2>3, <2>4, <2>5, <3>1 DEF Struct, Same, Sound, Current
    <3>3. Keyed(e)
      BY <2>3, <2>5 DEF Keyed, Same, Sound
    <3> QED  BY <2>3, <2>5, <3>2, <3>3 DEF Sound, Same
  <2>6. Fit(e)
    BY <2>3, <2>5 DEF Fit, Same
  <2> QED  BY <1>3, <2>1, <2>3, <2>4, <2>6
<1> QED  BY <1>2, <1>3

LEMMA SameTrans ==
  ASSUME NEW a, NEW b, NEW d, Same(a, b), Same(b, d)
  PROVE  Same(a, d)
BY DEF Same

\* Counting from zero again leaves everything else alone.
LEMMA CountFits ==
  ASSUME NEW d, Fit(d)
  PROVE  /\ Fit([d EXCEPT !.unsigned = 0]) /\ Same(d, [d EXCEPT !.unsigned = 0])
         /\ [d EXCEPT !.unsigned = 0].lines = d.lines
         /\ [d EXCEPT !.unsigned = 0].broken = d.broken
<1> PICK e : e = [d EXCEPT !.unsigned = 0]
  OBVIOUS
<1>1. d \in ChainType
  BY DEF Fit
<1>2. /\ e \in ChainType /\ Same(d, e) /\ e.lines = d.lines /\ e.broken = d.broken
      /\ e.head = d.head /\ e.seq = d.seq /\ e.flushed = d.flushed
  BY <1>1 DEF ChainType, Same
<1>3. Current(e) = Current(d)
  BY <1>2 DEF Current, Same
<1>4. Sound(d) => Sound(e)
  BY <1>2, <1>3 DEF Struct, Keyed, Sound, Same
<1>5. Fit(e)
  BY <1>2, <1>4 DEF Fit, Same
<1> QED  BY <1>2, <1>5

LEMMA SignBatchFits ==
  ASSUME Env, NEW d, Fit(d), d.open, NEW fail
  PROVE  /\ Fit(SignBatch(d, fail)) /\ Same(d, SignBatch(d, fail))
         /\ ~ SignBatch(d, fail).broken =>
               /\ ~ d.broken /\ LastLine(Current(SignBatch(d, fail))).kind = "batchsig"
               /\ Current(SignBatch(d, fail)) = Append(Current(d), BatchSig(d))
               /\ SignBatch(d, fail).flushed = Len(Current(SignBatch(d, fail)))
               /\ \A t \in Segments \ {d.segment} : SignBatch(d, fail).lines[t] = d.lines[t]
<1> PICK s : s = AppendLine(d, BatchSig(d), fail)
  OBVIOUS
<1>0. d \in ChainType
  BY DEF Fit
<1>1. NextLine(d, BatchSig(d)) /\ BatchSig(d).kind = "batchsig" /\ BatchSig(d) \in Line
  BY <1>0, NewLines DEF NextLine
<1>2. Fit(s) /\ Same(d, s) /\ (~ s.broken => ~ d.broken /\ s = Put(d, BatchSig(d)))
  BY <1>1, AppendLineFits
<1>3. CASE s.broken
  <2>1. SignBatch(d, fail) = s
    BY <1>3 DEF SignBatch
  <2> QED  BY <1>2, <1>3, <2>1
<1>4. CASE ~ s.broken
  <2> PICK e : e = [s EXCEPT !.unsigned = 0]
    OBVIOUS
  <2>1. SignBatch(d, fail) = Flush(e, fail)
    BY <1>4 DEF SignBatch
  <2>2. Fit(e) /\ Same(s, e) /\ e.lines = s.lines
    BY <1>2, CountFits
  <2>3. Same(d, e) /\ e.open
    BY <1>2, <2>2, SameTrans DEF Same
  <2>4. /\ Fit(Flush(e, fail)) /\ Same(e, Flush(e, fail))
        /\ Flush(e, fail).lines = e.lines
        /\ ~ Flush(e, fail).broken => /\ Flush(e, fail).flushed = Len(Current(e))
                                      /\ Current(Flush(e, fail)) = Current(e)
    <3>1. Fit(Flush(e, fail)) /\ Same(e, Flush(e, fail)) /\ Flush(e, fail).lines = e.lines
      BY <2>2, <2>3, FlushFits
    <3>2. ASSUME ~ Flush(e, fail).broken
          PROVE  /\ Flush(e, fail).flushed = Len(Current(e))
                 /\ Current(Flush(e, fail)) = Current(e)
      BY <2>2, <2>3, <3>2, FlushFits
    <3> QED  BY <3>1, <3>2
  <2>5. Current(e) = Current(s)
    BY <2>2 DEF Current, Same
  <2>6. Current(s) = Append(Current(d), BatchSig(d)) /\ LastLine(Current(s)) = BatchSig(d)
    <3> PICK l : l = BatchSig(d)
      OBVIOUS
    <3>1. Current(Put(d, l)) = Append(Current(d), l) /\ LastLine(Current(Put(d, l))) = l
      BY <1>0, <1>1, PutIs
    <3>2. s = Put(d, l)
      BY <1>2, <1>4
    <3> QED  BY <3>1, <3>2
  <2>8. \A t \in Segments : t # d.segment => s.lines[t] = d.lines[t]
    <3> PICK l : l = BatchSig(d)
      OBVIOUS
    <3>1. Put(d, l).lines = [d.lines EXCEPT ![d.segment] = Append(@, l)]
      BY <1>0, <1>1, PutIs
    <3>2. s = Put(d, l) /\ d.lines \in [Segments -> Seq(Line)]
      BY <1>0, <1>2, <1>4, Fields
    <3> QED  BY <3>1, <3>2
  <2>7. Same(d, Flush(e, fail))
    BY <2>3, <2>4, SameTrans
  <2> QED  BY <1>1, <1>2, <1>4, <2>1, <2>2, <2>4, <2>5, <2>6, <2>7, <2>8
<1> QED  BY <1>3, <1>4

\* What Tick, evictLRU, roll and Close do first: sign the tail, flush.
LEMMA SignTailFits ==
  ASSUME Env, NEW d, Fit(d), d.open, NEW fail
  PROVE  /\ Fit(SignTail(d, fail)) /\ Same(d, SignTail(d, fail))
         /\ ~ SignTail(d, fail).broken =>
               /\ ~ d.broken
               /\ d.unsigned > 0 \/ LastLine(Current(d)).kind = "batchsig"
                     => LastLine(Current(SignTail(d, fail))).kind = "batchsig"
<1>1. CASE d.unsigned > 0
  BY <1>1, SignBatchFits DEF SignTail
<1>2. CASE ~ (d.unsigned > 0)
  <2>1. SignTail(d, fail) = d /\ Same(d, d)
    BY <1>2 DEF SignTail, Same
  <2> QED  BY <1>2, <2>1
<1> QED  BY <1>1, <1>2

LEMMA FinishFits ==
  ASSUME Env, NEW d, Fit(d), d.open, NEW fail
  PROVE  /\ Fit(Flush(SignTail(d, fail), fail)) /\ Same(d, Flush(SignTail(d, fail), fail))
         /\ ~ Flush(SignTail(d, fail), fail).broken =>
               /\ ~ d.broken
               /\ Flush(SignTail(d, fail), fail).flushed
                     = Len(Current(Flush(SignTail(d, fail), fail)))
               /\ d.unsigned > 0 \/ LastLine(Current(d)).kind = "batchsig"
                     => LastLine(Current(Flush(SignTail(d, fail), fail))).kind = "batchsig"
<1> PICK s : s = SignTail(d, fail)
  OBVIOUS
<1>1. /\ Fit(s) /\ Same(d, s) /\ s.open
      /\ ~ s.broken => /\ ~ d.broken
                       /\ d.unsigned > 0 \/ LastLine(Current(d)).kind = "batchsig"
                             => LastLine(Current(s)).kind = "batchsig"
  BY SignTailFits DEF Same
<1>2. /\ Fit(Flush(s, fail)) /\ Same(s, Flush(s, fail))
      /\ ~ Flush(s, fail).broken => /\ ~ s.broken
                                    /\ Flush(s, fail).flushed = Len(Current(s))
                                    /\ Current(Flush(s, fail)) = Current(s)
  BY <1>1, FlushFits
<1>3. Same(d, Flush(s, fail))
  BY <1>1, <1>2, SameTrans
<1> QED  BY <1>1, <1>2, <1>3

LEMMA SyncKeeps ==
  ASSUME NEW L \in [Segments -> Seq(Line)], NEW F \in SUBSET Segments,
         NEW Y \in [Segments -> Nat], FilesOK(L, F, Y), Declared(L, F, Y),
         NEW s \in F, s + 1 \notin F, NEW n \in Nat, Y[s] <= n, n <= Len(L[s])
  PROVE  FilesOK(L, F, [Y EXCEPT ![s] = n]) /\ Declared(L, F, [Y EXCEPT ![s] = n])
<1> PICK Z : Z = [Y EXCEPT ![s] = n]
  OBVIOUS
<1>1. /\ Z \in [Segments -> Nat] /\ Z[s] = n /\ \A t \in Segments : t # s => Z[t] = Y[t]
  OBVIOUS
<1>2. \A t \in Segments \ F : L[t] = <<>> /\ Z[t] = 0
  BY <1>1 DEF FilesOK
<1>3. \A t \in F : Z[t] <= Len(L[t])
  BY <1>1 DEF FilesOK
<1>4. \A t \in F : t + 1 \in F => Sealed(L, Z, t)
  BY <1>1 DEF FilesOK, Sealed
<1>5. FilesOK(L, F, Z)
  BY <1>2, <1>3, <1>4 DEF FilesOK
<1>6. Retains(L, F, Y, L, F, Z)
  BY <1>1 DEF Retains
<1>7. Declared(L, F, Z)
  BY <1>6, DeclaredKeeps
<1> QED  BY <1>5, <1>7

LEMMA SyncFits ==
  ASSUME NEW d, Fit(d), d.open
  PROVE  /\ Fit(Sync(d)) /\ Sync(d).lines = d.lines /\ Sync(d).files = d.files
         /\ Sync(d).segment = d.segment /\ Sync(d).departed = d.departed
         /\ Sync(d).known = d.known /\ Sync(d).open = d.open /\ Sync(d).broken = d.broken
         /\ Sync(d).seq = d.seq /\ Sync(d).head = d.head /\ Sync(d).flushed = d.flushed
         /\ Sync(d).synced = [d.synced EXCEPT ![d.segment] = d.flushed]
<1> PICK e : e = Sync(d)
  OBVIOUS
<1>1. d \in ChainType /\ d.known
  BY DEF Fit
<1>2. d.flushed \in Nat /\ d.segment \in Segments /\ d.synced \in [Segments -> Nat]
      /\ d.lines \in [Segments -> Seq(Line)] /\ d.files \in SUBSET Segments
  BY <1>1, Fields
<1>3. [d.synced EXCEPT ![d.segment] = d.flushed] \in [Segments -> Nat]
  BY <1>2
<1>4. /\ e \in ChainType /\ e.lines = d.lines /\ e.files = d.files
      /\ e.segment = d.segment /\ e.departed = d.departed /\ e.flushed = d.flushed
      /\ e.known = d.known /\ e.open = d.open /\ e.broken = d.broken
      /\ e.seq = d.seq /\ e.head = d.head
      /\ e.synced = [d.synced EXCEPT ![d.segment] = d.flushed]
  BY <1>1, <1>3 DEF ChainType, Sync
<1>5. Current(e) = Current(d) /\ e.synced[e.segment] = d.flushed
  BY <1>2, <1>4 DEF Current
<1>6. ASSUME Sound(d) PROVE Sound(e)
  <2>1. /\ d.segment \in d.files /\ d.segment + 1 \notin d.files
        /\ d.synced[d.segment] <= d.flushed /\ d.flushed <= Len(d.lines[d.segment])
    BY <1>1, <1>6 DEF Sound, Struct, Current
  <2> PICK s : s = d.segment
    OBVIOUS
  <2> PICK n : n = d.flushed
    OBVIOUS
  <2>2. /\ FilesOK(d.lines, d.files, [d.synced EXCEPT ![s] = n])
        /\ Declared(d.lines, d.files, [d.synced EXCEPT ![s] = n])
    BY <1>2, <1>6, <2>1, SyncKeeps DEF Sound
  <2>3. Struct(e)
    BY <1>1, <1>2, <1>4, <1>5, <1>6, <2>1 DEF Struct, Sound, Current
  <2>4. Keyed(e)
    BY <1>4, <1>6 DEF Keyed, Sound
  <2> QED  BY <1>4, <2>2, <2>3, <2>4 DEF Sound
<1>7. Fit(e)
  BY <1>1, <1>4, <1>6 DEF Fit
<1> QED  BY <1>4, <1>7

\* Segment s of o is empty and follows the files F.
Begins(o, F, s) ==
  /\ o.files = F \cup {s} /\ o.lines[s] = <<>> /\ o.flushed = 0
  /\ FilesOK(o.lines, F, o.synced) /\ Declared(o.lines, F, o.synced)
  /\ \A t \in F : t <= s
  /\ \A t \in F : o.lines[t] # <<>> => o.lines[t][1].kid = key
  /\ \/ s = 1 /\ o.seq = 0 /\ o.head = NoHash
     \/ /\ s > 1 /\ s - 1 \in F /\ o.lines[s - 1] # <<>>
        /\ o.synced[s - 1] = Len(o.lines[s - 1])
        /\ LastLine(o.lines[s - 1]).kind = "batchsig"
        /\ o.seq = LastLine(o.lines[s - 1]).seq
        /\ o.head = Hash(LastLine(o.lines[s - 1]))

\* A new or an empty file gets its header.
LEMMA BeginFits ==
  ASSUME Env, NEW o \in ChainType, o.known, o.open, NEW F \in SUBSET Segments,
         o.departed = {} => Begins(o, F, o.segment)
  PROVE  Fit(Put(o, Header(o)))
<1> PICK h : h = Header(o)
  OBVIOUS
<1> PICK e : e = Put(o, h)
  OBVIOUS
<1> PICK s : s = o.segment
  OBVIOUS
<1>1. /\ h \in Line /\ h.kind = "header" /\ h.segment = s
      /\ h.seq = o.seq + 1 /\ h.prev = o.head /\ h.kid = key
  BY NewLines
<1>2. /\ e \in ChainType /\ Same(o, e)
      /\ e.lines = [o.lines EXCEPT ![s] = Append(@, h)]
      /\ e.seq = h.seq /\ e.head = Hash(h) /\ e.flushed = o.flushed
      /\ Current(e) = Append(Current(o), h) /\ LastLine(Current(e)) = h
  BY <1>1, PutIs
<1>3. /\ o.lines \in [Segments -> Seq(Line)] /\ s \in Segments /\ s \in Nat \ {0}
      /\ o.synced \in [Segments -> Nat] /\ F \subseteq Nat \ {0} /\ o.seq \in Nat
  <2>1. Segments \subseteq Nat \ {0}
    BY ChainAssumption DEF Segments
  <2> QED  BY <2>1, Fields
<1>4. ASSUME o.departed = {} PROVE Sound(e)
  <2>1. /\ o.files = F \cup {s} /\ o.lines[s] = <<>> /\ o.flushed = 0
        /\ FilesOK(o.lines, F, o.synced) /\ Declared(o.lines, F, o.synced)
        /\ \A t \in F : t <= s
        /\ \A t \in F : o.lines[t] # <<>> => o.lines[t][1].kid = key
    BY <1>4 DEF Begins
  <2>2. \/ s = 1 /\ h.seq = 1 /\ h.prev = NoHash
        \/ /\ s > 1 /\ s - 1 \in F /\ o.lines[s - 1] # <<>>
           /\ o.synced[s - 1] = Len(o.lines[s - 1])
           /\ LastLine(o.lines[s - 1]).kind = "batchsig"
           /\ h.seq = LastLine(o.lines[s - 1]).seq + 1
           /\ h.prev = Hash(LastLine(o.lines[s - 1]))
    BY <1>1, <1>3, <1>4 DEF Begins
  <2>3. FilesOK([o.lines EXCEPT ![s] = <<h>>], F \cup {s}, o.synced)
    BY <1>1, <1>3, <2>1, <2>2, BeginKeeps
  <2>4. /\ e.lines = [o.lines EXCEPT ![s] = <<h>>] /\ e.lines[s] = <<h>>
        /\ \A t \in Segments : t # s => e.lines[t] = o.lines[t]
        /\ <<h>>[1] = h /\ <<h>> # <<>> /\ Len(<<h>>) = 1 /\ LastLine(<<h>>) = h
    BY <1>2, <1>3, <2>1 DEF LastLine
  <2>5. FilesOK(e.lines, e.files, e.synced)
    BY <1>2, <2>1, <2>3, <2>4 DEF Same
  <2>6. o.synced[s] = 0
    <3>1. CASE s \in F
      BY <1>3, <2>1, <3>1 DEF FilesOK
    <3>2. CASE s \notin F
      BY <1>3, <2>1, <3>2 DEF FilesOK
    <3> QED  BY <3>1, <3>2
  <2>7. Retains(o.lines, F, o.synced, e.lines, F \cup {s}, o.synced)
    <3>1. ASSUME NEW u \in F \cup {s}, u > 1, First(F \cup {s}, u) PROVE First(F, u)
      <4>1. CASE u \in F
        BY <3>1, <4>1 DEF First
      <4>2. CASE u = s
        <5>1. s - 1 \in F /\ s <= s - 1
          BY <2>2, <3>1, <4>2 DEF First
        <5> QED  BY <1>3, <5>1
      <4> QED  BY <4>1, <4>2
    <3>2. \A u \in F : o.lines[u] # <<>> => e.lines[u] = o.lines[u]
      BY <2>1, <2>4
    <3>3. \A t \in F : o.synced[t] > 0 =>
             /\ t \in F \cup {s} /\ o.synced[t] \in Nat /\ o.synced[t] <= o.synced[t]
             /\ e.lines[t] = o.lines[t]
      BY <1>3, <2>4, <2>6
    <3> QED  BY <3>1, <3>2, <3>3 DEF Retains
  <2>8. Declared(e.lines, e.files, e.synced)
    <3>1. Declared(e.lines, F \cup {s}, o.synced)
      BY <1>3, <2>1, <2>7, DeclaredKeeps
    <3> QED  BY <1>2, <2>1, <3>1 DEF Same
  <2>9. s + 1 \notin F \cup {s}
    BY <1>3, <2>1
  <2>10. Struct(e)
    <3>1. /\ e.segment = s /\ e.files = F \cup {s} /\ Current(e) = <<h>>
          /\ e.flushed = 0 /\ e.synced[s] = 0
      BY <1>2, <2>1, <2>4, <2>6 DEF Same, Current
    <3> QED  BY <1>2, <2>4, <2>9, <3>1 DEF Struct
  <2>11. Keyed(e)
    BY <1>1, <1>2, <2>1, <2>4 DEF Keyed, Same
  <2> QED  BY <2>5, <2>8, <2>10, <2>11 DEF Sound
<1>5. Fit(e)
  BY <1>2, <1>4 DEF Fit, Same
<1> QED  BY <1>5

LEMMA OpenIs ==
  ASSUME NEW d \in ChainType
  PROVE  /\ OpenFile(d) \in ChainType /\ OpenFile(d).lines = d.lines
         /\ OpenFile(d).files = d.files \cup {d.segment} /\ OpenFile(d).open
         /\ OpenFile(d).segment = d.segment /\ OpenFile(d).departed = d.departed
         /\ OpenFile(d).known = d.known /\ OpenFile(d).synced = d.synced
         /\ OpenFile(d).seq = d.seq /\ OpenFile(d).head = d.head
         /\ OpenFile(d).flushed = Len(Current(d)) /\ Current(OpenFile(d)) = Current(d)
<1> PICK e : e = OpenFile(d)
  OBVIOUS
<1>1. /\ d.segment \in Segments /\ d.files \in SUBSET Segments /\ Len(Current(d)) \in Nat
  BY Fields
<1>2. d.files \cup {d.segment} \in SUBSET Segments
  BY <1>1
<1>3. /\ e \in ChainType /\ e.lines = d.lines /\ e.files = d.files \cup {d.segment} /\ e.open
      /\ e.segment = d.segment /\ e.departed = d.departed /\ e.known = d.known
      /\ e.synced = d.synced /\ e.seq = d.seq /\ e.head = d.head
      /\ e.flushed = Len(Current(d))
  BY <1>1, <1>2 DEF ChainType, OpenFile
<1>4. Current(e) = Current(d)
  BY <1>3 DEF Current
<1> QED  BY <1>3, <1>4

LEMMA OpenFits ==
  ASSUME NEW d \in ChainType, d.known,
         d.departed = {} =>
            /\ FilesOK(d.lines, d.files, d.synced) /\ Declared(d.lines, d.files, d.synced)
            /\ Keyed(d) /\ d.segment \in d.files /\ d.segment + 1 \notin d.files
            /\ Current(d) # <<>> /\ d.head = Hash(LastLine(Current(d)))
            /\ d.seq = LastLine(Current(d)).seq
  PROVE  Fit(OpenFile(d)) /\ OpenFile(d).open
<1> PICK e : e = OpenFile(d)
  OBVIOUS
<1>1. /\ e \in ChainType /\ e.lines = d.lines /\ e.files = d.files \cup {d.segment} /\ e.open
      /\ e.segment = d.segment /\ e.departed = d.departed /\ e.known = d.known
      /\ e.synced = d.synced /\ e.seq = d.seq /\ e.head = d.head
      /\ e.flushed = Len(Current(d)) /\ Current(e) = Current(d)
  BY OpenIs
<1>2. Len(Current(d)) \in Nat /\ Current(d) = d.lines[d.segment]
  BY Fields DEF Current
<1>3. ASSUME d.departed = {} PROVE Sound(e)
  <2>1. e.files = d.files
    BY <1>1, <1>3
  <2>2. d.synced[d.segment] <= Len(Current(d))
    BY <1>2, <1>3 DEF FilesOK
  <2>3. Struct(e)
    BY <1>1, <1>2, <1>3, <2>1, <2>2 DEF Struct
  <2>4. Keyed(e)
    BY <1>1, <1>3, <2>1 DEF Keyed
  <2> QED  BY <1>1, <1>3, <2>1, <2>3, <2>4 DEF Sound
<1>4. Fit(e)
  BY <1>1, <1>3 DEF Fit
<1> QED  BY <1>1, <1>4

\* The segment that roll moves on to, and the window it may meet there.
Advance(y) == [y EXCEPT !.open = FALSE, !.segment = @ + 1, !.bytes = 0, !.flushed = 0]
Depart(n)  == [n EXCEPT !.departed = @ \cup {"failedRoll"}]

LEMMA AdvanceIs ==
  ASSUME NEW y \in ChainType, y.segment + 1 \in Segments
  PROVE  /\ Advance(y) \in ChainType /\ Advance(y).lines = y.lines
         /\ Advance(y).files = y.files /\ Advance(y).segment = y.segment + 1
         /\ Advance(y).departed = y.departed /\ Advance(y).known = y.known
         /\ ~ Advance(y).open /\ Advance(y).synced = y.synced
         /\ Advance(y).seq = y.seq /\ Advance(y).head = y.head
BY DEF ChainType, Advance

LEMMA DepartIs ==
  ASSUME NEW n \in ChainType
  PROVE  Depart(n) \in ChainType /\ Depart(n).departed # {} /\ Depart(n).open = n.open
<1>1. n.departed \cup {"failedRoll"} \in SUBSET Departures
  BY Fields DEF Departures
<1>2. /\ Depart(n) \in ChainType /\ Depart(n).departed = n.departed \cup {"failedRoll"}
      /\ Depart(n).open = n.open
  BY <1>1 DEF ChainType, Depart
<1> QED  BY <1>2

LEMMA RollFits ==
  ASSUME Env, NEW d, Fit(d), d.open, d.segment < MaxSegments, NEW fail,
         ~ d.broken => d.unsigned > 0 \/ LastLine(Current(d)).kind = "batchsig"
  PROVE  Fit(Roll(d, fail))
<1> PICK s : s = Flush(SignTail(d, fail), fail)
  OBVIOUS
<1>1. /\ Fit(s) /\ Same(d, s) /\ s.open /\ s.segment = d.segment
      /\ ~ s.broken => /\ s.flushed = Len(Current(s))
                       /\ LastLine(Current(s)).kind = "batchsig"
  BY FinishFits DEF Same
<1>2. CASE s.broken \/ fail = "sync"
  <2>1. Roll(d, fail) = s
    BY <1>2 DEF Roll
  <2> QED  BY <1>1, <2>1
<1>3. CASE ~ (s.broken \/ fail = "sync")
  <2> PICK y : y = Sync(s)
    OBVIOUS
  <2> PICK n : n = Advance(y)
    OBVIOUS
  <2>1. /\ Fit(y) /\ y.lines = s.lines /\ y.files = s.files /\ y.segment = d.segment
        /\ y.departed = s.departed /\ y.known = s.known /\ y.seq = s.seq /\ y.head = s.head
        /\ y.synced = [s.synced EXCEPT ![s.segment] = s.flushed]
    BY <1>1, SyncFits
  <2>2. y \in ChainType /\ y.known /\ s \in ChainType
    BY <1>1, <2>1 DEF Fit
  <2>3. d.segment \in Nat \ {0} /\ d.segment \in Segments /\ d.segment + 1 \in Segments
        /\ s.flushed \in Nat /\ s.synced \in [Segments -> Nat] /\ y.files \in SUBSET Segments
        /\ y.lines \in [Segments -> Seq(Line)]
    <3>1. d \in ChainType
      BY DEF Fit
    <3>2. d.segment \in Nat \ {0} /\ d.segment \in Segments
      BY <3>1, Fields
    <3>3. d.segment + 1 \in Segments
      BY <3>2, ChainAssumption DEF Segments
    <3>4. s.flushed \in Nat /\ s.synced \in [Segments -> Nat] /\ y.files \in SUBSET Segments
          /\ y.lines \in [Segments -> Seq(Line)]
      BY <2>2, Fields
    <3> QED  BY <3>2, <3>3, <3>4
  <2>4. /\ n \in ChainType /\ n.lines = y.lines /\ n.files = y.files
        /\ n.segment = d.segment + 1 /\ n.departed = y.departed /\ n.known /\ ~ n.open
        /\ n.synced = y.synced /\ n.seq = y.seq /\ n.head = y.head
    <3>1. y.segment + 1 \in Segments
      BY <2>1, <2>3
    <3>2. /\ n \in ChainType /\ n.lines = y.lines /\ n.files = y.files
          /\ n.segment = y.segment + 1 /\ n.departed = y.departed /\ n.known = y.known
          /\ ~ n.open /\ n.synced = y.synced /\ n.seq = y.seq /\ n.head = y.head
      BY <2>2, <3>1, AdvanceIs
    <3> QED  BY <2>1, <2>2, <3>2
  <2>5. CASE fail = "open"
    <3> PICK r : r = Depart(n)
      OBVIOUS
    <3>1. Roll(d, fail) = r
      BY <1>3, <2>5 DEF Roll, Advance, Depart
    <3>2. r \in ChainType /\ r.departed # {} /\ ~ r.open
      BY <2>4, DepartIs
    <3> QED  BY <3>1, <3>2 DEF Fit
  <2>6. CASE fail # "open"
    <3> PICK o : o = OpenFile(n)
      OBVIOUS
    <3>1. Roll(d, fail) = Put(o, Header(n))
      BY <1>3, <2>6 DEF Roll, Advance
    <3>2. /\ o \in ChainType /\ o.lines = y.lines /\ o.files = y.files \cup {n.segment} /\ o.open
          /\ o.segment = d.segment + 1 /\ o.departed = y.departed /\ o.known
          /\ o.synced = y.synced /\ o.seq = y.seq /\ o.head = y.head
          /\ o.flushed = Len(Current(n)) /\ Current(n) = y.lines[d.segment + 1]
      BY <2>4, OpenIs DEF Current
    <3>3. Header(o) = Header(n)
      <4>1. NewLine(o, "header") = NewLine(n, "header") /\ o.segment = n.segment
        BY <2>4, <3>2 DEF NewLine
      <4> QED  BY <4>1 DEF Header
    <3> PICK u : u = d.segment
      OBVIOUS
    <3>4. ASSUME o.departed = {} PROVE Begins(o, y.files, u + 1)
      <4>1. Sound(y)
        BY <2>1, <3>2, <3>4 DEF Fit
      <4>2. /\ u \in y.files /\ u + 1 \notin y.files /\ y.lines[u] # <<>>
            /\ y.head = Hash(LastLine(y.lines[u])) /\ y.seq = LastLine(y.lines[u]).seq
            /\ FilesOK(y.lines, y.files, y.synced) /\ Declared(y.lines, y.files, y.synced)
            /\ \A t \in y.files : y.lines[t] # <<>> => y.lines[t][1].kid = key
        BY <2>1, <2>2, <4>1 DEF Sound, Struct, Keyed, Current
      <4>3. y.lines[u + 1] = <<>>
        BY <2>3, <4>2 DEF FilesOK
      <4>4. y.synced[u] = Len(y.lines[u]) /\ LastLine(y.lines[u]).kind = "batchsig"
        BY <1>1, <1>3, <2>1, <2>3 DEF Current
      <4>5. \A t \in y.files : t <= u + 1
        <5> SUFFICES ASSUME NEW t \in y.files, ~ (t <= u + 1) PROVE FALSE
          OBVIOUS
        <5>1. t \in Nat /\ u \in Nat
          BY <2>3 DEF Segments
        <5>2. u + 1 \in u .. t
          BY <5>1
        <5> QED  BY <4>2, <5>2 DEF FilesOK, Convex
      <4>6. Len(Current(n)) = 0
        BY <3>2, <4>3
      <4> PICK v : v = u + 1
        OBVIOUS
      <4>7. v > 1 /\ v - 1 = u
        <5>1. u \in Nat /\ u # 0
          BY <2>3
        <5> QED  BY <5>1
      <4>8. o.files = y.files \cup {v} /\ o.lines[v] = <<>> /\ o.flushed = 0
        BY <2>4, <3>2, <4>3, <4>6
      <4>9. /\ FilesOK(o.lines, y.files, o.synced) /\ Declared(o.lines, y.files, o.synced)
            /\ \A t \in y.files : t <= v
            /\ \A t \in y.files : o.lines[t] # <<>> => o.lines[t][1].kid = key
        BY <3>2, <4>2, <4>5
      <4>10. /\ u \in y.files /\ o.lines[u] # <<>> /\ o.synced[u] = Len(o.lines[u])
             /\ LastLine(o.lines[u]).kind = "batchsig"
             /\ o.seq = LastLine(o.lines[u]).seq /\ o.head = Hash(LastLine(o.lines[u]))
        BY <3>2, <4>2, <4>4
      <4>11. Begins(o, y.files, v)
        BY <4>7, <4>8, <4>9, <4>10 DEF Begins
      <4> QED  BY <4>11
    <3>5. Fit(Put(o, Header(o)))
      <4>1. o \in ChainType /\ o.known /\ o.open
        BY <3>2
      <4>2. y.files \in SUBSET Segments
        BY <2>3
      <4>3. o.departed = {} => Begins(o, y.files, o.segment)
        BY <3>2, <3>4
      <4> QED  BY <4>1, <4>2, <4>3, BeginFits
    <3> QED  BY <3>1, <3>3, <3>5
  <2> QED  BY <2>5, <2>6
<1> QED  BY <1>2, <1>3

LEMMA BatchFirstFits ==
  ASSUME NEW d, Fit(d), NEW n \in Nat
  PROVE  /\ Fit([d EXCEPT !.first = n]) /\ Same(d, [d EXCEPT !.first = n])
         /\ Current([d EXCEPT !.first = n]) = Current(d)
         /\ [d EXCEPT !.first = n].unsigned = d.unsigned
<1> PICK e : e = [d EXCEPT !.first = n]
  OBVIOUS
<1>1. d \in ChainType
  BY DEF Fit
<1>2. /\ e \in ChainType /\ Same(d, e) /\ e.lines = d.lines /\ e.unsigned = d.unsigned
      /\ e.head = d.head /\ e.seq = d.seq /\ e.flushed = d.flushed
  BY <1>1 DEF ChainType, Same
<1>3. Current(e) = Current(d)
  BY <1>2 DEF Current, Same
<1>4. Sound(d) => Sound(e)
  BY <1>2, <1>3 DEF Struct, Keyed, Sound, Same
<1>5. Fit(e)
  BY <1>2, <1>4 DEF Fit, Same
<1> QED  BY <1>2, <1>3, <1>5

LEMMA WriteRecordFits ==
  ASSUME Env, NEW p, Fit(p), p.open, p.segment < MaxSegments, NEW fail
  PROVE  Fit(WriteRecord(p, fail))
<1> PICK w : w = AppendLine(p, NewLine(p, "record"), fail)
  OBVIOUS
<1> PICK n : n = IF w.unsigned = 1 THEN w.seq ELSE w.first
  OBVIOUS
<1> PICK b : b = [w EXCEPT !.first = n]
  OBVIOUS
<1> PICK s : s = IF b.unsigned >= BatchMax THEN SignBatch(b, fail) ELSE b
  OBVIOUS
<1>1. p \in ChainType
  BY DEF Fit
<1>2. NextLine(p, NewLine(p, "record")) /\ NewLine(p, "record").kind = "record"
  BY <1>1, NewLines
<1>3. /\ Fit(w) /\ Same(p, w)
      /\ ~ w.broken => w = Put(p, NewLine(p, "record"))
  BY <1>2, AppendLineFits
<1>4. WriteRecord(p, fail) = IF w.broken THEN w
                             ELSE IF s.bytes >= SegmentMax THEN Roll(s, fail)
                             ELSE s
  BY DEF WriteRecord
<1>5. CASE w.broken
  BY <1>3, <1>4, <1>5
<1>6. CASE ~ w.broken
  <2>1. w \in ChainType /\ w.unsigned \in Nat /\ n \in Nat
    BY <1>3, Fields DEF Fit
  <2>2. w.unsigned > 0
    <3>1. w.unsigned = p.unsigned + 1
      <4> PICK l : l = NewLine(p, "record")
        OBVIOUS
      <4>1. l \in Line /\ l.kind = "record"
        BY <1>2 DEF NextLine
      <4>2. Put(p, l).unsigned = p.unsigned + 1
        BY <1>1, <4>1, PutIs
      <4> QED  BY <1>3, <1>6, <4>2
    <3>2. p.unsigned \in Nat
      BY <1>1, Fields
    <3> QED  BY <3>1, <3>2
  <2>3. Fit(b) /\ Same(w, b) /\ b.unsigned = w.unsigned
    BY <1>3, <2>1, BatchFirstFits
  <2>4. Same(p, b) /\ b.open
    BY <1>3, <2>3, SameTrans DEF Same
  <2>5. /\ Fit(s) /\ Same(b, s)
        /\ ~ s.broken => s.unsigned > 0 \/ LastLine(Current(s)).kind = "batchsig"
    <3>1. CASE b.unsigned >= BatchMax
      <4>1. s = SignBatch(b, fail)
        BY <3>1
      <4>2. Fit(SignBatch(b, fail)) /\ Same(b, SignBatch(b, fail))
        BY <2>3, <2>4, SignBatchFits
      <4>3. ASSUME ~ SignBatch(b, fail).broken
            PROVE  LastLine(Current(SignBatch(b, fail))).kind = "batchsig"
        BY <2>3, <2>4, <4>3, SignBatchFits
      <4> QED  BY <4>1, <4>2, <4>3
    <3>2. CASE ~ (b.unsigned >= BatchMax)
      BY <2>2, <2>3, <3>2 DEF Same
    <3> QED  BY <3>1, <3>2
  <2>6. s.open /\ s.segment < MaxSegments
    BY <2>4, <2>5 DEF Same
  <2>7. Fit(Roll(s, fail))
    BY <2>5, <2>6, RollFits
  <2> QED  BY <1>4, <1>6, <2>5, <2>7
<1> QED  BY <1>5, <1>6
-----------------------------------------------------------------------------
(* part().                                                                 *)

Latest(d) == IF LatestSegment(d.files) = 0 THEN 1 ELSE LatestSegment(d.files)

LEMMA LatestFacts ==
  ASSUME NEW d \in ChainType
  PROVE  /\ Latest(d) \in Segments
         /\ 1 \in d.files => /\ Latest(d) \in d.files /\ Latest(d) + 1 \notin d.files
                             /\ 1 .. Latest(d) \subseteq d.files
         /\ 1 \notin d.files => Latest(d) = 1
<1>1. 1 \in Segments /\ d.files \in SUBSET Segments /\ 0 \notin Segments
  BY ChainAssumption, Fields DEF Segments
<1>2. CASE 1 \in d.files
  <2>1. /\ LatestSegment(d.files) \in d.files /\ LatestSegment(d.files) + 1 \notin d.files
        /\ 1 .. LatestSegment(d.files) \subseteq d.files
    BY <1>1, <1>2, LatestIs
  <2>2. Latest(d) = LatestSegment(d.files)
    BY <1>1, <2>1 DEF Latest
  <2> QED  BY <1>1, <1>2, <2>1, <2>2
<1>3. CASE 1 \notin d.files
  BY <1>1, <1>3 DEF Latest, LatestSegment
<1> QED  BY <1>2, <1>3

\* What part() makes of the latest file, by the parts of its struct.
ReviveParts(d, m, f, D, n, h, q, p) ==
    /\ m = Latest(d)
    /\ f = d.lines[m]
    /\ D = d.departed \cup (IF f = <<>> /\ m > 1 THEN {"emptySegment"} ELSE {})
                      \cup (IF 1 \notin d.files /\ d.files # {} THEN {"prunedFirst"} ELSE {})
    /\ n = IF f = <<>> THEN 0 ELSE f[Len(f)].seq
    /\ h = IF f = <<>> THEN NoHash ELSE Hash(f[Len(f)])
    /\ q = [d EXCEPT !.known = TRUE, !.segment = m, !.unsigned = 0, !.first = 0,
                     !.seq = n, !.head = h, !.bytes = Len(f), !.departed = D]
    /\ p = OpenFile(q)
    /\ Revive(d) = IF f = <<>> THEN Put(p, Header(p))
                   ELSE IF Inherited(f) > 0 THEN Put(p, NewLine(p, "resumed"))
                   ELSE p

LEMMA Revived ==
  ASSUME NEW d
  PROVE  \E m, f, D, n, h, q, p : ReviveParts(d, m, f, D, n, h, q, p)
<1>m. PICK m : m = Latest(d)
  OBVIOUS
<1>f. PICK f : f = d.lines[m]
  OBVIOUS
<1>D. PICK D : D = d.departed \cup (IF f = <<>> /\ m > 1 THEN {"emptySegment"} ELSE {})
                   \cup (IF 1 \notin d.files /\ d.files # {} THEN {"prunedFirst"} ELSE {})
  OBVIOUS
<1>n. PICK n : n = IF f = <<>> THEN 0 ELSE f[Len(f)].seq
  OBVIOUS
<1>h. PICK h : h = IF f = <<>> THEN NoHash ELSE Hash(f[Len(f)])
  OBVIOUS
<1>q. PICK q : q = [d EXCEPT !.known = TRUE, !.segment = m, !.unsigned = 0, !.first = 0,
                             !.seq = n, !.head = h, !.bytes = Len(f), !.departed = D]
  OBVIOUS
<1>p. PICK p : p = OpenFile(q)
  OBVIOUS
<1> DEFINE latest == IF LatestSegment(d.files) = 0 THEN 1 ELSE LatestSegment(d.files)
           g == d.lines[latest]
           P == OpenFile([d EXCEPT
                  !.known = TRUE, !.segment = latest, !.unsigned = 0, !.first = 0,
                  !.seq = IF g = <<>> THEN 0 ELSE g[Len(g)].seq,
                  !.head = IF g = <<>> THEN NoHash ELSE Hash(g[Len(g)]),
                  !.bytes = Len(g),
                  !.departed = @ \cup
                     (IF g = <<>> /\ latest > 1 THEN {"emptySegment"} ELSE {}) \cup
                     (IF 1 \notin d.files /\ d.files # {} THEN {"prunedFirst"} ELSE {})])
<1>1. Revive(d) = IF g = <<>> THEN Put(P, Header(P))
                  ELSE IF Inherited(g) > 0 THEN Put(P, NewLine(P, "resumed"))
                  ELSE P
  BY DEF Revive
<1>2. latest = m
  BY <1>m DEF Latest
<1>3. g = f
  <2> HIDE DEF latest
  <2> QED  BY <1>2, <1>f
<1>4. P = p
  <2> HIDE DEF latest, g
  <2> QED  BY <1>2, <1>3, <1>D, <1>n, <1>h, <1>q, <1>p
<1> HIDE DEF g, P
<1>5. Revive(d) = IF f = <<>> THEN Put(p, Header(p))
                  ELSE IF Inherited(f) > 0 THEN Put(p, NewLine(p, "resumed"))
                  ELSE p
  BY <1>1, <1>3, <1>4
<1>6. ReviveParts(d, m, f, D, n, h, q, p)
  BY <1>m, <1>f, <1>D, <1>n, <1>h, <1>q, <1>p, <1>5 DEF ReviveParts
<1> QED  BY <1>6

LEMMA ReviveFits ==
  ASSUME Env, NEW d, Fit(d), ~ d.known
  PROVE  Fit(Revive(d)) /\ Revive(d).open /\ Revive(d).segment = Latest(d)
<1>0. PICK m, f, D, n, h, q, p : ReviveParts(d, m, f, D, n, h, q, p)
  BY Revived
<1>m. m = Latest(d)
  BY <1>0 DEF ReviveParts
<1>f. f = d.lines[m]
  BY <1>0 DEF ReviveParts
<1>D. D = d.departed \cup (IF f = <<>> /\ m > 1 THEN {"emptySegment"} ELSE {})
          \cup (IF 1 \notin d.files /\ d.files # {} THEN {"prunedFirst"} ELSE {})
  BY <1>0 DEF ReviveParts
<1>n. n = IF f = <<>> THEN 0 ELSE f[Len(f)].seq
  BY <1>0 DEF ReviveParts
<1>h. h = IF f = <<>> THEN NoHash ELSE Hash(f[Len(f)])
  BY <1>0 DEF ReviveParts
<1>q. q = [d EXCEPT !.known = TRUE, !.segment = m, !.unsigned = 0, !.first = 0,
                    !.seq = n, !.head = h, !.bytes = Len(f), !.departed = D]
  BY <1>0 DEF ReviveParts
<1>p. p = OpenFile(q)
  BY <1>0 DEF ReviveParts
<1>1. Revive(d) = IF f = <<>> THEN Put(p, Header(p))
                  ELSE IF Inherited(f) > 0 THEN Put(p, NewLine(p, "resumed"))
                  ELSE p
  BY <1>0 DEF ReviveParts
<1>2. d \in ChainType
  BY DEF Fit
<1>3. /\ m \in Segments
      /\ 1 \in d.files => m \in d.files /\ m + 1 \notin d.files /\ 1 .. m \subseteq d.files
      /\ 1 \notin d.files => m = 1
  BY <1>m, <1>2, LatestFacts
<1>4. /\ d.lines \in [Segments -> Seq(Line)] /\ d.files \in SUBSET Segments
      /\ d.departed \in SUBSET Departures /\ f \in Seq(Line) /\ Len(f) \in Nat
      /\ Segments \subseteq Nat \ {0} /\ m \in Nat \ {0}
  <2>1. Segments \subseteq Nat \ {0}
    BY ChainAssumption DEF Segments
  <2>2. /\ d.lines \in [Segments -> Seq(Line)] /\ d.files \in SUBSET Segments
        /\ d.departed \in SUBSET Departures
    BY <1>2, Fields
  <2>3. f \in Seq(Line)
    BY <1>f, <1>3, <2>2
  <2> QED  BY <1>3, <2>1, <2>2, <2>3
<1>5. q \in ChainType
  <2>1. f # <<>> => f[Len(f)].seq \in Nat /\ f[Len(f)].instance \in Nat
    BY <1>4, LinesOf, LineTypes DEF LastLine
  <2>2. n \in Nat
    BY <1>n, <2>1
  <2>3. h \in Nat \X Nat
    BY <1>h, <2>1 DEF NoHash, Hash
  <2>4. D \in SUBSET Departures
    BY <1>D, <1>4 DEF Departures
  <2> QED  BY <1>q, <1>2, <1>3, <1>4, <2>2, <2>3, <2>4 DEF ChainType
<1>6. /\ q.lines = d.lines /\ q.files = d.files /\ q.synced = d.synced /\ q.departed = D
      /\ q.known /\ q.segment = m /\ q.seq = n /\ q.head = h
  BY <1>q, <1>2 DEF ChainType
<1>c. Current(q) = f
  BY <1>f, <1>6 DEF Current
<1>7. ASSUME D = {}
      PROVE  /\ FilesOK(q.lines, q.files, q.synced) /\ Declared(q.lines, q.files, q.synced)
             /\ Keyed(q) /\ m + 1 \notin q.files
             /\ 1 \in d.files \/ d.files = {}
             /\ f = <<>> => m = 1
  <2>1. d.departed = {} /\ ~ (f = <<>> /\ m > 1) /\ ~ (1 \notin d.files /\ d.files # {})
    BY <1>D, <1>7
  <2>2. Sound(d)
    BY <2>1 DEF Fit
  <2>3. f = <<>> => m = 1
    BY <1>4, <2>1
  <2> QED  BY <1>3, <1>6, <2>1, <2>2, <2>3 DEF Sound, Keyed
<1>8. /\ p \in ChainType /\ p.lines = d.lines /\ p.files = d.files \cup {m} /\ p.open
      /\ p.segment = m /\ p.departed = D /\ p.known /\ p.synced = d.synced
      /\ p.seq = n /\ p.head = h /\ p.flushed = Len(f)
  BY <1>p, <1>5, <1>6, <1>c, OpenIs
<1>9. CASE f = <<>>
  <2>1. ASSUME D = {} PROVE Begins(p, d.files, m)
    <3>1. m = 1 /\ p.seq = 0 /\ p.head = NoHash /\ p.flushed = 0 /\ p.lines[m] = <<>>
      BY <1>f, <1>n, <1>h, <1>7, <1>8, <1>9, <2>1
    <3>2. \A t \in d.files : t <= m
      <4> SUFFICES ASSUME NEW t \in d.files, ~ (t <= m) PROVE FALSE
        OBVIOUS
      <4>1. 1 \in d.files
        BY <1>7, <2>1
      <4>2. t \in Nat /\ m + 1 \in 1 .. t
        <5>1. t \in Nat /\ m \in Nat
          BY <1>4
        <5> QED  BY <5>1
      <4>3. 1 .. t \subseteq d.files
        BY <1>6, <1>7, <2>1, <4>1 DEF FilesOK, Convex
      <4> QED  BY <1>6, <1>7, <2>1, <4>2, <4>3
    <3>3. FilesOK(p.lines, d.files, p.synced) /\ Declared(p.lines, d.files, p.synced)
      BY <1>6, <1>7, <1>8, <2>1
    <3>4. \A t \in d.files : p.lines[t] # <<>> => p.lines[t][1].kid = key
      BY <1>6, <1>7, <1>8, <2>1 DEF Keyed
    <3> QED  BY <1>8, <3>1, <3>2, <3>3, <3>4 DEF Begins
  <2>2. Fit(Put(p, Header(p)))
    BY <1>4, <1>8, <2>1, BeginFits
  <2>3. Same(p, Put(p, Header(p)))
    <3> PICK l : l = Header(p)
      OBVIOUS
    <3>1. l \in Line
      BY <1>8, NewLines
    <3>2. Same(p, Put(p, l))
      BY <1>8, <3>1, PutIs
    <3> QED  BY <3>2
  <2>4. Revive(d) = Put(p, Header(p))
    BY <1>1, <1>9
  <2> QED  BY <1>m, <1>8, <2>2, <2>3, <2>4 DEF Same
<1>10. CASE f # <<>>
  <2>1. ASSUME D = {} PROVE q.segment \in q.files
    <3>1. 1 \in d.files
      <4> SUFFICES ASSUME d.files = {} PROVE FALSE
        BY <1>7, <2>1
      <4>1. f = <<>>
        BY <1>f, <1>3, <1>6, <1>7, <2>1 DEF FilesOK
      <4> QED  BY <1>10, <4>1
    <3> QED  BY <1>3, <1>6, <3>1
  <2>2. Fit(p)
    <3>1. q.head = Hash(LastLine(Current(q))) /\ q.seq = LastLine(Current(q)).seq
      BY <1>n, <1>h, <1>c, <1>6, <1>10 DEF LastLine
    <3> QED  BY <1>p, <1>c, <1>5, <1>6, <1>7, <1>10, <2>1, <3>1, OpenFits
  <2>3. CASE Inherited(f) > 0
    <3> PICK l : l = NewLine(p, "resumed")
      OBVIOUS
    <3>1. NextLine(p, l) /\ l \in Line
      BY <1>8, NewLines DEF NextLine
    <3>2. Fit(Put(p, l))
      BY <1>8, <2>2, <3>1, PutFits
    <3>3. Same(p, Put(p, l))
      BY <1>8, <3>1, PutIs
    <3>4. Revive(d) = Put(p, l)
      BY <1>1, <1>10, <2>3
    <3> QED  BY <1>m, <1>8, <3>2, <3>3, <3>4 DEF Same
  <2>4. CASE ~ (Inherited(f) > 0)
    BY <1>m, <1>1, <1>8, <1>10, <2>2, <2>4
  <2> QED  BY <2>3, <2>4
<1> QED  BY <1>9, <1>10

\* A line taken for a whole one is a departure: only the types are left to keep.
LEMMA GlueIs ==
  ASSUME Env, NEW d, Fit(d), ~ d.known
  PROVE  \E p \in ChainType, l \in Line :
            /\ Glue(d) = Put(p, l) /\ p.open /\ p.known /\ p.departed # {}
            /\ ~ InOrder(p.departed) /\ p.segment = Latest(d) /\ l.kind = "resumed"
<1>r. PICK r : r = Revive(d)
  OBVIOUS
<1>1. r \in ChainType /\ r.open /\ r.known /\ r.segment = Latest(d)
  BY <1>r, ReviveFits DEF Fit
<1>p. PICK p : p = [r EXCEPT !.torn = 0, !.departed = @ \cup {"gluedTail"}]
  OBVIOUS
<1>2. r.departed \cup {"gluedTail"} \in SUBSET Departures /\ 0 \in 0 .. MaxSegments
  BY <1>1, Fields, ChainAssumption DEF Departures
<1>3. /\ p \in ChainType /\ p.open /\ p.known /\ p.segment = Latest(d)
      /\ p.departed = r.departed \cup {"gluedTail"}
  BY <1>1, <1>2, <1>p DEF ChainType
<1>n. PICK n : n = NewLine(p, "resumed")
  OBVIOUS
<1>4. n \in Line /\ n.kind = "resumed" /\ NoHash \in Nat \X Nat
  BY <1>3, <1>n, NewLines DEF NextLine, NoHash
<1>l. PICK l : l = [n EXCEPT !.prev = NoHash]
  OBVIOUS
<1>5. l \in Line /\ l.kind = "resumed"
  BY <1>4, <1>l DEF Line
<1>6. Glue(d) = Put(p, l)
  BY <1>r, <1>p, <1>n, <1>l DEF Glue
<1> QED  BY <1>3, <1>5, <1>6 DEF InOrder

LEMMA GlueFits ==
  ASSUME Env, NEW d, Fit(d), ~ d.known
  PROVE  /\ Fit(Glue(d)) /\ Glue(d).open /\ Glue(d).segment = Latest(d)
         /\ ~ InOrder(Glue(d).departed)
<1>1. PICK p \in ChainType, l \in Line :
         /\ Glue(d) = Put(p, l) /\ p.open /\ p.known /\ p.departed # {}
         /\ ~ InOrder(p.departed) /\ p.segment = Latest(d) /\ l.kind = "resumed"
  BY GlueIs
<1>2. Put(p, l) \in ChainType /\ Same(p, Put(p, l))
  BY PutIs
<1> QED  BY <1>1, <1>2 DEF Same, Fit

LEMMA PartFits ==
  ASSUME Env, NEW d, Fit(d)
  PROVE  /\ Fit(Part(d)) /\ Part(d).open
         /\ d.segment < MaxSegments /\ MaxSegments \notin d.files
               => Part(d).segment < MaxSegments
<1>1. d \in ChainType /\ d.segment \in Segments
  BY Fields DEF Fit
<1>2. CASE ~ d.known
  <2>1. Fit(Part(d)) /\ Part(d).open /\ Part(d).segment = Latest(d)
    BY <1>2, ReviveFits, GlueFits DEF Part
  <2>2. d.segment < MaxSegments /\ MaxSegments \notin d.files => Latest(d) < MaxSegments
    <3>1. Latest(d) \in Segments /\ (Latest(d) \in d.files \/ Latest(d) = 1)
      BY <1>1, LatestFacts
    <3> QED  BY <1>1, <3>1, ChainAssumption DEF Segments
  <2> QED  BY <2>1, <2>2
<1>3. CASE d.known /\ ~ d.open
  <2>1. Part(d) = OpenFile(d)
    BY <1>3 DEF Part
  <2>2. Fit(OpenFile(d)) /\ OpenFile(d).open
    BY <1>1, <1>3, OpenFits DEF Fit, Sound, Struct
  <2>3. OpenFile(d).segment = d.segment
    BY <1>1, OpenIs
  <2> QED  BY <2>1, <2>2, <2>3
<1>4. CASE d.known /\ d.open
  BY <1>4 DEF Part
<1> QED  BY <1>2, <1>3, <1>4
-----------------------------------------------------------------------------
(* Giving up the handle, the struct, and what the machine loses.           *)

LEMMA ReleaseFits ==
  ASSUME NEW d, Fit(d)
  PROVE  Fit([d EXCEPT !.open = FALSE])
<1> PICK e : e = [d EXCEPT !.open = FALSE]
  OBVIOUS
<1>1. d \in ChainType
  BY DEF Fit
<1>2. /\ e \in ChainType /\ e.lines = d.lines /\ e.files = d.files /\ e.synced = d.synced
      /\ e.known = d.known /\ ~ e.open /\ e.departed = d.departed /\ e.segment = d.segment
      /\ e.head = d.head /\ e.seq = d.seq
  BY <1>1 DEF ChainType
<1>3. Current(e) = Current(d)
  BY <1>2 DEF Current
<1>4. Sound(d) => Sound(e)
  BY <1>2, <1>3 DEF Struct, Keyed, Sound
<1> QED  BY <1>2, <1>4 DEF Fit

LEMMA NoStructIs ==
  ASSUME NEW d \in ChainType
  PROVE  /\ NoStruct(d) \in ChainType /\ NoStruct(d).lines = d.lines
         /\ NoStruct(d).files = d.files /\ NoStruct(d).synced = d.synced
         /\ NoStruct(d).torn = d.torn /\ NoStruct(d).departed = d.departed
         /\ ~ NoStruct(d).known /\ ~ NoStruct(d).open
<1>1. 1 \in Segments /\ NoHash \in Nat \X Nat
  BY ChainAssumption DEF Segments, NoHash
<1> QED  BY <1>1 DEF NoStruct, ChainType

\* Without a struct only the files count.
LEMMA RestFits ==
  ASSUME NEW e \in ChainType, ~ e.known, ~ e.open,
         e.departed = {} => /\ FilesOK(e.lines, e.files, e.synced)
                            /\ Declared(e.lines, e.files, e.synced) /\ Keyed(e)
  PROVE  Fit(e)
BY DEF Fit, Sound, Struct

LEMMA NoStructFits ==
  ASSUME NEW d, Fit(d)
  PROVE  Fit(NoStruct(d)) /\ ~ NoStruct(d).known
<1>1. d \in ChainType /\ (d.departed = {} => Sound(d))
  BY DEF Fit
<1> PICK e : e = NoStruct(d)
  OBVIOUS
<1>2. /\ e \in ChainType /\ e.lines = d.lines /\ e.files = d.files /\ e.synced = d.synced
      /\ e.departed = d.departed /\ ~ e.known /\ ~ e.open
  BY <1>1, NoStructIs
<1>3. Fit(e)
  BY <1>1, <1>2, RestFits DEF Sound, Keyed
<1> QED  BY <1>2, <1>3

LEMMA CutDeclared ==
  ASSUME NEW L \in [Segments -> Seq(Line)], NEW F \in SUBSET Segments,
         NEW Y \in [Segments -> Nat], FilesOK(L, F, Y), Declared(L, F, Y),
         NEW s \in F, NEW k \in Nat, Y[s] <= k, k <= Len(L[s]),
         s + 1 \in F => k = Len(L[s]),
         NEW M, M = [L EXCEPT ![s] = SubSeq(@, 1, k)]
  PROVE  /\ Declared(M, F, Y)
         /\ \A t \in F : M[t] # <<>> => L[t] # <<>> /\ M[t][1] = L[t][1]
<1>1. /\ s \in Nat /\ s \in Segments /\ F \subseteq Nat /\ F \subseteq Segments
      /\ L[s] \in Seq(Line) /\ Len(L[s]) \in Nat /\ Y[s] \in Nat
      /\ M[s] = SubSeq(L[s], 1, k) /\ \A t \in Segments : t # s => M[t] = L[t]
  BY ChainAssumption DEF Segments
<1>2. /\ Len(M[s]) = k /\ \A i \in 1 .. k : M[s][i] = L[s][i]
      /\ M[s] # <<>> => k >= 1 /\ L[s] # <<>>
  BY <1>1
<1>3. ASSUME NEW t \in F, First(F, t), L[t] # <<>>, t > 1 PROVE M[t][1] = L[t][1]
  <2>1. CASE t # s
    BY <1>1, <2>1
  <2>2. CASE t = s
    <3>1. PICK u \in F : Y[u] > 0
      BY <1>3, FirstHasLines
    <3>2. k > 0
      <4>1. CASE u = s
        BY <1>1, <3>1, <4>1
      <4>2. CASE u # s
        <5>1. s < u /\ u \in Nat
          BY <1>1, <1>3, <2>2, <4>2 DEF First
        <5>2. s + 1 \in s .. u
          BY <1>1, <5>1
        <5>3. k = Len(L[s])
          BY <5>2 DEF FilesOK, Convex
        <5> QED  BY <1>1, <1>3, <2>2, <5>3
      <4> QED  BY <4>1, <4>2
    <3> QED  BY <1>2, <2>2, <3>2
  <2> QED  BY <2>1, <2>2
<1>4. ASSUME NEW t \in F, NEW i \in 1 .. Y[t] PROVE M[t][i] = L[t][i]
  <2>1. CASE t = s
    <3>1. i \in 1 .. k
      BY <1>1, <2>1
    <3> QED  BY <1>2, <2>1, <3>1
  <2>2. CASE t # s
    BY <1>1, <2>2
  <2> QED  BY <2>1, <2>2
<1>5. \A t \in F : Y[t] \in Nat /\ Y[t] <= Y[t]
  BY <1>1
<1>6. Retains(L, F, Y, M, F, Y)
  <2>1. \A t \in F : First(F, t) /\ L[t] # <<>> /\ t > 1 => M[t][1] = L[t][1]
    BY <1>3
  <2>2. \A t \in F : Y[t] > 0 => /\ t \in F /\ Y[t] \in Nat /\ Y[t] <= Y[t]
                                 /\ \A i \in 1 .. Y[t] : M[t][i] = L[t][i]
    BY <1>4, <1>5
  <2> QED  BY <2>1, <2>2 DEF Retains
<1>7. Declared(M, F, Y)
  BY <1>6, DeclaredKeeps
<1>8. ASSUME NEW t \in F, M[t] # <<>> PROVE L[t] # <<>> /\ M[t][1] = L[t][1]
  BY <1>1, <1>2, <1>8
<1> QED  BY <1>7, <1>8

LEMMA CutFits ==
  ASSUME NEW d, Fit(d), NEW s \in Segments, NEW k \in Nat, NEW torn \in BOOLEAN,
         k <= Len(d.lines[s]),
         d.departed = {} => /\ s \in d.files /\ d.synced[s] <= k
                            /\ s + 1 \in d.files => k = Len(d.lines[s])
  PROVE  Fit(Cut(NoStruct(d), s, k, torn)) /\ ~ Cut(NoStruct(d), s, k, torn).known
<1>n. PICK n : n = NoStruct(d)
  OBVIOUS
<1>t. PICK t : t = IF torn THEN s ELSE IF n.torn = s THEN 0 ELSE n.torn
  OBVIOUS
<1>y. PICK y : y = IF k < n.synced[s] THEN k ELSE n.synced[s]
  OBVIOUS
<1>e. PICK e : e = [n EXCEPT !.lines[s] = SubSeq(@, 1, k), !.synced[s] = y, !.torn = t]
  OBVIOUS
<1>1. Cut(NoStruct(d), s, k, torn) = e
  BY <1>n, <1>t, <1>y, <1>e DEF Cut
<1>2. d \in ChainType
  BY DEF Fit
<1>3. /\ n \in ChainType /\ n.lines = d.lines /\ n.files = d.files /\ n.synced = d.synced
      /\ n.departed = d.departed /\ ~ n.known /\ ~ n.open
  BY <1>n, <1>2, NoStructIs
<1>4. /\ n.lines \in [Segments -> Seq(Line)] /\ n.files \in SUBSET Segments
      /\ n.synced \in [Segments -> Nat] /\ n.torn \in 0 .. MaxSegments
  BY <1>3, Fields
<1>5. [n.lines EXCEPT ![s] = SubSeq(@, 1, k)] \in [Segments -> Seq(Line)]
  <2>1. n.lines[s] \in Seq(Line) /\ k <= Len(n.lines[s])
    BY <1>3, <1>4
  <2>2. \A i \in 1 .. k : n.lines[s][i] \in Line
    BY <2>1
  <2>3. SubSeq(n.lines[s], 1, k) \in Seq(Line)
    BY <2>1, <2>2
  <2> QED  BY <1>4, <2>3
<1>6. y \in Nat /\ [n.synced EXCEPT ![s] = y] \in [Segments -> Nat]
  BY <1>y, <1>4
<1>7. t \in 0 .. MaxSegments
  BY <1>t, <1>4, ChainAssumption DEF Segments
<1>8. /\ e \in ChainType /\ e.lines = [n.lines EXCEPT ![s] = SubSeq(@, 1, k)]
      /\ e.synced = [n.synced EXCEPT ![s] = y] /\ e.files = n.files
      /\ e.departed = n.departed /\ ~ e.known /\ ~ e.open
  BY <1>e, <1>3, <1>5, <1>6, <1>7 DEF ChainType
<1>9. ASSUME e.departed = {}
      PROVE  /\ FilesOK(e.lines, e.files, e.synced)
             /\ Declared(e.lines, e.files, e.synced) /\ Keyed(e)
  <2>1. /\ s \in d.files /\ d.synced[s] <= k /\ (s + 1 \in d.files => k = Len(d.lines[s]))
        /\ Sound(d)
    BY <1>3, <1>8, <1>9 DEF Fit
  <2>2. e.synced = d.synced
    <3>1. d.synced[s] \in Nat
      BY <1>3, <1>4
    <3>2. y = d.synced[s]
      BY <1>y, <1>3, <2>1, <3>1
    <3> QED  BY <1>3, <1>4, <1>8, <3>2
  <2>3. e.lines = [d.lines EXCEPT ![s] = SubSeq(@, 1, k)] /\ e.files = d.files
    BY <1>3, <1>8
  <2>4. /\ d.lines \in [Segments -> Seq(Line)] /\ d.files \in SUBSET Segments
        /\ d.synced \in [Segments -> Nat]
    BY <1>2, Fields
  <2>5. FilesOK(d.lines, d.files, d.synced) /\ Declared(d.lines, d.files, d.synced)
    BY <2>1 DEF Sound
  <2>L. PICK L : L = d.lines
    OBVIOUS
  <2>Y. PICK Y : Y = d.synced
    OBVIOUS
  <2>F. PICK F : F = d.files
    OBVIOUS
  <2>a. /\ L \in [Segments -> Seq(Line)] /\ F \in SUBSET Segments /\ Y \in [Segments -> Nat]
        /\ s \in F /\ Y[s] <= k /\ k <= Len(L[s]) /\ (s + 1 \in F => k = Len(L[s]))
        /\ FilesOK(L, F, Y) /\ Declared(L, F, Y) /\ e.lines = [L EXCEPT ![s] = SubSeq(@, 1, k)]
    BY <2>L, <2>Y, <2>F, <2>1, <2>3, <2>4, <2>5
  <2>6. FilesOK(e.lines, d.files, d.synced)
    <3>1. FilesOK([L EXCEPT ![s] = SubSeq(@, 1, k)], F, Y)
      BY <2>a, CutKeeps
    <3> QED  BY <2>Y, <2>F, <2>a, <3>1
  <2>7. /\ Declared(e.lines, d.files, d.synced)
        /\ \A u \in d.files : e.lines[u] # <<>> => d.lines[u] # <<>> /\ e.lines[u][1] = d.lines[u][1]
    <3>1. /\ Declared(e.lines, F, Y)
          /\ \A u \in F : e.lines[u] # <<>> => L[u] # <<>> /\ e.lines[u][1] = L[u][1]
      <4>1. PICK M : M = [L EXCEPT ![s] = SubSeq(@, 1, k)]
        OBVIOUS
      <4>2. Declared(M, F, Y) /\ \A u \in F : M[u] # <<>> => L[u] # <<>> /\ M[u][1] = L[u][1]
        <5>1. Declared(M, F, Y)
          BY <2>a, <4>1, CutDeclared
        <5>2. \A u \in F : M[u] # <<>> => L[u] # <<>> /\ M[u][1] = L[u][1]
          BY <2>a, <4>1, CutDeclared
        <5> QED  BY <5>1, <5>2
      <4> QED  BY <2>a, <4>1, <4>2
    <3> QED  BY <2>L, <2>Y, <2>F, <2>a, <3>1
  <2>8. Keyed(e)
    BY <2>1, <2>3, <2>7 DEF Keyed, Sound
  <2> QED  BY <2>2, <2>3, <2>6, <2>7, <2>8
<1> QED  BY <1>1, <1>8, <1>9, RestFits

LEMMA DroppedFits ==
  ASSUME NEW d, Fit(d), d.open, NEW e \in Dropped(d)
  PROVE  Fit(e) /\ ~ e.known
<1>1. /\ d \in ChainType /\ d.known /\ d.segment \in Segments /\ d.flushed \in Nat
      /\ Len(Current(d)) \in Nat /\ Current(d) = d.lines[d.segment]
  BY Fields DEF Fit, Current
<1>2. PICK k \in d.flushed .. Len(Current(d)), torn \in BOOLEAN :
        e = Cut(NoStruct(d), d.segment, k, torn)
  BY DEF Dropped
<1>3. k \in Nat /\ k <= Len(d.lines[d.segment]) /\ d.flushed <= k
  BY <1>1
<1>4. d.departed = {} => /\ d.segment \in d.files /\ d.segment + 1 \notin d.files
                         /\ d.synced[d.segment] <= d.flushed
  BY <1>1 DEF Fit, Sound, Struct
<1>5. d.departed = {} => d.synced[d.segment] <= k
  <2>1. d.synced[d.segment] \in Nat
    BY <1>1, Fields
  <2> QED  BY <1>1, <1>3, <1>4, <2>1
<1> QED  BY <1>1, <1>2, <1>3, <1>4, <1>5, CutFits

LEMMA UnlinkIs ==
  ASSUME NEW d \in ChainType, NEW S, NEW r, r = Unlink(d, S)
  PROVE  /\ r \in ChainType /\ r.files = d.files \ S
         /\ r.lines = [s \in Segments |-> IF s \in S THEN <<>> ELSE d.lines[s]]
         /\ r.synced = [s \in Segments |-> IF s \in S THEN 0 ELSE d.synced[s]]
         /\ r.departed = d.departed /\ r.known = d.known /\ r.open = d.open
         /\ r.segment = d.segment /\ r.seq = d.seq /\ r.head = d.head
         /\ r.flushed = d.flushed
<1>1. PICK G : G = d.files \ S
  OBVIOUS
<1>2. PICK M : M = [s \in Segments |-> IF s \in S THEN <<>> ELSE d.lines[s]]
  OBVIOUS
<1>3. PICK Z : Z = [s \in Segments |-> IF s \in S THEN 0 ELSE d.synced[s]]
  OBVIOUS
<1>4. PICK e : e = [d EXCEPT !.files = G, !.lines = M, !.synced = Z]
  OBVIOUS
<1>5. Unlink(d, S) = e
  BY <1>1, <1>2, <1>3, <1>4 DEF Unlink
<1>6. /\ d.files \in SUBSET Segments /\ d.lines \in [Segments -> Seq(Line)]
      /\ d.synced \in [Segments -> Nat]
  BY Fields
<1>7. G \in SUBSET Segments
  BY <1>1, <1>6
<1>8. M \in [Segments -> Seq(Line)]
  <2>1. <<>> \in Seq(Line)
    OBVIOUS
  <2> QED  BY <1>2, <1>6, <2>1
<1>9. Z \in [Segments -> Nat]
  BY <1>3, <1>6
<1>10. /\ e \in ChainType /\ e.files = G /\ e.lines = M /\ e.synced = Z
       /\ e.departed = d.departed /\ e.known = d.known /\ e.open = d.open
       /\ e.segment = d.segment /\ e.seq = d.seq /\ e.head = d.head /\ e.flushed = d.flushed
  BY <1>4, <1>7, <1>8, <1>9 DEF ChainType
<1> QED  BY <1>1, <1>2, <1>3, <1>5, <1>10

\* A file of which nothing was synced: it is the last one.
LEMMA LoseFits ==
  ASSUME NEW d, Fit(d), NEW s \in Segments,
         d.departed = {} => s \in d.files /\ d.synced[s] = 0
  PROVE  Fit(Unlink(NoStruct(d), {s})) /\ ~ Unlink(NoStruct(d), {s}).known
<1>n. PICK n : n = NoStruct(d)
  OBVIOUS
<1>e. PICK e : e = Unlink(n, {s})
  OBVIOUS
<1>1. n \in ChainType /\ n.lines = d.lines /\ n.files = d.files /\ n.synced = d.synced
      /\ n.departed = d.departed /\ ~ n.known /\ ~ n.open
  BY <1>n, NoStructIs DEF Fit
<1>2. /\ e \in ChainType /\ e.files = n.files \ {s}
      /\ e.lines = [t \in Segments |-> IF t \in {s} THEN <<>> ELSE n.lines[t]]
      /\ e.synced = [t \in Segments |-> IF t \in {s} THEN 0 ELSE n.synced[t]]
      /\ e.departed = n.departed /\ ~ e.known /\ ~ e.open
  BY <1>e, <1>1, UnlinkIs
<1>3. ASSUME e.departed = {}
      PROVE  /\ FilesOK(e.lines, e.files, e.synced)
             /\ Declared(e.lines, e.files, e.synced) /\ Keyed(e)
  <2>L. PICK L : L = n.lines
    OBVIOUS
  <2>Y. PICK Y : Y = n.synced
    OBVIOUS
  <2>F. PICK F : F = n.files
    OBVIOUS
  <2>1. /\ L \in [Segments -> Seq(Line)] /\ F \in SUBSET Segments /\ Y \in [Segments -> Nat]
        /\ F \subseteq Nat
    <3>1. Segments \subseteq Nat
      BY DEF Segments
    <3>2. n.lines \in [Segments -> Seq(Line)] /\ n.files \in SUBSET Segments
          /\ n.synced \in [Segments -> Nat]
      BY <1>1, Fields
    <3> QED  BY <2>L, <2>Y, <2>F, <3>1, <3>2
  <2>2. /\ s \in F /\ Y[s] = 0 /\ FilesOK(L, F, Y) /\ Declared(L, F, Y)
        /\ \A t \in F : L[t] # <<>> => L[t][1].kid = key
    BY <2>L, <2>Y, <2>F, <1>1, <1>2, <1>3 DEF Fit, Sound, Keyed
  <2>3. s + 1 \notin F
    <3> SUFFICES ASSUME s + 1 \in F PROVE FALSE
      OBVIOUS
    <3>1. L[s] # <<>> /\ Len(L[s]) = 0 /\ L[s] \in Seq(Line)
      BY <2>1, <2>2 DEF FilesOK, Sealed
    <3> QED  BY <3>1
  <2>4. \A t \in F \ {s} : t < s
    <3> SUFFICES ASSUME NEW t \in F \ {s}, ~ (t < s) PROVE FALSE
      OBVIOUS
    <3>1. t \in Nat /\ s \in Nat /\ t # s
      BY <2>1, <2>2
    <3>2. s + 1 \in s .. t
      BY <3>1
    <3> QED  BY <2>2, <2>3, <3>2 DEF FilesOK, Convex
  <2>5. Convex(F \ {s})
    <3> SUFFICES ASSUME NEW a \in F \ {s}, NEW b \in F \ {s}, NEW u \in a .. b
                 PROVE  u \in F \ {s}
      BY DEF Convex
    <3>1. u \in F
      BY <2>2 DEF FilesOK, Convex
    <3>2. u \in Nat /\ b < s /\ s \in Nat /\ b \in Nat /\ u <= b
      BY <2>1, <2>2, <2>4, <3>1
    <3> QED  BY <3>1, <3>2
  <2>6. FilesOK(e.lines, e.files, e.synced)
    <3>1. /\ e.lines = [t \in Segments |-> IF t \in {s} THEN <<>> ELSE L[t]]
          /\ e.synced = [t \in Segments |-> IF t \in {s} THEN 0 ELSE Y[t]]
      BY <1>2, <2>L, <2>Y
    <3>2. FilesOK(e.lines, F \ {s}, e.synced)
      BY <2>1, <2>2, <2>5, <3>1, DropKeeps
    <3> QED  BY <1>2, <2>F, <3>2
  <2>7. \A t \in F \ {s} : e.lines[t] = L[t] /\ e.synced[t] = Y[t]
    BY <1>2, <2>L, <2>Y, <2>1
  <2>8. Retains(L, F, Y, e.lines, e.files, e.synced)
    <3>1. ASSUME NEW t \in e.files, t > 1, First(e.files, t) PROVE First(F, t)
      <4>1. t \in F \ {s} /\ t < s /\ t \in Nat /\ s \in Nat
        BY <1>2, <2>F, <2>1, <2>2, <2>4
      <4> QED  BY <1>2, <2>F, <3>1, <4>1 DEF First
    <3>2. ASSUME NEW t \in F, First(F, t), L[t] # <<>>, t > 1 PROVE e.lines[t][1] = L[t][1]
      <4>1. CASE t # s
        BY <2>7, <4>1
      <4>2. CASE t = s
        <5>1. PICK u \in F : Y[u] > 0
          BY <2>1, <2>2, <3>2, FirstHasLines
        <5>2. u < s /\ s <= u /\ u \in Nat /\ s \in Nat
          BY <2>1, <2>2, <2>4, <3>2, <4>2, <5>1 DEF First
        <5> QED  BY <5>2
      <4> QED  BY <4>1, <4>2
    <3>3. ASSUME NEW t \in F, Y[t] > 0
          PROVE  /\ t \in e.files /\ e.synced[t] \in Nat /\ Y[t] <= e.synced[t]
                 /\ \A i \in 1 .. Y[t] : e.lines[t][i] = L[t][i]
      <4>1. t # s /\ Y[t] \in Nat
        BY <2>1, <2>2, <3>3
      <4>2. t \in F \ {s} /\ e.files = F \ {s}
        BY <1>2, <2>F, <4>1
      <4>3. e.lines[t] = L[t] /\ e.synced[t] = Y[t]
        BY <2>7, <4>2
      <4> QED  BY <4>1, <4>2, <4>3
    <3> QED  BY <3>1, <3>2, <3>3 DEF Retains
  <2>9. Declared(e.lines, e.files, e.synced)
    BY <2>1, <2>2, <2>8, DeclaredKeeps
  <2>10. Keyed(e)
    <3>1. e.files = F \ {s}
      BY <1>2, <2>F
    <3>2. \A u \in e.files : e.lines[u] # <<>> => e.lines[u][1].kid = key
      BY <2>2, <2>7, <3>1
    <3> QED  BY <3>2 DEF Keyed
  <2> QED  BY <2>6, <2>9, <2>10
<1>4. Fit(e)
  BY <1>2, <1>3, RestFits
<1> QED  BY <1>n, <1>e, <1>2, <1>4

LEMMA UnlinkFits ==
  ASSUME NEW s, Fit(s), s.open, NEW last \in Nat \ {0}, last < s.segment, NEW n \in 0 .. last,
         s.lines[last] # <<>>,
         \E i, j \in 1 .. s.flushed :
            /\ Current(s)[i].kind = "retention" /\ i < j /\ Current(s)[j].kind = "batchsig"
            /\ Current(s)[i].through = LastLine(s.lines[last]).seq
  PROVE  Fit(Unlink(Sync(s), 1 .. n))
<1>y. PICK y : y = Sync(s)
  OBVIOUS
<1>e. PICK e : e = Unlink(y, 1 .. n)
  OBVIOUS
<1>1. /\ Fit(y) /\ y \in ChainType /\ y.known /\ y.open /\ y.lines = s.lines
      /\ y.segment = s.segment /\ y.flushed = s.flushed
      /\ y.synced = [s.synced EXCEPT ![s.segment] = s.flushed]
  BY <1>y, SyncFits DEF Fit
<1>2. /\ e \in ChainType /\ e.files = y.files \ (1 .. n) /\ e.known
      /\ e.lines = [t \in Segments |-> IF t \in 1 .. n THEN <<>> ELSE y.lines[t]]
      /\ e.synced = [t \in Segments |-> IF t \in 1 .. n THEN 0 ELSE y.synced[t]]
      /\ e.departed = y.departed /\ e.segment = s.segment /\ e.seq = y.seq
      /\ e.head = y.head /\ e.flushed = s.flushed
  <2>1. PICK S : S = 1 .. n
    OBVIOUS
  <2>2. e = Unlink(y, S)
    BY <1>e, <2>1
  <2>3. /\ e \in ChainType /\ e.files = y.files \ S /\ e.known = y.known
        /\ e.lines = [t \in Segments |-> IF t \in S THEN <<>> ELSE y.lines[t]]
        /\ e.synced = [t \in Segments |-> IF t \in S THEN 0 ELSE y.synced[t]]
        /\ e.departed = y.departed /\ e.segment = y.segment
        /\ e.seq = y.seq /\ e.head = y.head /\ e.flushed = y.flushed
    <3>1. y \in ChainType
      BY <1>1
    <3> QED  BY <2>2, <3>1, UnlinkIs
  <2> QED  BY <1>1, <2>1, <2>3
<1>3. ASSUME e.departed = {} PROVE Sound(e)
  <2>L. PICK L : L = y.lines
    OBVIOUS
  <2>Y. PICK Y : Y = y.synced
    OBVIOUS
  <2>F. PICK F : F = y.files
    OBVIOUS
  <2>g. PICK g : g = y.segment
    OBVIOUS
  <2>G. PICK G : G = F \ (1 .. n)
    OBVIOUS
  <2>1. /\ L \in [Segments -> Seq(Line)] /\ F \in SUBSET Segments /\ Y \in [Segments -> Nat]
        /\ F \subseteq Nat \ {0} /\ g \in Nat /\ last < g /\ n \in Nat /\ n <= last /\ g \in Segments
        /\ last \in Segments
    <3>1. Segments \subseteq Nat \ {0}
      BY DEF Segments
    <3>2. y.lines \in [Segments -> Seq(Line)] /\ y.files \in SUBSET Segments
          /\ y.synced \in [Segments -> Nat] /\ y.segment \in Segments
      BY <1>1, Fields
    <3>3. g \in Nat /\ g \in Segments /\ last < g
      BY <1>1, <2>g, <3>1, <3>2
    <3>4. last \in Segments
      BY <3>3, ChainAssumption DEF Segments
    <3>5. n \in Nat /\ n <= last
      OBVIOUS
    <3> QED  BY <2>L, <2>Y, <2>F, <3>1, <3>2, <3>3, <3>4, <3>5
  <2>2. /\ FilesOK(L, F, Y) /\ \A t \in F : L[t] # <<>> => L[t][1].kid = key
        /\ g \in F /\ g + 1 \notin F /\ L[g] # <<>>
        /\ y.head = Hash(LastLine(L[g])) /\ y.seq = LastLine(L[g]).seq
        /\ Y[g] <= y.flushed /\ y.flushed <= Len(L[g])
    BY <1>1, <1>2, <1>3, <2>L, <2>Y, <2>F, <2>g DEF Fit, Sound, Keyed, Struct, Current
  <2>3. Y[g] = s.flushed
    BY <1>1, <2>1, <2>Y, <2>g, Fields DEF Fit
  <2>4. \A t \in G : e.lines[t] = L[t] /\ e.synced[t] = Y[t] /\ t \in F /\ t \notin 1 .. n
    BY <1>2, <2>L, <2>Y, <2>G, <2>1
  <2>5. e.files = G /\ g \in G
    BY <1>2, <2>F, <2>G, <2>1, <2>2
  <2>6. Convex(G)
    <3> SUFFICES ASSUME NEW a \in G, NEW b \in G, NEW u \in a .. b PROVE u \in G
      BY DEF Convex
    <3>1. u \in F
      BY <2>2, <2>4 DEF FilesOK, Convex
    <3>2. a \notin 1 .. n /\ a \in Nat \ {0}
      BY <2>1, <2>4
    <3>3. u >= a /\ u \in Nat
      BY <2>1, <3>1, <3>2
    <3>4. u \notin 1 .. n
      BY <2>1, <3>2, <3>3
    <3> QED  BY <2>G, <3>1, <3>4
  <2>7. FilesOK(e.lines, e.files, e.synced)
    <3>1. PICK S : S = 1 .. n
      OBVIOUS
    <3>2. /\ e.lines = [t \in Segments |-> IF t \in S THEN <<>> ELSE L[t]]
          /\ e.synced = [t \in Segments |-> IF t \in S THEN 0 ELSE Y[t]]
          /\ e.files = F \ S /\ Convex(F \ S)
      BY <1>2, <2>L, <2>Y, <2>F, <2>G, <2>6, <3>1
    <3>3. FilesOK(e.lines, F \ S, e.synced)
      BY <2>1, <2>2, <3>2, DropKeeps, ZenonT(30)
    <3> QED  BY <3>2, <3>3
  <2>8. last \in F /\ last + 1 \in F /\ L[last] # <<>>
    <3>1. last \in F /\ L[last] # <<>>
      BY <1>1, <2>L, <2>1, <2>2 DEF FilesOK
    <3>2. last + 1 \in last .. g
      BY <2>1
    <3> QED  BY <2>2, <3>1, <3>2 DEF FilesOK, Convex
  <2>9. \A u \in F : u <= g => L[u] # <<>>
    <3> SUFFICES ASSUME NEW u \in F, u <= g PROVE L[u] # <<>>
      OBVIOUS
    <3>1. CASE u = g
      BY <2>2, <3>1
    <3>2. CASE u # g
      <4>1. u \in Nat /\ u + 1 \in u .. g
        BY <2>1, <3>2
      <4> QED  BY <2>2, <4>1 DEF FilesOK, Convex, Sealed
    <3> QED  BY <3>1, <3>2
  <2>10. ASSUME NEW u \in G, First(G, u)
         PROVE  L[u] # <<>> /\ L[u][1].seq - 1 <= LastLine(L[last]).seq
    <3>1. u \in F /\ u <= g /\ u \in Nat
      BY <2>1, <2>4, <2>5, <2>10 DEF First
    <3>2. L[u] # <<>> /\ L[u] \in Seq(Line) /\ L[last] \in Seq(Line)
      BY <2>1, <2>9, <3>1
    <3>3. L[u][1].seq \in Nat /\ LastLine(L[last]).seq \in Nat /\ Len(L[last]) \in Nat /\ Len(L[last]) > 0
      BY <2>8, <3>2, LinesOf
    <3>4. CASE u < last
      <4>1. 1 \in 1 .. Len(L[u]) /\ Len(L[last]) \in 1 .. Len(L[last])
        BY <3>2, <3>3
      <4>2. L[u][1].seq < LastLine(L[last]).seq
        BY <2>2, <2>8, <3>1, <3>4, <4>1 DEF FilesOK, Ordered, LastLine
      <4> QED  BY <3>2, <3>3, <4>2
    <3>5. CASE u = last
      <4>1. Len(L[last]) \in 1 .. Len(L[last])
        BY <3>3
      <4>2. L[last][Len(L[last])].seq = L[last][1].seq + Len(L[last]) - 1
        <5>1. Whole(L[last], last)
          BY <2>2, <2>8 DEF FilesOK
        <5> QED  BY <4>1, <5>1 DEF Whole
      <4>3. LastLine(L[last]).seq >= L[last][1].seq
        BY <3>3, <3>5, <4>2 DEF LastLine
      <4> QED  BY <3>2, <3>3, <3>5, <4>3
    <3>6. CASE u > last
      <4>1. last + 1 \in G
        BY <2>G, <2>1, <2>8
      <4>2. u = last + 1
        BY <3>1, <3>6, <4>1, <2>10 DEF First
      <4>3. L[u][1].seq = LastLine(L[last]).seq + 1
        BY <2>2, <2>8, <3>2, <4>2 DEF FilesOK, Sealed, Continues, LastLine
      <4> QED  BY <3>2, <3>3, <4>3
    <3> QED  BY <3>1, <3>4, <3>5, <3>6
  <2>11. Declared(e.lines, e.files, e.synced)
    <3> SUFFICES ASSUME NEW u \in G, u > 1, First(G, u)
                 PROVE  \E t \in G : Covers(e.lines, e.synced, t, e.lines[u][1].seq - 1)
      BY <2>5 DEF Declared
    <3>1. PICK i \in 1 .. Y[g], j \in 1 .. Y[g] :
             /\ L[g][i].kind = "retention" /\ i < j /\ L[g][j].kind = "batchsig"
             /\ L[g][i].through = LastLine(L[last]).seq
      BY <1>1, <2>L, <2>g, <2>3 DEF Current
    <3>2. L[u][1].seq \in Nat /\ LastLine(L[last]).seq \in Nat
          /\ L[u][1].seq - 1 <= LastLine(L[last]).seq
      <4>1. L[u] \in Seq(Line) /\ L[last] \in Seq(Line) /\ L[u] # <<>>
        BY <2>1, <2>4, <2>10
      <4> QED  BY <2>8, <2>10, <4>1, LinesOf
    <3>3. e.lines[u] = L[u] /\ e.lines[g] = L[g] /\ e.synced[g] = Y[g]
      BY <2>4, <2>5
    <3>4. Covers(e.lines, e.synced, g, e.lines[u][1].seq - 1)
      BY <3>1, <3>2, <3>3 DEF Covers
    <3> QED  BY <2>5, <3>4
  <2>12. Struct(e)
    <3>1. e.segment = g /\ e.lines[g] = L[g] /\ e.synced[g] = Y[g] /\ Current(e) = L[g]
      <4>1. e.segment = g
        BY <1>1, <1>2, <2>g
      <4>2. e.lines[g] = L[g] /\ e.synced[g] = Y[g]
        BY <2>4, <2>5
      <4> QED  BY <4>1, <4>2 DEF Current
    <3>2. g + 1 \notin G
      BY <2>2, <2>G
    <3> QED  BY <1>1, <1>2, <2>2, <2>5, <3>1, <3>2 DEF Struct
  <2>13. \A u \in e.files : e.lines[u] # <<>> => e.lines[u][1].kid = key
    BY <2>2, <2>4, <2>5
  <2> QED  BY <2>7, <2>11, <2>12, <2>13 DEF Sound, Keyed
<1>4. Fit(e)
  BY <1>2, <1>3 DEF Fit
<1> QED  BY <1>y, <1>e, <1>4

LEMMA DeclareFits ==
  ASSUME Env, NEW p, Fit(p), p.open, NEW last \in Nat \ {0}, last < p.segment,
         p.lines[last] # <<>>, NEW fail, NEW s,
         s = Flush(SignBatch(AppendLine(p, Retention(p, LastLine(p.lines[last]).seq), fail),
                             fail), fail)
  PROVE  /\ Fit(s) /\ s.open
         /\ ~ s.broken =>
               /\ s.segment = p.segment /\ s.lines[last] = p.lines[last]
               /\ \E i, j \in 1 .. s.flushed :
                     /\ Current(s)[i].kind = "retention" /\ i < j
                     /\ Current(s)[j].kind = "batchsig"
                     /\ Current(s)[i].through = LastLine(p.lines[last]).seq
<1>1. /\ p \in ChainType /\ p.segment \in Segments /\ p.segment \in Nat
      /\ p.lines \in [Segments -> Seq(Line)] /\ Current(p) \in Seq(Line)
  BY Fields DEF Fit
<1>2. last \in Segments /\ last # p.segment
  BY <1>1, ChainAssumption DEF Segments
<1>3. PICK n \in Nat : n = LastLine(p.lines[last]).seq
  <2>1. p.lines[last] \in Seq(Line)
    BY <1>1, <1>2
  <2> QED  BY <2>1, LinesOf
<1>l. PICK l : l = Retention(p, n)
  OBVIOUS
<1>a. PICK a : a = AppendLine(p, l, fail)
  OBVIOUS
<1>b. PICK b : b = SignBatch(a, fail)
  OBVIOUS
<1>s. s = Flush(b, fail)
  BY <1>3, <1>l, <1>a, <1>b
<1>4. NextLine(p, l) /\ l \in Line /\ l.kind = "retention" /\ l.through = n
  <2>1. /\ NextLine(p, Retention(p, n)) /\ Retention(p, n).kind = "retention"
        /\ Retention(p, n).through = n
    BY <1>1, <1>3, NewLines
  <2> QED  BY <1>l, <2>1 DEF NextLine
<1>5. /\ Fit(a) /\ Same(p, a) /\ (~ a.broken => a = Put(p, l))
  BY <1>a, <1>4, AppendLineFits
<1>6. a.open /\ a \in ChainType /\ a.segment = p.segment
  BY <1>5 DEF Same, Fit
<1>7. /\ Fit(b) /\ Same(a, b)
  BY <1>b, <1>5, <1>6, SignBatchFits
<1>8. ASSUME ~ b.broken
      PROVE  /\ ~ a.broken /\ Current(b) = Append(Current(a), BatchSig(a))
             /\ b.flushed = Len(Current(b))
             /\ \A t \in Segments \ {a.segment} : b.lines[t] = a.lines[t]
  BY <1>b, <1>5, <1>6, <1>8, SignBatchFits
<1>9. b.open /\ b.segment = p.segment
  BY <1>6, <1>7 DEF Same
<1>10. /\ Fit(s) /\ Same(b, s) /\ s.lines = b.lines
       /\ ~ s.broken => ~ b.broken /\ s.flushed = Len(Current(b)) /\ Current(s) = Current(b)
  BY <1>s, <1>7, <1>9, FlushFits
<1>11. s.open /\ s.segment = p.segment
  BY <1>9, <1>10 DEF Same
<1>12. ASSUME ~ s.broken
       PROVE  /\ s.lines[last] = p.lines[last]
              /\ \E i, j \in 1 .. s.flushed :
                    /\ Current(s)[i].kind = "retention" /\ i < j
                    /\ Current(s)[j].kind = "batchsig" /\ Current(s)[i].through = n
  <2>1. a = Put(p, l) /\ ~ b.broken
    BY <1>5, <1>8, <1>10, <1>12
  <2>2. /\ Current(a) = Append(Current(p), l)
        /\ a.lines = [p.lines EXCEPT ![p.segment] = Append(@, l)]
    BY <1>1, <1>4, <2>1, PutIs
  <2>3. a.lines[last] = p.lines[last] /\ s.lines[last] = a.lines[last]
    BY <1>1, <1>2, <1>6, <1>8, <1>10, <2>1, <2>2
  <2>4. BatchSig(a) \in Line /\ BatchSig(a).kind = "batchsig"
    BY <1>6, NewLines DEF NextLine
  <2>5. Current(s) = Append(Append(Current(p), l), BatchSig(a)) /\ s.flushed = Len(Current(s))
    BY <1>8, <1>10, <1>12, <2>1, <2>2
  <2>6. PICK k \in Nat : k = Len(Current(p))
    BY <1>1
  <2>7. /\ Len(Current(s)) = k + 2 /\ Current(s)[k + 1] = l /\ Current(s)[k + 2] = BatchSig(a)
    BY <1>1, <1>4, <2>4, <2>5, <2>6
  <2>8. /\ k + 1 \in 1 .. s.flushed /\ k + 2 \in 1 .. s.flushed /\ k + 1 < k + 2
    BY <2>5, <2>7
  <2>9. /\ Current(s)[k + 1].kind = "retention" /\ Current(s)[k + 1].through = n
        /\ Current(s)[k + 2].kind = "batchsig"
    BY <1>4, <2>4, <2>7
  <2> QED  BY <2>3, <2>8, <2>9
<1> QED  BY <1>3, <1>10, <1>11, <1>12

LEMMA PruneFits ==
  ASSUME Env, Fit(c), NEW keep \in Segments, NEW fail, Prune(keep, fail)
  PROVE  \E e : c' = e /\ Fit(e)
<1>p. PICK p : p = Part(c)
  OBVIOUS
<1>l. PICK last : last = p.segment - keep
  OBVIOUS
<1>o. PICK old : old = p.lines[last]
  OBVIOUS
<1>s. PICK s : s = Flush(SignBatch(AppendLine(p, Retention(p, old[Len(old)].seq), fail),
                                   fail), fail)
  OBVIOUS
<1>1. \/ c' = p
      \/ c' = s /\ ~ (last < 1) /\ old # <<>>
      \/ /\ ~ (last < 1) /\ old # <<>> /\ ~ s.broken
         /\ \E n \in 0 .. last : c' = Unlink(Sync(s), 1 .. n)
  BY <1>p, <1>l, <1>o, <1>s DEF Prune
<1>2. Fit(p) /\ p.open
  BY <1>p, PartFits
<1>3. p.segment \in Nat /\ keep \in Nat \ {0}
  BY <1>2, Fields DEF Fit, Segments
<1>4. ASSUME ~ (last < 1), old # <<>>
      PROVE  /\ last \in Nat \ {0} /\ last < p.segment /\ Fit(s) /\ s.open
             /\ ~ s.broken =>
                   /\ s.segment = p.segment /\ s.lines[last] = old
                   /\ \E i, j \in 1 .. s.flushed :
                         /\ Current(s)[i].kind = "retention" /\ i < j
                         /\ Current(s)[j].kind = "batchsig"
                         /\ Current(s)[i].through = LastLine(old).seq
  <2>1. last \in Nat \ {0} /\ last < p.segment
    BY <1>l, <1>3, <1>4
  <2>2. s = Flush(SignBatch(AppendLine(p, Retention(p, LastLine(p.lines[last]).seq), fail),
                            fail), fail)
    BY <1>o, <1>s DEF LastLine
  <2>3. p.lines[last] # <<>>
    BY <1>o, <1>4
  <2>4. /\ Fit(s) /\ s.open
        /\ ~ s.broken =>
              /\ s.segment = p.segment /\ s.lines[last] = p.lines[last]
              /\ \E i, j \in 1 .. s.flushed :
                    /\ Current(s)[i].kind = "retention" /\ i < j
                    /\ Current(s)[j].kind = "batchsig"
                    /\ Current(s)[i].through = LastLine(p.lines[last]).seq
    <3>2. Fit(s) /\ s.open
      BY <1>2, <2>1, <2>2, <2>3, DeclareFits
    <3>3. ASSUME ~ s.broken
          PROVE  /\ s.segment = p.segment /\ s.lines[last] = p.lines[last]
                 /\ \E i, j \in 1 .. s.flushed :
                       /\ Current(s)[i].kind = "retention" /\ i < j
                       /\ Current(s)[j].kind = "batchsig"
                       /\ Current(s)[i].through = LastLine(p.lines[last]).seq
      BY <1>2, <2>1, <2>2, <2>3, <3>3, DeclareFits
    <3> QED  BY <3>2, <3>3
  <2> QED  BY <1>o, <2>1, <2>4
<1>5. CASE c' = p
  BY <1>2, <1>5
<1>6. CASE c' = s /\ ~ (last < 1) /\ old # <<>>
  BY <1>4, <1>6
<1>7. ASSUME ~ (last < 1), old # <<>>, ~ s.broken,
             NEW n \in 0 .. last, c' = Unlink(Sync(s), 1 .. n)
      PROVE  \E e : c' = e /\ Fit(e)
  <2>1. /\ last \in Nat \ {0} /\ last < s.segment /\ Fit(s) /\ s.open /\ s.lines[last] # <<>>
        /\ \E i, j \in 1 .. s.flushed :
              /\ Current(s)[i].kind = "retention" /\ i < j /\ Current(s)[j].kind = "batchsig"
              /\ Current(s)[i].through = LastLine(s.lines[last]).seq
    BY <1>4, <1>7
  <2>2. Fit(Unlink(Sync(s), 1 .. n))
    BY <2>1, UnlinkFits
  <2> QED  BY <1>7, <2>2
<1> QED  BY <1>1, <1>5, <1>6, <1>7
-----------------------------------------------------------------------------
(* The inductive invariant.                                                *)

IInv == TypeOK /\ Fit(c)

LEMMA NextFits ==
  ASSUME NEW x, Fit(x), c' = x, key' = key
  PROVE  Fit(c)'
BY DEF Fit, Sound, Keyed

\* What a handler leaves when it signs, flushes and gives up its handle.
LEMMA CloseFits ==
  ASSUME Env, NEW d, Fit(d), d.open, NEW fail, NEW s, s = Flush(SignTail(d, fail), fail)
  PROVE  Fit(s) /\ s.open
BY FinishFits DEF Same

\* No step of the writer, crash or restart leaves the invariant: files continue each other and are sealed
\* where another follows, what was pruned is declared, and the struct knows the end of the newest file.
THEOREM ChainInvariant == Spec => []IInv
<1>1. Init => IInv
  <2> SUFFICES ASSUME Init PROVE IInv
    OBVIOUS
  <2>1. 1 \in Segments /\ NoHash \in Nat \X Nat /\ <<>> \in Seq(Line)
    BY ChainAssumption DEF Segments, NoHash
  <2>2. c \in ChainType
    <3>1. PICK L : L = [s \in Segments |-> <<>>]
      OBVIOUS
    <3>2. PICK Y : Y = [s \in Segments |-> 0]
      OBVIOUS
    <3>3. L \in [Segments -> Seq(Line)] /\ Y \in [Segments -> Nat]
      BY <2>1, <3>1, <3>2
    <3>4. 0 \in 0 .. MaxSegments
      BY ChainAssumption
    <3>5. c = [lines |-> L, files |-> {}, torn |-> 0, flushed |-> 0, synced |-> Y,
               known |-> FALSE, open |-> FALSE, broken |-> FALSE, seq |-> 0,
               head |-> NoHash, unsigned |-> 0, first |-> 0, segment |-> 1,
               bytes |-> 0, departed |-> {}]
      BY <3>1, <3>2 DEF Init
    <3> QED  BY <2>1, <3>3, <3>4, <3>5 DEF ChainType
  <2>3. /\ c.lines = [s \in Segments |-> <<>>] /\ c.synced = [s \in Segments |-> 0]
        /\ c.files = {} /\ ~ c.known /\ ~ c.open
    BY DEF Init
  <2>4. FilesOK(c.lines, c.files, c.synced) /\ Declared(c.lines, c.files, c.synced) /\ Keyed(c)
    BY <2>3 DEF FilesOK, Declared, Keyed, Convex, Ordered
  <2>5. Fit(c)
    BY <2>2, <2>3, <2>4, RestFits
  <2>6. TypeOK
    <3>1. up = FALSE /\ run = 0 /\ key = NoKey
      BY DEF Init
    <3>2. 0 \in 0 .. MaxRuns
      BY ChainAssumption
    <3> QED  BY <2>2, <3>1, <3>2 DEF TypeOK
  <2> QED  BY <2>5, <2>6 DEF IInv
<1>2. IInv /\ [Next]_vars => IInv'
  <2> SUFFICES ASSUME IInv, [Next]_vars PROVE IInv'
    OBVIOUS
  <2>1. TypeOK /\ Fit(c) /\ Env
    BY ChainAssumption DEF IInv, TypeOK, Env
  <2>2. ASSUME NEW x, Fit(x), c' = x, up' \in BOOLEAN, run' = run, key' = key
        PROVE  IInv'
    <3>1. Fit(c)'
      BY <2>2, NextFits
    <3>2. TypeOK'
      BY <2>1, <2>2 DEF TypeOK, Fit
    <3> QED  BY <3>1, <3>2 DEF IInv
  <2>3. ASSUME NEW fail, Write(fail) PROVE IInv'
    <3>1. /\ Fit(Part(c)) /\ Part(c).open /\ Part(c).segment < MaxSegments
      BY <2>1, <2>3, PartFits DEF Write, RoomToRoll
    <3>2. Fit(WriteRecord(Part(c), fail))
      BY <2>1, <3>1, WriteRecordFits
    <3> QED  BY <2>1, <2>2, <2>3, <3>2 DEF Write, TypeOK
  <2>4. ASSUME NEW fail, WriteSync(fail) PROVE IInv'
    <3>1. /\ Fit(Part(c)) /\ Part(c).open /\ Part(c).segment < MaxSegments
      BY <2>1, <2>4, PartFits DEF WriteSync, RoomToRoll
    <3>2. PICK w : w = WriteRecord(Part(c), fail)
      OBVIOUS
    <3>3. Fit(w)
      BY <2>1, <3>1, <3>2, WriteRecordFits
    <3>4. w.open => Fit(Flush(w, fail))
      BY <3>3, FlushFits
    <3>5. /\ c' = (IF w.open THEN Flush(w, fail) ELSE w)
          /\ up' = up /\ run' = run /\ key' = key
      BY <2>4, <3>2 DEF WriteSync
    <3> QED  BY <2>1, <2>2, <3>3, <3>4, <3>5 DEF TypeOK
  <2>5. ASSUME NEW fail, Tick(fail) PROVE IInv'
    <3>1. Fit(Flush(SignTail(c, fail), fail))
      BY <2>1, <2>5, CloseFits DEF Tick
    <3> QED  BY <2>1, <2>2, <2>5, <3>1 DEF Tick, TypeOK
  <2>6. ASSUME NEW fail, Evict(fail) PROVE IInv'
    <3>1. PICK s : s = Flush(SignTail(c, fail), fail)
      OBVIOUS
    <3>2. Fit(s) /\ s.open
      BY <2>1, <2>6, <3>1, CloseFits DEF Evict
    <3>3. /\ c' = [s EXCEPT !.open = FALSE] \/ c' \in Dropped(s)
          /\ up' = up /\ run' = run /\ key' = key
      BY <2>6, <3>1 DEF Evict
    <3>4. CASE c' = [s EXCEPT !.open = FALSE]
      BY <2>1, <2>2, <3>2, <3>3, <3>4, ReleaseFits DEF TypeOK
    <3>5. CASE c' \in Dropped(s)
      <4>1. PICK x \in Dropped(s) : c' = x
        BY <3>5
      <4>2. Fit(x)
        BY <3>2, DroppedFits
      <4> QED  BY <2>1, <2>2, <3>3, <4>1, <4>2 DEF TypeOK
    <3> QED  BY <3>3, <3>4, <3>5
  <2>7. ASSUME NEW fail, Close(fail) PROVE IInv'
    <3>1. up' \in BOOLEAN /\ run' = run /\ key' = key
      BY <2>7 DEF Close
    <3>2. CASE ~ c.open
      BY <2>1, <2>2, <2>7, <3>1, <3>2, NoStructFits DEF Close
    <3>3. CASE c.open
      <4>1. PICK s : s = Flush(SignTail(c, fail), fail)
        OBVIOUS
      <4>2. Fit(s) /\ s.open
        BY <2>1, <3>3, <4>1, CloseFits
      <4>3. c' = NoStruct(s) \/ c' \in Dropped(s)
        BY <2>7, <3>3, <4>1 DEF Close
      <4>4. PICK x : c' = x /\ Fit(x)
        BY <4>2, <4>3, NoStructFits, DroppedFits
      <4> QED  BY <2>2, <3>1, <4>4
    <3> QED  BY <3>2, <3>3
  <2>8. ASSUME NEW fail, NEW keep \in Segments, Prune(keep, fail) PROVE IInv'
    <3>1. PICK x : c' = x /\ Fit(x)
      BY <2>1, <2>8, PruneFits
    <3> QED  BY <2>1, <2>2, <2>8, <3>1 DEF Prune, TypeOK
  <2>9. CASE Forget
    BY <2>1, <2>2, <2>9, NoStructFits DEF Forget, TypeOK
  <2>10. CASE Kill
    <3>1. up' \in BOOLEAN /\ run' = run /\ key' = key
      BY <2>10 DEF Kill
    <3>2. PICK x : c' = x /\ Fit(x)
      <4>1. CASE ~ c.open /\ c' = NoStruct(c)
        BY <2>1, <4>1, NoStructFits
      <4>2. CASE c.open /\ c' \in Dropped(c)
        BY <2>1, <4>2, DroppedFits
      <4>3. CASE c.open /\ c.flushed = 0 /\ c' = Unlink(NoStruct(c), {c.segment})
        <5>1. /\ c \in ChainType /\ c.segment \in Segments /\ c.synced[c.segment] \in Nat
          BY <2>1, Fields DEF Fit
        <5>2. c.departed = {} => c.segment \in c.files /\ c.synced[c.segment] = 0
          BY <2>1, <4>3, <5>1 DEF Fit, Sound, Struct
        <5> QED  BY <2>1, <4>3, <5>1, <5>2, LoseFits
      <4> QED  BY <2>10, <4>1, <4>2, <4>3 DEF Kill
    <3> QED  BY <2>2, <3>1, <3>2
  <2>11. CASE PowerLoss
    <3>1. up' \in BOOLEAN /\ run' = run /\ key' = key
      BY <2>11 DEF PowerLoss
    <3>2. /\ c \in ChainType /\ c.files \in SUBSET Segments /\ c.synced \in [Segments -> Nat]
          /\ c.lines \in [Segments -> Seq(Line)]
      BY <2>1, Fields DEF Fit
    <3>3. PICK s \in c.files :
            \/ \E k \in c.synced[s]..Len(c.lines[s]), torn \in BOOLEAN :
                  c' = Cut(NoStruct(c), s, k, torn)
            \/ c.synced[s] = 0 /\ c' = Unlink(NoStruct(c), {s})
      BY <2>11 DEF PowerLoss
    <3>4. s \in Segments /\ c.synced[s] \in Nat /\ Len(c.lines[s]) \in Nat
      BY <3>2
    <3>5. CASE c.synced[s] = 0 /\ c' = Unlink(NoStruct(c), {s})
      BY <2>1, <2>2, <3>1, <3>4, <3>5, LoseFits
    <3>6. ASSUME NEW k \in c.synced[s]..Len(c.lines[s]), NEW torn \in BOOLEAN,
                 c' = Cut(NoStruct(c), s, k, torn)
          PROVE  IInv'
      <4>1. k \in Nat /\ c.synced[s] <= k /\ k <= Len(c.lines[s])
        BY <3>4
      <4>2. c.departed = {} => (s + 1 \in c.files => k = Len(c.lines[s]))
        BY <2>1, <3>4, <4>1 DEF Fit, Sound, FilesOK, Sealed
      <4>3. Fit(Cut(NoStruct(c), s, k, torn))
        BY <2>1, <3>4, <4>1, <4>2, CutFits
      <4> QED  BY <2>2, <3>1, <3>6, <4>3
    <3> QED  BY <3>3, <3>5, <3>6
  <2>12. ASSUME NEW k \in Keys, Start(k) PROVE IInv'
    <3>1. c' = c /\ key' = k /\ up' = TRUE /\ run' = run + 1 /\ run < MaxRuns
      BY <2>12 DEF Start
    <3>2. ASSUME c.departed = {}
          PROVE  \A s \in c.files : c.lines[s] # <<>> => c.lines[s][1].kid = k
      <4>1. \A s \in c.files : c.lines[s] # <<>> => c.lines[s][1].kind = "header"
        BY <2>1, <3>2 DEF Fit, Sound, FilesOK, Whole
      <4> QED  BY <2>12, <4>1 DEF Start
    <3>3. Fit(c)'
      BY <2>1, <3>1, <3>2 DEF Fit, Sound, Keyed
    <3>4. TypeOK'
      BY <2>1, <3>1, ChainAssumption DEF TypeOK
    <3> QED  BY <3>3, <3>4 DEF IInv
  <2>13. CASE UNCHANGED vars
    BY <2>1, <2>2, <2>13 DEF vars, TypeOK
  <2> QED  BY <2>3, <2>4, <2>5, <2>6, <2>7, <2>8, <2>9, <2>10, <2>11, <2>12, <2>13 DEF Next
<1> QED  BY <1>1, <1>2, PTL DEF Spec
-----------------------------------------------------------------------------
(* Theorems.                                                               *)

\* The struct of a partition and its files stay what ledger.go takes them for.
THEOREM ChainTypeOK == Spec => []TypeOK
<1>1. IInv => TypeOK
  BY DEF IInv
<1> QED  BY ChainInvariant, <1>1, PTL

\* Whatever the order of writes, failed operations, evictions, prunes, kills and power losses, the lines
\* on disk form one chain across their files, unless one of the windows of Departures was met.
THEOREM ChainVerifiesHolds == Spec => []ChainVerifies
<1>1. IInv => ChainVerifies
  <2> SUFFICES ASSUME IInv, c.departed = {}, NEW s \in c.files, c.lines[s] # <<>>
               PROVE  /\ Walks(c.lines[s])
                      /\ c.lines[s][1].kind = "header" /\ c.lines[s][1].segment = s
                      /\ s - 1 \in c.files => /\ c.lines[s - 1] # <<>>
                                             /\ Continues(c.lines[s - 1], c.lines[s])
    BY DEF ChainVerifies, Intact
  <2>1. /\ c \in ChainType /\ FilesOK(c.lines, c.files, c.synced)
    BY DEF IInv, Fit, Sound
  <2>2. s \in Nat \ {0} /\ c.lines[s] \in Seq(Line)
    <3>1. s \in Segments /\ c.lines \in [Segments -> Seq(Line)]
      BY <2>1, Fields
    <3>2. Segments \subseteq Nat \ {0}
      BY DEF Segments
    <3> QED  BY <3>1, <3>2
  <2>3. Whole(c.lines[s], s)
    BY <2>1 DEF FilesOK
  <2>4. Walks(c.lines[s])
    BY <2>2, <2>3, WholeWalks
  <2>5. ASSUME s - 1 \in c.files
        PROVE  c.lines[s - 1] # <<>> /\ Continues(c.lines[s - 1], c.lines[s])
    <3>1. PICK t \in c.files : t = s - 1 /\ t + 1 = s
      BY <2>2, <2>5
    <3>2. Sealed(c.lines, c.synced, t)
      BY <2>1, <3>1 DEF FilesOK
    <3> QED  BY <3>1, <3>2 DEF Sealed
  <2> QED  BY <2>3, <2>4, <2>5 DEF Whole
<1> QED  BY ChainInvariant, <1>1, PTL

\* roll seals before it continues: only the latest segment may end in lines no signature covers.
THEOREM SealedIsSignedHolds == Spec => []SealedIsSigned
<1>1. IInv => SealedIsSigned
  BY DEF IInv, Fit, Sound, FilesOK, Sealed, LastLine, SealedIsSigned
<1> QED  BY ChainInvariant, <1>1, PTL

\* Record before effect: where the first segments are gone, a retention record that covers them is on
\* stable storage, under a signature that is too (prunePartition).
THEOREM PruneDeclaredHolds == Spec => []PruneDeclared
<1>1. IInv => PruneDeclared
  <2> SUFFICES ASSUME IInv, c.departed = {}, NEW s \in c.files, s > 1, First(c.files, s)
               PROVE  \E t \in c.files : \E i, j \in 1 .. c.synced[t] :
                         /\ c.lines[t][i].kind = "retention"
                         /\ c.lines[t][i].through >= c.lines[s][1].seq - 1
                         /\ i < j /\ c.lines[t][j].kind = "batchsig"
    BY DEF PruneDeclared, First
  <2>1. Declared(c.lines, c.files, c.synced)
    BY DEF IInv, Fit, Sound
  <2>2. PICK t \in c.files : Covers(c.lines, c.synced, t, c.lines[s][1].seq - 1)
    BY <2>1 DEF Declared
  <2>3. PICK i \in 1 .. c.synced[t], j \in 1 .. c.synced[t] :
          /\ c.lines[t][i].kind = "retention"
          /\ c.lines[t][i].through >= c.lines[s][1].seq - 1
          /\ i < j /\ c.lines[t][j].kind = "batchsig"
    BY <2>2 DEF Covers
  <2> QED  BY <2>3
<1> QED  BY ChainInvariant, <1>1, PTL
-----------------------------------------------------------------------------
(* A second invariant: whose lines they are.                               *)

\* Where the process changes, the earlier one signed or the later one marked.
MarkedIn(f) ==
  \A i \in 2 .. Len(f) : f[i].instance # f[i-1].instance =>
      f[i-1].kind = "batchsig" \/ f[i].kind = "resumed"

\* Every record has a signature after it.
CoveredIn(f) ==
  \A i \in 1 .. Len(f) : f[i].kind \in Evidence =>
      \E j \in i+1 .. Len(f) : f[j].kind = "batchsig"

\* The files, whether a process runs or not.
Laid(d) ==
  /\ Convex(d.files)
  /\ \A s \in Segments \ d.files : d.lines[s] = <<>>
  /\ \A s \in d.files : s + 1 \in d.files => d.synced[s] > 0
  /\ \A s \in Segments : MarkedIn(d.lines[s])

\* The struct is at the newest file, or at the one roll could not open.
Placed(d) ==
  d.known => /\ \A t \in d.files : t <= d.segment
             /\ \/ d.segment \in d.files
                \/ d.segment - 1 \in d.files /\ d.synced[d.segment - 1] > 0
             /\ d.open => d.segment \in d.files
             /\ d.bytes <= Len(Current(d))

\* What this process did not write last is signed.
Own(d) ==
  d.known => \/ Current(d) = <<>>
             \/ LastLine(Current(d)).instance = run
             \/ LastLine(Current(d)).kind = "batchsig"

Counted(d) == d.known /\ d.unsigned = 0 => CoveredIn(Current(d))

Resting(d) == d.known /\ ~ d.open => d.unsigned = 0

Neat(d) == Laid(d) /\ Placed(d) /\ Own(d) /\ Counted(d) /\ Resting(d)

\* Until a process starts without segment 1, or on a torn line that it takes for whole.
Tidy(d) == InOrder(d.departed) => Neat(d)

LEMMA MarkedAppend ==
  ASSUME NEW f \in Seq(Line), MarkedIn(f), NEW l \in Line,
         \/ f = <<>> \/ l.kind = "resumed" \/ LastLine(f).instance = l.instance
         \/ LastLine(f).kind = "batchsig"
  PROVE  MarkedIn(Append(f, l))
<1>g. PICK g : g = Append(f, l)
  OBVIOUS
<1>1. /\ Len(f) \in Nat /\ Len(g) = Len(f) + 1 /\ g[Len(f) + 1] = l
      /\ \A i \in 1 .. Len(f) : g[i] = f[i]
  BY <1>g
<1>2. ASSUME NEW i \in 2 .. Len(g), g[i].instance # g[i-1].instance
      PROVE  g[i-1].kind = "batchsig" \/ g[i].kind = "resumed"
  <2>1. i - 1 \in 1 .. Len(f) /\ i \in 1 .. Len(g)
    BY <1>1
  <2>2. CASE i = Len(f) + 1
    <3>1. g[i] = l /\ g[i-1] = LastLine(f) /\ f # <<>>
      BY <1>1, <2>1, <2>2 DEF LastLine
    <3> QED  BY <1>2, <3>1
  <2>3. CASE i # Len(f) + 1
    <3>1. i \in 2 .. Len(f) /\ i \in 1 .. Len(f)
      BY <1>1, <2>3
    <3>2. g[i] = f[i] /\ g[i-1] = f[i-1]
      BY <1>1, <2>1, <3>1
    <3> QED  BY <1>2, <3>1, <3>2 DEF MarkedIn
  <2> QED  BY <2>2, <2>3
<1> QED  BY <1>g, <1>2 DEF MarkedIn

LEMMA MarkedCut ==
  ASSUME NEW f \in Seq(Line), MarkedIn(f), NEW k \in Nat, k <= Len(f)
  PROVE  MarkedIn(SubSeq(f, 1, k))
<1>g. PICK g : g = SubSeq(f, 1, k)
  OBVIOUS
<1>1. Len(f) \in Nat /\ Len(g) = k /\ \A i \in 1 .. k : g[i] = f[i]
  BY <1>g
<1>2. ASSUME NEW i \in 2 .. k PROVE i \in 2 .. Len(f) /\ i \in 1 .. k /\ i - 1 \in 1 .. k
  BY <1>1
<1> QED  BY <1>g, <1>1, <1>2 DEF MarkedIn

LEMMA CoveredAppend ==
  ASSUME NEW f \in Seq(Line), NEW l \in Line, l.kind \notin Evidence,
         CoveredIn(f) \/ l.kind = "batchsig"
  PROVE  CoveredIn(Append(f, l))
<1>g. PICK g : g = Append(f, l)
  OBVIOUS
<1>1. /\ Len(f) \in Nat /\ Len(g) = Len(f) + 1 /\ g[Len(f) + 1] = l
      /\ \A i \in 1 .. Len(f) : g[i] = f[i]
  BY <1>g
<1>2. ASSUME NEW i \in 1 .. Len(g), g[i].kind \in Evidence
      PROVE  \E j \in i+1 .. Len(g) : g[j].kind = "batchsig"
  <2>1. i \in 1 .. Len(f) /\ g[i] = f[i]
    BY <1>1, <1>2
  <2>2. CASE l.kind = "batchsig"
    <3>1. Len(g) \in i+1 .. Len(g) /\ g[Len(g)] = l
      BY <1>1, <2>1
    <3> QED  BY <2>2, <3>1
  <2>3. CASE CoveredIn(f)
    <3>1. PICK j \in i+1 .. Len(f) : f[j].kind = "batchsig"
      BY <1>2, <2>1, <2>3 DEF CoveredIn
    <3>2. j \in i+1 .. Len(g) /\ j \in 1 .. Len(f)
      BY <1>1, <2>1, <3>1
    <3> QED  BY <1>1, <3>1, <3>2
  <2> QED  BY <2>2, <2>3
<1> QED  BY <1>g, <1>2 DEF CoveredIn

LEMMA CoveredBySig ==
  ASSUME NEW f \in Seq(Line), f # <<>>, LastLine(f).kind = "batchsig"
  PROVE  CoveredIn(f)
<1>1. Len(f) \in Nat /\ Len(f) \in 1 .. Len(f)
  BY LinesOf
<1>2. ASSUME NEW i \in 1 .. Len(f), f[i].kind \in Evidence
      PROVE  Len(f) \in i+1 .. Len(f) /\ f[Len(f)].kind = "batchsig"
  <2>1. i # Len(f)
    BY <1>2 DEF LastLine, Evidence
  <2> QED  BY <1>1, <2>1 DEF LastLine
<1> QED  BY <1>2 DEF CoveredIn

\* scanTail inherits nothing only from a file that ends in a signature.
LEMMA InheritsNone ==
  ASSUME NEW f \in Seq(Line), f # <<>>, ~ (Inherited(f) > 0)
  PROVE  LastLine(f).kind = "batchsig"
<1>1. Len(f) \in Nat /\ Len(f) > 0 /\ SigsOf(f) \subseteq 1 .. Len(f)
  BY LinesOf DEF SigsOf
<1>2. SigsOf(f) # {}
  <2> SUFFICES ASSUME SigsOf(f) = {} PROVE FALSE
    OBVIOUS
  <2>1. Inherited(f) = Len(f) - 0
    BY DEF Inherited, LastSig
  <2> QED  BY <1>1, <2>1
<1>3. PICK m \in SigsOf(f) : \A j \in SigsOf(f) : j <= m
  <2>1. PICK S : S = {Len(f) - j : j \in SigsOf(f)}
    OBVIOUS
  <2>2. S \subseteq Nat /\ S # {}
    BY <1>1, <1>2, <2>1
  <2>3. PICK n \in S : \A x \in S : n <= x
    BY <2>2, Least
  <2>4. PICK m \in SigsOf(f) : n = Len(f) - m
    BY <2>1, <2>3
  <2>5. ASSUME NEW j \in SigsOf(f) PROVE j <= m
    <3>1. Len(f) - j \in S
      BY <2>1
    <3>2. n <= Len(f) - j
      BY <2>3, <3>1
    <3> QED  BY <1>1, <2>4, <3>2
  <2> QED  BY <2>5
<1>4. LastSig(f) \in SigsOf(f)
  BY <1>2, <1>3 DEF LastSig
<1>5. LastSig(f) = Len(f)
  BY <1>1, <1>4 DEF Inherited
<1> QED  BY <1>4, <1>5 DEF SigsOf, LastLine

LEMMA PutMore ==
  ASSUME NEW d \in ChainType, NEW l \in Line
  PROVE  /\ Put(d, l).bytes = d.bytes + 1
         /\ Put(d, l).unsigned = IF l.kind \in Evidence THEN d.unsigned + 1 ELSE d.unsigned
BY DEF Put, ChainType

\* A step that only turns other fields.
LEMMA SameNeat ==
  ASSUME NEW d, NEW r, Neat(d), Same(d, r), r.lines = d.lines, r.bytes = d.bytes,
         r.unsigned = d.unsigned
  PROVE  Neat(r)
<1>1. Current(r) = Current(d)
  BY DEF Current, Same
<1>2. Laid(r)
  BY DEF Neat, Laid, Same
<1>3. Placed(r) /\ Own(r) /\ Counted(r) /\ Resting(r)
  BY <1>1 DEF Neat, Placed, Own, Counted, Resting, Same
<1> QED  BY <1>2, <1>3 DEF Neat

LEMMA PutNeat ==
  ASSUME Env, NEW d \in ChainType, d.open, d.known, Laid(d), Placed(d),
         NEW l \in Line, l.instance = run,
         l.kind = "resumed" \/ (Own(d) /\ Counted(d))
  PROVE  Neat(Put(d, l))
<1>e. PICK e : e = Put(d, l)
  OBVIOUS
<1>s. PICK s : s = d.segment
  OBVIOUS
<1>f. PICK f : f = Current(d)
  OBVIOUS
<1>1. /\ e \in ChainType /\ Same(d, e) /\ Current(e) = Append(f, l)
      /\ e.lines = [d.lines EXCEPT ![s] = Append(@, l)] /\ LastLine(Current(e)) = l
  BY <1>e, <1>s, <1>f, PutIs
<1>2. /\ e.bytes = d.bytes + 1
      /\ e.unsigned = IF l.kind \in Evidence THEN d.unsigned + 1 ELSE d.unsigned
  BY <1>e, PutMore
<1>3. /\ d.lines \in [Segments -> Seq(Line)] /\ s \in Segments /\ f \in Seq(Line)
      /\ d.bytes \in Nat /\ d.unsigned \in Nat /\ f = d.lines[s] /\ Len(f) \in Nat
  BY <1>s, <1>f, Fields DEF Current
<1>4. MarkedIn(Append(f, l))
  <2>1. MarkedIn(f)
    BY <1>3 DEF Laid
  <2>2. \/ f = <<>> \/ l.kind = "resumed" \/ LastLine(f).instance = l.instance
        \/ LastLine(f).kind = "batchsig"
    BY <1>f DEF Own
  <2> QED  BY <1>3, <2>1, <2>2, MarkedAppend
<1>5. Laid(e)
  <2>1. e.files = d.files /\ e.synced = d.synced /\ s \in d.files
    BY <1>s, <1>1 DEF Same, Placed
  <2>2. \A t \in Segments : t # s => e.lines[t] = d.lines[t]
    BY <1>1, <1>3
  <2>3. e.lines[s] = Append(f, l)
    BY <1>1, <1>3
  <2>4. \A t \in Segments : MarkedIn(e.lines[t])
    BY <1>4, <2>2, <2>3 DEF Laid
  <2> QED  BY <2>1, <2>2, <2>4 DEF Laid
<1>6. Placed(e)
  <2>1. Len(Append(f, l)) = Len(f) + 1 /\ d.bytes <= Len(f)
    BY <1>3, <1>f DEF Placed
  <2>2. e.bytes <= Len(Current(e))
    BY <1>1, <1>2, <1>3, <2>1
  <2> QED  BY <1>1, <2>2 DEF Placed, Same
<1>7. Own(e) /\ Resting(e)
  BY <1>1 DEF Own, Resting, Same
<1>8. Counted(e)
  <2> SUFFICES ASSUME e.unsigned = 0 PROVE CoveredIn(Append(f, l))
    BY <1>1 DEF Counted
  <2>1. l.kind \notin Evidence /\ d.unsigned = 0
    BY <1>2, <1>3
  <2>2. CoveredIn(f)
    BY <1>f, <2>1 DEF Counted, Evidence
  <2> QED  BY <1>3, <2>1, <2>2, CoveredAppend
<1> QED  BY <1>e, <1>5, <1>6, <1>7, <1>8 DEF Neat

LEMMA RunLines ==
  ASSUME Env, NEW d \in ChainType
  PROVE  /\ NewLine(d, "record").instance = run /\ NewLine(d, "resumed").instance = run
         /\ BatchSig(d).instance = run /\ Header(d).instance = run
         /\ \A n : Retention(d, n).instance = run
BY DEF NewLine, BatchSig, Header, Retention

LEMMA BreakNeat ==
  ASSUME NEW d \in ChainType, Neat(d)
  PROVE  Neat([d EXCEPT !.broken = TRUE])
<1>e. PICK e : e = [d EXCEPT !.broken = TRUE]
  OBVIOUS
<1>1. Same(d, e) /\ e.lines = d.lines /\ e.bytes = d.bytes /\ e.unsigned = d.unsigned
  BY <1>e DEF ChainType, Same
<1> QED  BY <1>e, <1>1, SameNeat

LEMMA AppendLineNeat ==
  ASSUME Env, NEW d \in ChainType, d.open, d.known, Neat(d),
         NEW l \in Line, l.instance = run, NEW fail
  PROVE  Neat(AppendLine(d, l, fail))
<1>1. CASE d.broken \/ fail = "append"
  BY <1>1, BreakNeat DEF AppendLine
<1>2. CASE ~ (d.broken \/ fail = "append")
  <2>1. Neat(Put(d, l))
    BY PutNeat DEF Neat
  <2> QED  BY <1>2, <2>1 DEF AppendLine
<1> QED  BY <1>1, <1>2

LEMMA FlushNeat ==
  ASSUME NEW d \in ChainType, Neat(d), NEW fail
  PROVE  /\ Neat(Flush(d, fail)) /\ Flush(d, fail).unsigned = d.unsigned
         /\ Flush(d, fail).bytes = d.bytes
<1>e. PICK e : e = Flush(d, fail)
  OBVIOUS
<1>1. Same(d, e) /\ e.lines = d.lines /\ e.bytes = d.bytes /\ e.unsigned = d.unsigned
  BY <1>e DEF ChainType, Same, Flush
<1> QED  BY <1>e, <1>1, SameNeat

LEMMA SignBatchNeat ==
  ASSUME Env, NEW d, Fit(d), d.open, Neat(d), NEW fail
  PROVE  /\ Neat(SignBatch(d, fail))
         /\ ~ SignBatch(d, fail).broken => SignBatch(d, fail).unsigned = 0
         /\ SignBatch(d, fail).bytes >= d.bytes
<1>l. PICK l : l = BatchSig(d)
  OBVIOUS
<1>s. PICK s : s = AppendLine(d, l, fail)
  OBVIOUS
<1>0. d \in ChainType /\ d.known /\ d.bytes \in Nat
  BY Fields DEF Fit
<1>1. NextLine(d, l) /\ l.kind = "batchsig" /\ l \in Line /\ l.instance = run
  BY <1>l, <1>0, NewLines, RunLines DEF NextLine
<1>2. Fit(s) /\ Same(d, s) /\ (~ s.broken => ~ d.broken /\ s = Put(d, l))
  BY <1>s, <1>1, AppendLineFits
<1>3. Neat(s)
  BY <1>s, <1>0, <1>1, AppendLineNeat
<1>4. CASE s.broken
  <2>1. SignBatch(d, fail) = s
    BY <1>l, <1>s, <1>4 DEF SignBatch
  <2>2. s.bytes >= d.bytes
    <3>1. CASE d.broken \/ fail = "append"
      <4>1. s = [d EXCEPT !.broken = TRUE]
        BY <1>s, <3>1 DEF AppendLine
      <4>2. s.bytes = d.bytes
        BY <1>0, <4>1 DEF ChainType
      <4> QED  BY <1>0, <4>2
    <3>2. CASE ~ (d.broken \/ fail = "append")
      <4>1. s = Put(d, l)
        BY <1>s, <3>2 DEF AppendLine
      <4>2. s.bytes = d.bytes + 1
        BY <1>0, <1>1, <4>1, PutMore
      <4> QED  BY <1>0, <4>2
    <3> QED  BY <3>1, <3>2
  <2> QED  BY <1>3, <1>4, <2>1, <2>2
<1>5. CASE ~ s.broken
  <2>e. PICK e : e = [s EXCEPT !.unsigned = 0]
    OBVIOUS
  <2>1. SignBatch(d, fail) = Flush(e, fail)
    BY <1>l, <1>s, <2>e, <1>5 DEF SignBatch
  <2>2. Fit(e) /\ Same(s, e) /\ e.lines = s.lines
    BY <1>2, <2>e, CountFits
  <2>3. /\ s \in ChainType /\ e \in ChainType /\ e.unsigned = 0 /\ e.bytes = s.bytes
        /\ s.known /\ Current(e) = Current(s)
    BY <1>0, <1>2, <2>e, <2>2 DEF Fit, ChainType, Same, Current
  <2>4. CoveredIn(Current(s))
    <3>1. Current(s) = Append(Current(d), l)
      <4>1. Current(Put(d, l)) = Append(Current(d), l)
        BY <1>0, <1>1, PutIs
      <4> QED  BY <1>2, <1>5, <4>1
    <3>2. Current(d) \in Seq(Line)
      BY <1>0, Fields
    <3>3. l.kind \notin Evidence
      BY <1>1 DEF Evidence
    <3> QED  BY <1>1, <3>1, <3>2, <3>3, CoveredAppend
  <2>5. Neat(e)
    <3>1. Laid(e) /\ Placed(e) /\ Own(e)
      BY <1>3, <2>2, <2>3 DEF Neat, Laid, Placed, Own, Same
    <3>2. Counted(e) /\ Resting(e)
      BY <2>3, <2>4 DEF Counted, Resting
    <3> QED  BY <3>1, <3>2 DEF Neat
  <2>6. /\ Neat(Flush(e, fail)) /\ Flush(e, fail).unsigned = 0
        /\ Flush(e, fail).bytes = s.bytes
    BY <2>3, <2>5, FlushNeat
  <2>7. s.bytes = d.bytes + 1
    BY <1>0, <1>1, <1>2, <1>5, PutMore
  <2> QED  BY <1>0, <2>1, <2>6, <2>7
<1> QED  BY <1>4, <1>5

\* What Tick, evictLRU, roll and Close do first.
LEMMA FinishNeat ==
  ASSUME Env, NEW d, Fit(d), d.open, Neat(d), NEW fail, NEW s,
         s = Flush(SignTail(d, fail), fail)
  PROVE  /\ Neat(s) /\ s.bytes >= d.bytes
         /\ ~ s.broken => s.unsigned = 0 /\ s.flushed = Len(Current(s))
<1>t. PICK t : t = SignTail(d, fail)
  OBVIOUS
<1>0. d \in ChainType /\ d.bytes \in Nat /\ d.unsigned \in Nat
  BY Fields DEF Fit
<1>1. Fit(t) /\ Same(d, t) /\ t \in ChainType
  <2>1. Fit(t) /\ Same(d, t)
    BY <1>t, SignTailFits
  <2> QED  BY <2>1 DEF Fit
<1>2. /\ Neat(t) /\ t.bytes >= d.bytes
      /\ ~ t.broken => t.unsigned = 0
  <2>1. CASE d.unsigned > 0
    BY <1>t, <2>1, SignBatchNeat DEF SignTail
  <2>2. CASE ~ (d.unsigned > 0)
    <3>1. t = d /\ d.unsigned = 0
      BY <1>t, <1>0, <2>2 DEF SignTail
    <3> QED  BY <1>0, <3>1
  <2> QED  BY <2>1, <2>2
<1>3. Neat(s) /\ s.unsigned = t.unsigned /\ s.bytes = t.bytes
  BY <1>t, <1>1, <1>2, FlushNeat
<1>4. ~ s.broken => ~ t.broken
  <2>1. t.open
    BY <1>1 DEF Same
  <2> QED  BY <1>t, <1>1, <2>1, FlushFits
<1>5. ~ s.broken => s.flushed = Len(Current(s))
  BY FinishFits
<1> QED  BY <1>2, <1>3, <1>4, <1>5

LEMMA TidyOf ==
  ASSUME NEW d, NEW r, Tidy(d), Neat(d) => Neat(r), r.departed = d.departed
  PROVE  Tidy(r)
BY DEF Tidy

\* Only the newest file is open.
LEMMA OpenNeat ==
  ASSUME NEW d \in ChainType, d.known, Neat(d)
  PROVE  Neat(OpenFile(d))
<1>e. PICK e : e = OpenFile(d)
  OBVIOUS
<1>s. PICK s : s = d.segment
  OBVIOUS
<1>1. /\ e.lines = d.lines /\ e.files = d.files \cup {s} /\ e.open /\ e.segment = s
      /\ e.known /\ e.synced = d.synced /\ Current(e) = Current(d)
  BY <1>e, <1>s, OpenIs
<1>2. e.bytes = d.bytes /\ e.unsigned = d.unsigned
  BY <1>e DEF OpenFile, ChainType
<1>3. /\ \A t \in d.files : t <= s
      /\ s \in d.files \/ (s - 1 \in d.files /\ d.synced[s - 1] > 0)
      /\ d.bytes <= Len(Current(d)) /\ Convex(d.files)
      /\ \A t \in d.files : t + 1 \in d.files => d.synced[t] > 0
  BY <1>s DEF Neat, Placed, Laid
<1>4. /\ d.files \subseteq Nat /\ s \in Nat
  <2>1. Segments \subseteq Nat
    BY DEF Segments
  <2> QED  BY <1>s, <2>1, Fields
<1>5. Convex(e.files)
  <2> SUFFICES ASSUME NEW a \in d.files \cup {s}, NEW b \in d.files \cup {s}, NEW u \in a .. b
               PROVE  u \in d.files \cup {s}
    BY <1>1 DEF Convex
  <2>1. CASE u = s
    BY <2>1
  <2>2. CASE u # s
    <3>1. a \in Nat /\ b \in Nat /\ u \in Nat /\ a <= u /\ u <= b /\ b <= s /\ a <= s
      BY <1>3, <1>4
    <3>2. a # s
      BY <1>4, <2>2, <3>1
    <3>3. a \in d.files
      BY <3>2
    <3>4. CASE b \in d.files
      BY <1>3, <3>3, <3>4 DEF Convex
    <3>5. CASE b = s /\ s \notin d.files
      <4>1. s - 1 \in d.files /\ u \in a .. s - 1
        BY <1>3, <1>4, <2>2, <3>1, <3>5
      <4> QED  BY <1>3, <3>3, <4>1 DEF Convex
    <3> QED  BY <3>4, <3>5
  <2> QED  BY <2>1, <2>2
<1>6. ASSUME NEW t \in e.files, t + 1 \in e.files PROVE e.synced[t] > 0
  <2>1. t \in Nat /\ t + 1 <= s
    BY <1>1, <1>3, <1>4, <1>6
  <2>2. t \in d.files
    BY <1>1, <1>4, <1>6, <2>1
  <2>3. CASE t + 1 \in d.files
    BY <1>1, <1>3, <2>2, <2>3
  <2>4. CASE t + 1 = s /\ s \notin d.files
    <3>1. t = s - 1
      BY <1>4, <2>1, <2>4
    <3> QED  BY <1>1, <1>3, <2>4, <3>1
  <2> QED  BY <1>1, <1>6, <2>3, <2>4
<1>7. Laid(e)
  <2>1. \A t \in Segments \ e.files : e.lines[t] = <<>>
    BY <1>1 DEF Neat, Laid
  <2>2. \A t \in Segments : MarkedIn(e.lines[t])
    BY <1>1 DEF Neat, Laid
  <2> QED  BY <1>5, <1>6, <2>1, <2>2 DEF Laid
<1>8. Placed(e)
  <2>1. s \in e.files /\ \A t \in e.files : t <= s
    BY <1>1, <1>3, <1>4
  <2> QED  BY <1>1, <1>2, <1>3, <2>1 DEF Placed
<1>9. Own(e) /\ Counted(e) /\ Resting(e)
  BY <1>1, <1>2 DEF Neat, Own, Counted, Resting
<1> QED  BY <1>e, <1>7, <1>8, <1>9 DEF Neat

\* What the file holds reaches the disk before the next one is begun.
LEMMA SyncNeat ==
  ASSUME NEW d, Fit(d), d.open, Neat(d)
  PROVE  /\ Neat(Sync(d)) /\ Sync(d).bytes = d.bytes /\ Sync(d).unsigned = d.unsigned
<1>e. PICK e : e = Sync(d)
  OBVIOUS
<1>s. PICK s : s = d.segment
  OBVIOUS
<1>0. d \in ChainType /\ d.known
  BY DEF Fit
<1>1. /\ e.lines = d.lines /\ e.files = d.files /\ e.segment = s /\ e.known /\ e.open
      /\ e.synced = [d.synced EXCEPT ![s] = d.flushed]
  BY <1>e, <1>s, <1>0, SyncFits
<1>2. e.bytes = d.bytes /\ e.unsigned = d.unsigned /\ Current(e) = Current(d)
  <2>1. e.bytes = d.bytes /\ e.unsigned = d.unsigned
    BY <1>e, <1>0 DEF ChainType, Sync
  <2> QED  BY <1>s, <1>1, <2>1 DEF Current
<1>3. /\ s \in d.files /\ \A t \in d.files : t <= s
  BY <1>s, <1>0 DEF Neat, Placed
<1>4. d.files \in SUBSET Segments /\ d.synced \in [Segments -> Nat] /\ s \in Nat
      /\ d.files \subseteq Nat
  <2>1. Segments \subseteq Nat
    BY DEF Segments
  <2> QED  BY <1>s, <1>0, <2>1, Fields
<1>5. \A t \in Segments : t # s => e.synced[t] = d.synced[t]
  BY <1>1, <1>4
<1>6. ASSUME NEW t \in d.files, t + 1 \in d.files PROVE e.synced[t] > 0
  <2>1. t # s
    BY <1>3, <1>4, <1>6
  <2> QED  BY <1>4, <1>5, <1>6, <2>1 DEF Neat, Laid
<1>7. Laid(e)
  BY <1>1, <1>6 DEF Neat, Laid
<1>8. Placed(e)
  BY <1>s, <1>0, <1>1, <1>2, <1>3 DEF Neat, Placed
<1>9. Own(e) /\ Counted(e) /\ Resting(e)
  BY <1>0, <1>1, <1>2 DEF Neat, Own, Counted, Resting
<1> QED  BY <1>e, <1>2, <1>7, <1>8, <1>9 DEF Neat

LEMMA AdvanceNeat ==
  ASSUME NEW y \in ChainType, y.segment + 1 \in Segments, Neat(y), y.open, y.known,
         y.synced[y.segment] > 0, y.unsigned = 0
  PROVE  Neat(Advance(y))
<1>n. PICK n : n = Advance(y)
  OBVIOUS
<1>s. PICK s : s = y.segment
  OBVIOUS
<1>1. /\ n \in ChainType /\ n.lines = y.lines /\ n.files = y.files /\ n.segment = s + 1
      /\ n.known /\ ~ n.open /\ n.synced = y.synced
  BY <1>n, <1>s, AdvanceIs
<1>2. n.bytes = 0 /\ n.unsigned = 0
  BY <1>n DEF ChainType, Advance
<1>3. s \in y.files /\ \A t \in y.files : t <= s
  BY <1>s DEF Neat, Placed
<1>4. y.files \subseteq Nat /\ s \in Nat
  <2>1. Segments \subseteq Nat
    BY DEF Segments
  <2> QED  BY <1>s, <2>1, Fields
<1>5. s + 1 \notin y.files /\ \A t \in y.files : t <= s + 1
  BY <1>3, <1>4
<1>6. Current(n) = <<>>
  BY <1>s, <1>1, <1>5 DEF Neat, Laid, Current
<1>7. Laid(n)
  BY <1>1 DEF Neat, Laid
<1>8. Placed(n)
  <2>1. (s + 1) - 1 = s /\ Len(Current(n)) = 0
    BY <1>4, <1>6
  <2> QED  BY <1>s, <1>1, <1>2, <1>3, <1>5, <2>1 DEF Placed
<1>9. Own(n) /\ Counted(n) /\ Resting(n)
  <2>1. CoveredIn(<<>>)
    BY DEF CoveredIn
  <2> QED  BY <1>2, <1>6, <2>1 DEF Own, Counted, Resting
<1> QED  BY <1>n, <1>7, <1>8, <1>9 DEF Neat

\* A file roll leaves was written to, so it is kept when its successor is.
LEMMA RollTidy ==
  ASSUME Env, NEW d, Fit(d), d.open, Tidy(d), d.segment < MaxSegments, d.bytes > 0, NEW fail
  PROVE  Tidy(Roll(d, fail))
<1>s. PICK s : s = Flush(SignTail(d, fail), fail)
  OBVIOUS
<1>y. PICK y : y = Sync(s)
  OBVIOUS
<1>n. PICK n : n = Advance(y)
  OBVIOUS
<1>1. Fit(s) /\ Same(d, s) /\ s.open /\ s.departed = d.departed /\ s.segment = d.segment
  BY <1>s, FinishFits DEF Same
<1>2. /\ Fit(y) /\ y.departed = s.departed /\ y.segment = s.segment /\ y.open
      /\ y.synced = [s.synced EXCEPT ![s.segment] = s.flushed]
  BY <1>y, <1>1, SyncFits
<1>3. /\ d \in ChainType /\ s \in ChainType /\ y \in ChainType /\ y.known /\ s.known
      /\ s.synced \in [Segments -> Nat] /\ s.segment \in Segments /\ s.bytes \in Nat
      /\ d.bytes \in Nat /\ Len(Current(s)) \in Nat
  BY <1>1, <1>2, Fields DEF Fit
<1>4. y.segment + 1 \in Segments
  BY <1>1, <1>2, <1>3, ChainAssumption DEF Segments
<1>5. n \in ChainType /\ n.departed = d.departed /\ n.known /\ n.segment = d.segment + 1
  BY <1>n, <1>1, <1>2, <1>3, <1>4, AdvanceIs
<1>6. ASSUME InOrder(d.departed), ~ s.broken PROVE Neat(n) /\ Current(n) = <<>>
  <2>1. Neat(s) /\ s.bytes >= d.bytes /\ s.unsigned = 0 /\ s.flushed = Len(Current(s))
    BY <1>s, <1>6, FinishNeat DEF Tidy
  <2>2. Neat(y) /\ y.unsigned = 0
    BY <1>y, <1>1, <2>1, SyncNeat
  <2>3. y.synced[y.segment] > 0
    <3>1. s.bytes <= Len(Current(s))
      BY <1>3, <2>1 DEF Neat, Placed
    <3>2. y.synced[y.segment] = Len(Current(s))
      BY <1>2, <1>3, <2>1
    <3> QED  BY <1>3, <2>1, <3>1, <3>2
  <2>4. Neat(n)
    BY <1>n, <1>2, <1>3, <1>4, <2>2, <2>3, AdvanceNeat
  <2>5. n.lines = y.lines /\ n.files = y.files
    BY <1>n, <1>3, <1>4, AdvanceIs
  <2>6. y.segment + 1 \notin y.files
    <3>1. y.segment \in Nat
      BY <1>3, Fields
    <3>2. \A t \in y.files : t <= y.segment
      BY <1>3, <2>2 DEF Neat, Placed
    <3> QED  BY <3>1, <3>2
  <2>7. n.lines[n.segment] = <<>>
    BY <1>1, <1>2, <1>4, <1>5, <2>2, <2>5, <2>6 DEF Neat, Laid
  <2> QED  BY <2>4, <2>7 DEF Current
<1>7. CASE s.broken \/ fail = "sync"
  <2>1. Roll(d, fail) = s
    BY <1>s, <1>7 DEF Roll
  <2>2. Neat(d) => Neat(s)
    BY <1>s, FinishNeat
  <2> QED  BY <1>1, <2>1, <2>2, TidyOf
<1>8. CASE ~ (s.broken \/ fail = "sync") /\ fail = "open"
  <2>r. PICK r : r = Depart(n)
    OBVIOUS
  <2>1. Roll(d, fail) = r
    BY <1>s, <1>y, <1>n, <1>8, <2>r DEF Roll, Advance, Depart
  <2>2. /\ r.lines = n.lines /\ r.files = n.files /\ r.synced = n.synced /\ r.known = n.known
        /\ r.open = n.open /\ r.segment = n.segment /\ r.bytes = n.bytes
        /\ r.unsigned = n.unsigned /\ r.departed = n.departed \cup {"failedRoll"}
    BY <1>5, <2>r DEF Depart, ChainType
  <2>3. ASSUME InOrder(r.departed) PROVE Neat(r)
    <3>1. Neat(n)
      <4>1. InOrder(n.departed)
        BY <2>2, <2>3 DEF InOrder
      <4> QED  BY <1>5, <1>6, <1>8, <4>1
    <3>2. Current(r) = Current(n)
      BY <2>2 DEF Current
    <3>3. Laid(r)
      BY <2>2, <3>1 DEF Neat, Laid
    <3>4. Placed(r) /\ Own(r) /\ Counted(r) /\ Resting(r)
      BY <2>2, <3>1, <3>2 DEF Neat, Placed, Own, Counted, Resting
    <3> QED  BY <3>3, <3>4 DEF Neat
  <2> QED  BY <2>1, <2>3 DEF Tidy
<1>9. CASE ~ (s.broken \/ fail = "sync") /\ fail # "open"
  <2>o. PICK o : o = OpenFile(n)
    OBVIOUS
  <2>h. PICK h : h = Header(n)
    OBVIOUS
  <2>1. Roll(d, fail) = Put(o, h)
    BY <1>s, <1>y, <1>n, <1>9, <2>o, <2>h DEF Roll, Advance
  <2>2. /\ o \in ChainType /\ o.open /\ o.known /\ o.departed = d.departed
        /\ Current(o) = Current(n)
    BY <1>5, <2>o, OpenIs
  <2>3. h \in Line /\ h.instance = run
    BY <1>5, <2>h, NewLines, RunLines
  <2>4. Put(o, h).departed = d.departed
    BY <2>2, <2>3, PutIs DEF Same
  <2>5. ASSUME InOrder(d.departed) PROVE Neat(Put(o, h))
    <3>1. Neat(o)
      BY <1>5, <1>6, <1>9, <2>o, <2>5, OpenNeat
    <3> QED  BY <2>2, <2>3, <3>1, PutNeat DEF Neat
  <2> QED  BY <2>1, <2>4, <2>5 DEF Tidy
<1> QED  BY <1>7, <1>8, <1>9

LEMMA WriteRecordTidy ==
  ASSUME Env, NEW p, Fit(p), p.open, p.segment < MaxSegments, Tidy(p), NEW fail
  PROVE  Tidy(WriteRecord(p, fail))
<1>l. PICK l : l = NewLine(p, "record")
  OBVIOUS
<1>w. PICK w : w = AppendLine(p, l, fail)
  OBVIOUS
<1>n. PICK n : n = IF w.unsigned = 1 THEN w.seq ELSE w.first
  OBVIOUS
<1>b. PICK b : b = [w EXCEPT !.first = n]
  OBVIOUS
<1>s. PICK s : s = IF b.unsigned >= BatchMax THEN SignBatch(b, fail) ELSE b
  OBVIOUS
<1>1. WriteRecord(p, fail) = IF w.broken THEN w
                             ELSE IF s.bytes >= SegmentMax THEN Roll(s, fail)
                             ELSE s
  BY <1>l, <1>w, <1>n, <1>b, <1>s DEF WriteRecord
<1>2. p \in ChainType /\ p.known
  BY DEF Fit
<1>3. NextLine(p, l) /\ l \in Line /\ l.instance = run
  BY <1>l, <1>2, NewLines, RunLines DEF NextLine
<1>4. Fit(w) /\ Same(p, w) /\ (Neat(p) => Neat(w))
  <2>1. Fit(w) /\ Same(p, w)
    BY <1>w, <1>3, AppendLineFits
  <2> QED  BY <1>w, <1>2, <1>3, <2>1, AppendLineNeat
<1>5. w \in ChainType /\ n \in Nat
  <2>1. w \in ChainType
    BY <1>4 DEF Fit
  <2> QED  BY <1>n, <2>1, Fields
<1>6. Fit(b) /\ Same(w, b)
  BY <1>4, <1>5, <1>b, BatchFirstFits
<1>7. b.lines = w.lines /\ b.bytes = w.bytes /\ b.unsigned = w.unsigned
  BY <1>5, <1>b DEF ChainType
<1>8. Neat(p) => Neat(b)
  BY <1>4, <1>6, <1>7, SameNeat
<1>9. Same(p, b) /\ b.open
  BY <1>4, <1>6, SameTrans DEF Same
<1>10. Fit(s) /\ Same(b, s) /\ (Neat(b) => Neat(s))
  <2>1. CASE b.unsigned >= BatchMax
    <3>1. s = SignBatch(b, fail)
      BY <1>s, <2>1
    <3>2. Fit(SignBatch(b, fail)) /\ Same(b, SignBatch(b, fail))
      BY <1>6, <1>9, SignBatchFits
    <3>3. Neat(b) => Neat(SignBatch(b, fail))
      BY <1>6, <1>9, SignBatchNeat
    <3> QED  BY <3>1, <3>2, <3>3
  <2>2. CASE ~ (b.unsigned >= BatchMax)
    BY <1>s, <1>6, <2>2 DEF Same
  <2> QED  BY <2>1, <2>2
<1>11. Same(p, s) /\ s.open /\ s.segment < MaxSegments /\ s.departed = p.departed
  BY <1>9, <1>10, SameTrans DEF Same
<1>12. Tidy(s)
  BY <1>8, <1>10, <1>11, TidyOf
<1>13. CASE w.broken
  <2>1. w.departed = p.departed
    BY <1>4 DEF Same
  <2> QED  BY <1>1, <1>4, <1>13, <2>1, TidyOf
<1>14. CASE ~ w.broken /\ s.bytes >= SegmentMax
  <2>1. s.bytes > 0
    <3>1. s.bytes \in Nat
      BY <1>10, Fields DEF Fit
    <3> QED  BY <1>14, <3>1, ChainAssumption
  <2>2. Tidy(Roll(s, fail))
    BY <1>10, <1>11, <1>12, <2>1, RollTidy
  <2> QED  BY <1>1, <1>14, <2>2
<1>15. CASE ~ w.broken /\ ~ (s.bytes >= SegmentMax)
  BY <1>1, <1>12, <1>15
<1> QED  BY <1>13, <1>14, <1>15

\* A restart takes up the newest file, unless segment 1 is gone, and marks what it inherits.
LEMMA ReviveTidy ==
  ASSUME Env, NEW d, Fit(d), ~ d.known, Tidy(d)
  PROVE  Tidy(Revive(d))
<1>0. PICK m, f, D, n, h, q, p : ReviveParts(d, m, f, D, n, h, q, p)
  BY Revived
<1>m. m = Latest(d)
  BY <1>0 DEF ReviveParts
<1>f. f = d.lines[m]
  BY <1>0 DEF ReviveParts
<1>D. D = d.departed \cup (IF f = <<>> /\ m > 1 THEN {"emptySegment"} ELSE {})
          \cup (IF 1 \notin d.files /\ d.files # {} THEN {"prunedFirst"} ELSE {})
  BY <1>0 DEF ReviveParts
<1>n. n = IF f = <<>> THEN 0 ELSE f[Len(f)].seq
  BY <1>0 DEF ReviveParts
<1>h. h = IF f = <<>> THEN NoHash ELSE Hash(f[Len(f)])
  BY <1>0 DEF ReviveParts
<1>q. q = [d EXCEPT !.known = TRUE, !.segment = m, !.unsigned = 0, !.first = 0,
                    !.seq = n, !.head = h, !.bytes = Len(f), !.departed = D]
  BY <1>0 DEF ReviveParts
<1>p. p = OpenFile(q)
  BY <1>0 DEF ReviveParts
<1>1. Revive(d) = IF f = <<>> THEN Put(p, Header(p))
                  ELSE IF Inherited(f) > 0 THEN Put(p, NewLine(p, "resumed"))
                  ELSE p
  BY <1>0 DEF ReviveParts
<1>2. d \in ChainType
  BY DEF Fit
<1>3. /\ m \in Segments
      /\ 1 \in d.files => m \in d.files /\ m + 1 \notin d.files /\ 1 .. m \subseteq d.files
      /\ 1 \notin d.files => m = 1
  BY <1>m, <1>2, LatestFacts
<1>4. /\ d.lines \in [Segments -> Seq(Line)] /\ d.files \in SUBSET Segments
      /\ d.departed \in SUBSET Departures /\ f \in Seq(Line) /\ Len(f) \in Nat
      /\ d.files \subseteq Nat /\ m \in Nat
  <2>1. Segments \subseteq Nat
    BY DEF Segments
  <2>2. /\ d.lines \in [Segments -> Seq(Line)] /\ d.files \in SUBSET Segments
        /\ d.departed \in SUBSET Departures
    BY <1>2, Fields
  <2>3. f \in Seq(Line)
    BY <1>f, <1>3, <2>2
  <2>4. Len(f) \in Nat
    BY <2>3
  <2>5. d.files \subseteq Nat
    BY <2>1, <2>2
  <2>6. m \in Nat
    BY <1>3, <2>1
  <2> QED  BY <2>2, <2>3, <2>4, <2>5, <2>6
<1>5. q \in ChainType
  <2>1. f # <<>> => f[Len(f)].seq \in Nat /\ f[Len(f)].instance \in Nat
    BY <1>4, LinesOf, LineTypes DEF LastLine
  <2>2. n \in Nat
    BY <1>n, <2>1
  <2>3. h \in Nat \X Nat
    BY <1>h, <2>1 DEF NoHash, Hash
  <2>4. D \in SUBSET Departures
    BY <1>D, <1>4 DEF Departures
  <2> QED  BY <1>q, <1>2, <1>3, <1>4, <2>2, <2>3, <2>4 DEF ChainType
<1>6. /\ q.lines = d.lines /\ q.files = d.files /\ q.synced = d.synced /\ q.departed = D
      /\ q.known /\ q.segment = m /\ q.bytes = Len(f) /\ q.unsigned = 0 /\ ~ q.open
  <2>1. ~ d.open
    BY DEF Fit
  <2> QED  BY <1>q, <1>2, <2>1 DEF ChainType
<1>7. Current(q) = f
  BY <1>f, <1>6 DEF Current
<1>8. /\ p \in ChainType /\ p.lines = d.lines /\ p.files = d.files \cup {m} /\ p.open
      /\ p.segment = m /\ p.departed = D /\ p.known /\ p.synced = d.synced /\ Current(p) = f
  BY <1>p, <1>5, <1>6, <1>7, OpenIs
<1>9. p.bytes = Len(f) /\ p.unsigned = 0
  BY <1>p, <1>5, <1>6 DEF OpenFile, ChainType
<1>10. ASSUME InOrder(D)
       PROVE  /\ Laid(d) /\ (1 \in d.files \/ d.files = {}) /\ \A t \in d.files : t <= m
  <2>1. InOrder(d.departed) /\ (1 \in d.files \/ d.files = {})
    BY <1>D, <1>10 DEF InOrder
  <2>2. Laid(d)
    BY <2>1 DEF Tidy, Neat
  <2>3. ASSUME NEW t \in d.files, ~ (t <= m) PROVE FALSE
    <3>1. 1 \in d.files /\ m \in d.files /\ m + 1 \notin d.files
      BY <1>3, <2>1, <2>3
    <3>2. m + 1 \in m .. t
      BY <1>4, <2>3
    <3> QED  BY <2>2, <3>1, <3>2 DEF Laid, Convex
  <2> QED  BY <2>1, <2>2, <2>3
<1>11. ASSUME InOrder(D) PROVE Laid(p) /\ Placed(p)
  <2>1. /\ Laid(d) /\ (1 \in d.files \/ d.files = {}) /\ \A t \in d.files : t <= m
    BY <1>10, <1>11
  <2>2. Placed(p)
    <3>1. /\ m \in p.files /\ \A t \in p.files : t <= m
      BY <1>4, <1>8, <2>1
    <3> QED  BY <1>4, <1>8, <1>9, <3>1 DEF Placed
  <2>3. CASE m \in d.files
    <3>1. p.files = d.files
      BY <1>8, <2>3
    <3> QED  BY <1>8, <2>1, <2>2, <3>1 DEF Laid
  <2>4. CASE m \notin d.files
    <3>1. d.files = {} /\ p.files = {m}
      BY <1>3, <1>8, <2>1, <2>4
    <3>2. Convex(p.files)
      BY <1>4, <3>1 DEF Convex
    <3>3. ~ (m + 1 = m)
      BY <1>4
    <3>4. \A s \in Segments \ p.files : p.lines[s] = <<>>
      BY <1>8, <2>1, <3>1 DEF Laid
    <3>5. \A s \in Segments : MarkedIn(p.lines[s])
      BY <1>8, <2>1 DEF Laid
    <3>6. Laid(p)
      BY <3>1, <3>2, <3>3, <3>4, <3>5 DEF Laid
    <3> QED  BY <2>2, <3>6
  <2> QED  BY <2>2, <2>3, <2>4
<1>12. CASE f = <<>>
  <2>h. PICK l : l = Header(p)
    OBVIOUS
  <2>1. Revive(d) = Put(p, l)
    BY <1>1, <1>12, <2>h
  <2>2. l \in Line /\ l.instance = run
    BY <1>8, <2>h, NewLines, RunLines
  <2>3. Put(p, l).departed = D
    BY <1>8, <2>2, PutIs DEF Same
  <2>4. Own(p) /\ Counted(p)
    <3>1. CoveredIn(<<>>)
      BY DEF CoveredIn
    <3> QED  BY <1>8, <1>12, <3>1 DEF Own, Counted
  <2>5. ASSUME InOrder(D) PROVE Neat(Put(p, l))
    BY <1>8, <1>11, <2>2, <2>4, <2>5, PutNeat
  <2> QED  BY <2>1, <2>3, <2>5 DEF Tidy
<1>13. CASE f # <<>> /\ Inherited(f) > 0
  <2>h. PICK l : l = NewLine(p, "resumed")
    OBVIOUS
  <2>1. Revive(d) = Put(p, l)
    BY <1>1, <1>13, <2>h
  <2>2. l \in Line /\ l.instance = run /\ l.kind = "resumed"
    BY <1>8, <2>h, NewLines, RunLines DEF NextLine
  <2>3. Put(p, l).departed = D
    BY <1>8, <2>2, PutIs DEF Same
  <2>5. ASSUME InOrder(D) PROVE Neat(Put(p, l))
    BY <1>8, <1>11, <2>2, <2>5, PutNeat
  <2> QED  BY <2>1, <2>3, <2>5 DEF Tidy
<1>14. CASE f # <<>> /\ ~ (Inherited(f) > 0)
  <2>1. Revive(d) = p
    BY <1>1, <1>14
  <2>2. LastLine(f).kind = "batchsig" /\ CoveredIn(f)
    BY <1>4, <1>14, InheritsNone, CoveredBySig
  <2>3. Own(p) /\ Counted(p) /\ Resting(p)
    BY <1>8, <2>2 DEF Own, Counted, Resting
  <2> QED  BY <1>8, <1>11, <2>1, <2>3 DEF Tidy, Neat
<1> QED  BY <1>12, <1>13, <1>14

LEMMA PartTidy ==
  ASSUME Env, NEW d, Fit(d), Tidy(d)
  PROVE  Tidy(Part(d))
<1>1. d \in ChainType
  BY DEF Fit
<1>2. CASE ~ d.known
  BY <1>2, ReviveTidy, GlueFits DEF Part, Tidy
<1>3. CASE d.known /\ ~ d.open
  <2>1. OpenFile(d).departed = d.departed
    BY <1>1, OpenIs
  <2>2. Neat(d) => Neat(OpenFile(d))
    BY <1>1, <1>3, OpenNeat
  <2>3. Tidy(OpenFile(d))
    BY <2>1, <2>2, TidyOf
  <2> QED  BY <1>3, <2>3 DEF Part
<1>4. CASE d.known /\ d.open
  BY <1>4 DEF Part
<1> QED  BY <1>2, <1>3, <1>4

\* Without a struct only the files count.
LEMMA RestNeat ==
  ASSUME NEW e, ~ e.known, Laid(e)
  PROVE  Neat(e)
BY DEF Neat, Placed, Own, Counted, Resting

LEMMA NoStructTidy ==
  ASSUME NEW d, Fit(d), Tidy(d)
  PROVE  Tidy(NoStruct(d)) /\ ~ NoStruct(d).known
<1>e. PICK e : e = NoStruct(d)
  OBVIOUS
<1>1. /\ e.lines = d.lines /\ e.files = d.files /\ e.synced = d.synced
      /\ e.departed = d.departed /\ ~ e.known
  BY <1>e, NoStructIs DEF Fit
<1>2. ASSUME Neat(d) PROVE Neat(e)
  <2>1. Laid(e)
    BY <1>1, <1>2 DEF Neat, Laid
  <2> QED  BY <1>1, <2>1, RestNeat
<1> QED  BY <1>e, <1>1, <1>2, TidyOf

LEMMA CutTidy ==
  ASSUME NEW d, Fit(d), Tidy(d), NEW s \in Segments, NEW k \in Nat, NEW torn \in BOOLEAN,
         k <= Len(d.lines[s]),
         InOrder(d.departed) => (s + 1 \in d.files => d.synced[s] <= k)
  PROVE  Tidy(Cut(NoStruct(d), s, k, torn)) /\ ~ Cut(NoStruct(d), s, k, torn).known
<1>n. PICK n : n = NoStruct(d)
  OBVIOUS
<1>t. PICK t : t = IF torn THEN s ELSE IF n.torn = s THEN 0 ELSE n.torn
  OBVIOUS
<1>y. PICK y : y = IF k < n.synced[s] THEN k ELSE n.synced[s]
  OBVIOUS
<1>e. PICK e : e = [n EXCEPT !.lines[s] = SubSeq(@, 1, k), !.synced[s] = y, !.torn = t]
  OBVIOUS
<1>1. Cut(NoStruct(d), s, k, torn) = e
  BY <1>n, <1>t, <1>y, <1>e DEF Cut
<1>2. d \in ChainType
  BY DEF Fit
<1>3. /\ n \in ChainType /\ n.lines = d.lines /\ n.files = d.files /\ n.synced = d.synced
      /\ n.departed = d.departed /\ ~ n.known
  BY <1>n, <1>2, NoStructIs
<1>4. /\ d.lines \in [Segments -> Seq(Line)] /\ d.files \in SUBSET Segments
      /\ d.synced \in [Segments -> Nat]
  BY <1>2, Fields
<1>5. /\ e.lines = [d.lines EXCEPT ![s] = SubSeq(@, 1, k)]
      /\ e.synced = [d.synced EXCEPT ![s] = y] /\ e.files = d.files
      /\ e.departed = d.departed /\ ~ e.known
  BY <1>e, <1>3 DEF ChainType
<1>6. ASSUME Neat(d), InOrder(d.departed) PROVE Laid(e)
  <2>1. Laid(d)
    BY <1>6 DEF Neat
  <2>2. /\ \A u \in Segments : u # s => e.lines[u] = d.lines[u] /\ e.synced[u] = d.synced[u]
        /\ e.lines[s] = SubSeq(d.lines[s], 1, k) /\ e.synced[s] = y
    BY <1>4, <1>5
  <2>3. MarkedIn(e.lines[s])
    BY <1>4, <2>1, <2>2, MarkedCut DEF Laid
  <2>4. \A u \in Segments : MarkedIn(e.lines[u])
    BY <2>1, <2>2, <2>3 DEF Laid
  <2>5. ASSUME NEW u \in Segments \ e.files PROVE e.lines[u] = <<>>
    <3>1. d.lines[u] = <<>>
      BY <1>5, <2>1 DEF Laid
    <3>2. CASE u = s
      <4>1. k = 0
        BY <3>1, <3>2
      <4>2. SubSeq(d.lines[s], 1, 0) = <<>>
        BY <1>4
      <4> QED  BY <2>2, <3>2, <4>1, <4>2
    <3> QED  BY <2>2, <3>1, <3>2
  <2>6. ASSUME NEW u \in e.files, u + 1 \in e.files PROVE e.synced[u] > 0
    <3>1. u \in Segments /\ d.synced[u] > 0
      BY <1>4, <1>5, <2>1, <2>6 DEF Laid
    <3>2. CASE u = s
      <4>1. d.synced[s] \in Nat /\ d.synced[s] <= k /\ d.synced[s] > 0
        BY <1>4, <1>5, <1>6, <2>6, <3>1, <3>2
      <4>2. y = d.synced[s]
        BY <1>y, <1>3, <4>1
      <4> QED  BY <2>2, <3>2, <4>1, <4>2
    <3> QED  BY <2>2, <3>1, <3>2
  <2> QED  BY <1>5, <2>1, <2>4, <2>5, <2>6 DEF Laid
<1>7. Tidy(e)
  BY <1>5, <1>6, RestNeat DEF Tidy
<1> QED  BY <1>1, <1>5, <1>7

LEMMA DroppedTidy ==
  ASSUME NEW d, Fit(d), d.open, Tidy(d), NEW e \in Dropped(d)
  PROVE  Tidy(e) /\ ~ e.known
<1>s. PICK s : s = d.segment
  OBVIOUS
<1>1. /\ d \in ChainType /\ d.known /\ s \in Segments /\ s \in Nat /\ d.flushed \in Nat
      /\ Len(d.lines[s]) \in Nat /\ Current(d) = d.lines[s]
  BY <1>s, Fields DEF Fit, Current
<1>2. PICK k \in d.flushed .. Len(Current(d)), torn \in BOOLEAN :
        e = Cut(NoStruct(d), s, k, torn)
  BY <1>s DEF Dropped
<1>3. k \in Nat /\ k <= Len(d.lines[s])
  BY <1>1
<1>4. ASSUME InOrder(d.departed) PROVE s + 1 \notin d.files
  <2>1. \A t \in d.files : t <= s
    BY <1>s, <1>1, <1>4 DEF Tidy, Neat, Placed
  <2> QED  BY <1>1, <2>1
<1> QED  BY <1>1, <1>2, <1>3, <1>4, CutTidy

\* The newest file disappears.
LEMMA LoseTidy ==
  ASSUME NEW d, Fit(d), Tidy(d), NEW s \in Segments,
         InOrder(d.departed) => \A t \in d.files : t <= s
  PROVE  Tidy(Unlink(NoStruct(d), {s})) /\ ~ Unlink(NoStruct(d), {s}).known
<1>n. PICK n : n = NoStruct(d)
  OBVIOUS
<1>e. PICK e : e = Unlink(n, {s})
  OBVIOUS
<1>1. n \in ChainType /\ n.lines = d.lines /\ n.files = d.files /\ n.synced = d.synced
      /\ n.departed = d.departed /\ ~ n.known
  BY <1>n, NoStructIs DEF Fit
<1>2. /\ e.files = d.files \ {s} /\ e.departed = d.departed /\ ~ e.known
      /\ e.lines = [t \in Segments |-> IF t \in {s} THEN <<>> ELSE d.lines[t]]
      /\ e.synced = [t \in Segments |-> IF t \in {s} THEN 0 ELSE d.synced[t]]
  BY <1>e, <1>1, UnlinkIs
<1>3. d.files \in SUBSET Segments /\ d.files \subseteq Nat /\ s \in Nat
  <2>1. Segments \subseteq Nat
    BY DEF Segments
  <2> QED  BY <2>1, Fields DEF Fit
<1>4. ASSUME Neat(d), InOrder(d.departed) PROVE Laid(e)
  <2>1. Laid(d)
    BY <1>4 DEF Neat
  <2>2. Convex(e.files)
    <3> SUFFICES ASSUME NEW a \in d.files \ {s}, NEW b \in d.files \ {s}, NEW u \in a .. b
                 PROVE  u \in d.files \ {s}
      BY <1>2 DEF Convex
    <3>1. u \in d.files
      BY <2>1 DEF Laid, Convex
    <3>2. a \in Nat /\ b \in Nat /\ b <= s /\ b # s /\ u <= b /\ u \in Nat
      BY <1>3, <1>4, <3>1
    <3> QED  BY <1>3, <3>1, <3>2
  <2>3. MarkedIn(<<>>)
    BY DEF MarkedIn
  <2>4. \A u \in Segments : MarkedIn(e.lines[u])
    BY <1>2, <2>1, <2>3 DEF Laid
  <2>5. \A u \in Segments \ e.files : e.lines[u] = <<>>
    BY <1>2, <2>1 DEF Laid
  <2>6. \A u \in e.files : u + 1 \in e.files => e.synced[u] > 0
    BY <1>2, <1>3, <2>1 DEF Laid
  <2> QED  BY <2>2, <2>4, <2>5, <2>6 DEF Laid
<1>5. Tidy(e)
  BY <1>2, <1>4, RestNeat DEF Tidy
<1> QED  BY <1>n, <1>e, <1>2, <1>5

LEMMA PruneTidy ==
  ASSUME Env, Fit(c), Tidy(c), NEW keep \in Segments, NEW fail, Prune(keep, fail)
  PROVE  Tidy(c')
<1>p. PICK p : p = Part(c)
  OBVIOUS
<1>l. PICK last : last = p.segment - keep
  OBVIOUS
<1>o. PICK old : old = p.lines[last]
  OBVIOUS
<1>s. PICK s : s = Flush(SignBatch(AppendLine(p, Retention(p, old[Len(old)].seq), fail),
                                   fail), fail)
  OBVIOUS
<1>1. \/ c' = p
      \/ c' = s /\ ~ (last < 1) /\ old # <<>>
      \/ /\ ~ (last < 1) /\ old # <<>>
         /\ \E n \in 0 .. last : c' = Unlink(Sync(s), 1 .. n)
  BY <1>p, <1>l, <1>o, <1>s DEF Prune
<1>2. Fit(p) /\ p.open /\ Tidy(p) /\ p \in ChainType /\ p.known
  <2>1. Fit(p) /\ p.open
    BY <1>p, PartFits
  <2>2. Tidy(p)
    BY <1>p, PartTidy
  <2> QED  BY <2>1, <2>2 DEF Fit
<1>3. p.segment \in Nat /\ keep \in Nat \ {0} /\ p.lines \in [Segments -> Seq(Line)]
      /\ p.segment \in Segments
  BY <1>2, Fields DEF Segments
<1>4. ASSUME ~ (last < 1), old # <<>>
      PROVE  /\ last \in Nat \ {0} /\ last < p.segment /\ Fit(s) /\ s.open
             /\ s.segment = p.segment /\ s.departed = p.departed /\ (Neat(p) => Neat(s))
  <2>1. last \in Nat \ {0} /\ last < p.segment
    BY <1>l, <1>3, <1>4
  <2>n. PICK n : n = old[Len(old)].seq
    OBVIOUS
  <2>t. PICK t : t = Retention(p, n)
    OBVIOUS
  <2>a. PICK a : a = AppendLine(p, t, fail)
    OBVIOUS
  <2>b. PICK b : b = SignBatch(a, fail)
    OBVIOUS
  <2>2. s = Flush(b, fail)
    BY <1>s, <2>n, <2>t, <2>a, <2>b
  <2>3. n \in Nat
    <3>1. last \in Segments
      BY <1>3, <2>1, ChainAssumption DEF Segments
    <3>2. old \in Seq(Line)
      BY <1>o, <1>3, <3>1
    <3> QED  BY <1>4, <2>n, <3>2, LinesOf DEF LastLine
  <2>4. NextLine(p, t) /\ t \in Line /\ t.instance = run
    <3>1. NextLine(p, t)
      BY <1>2, <2>3, <2>t, NewLines
    <3>2. t.instance = run
      BY <1>2, <2>t, RunLines
    <3> QED  BY <3>1, <3>2 DEF NextLine
  <2>5. Fit(a) /\ Same(p, a) /\ (Neat(p) => Neat(a))
    <3>1. Fit(a) /\ Same(p, a)
      BY <1>2, <2>4, <2>a, AppendLineFits
    <3> QED  BY <1>2, <2>4, <2>a, <3>1, AppendLineNeat
  <2>6. a.open
    BY <1>2, <2>5 DEF Same
  <2>7. Fit(b) /\ Same(a, b) /\ (Neat(a) => Neat(b))
    <3>1. Fit(b) /\ Same(a, b)
      BY <2>5, <2>6, <2>b, SignBatchFits
    <3> QED  BY <2>5, <2>6, <2>b, <3>1, SignBatchNeat
  <2>8. b.open /\ b \in ChainType
    BY <2>6, <2>7 DEF Same, Fit
  <2>9. Fit(s) /\ Same(b, s) /\ (Neat(b) => Neat(s))
    <3>1. Fit(s) /\ Same(b, s)
      BY <2>2, <2>7, <2>8, FlushFits
    <3> QED  BY <2>2, <2>8, <3>1, FlushNeat
  <2>10. Same(p, s)
    BY <2>5, <2>7, <2>9, SameTrans
  <2> QED  BY <1>2, <2>1, <2>5, <2>7, <2>9, <2>10 DEF Same
<1>5. CASE c' = p
  BY <1>2, <1>5
<1>6. CASE c' = s /\ ~ (last < 1) /\ old # <<>>
  <2>1. Tidy(s)
    BY <1>2, <1>4, <1>6, TidyOf
  <2> QED  BY <1>6, <2>1
<1>7. ASSUME ~ (last < 1), old # <<>>, NEW n \in 0 .. last, c' = Unlink(Sync(s), 1 .. n)
      PROVE  Tidy(c')
  <2>y. PICK y : y = Sync(s)
    OBVIOUS
  <2>S. PICK S : S = 1 .. n
    OBVIOUS
  <2>e. PICK e : e = Unlink(y, S)
    OBVIOUS
  <2>g. PICK g : g = p.segment
    OBVIOUS
  <2>1. /\ Fit(y) /\ y.open /\ y.segment = g /\ y.departed = p.departed
        /\ (Neat(p) => Neat(y)) /\ y \in ChainType /\ y.known
    <3>1. /\ Fit(y) /\ y.open = s.open /\ y.segment = s.segment /\ y.departed = s.departed
      BY <1>4, <1>7, <2>y, SyncFits
    <3>2. Neat(s) => Neat(y)
      BY <1>4, <1>7, <2>y, SyncNeat
    <3>3. y \in ChainType /\ (y.open => y.known)
      BY <3>1 DEF Fit
    <3> QED  BY <1>4, <1>7, <2>g, <3>1, <3>2, <3>3
  <2>2. /\ e.files = y.files \ (1 .. n) /\ e.departed = y.departed /\ e.known = y.known
        /\ e.open = y.open /\ e.segment = y.segment
        /\ e.lines = [t \in Segments |-> IF t \in 1 .. n THEN <<>> ELSE y.lines[t]]
        /\ e.synced = [t \in Segments |-> IF t \in 1 .. n THEN 0 ELSE y.synced[t]]
    <3>0. y \in ChainType
      BY <2>1
    <3>1. /\ e.files = y.files \ S /\ e.departed = y.departed /\ e.known = y.known
          /\ e.open = y.open /\ e.segment = y.segment
          /\ e.lines = [t \in Segments |-> IF t \in S THEN <<>> ELSE y.lines[t]]
          /\ e.synced = [t \in Segments |-> IF t \in S THEN 0 ELSE y.synced[t]]
      BY <2>e, <3>0, UnlinkIs
    <3> QED  BY <2>S, <3>1
  <2>3. e.bytes = y.bytes /\ e.unsigned = y.unsigned
    BY <2>1, <2>e DEF Unlink, ChainType
  <2>4. /\ y.files \in SUBSET Segments /\ y.files \subseteq Nat \ {0} /\ g \in Nat /\ g \in Segments
        /\ n \in Nat /\ n < g
    <3>1. Segments \subseteq Nat \ {0}
      BY DEF Segments
    <3>2. n \in Nat /\ n < g
      BY <1>3, <1>4, <1>7, <2>g
    <3>3. y.files \in SUBSET Segments
      BY <2>1, Fields
    <3> QED  BY <1>3, <2>g, <3>1, <3>2, <3>3
  <2>5. Current(e) = Current(y)
    <3>1. g \notin 1 .. n
      BY <2>4
    <3> QED  BY <2>1, <2>2, <2>4, <3>1 DEF Current
  <2>6. ASSUME Neat(y) PROVE Neat(e)
    <3>1. Laid(y) /\ g \in y.files /\ \A t \in y.files : t <= g
      BY <2>1, <2>6 DEF Neat, Placed
    <3>2. Convex(e.files)
      <4> SUFFICES ASSUME NEW a \in y.files \ (1 .. n), NEW b \in y.files \ (1 .. n),
                          NEW u \in a .. b
                   PROVE  u \in y.files \ (1 .. n)
        BY <2>2 DEF Convex
      <4>1. u \in y.files
        BY <3>1 DEF Laid, Convex
      <4>2. a \in Nat /\ a > n /\ u >= a /\ u \in Nat
        BY <2>4, <4>1
      <4> QED  BY <2>4, <4>1, <4>2
    <3>3. MarkedIn(<<>>)
      BY DEF MarkedIn
    <3>4. \A u \in Segments : MarkedIn(e.lines[u])
      BY <2>2, <3>1, <3>3 DEF Laid
    <3>5. \A u \in Segments \ e.files : e.lines[u] = <<>>
      BY <2>2, <3>1 DEF Laid
    <3>6. \A u \in e.files : u + 1 \in e.files => e.synced[u] > 0
      BY <2>2, <2>4, <3>1 DEF Laid
    <3>7. Laid(e)
      BY <3>2, <3>4, <3>5, <3>6 DEF Laid
    <3>8. g \in e.files /\ \A t \in e.files : t <= g
      BY <2>2, <2>4, <3>1
    <3>9. Placed(e)
      BY <2>1, <2>2, <2>3, <2>5, <2>6, <3>8 DEF Neat, Placed
    <3>10. Own(e) /\ Counted(e) /\ Resting(e)
      BY <2>1, <2>2, <2>3, <2>5, <2>6 DEF Neat, Own, Counted, Resting
    <3> QED  BY <3>7, <3>9, <3>10 DEF Neat
  <2>7. Tidy(e)
    BY <1>2, <2>1, <2>2, <2>6 DEF Tidy
  <2> QED  BY <1>7, <2>y, <2>S, <2>e, <2>7
<1> QED  BY <1>1, <1>5, <1>6, <1>7

LEMMA NextTidy ==
  ASSUME NEW x, Tidy(x), c' = x, run' = run \/ ~ x.known
  PROVE  Tidy(c)'
<1>1. Laid(x) => Laid(c)'
  BY DEF Laid
<1>2. Placed(x) => Placed(c)'
  BY DEF Placed
<1>3. Own(x) => Own(c)'
  BY DEF Own
<1>4. Counted(x) /\ Resting(x) => Counted(c)' /\ Resting(c)'
  BY DEF Counted, Resting
<1> QED  BY <1>1, <1>2, <1>3, <1>4 DEF Tidy, Neat

\* What a handler leaves when it signs, flushes and gives up its handle.
LEMMA FinishTidy ==
  ASSUME Env, NEW d, Fit(d), Tidy(d), d.open, NEW fail, NEW s,
         s = Flush(SignTail(d, fail), fail)
  PROVE  /\ Tidy(s) /\ Fit(s) /\ s.open
         /\ InOrder(s.departed) /\ ~ s.broken => s.unsigned = 0
<1>1. Fit(s) /\ s.open /\ s.departed = d.departed
  BY FinishFits DEF Same
<1>2. Neat(d) => Neat(s) /\ (~ s.broken => s.unsigned = 0)
  BY FinishNeat
<1> QED  BY <1>1, <1>2 DEF Tidy

LEMMA ReleaseTidy ==
  ASSUME NEW d, Fit(d), Tidy(d), InOrder(d.departed) => d.unsigned = 0
  PROVE  Tidy([d EXCEPT !.open = FALSE])
<1>e. PICK e : e = [d EXCEPT !.open = FALSE]
  OBVIOUS
<1>1. /\ e.lines = d.lines /\ e.files = d.files /\ e.synced = d.synced /\ e.bytes = d.bytes
      /\ e.known = d.known /\ ~ e.open /\ e.departed = d.departed /\ e.segment = d.segment
      /\ e.unsigned = d.unsigned
  BY <1>e DEF Fit, ChainType
<1>2. Current(e) = Current(d)
  BY <1>1 DEF Current
<1>3. ASSUME Neat(d), d.unsigned = 0 PROVE Neat(e)
  <2>1. Laid(e)
    BY <1>1, <1>3 DEF Neat, Laid
  <2>2. Placed(e) /\ Own(e) /\ Counted(e) /\ Resting(e)
    BY <1>1, <1>2, <1>3 DEF Neat, Placed, Own, Counted, Resting
  <2> QED  BY <2>1, <2>2 DEF Neat
<1> QED  BY <1>e, <1>1, <1>3 DEF Tidy

\* A stopped process has no struct.
TailInv == Tidy(c) /\ (c.known => up)

\* No step leaves the second invariant either: each line was written by the process before it or begins
\* anew after a signature or a mark, and a struct that counts nothing unsigned is right.
THEOREM TailInvariant == Spec => []TailInv
<1>1. Init => TailInv
  <2> SUFFICES ASSUME Init PROVE TailInv
    OBVIOUS
  <2>1. /\ c.lines = [s \in Segments |-> <<>>] /\ c.files = {} /\ ~ c.known
    BY DEF Init
  <2>2. MarkedIn(<<>>)
    BY DEF MarkedIn
  <2>3. Laid(c)
    BY <2>1, <2>2 DEF Laid, Convex
  <2> QED  BY <2>1, <2>3, RestNeat DEF TailInv, Tidy
<1>2. IInv /\ TailInv /\ [Next]_vars => TailInv'
  <2> SUFFICES ASSUME IInv, TailInv, [Next]_vars PROVE TailInv'
    OBVIOUS
  <2>1. TypeOK /\ Fit(c) /\ Env /\ Tidy(c) /\ (c.known => up)
    BY ChainAssumption DEF IInv, TypeOK, Env, TailInv
  <2>2. ASSUME NEW x, Tidy(x), c' = x, run' = run, up' \/ ~ x.known PROVE TailInv'
    <3>1. Tidy(c)'
      BY <2>2, NextTidy
    <3> QED  BY <2>2, <3>1 DEF TailInv
  <2>3. ASSUME NEW fail, Write(fail) PROVE TailInv'
    <3>1. Fit(Part(c)) /\ Part(c).open /\ Part(c).segment < MaxSegments
      BY <2>1, <2>3, PartFits DEF Write, RoomToRoll
    <3>2. Tidy(Part(c))
      BY <2>1, PartTidy
    <3>3. Tidy(WriteRecord(Part(c), fail))
      BY <2>1, <3>1, <3>2, WriteRecordTidy
    <3>4. c' = WriteRecord(Part(c), fail) /\ run' = run /\ up'
      BY <2>3 DEF Write
    <3> QED  BY <2>2, <3>3, <3>4
  <2>4. ASSUME NEW fail, WriteSync(fail) PROVE TailInv'
    <3>1. Fit(Part(c)) /\ Part(c).open /\ Part(c).segment < MaxSegments
      BY <2>1, <2>4, PartFits DEF WriteSync, RoomToRoll
    <3>2. Tidy(Part(c))
      BY <2>1, PartTidy
    <3>3. PICK w : w = WriteRecord(Part(c), fail)
      OBVIOUS
    <3>4. Tidy(w) /\ Fit(w)
      BY <2>1, <3>1, <3>2, <3>3, WriteRecordTidy, WriteRecordFits
    <3>5. w.open => Tidy(Flush(w, fail))
      <4> SUFFICES ASSUME w.open PROVE Tidy(Flush(w, fail))
        OBVIOUS
      <4>1. Flush(w, fail).departed = w.departed
        BY <3>4, FlushFits DEF Same
      <4>2. w \in ChainType
        BY <3>4 DEF Fit
      <4>3. Neat(w) => Neat(Flush(w, fail))
        BY <4>2, FlushNeat
      <4> QED  BY <3>4, <4>1, <4>3, TidyOf
    <3>6. c' = (IF w.open THEN Flush(w, fail) ELSE w) /\ run' = run /\ up'
      BY <2>4, <3>3 DEF WriteSync
    <3> QED  BY <2>2, <3>4, <3>5, <3>6
  <2>5. ASSUME NEW fail, Tick(fail) PROVE TailInv'
    <3>1. Tidy(Flush(SignTail(c, fail), fail))
      BY <2>1, <2>5, FinishTidy DEF Tick
    <3>2. c' = Flush(SignTail(c, fail), fail) /\ run' = run /\ up'
      BY <2>5 DEF Tick
    <3> QED  BY <2>2, <3>1, <3>2
  <2>6. ASSUME NEW fail, Evict(fail) PROVE TailInv'
    <3>s. PICK s : s = Flush(SignTail(c, fail), fail)
      OBVIOUS
    <3>1. /\ Tidy(s) /\ Fit(s) /\ s.open
          /\ InOrder(s.departed) /\ ~ s.broken => s.unsigned = 0
      BY <2>1, <2>6, <3>s, FinishTidy DEF Evict
    <3>2. /\ (~ s.broken /\ c' = [s EXCEPT !.open = FALSE]) \/ c' \in Dropped(s)
          /\ run' = run /\ up'
      BY <2>6, <3>s DEF Evict
    <3>3. CASE ~ s.broken /\ c' = [s EXCEPT !.open = FALSE]
      <4>1. Tidy([s EXCEPT !.open = FALSE])
        BY <3>1, <3>3, ReleaseTidy
      <4> QED  BY <2>2, <3>2, <3>3, <4>1
    <3>4. CASE c' \in Dropped(s)
      <4>1. PICK x \in Dropped(s) : c' = x
        BY <3>4
      <4>2. Tidy(x)
        BY <3>1, DroppedTidy
      <4> QED  BY <2>2, <3>2, <4>1, <4>2
    <3> QED  BY <3>2, <3>3, <3>4
  <2>7. ASSUME NEW fail, Close(fail) PROVE TailInv'
    <3>1. run' = run
      BY <2>7 DEF Close
    <3>2. CASE ~ c.open
      <4>1. Tidy(NoStruct(c)) /\ ~ NoStruct(c).known
        BY <2>1, NoStructTidy
      <4>2. c' = NoStruct(c)
        BY <2>7, <3>2 DEF Close
      <4> QED  BY <2>2, <3>1, <4>1, <4>2
    <3>3. CASE c.open
      <4>s. PICK s : s = Flush(SignTail(c, fail), fail)
        OBVIOUS
      <4>1. Tidy(s) /\ Fit(s) /\ s.open
        BY <2>1, <3>3, <4>s, FinishTidy
      <4>2. c' = NoStruct(s) \/ c' \in Dropped(s)
        BY <2>7, <3>3, <4>s DEF Close
      <4>3. PICK x : c' = x /\ Tidy(x) /\ ~ x.known
        BY <4>1, <4>2, NoStructTidy, DroppedTidy
      <4> QED  BY <2>2, <3>1, <4>3
    <3> QED  BY <3>2, <3>3
  <2>8. ASSUME NEW fail, NEW keep \in Segments, Prune(keep, fail) PROVE TailInv'
    <3>1. Tidy(c')
      BY <2>1, <2>8, PruneTidy
    <3>2. PICK x : x = c'
      OBVIOUS
    <3>3. Tidy(x) /\ c' = x
      BY <3>1, <3>2
    <3>4. run' = run /\ up'
      BY <2>8 DEF Prune
    <3> QED  BY <2>2, <3>3, <3>4
  <2>9. CASE Forget
    <3>1. c' = NoStruct(c) /\ run' = run
      BY <2>9 DEF Forget
    <3> QED  BY <2>1, <2>2, <3>1, NoStructTidy
  <2>10. CASE Kill
    <3>1. run' = run
      BY <2>10 DEF Kill
    <3>2. PICK x : c' = x /\ Tidy(x) /\ ~ x.known
      <4>1. CASE ~ c.open /\ c' = NoStruct(c)
        BY <2>1, <4>1, NoStructTidy
      <4>2. CASE c.open /\ c' \in Dropped(c)
        BY <2>1, <4>2, DroppedTidy
      <4>3. CASE c.open /\ c' = Unlink(NoStruct(c), {c.segment})
        <5>1. c.segment \in Segments /\ c.known
          BY <2>1, <4>3, Fields DEF Fit
        <5>2. InOrder(c.departed) => \A t \in c.files : t <= c.segment
          BY <2>1, <5>1 DEF Tidy, Neat, Placed
        <5> QED  BY <2>1, <4>3, <5>1, <5>2, LoseTidy
      <4> QED  BY <2>10, <4>1, <4>2, <4>3 DEF Kill
    <3> QED  BY <2>2, <3>1, <3>2
  <2>11. CASE PowerLoss
    <3>1. run' = run
      BY <2>11 DEF PowerLoss
    <3>2. /\ c \in ChainType /\ c.files \in SUBSET Segments /\ c.synced \in [Segments -> Nat]
          /\ c.lines \in [Segments -> Seq(Line)]
      BY <2>1, Fields DEF Fit
    <3>3. PICK s \in c.files :
            \/ \E k \in c.synced[s]..Len(c.lines[s]), torn \in BOOLEAN :
                  c' = Cut(NoStruct(c), s, k, torn)
            \/ c.synced[s] = 0 /\ c' = Unlink(NoStruct(c), {s})
      BY <2>11 DEF PowerLoss
    <3>4. s \in Segments /\ c.synced[s] \in Nat /\ Len(c.lines[s]) \in Nat
      BY <3>2
    <3>5. CASE c.synced[s] = 0 /\ c' = Unlink(NoStruct(c), {s})
      <4>1. ASSUME InOrder(c.departed), NEW t \in c.files, ~ (t <= s) PROVE FALSE
        <5>1. Laid(c)
          BY <2>1, <4>1 DEF Tidy, Neat
        <5>2. t \in Nat /\ s \in Nat /\ s + 1 \in s .. t
          <6>1. t \in Nat /\ s \in Nat
            BY <3>2, <3>4 DEF Segments
          <6> QED  BY <4>1, <6>1
        <5>3. s + 1 \in c.files
          BY <5>1, <5>2 DEF Laid, Convex
        <5> QED  BY <3>5, <5>1, <5>3 DEF Laid
      <4>2. Tidy(Unlink(NoStruct(c), {s})) /\ ~ Unlink(NoStruct(c), {s}).known
        BY <2>1, <3>4, <4>1, LoseTidy
      <4> QED  BY <2>2, <3>1, <3>5, <4>2
    <3>6. ASSUME NEW k \in c.synced[s]..Len(c.lines[s]), NEW torn \in BOOLEAN,
                 c' = Cut(NoStruct(c), s, k, torn)
          PROVE  TailInv'
      <4>1. k \in Nat /\ c.synced[s] <= k /\ k <= Len(c.lines[s])
        BY <3>4
      <4>2. Tidy(Cut(NoStruct(c), s, k, torn)) /\ ~ Cut(NoStruct(c), s, k, torn).known
        BY <2>1, <3>4, <4>1, CutTidy
      <4> QED  BY <2>2, <3>1, <3>6, <4>2
    <3> QED  BY <3>3, <3>5, <3>6
  <2>12. ASSUME NEW k \in Keys, Start(k) PROVE TailInv'
    <3>1. c' = c /\ up' /\ ~ c.known
      BY <2>1, <2>12 DEF Start
    <3>2. Tidy(c)'
      BY <2>1, <3>1, NextTidy
    <3> QED  BY <3>1, <3>2 DEF TailInv
  <2>13. CASE UNCHANGED vars
    <3>1. c' = c /\ run' = run /\ up' = up
      BY <2>13 DEF vars
    <3>2. Tidy(c)'
      BY <2>1, <3>1, NextTidy
    <3> QED  BY <2>1, <3>1, <3>2 DEF TailInv
  <2> QED  BY <2>3, <2>4, <2>5, <2>6, <2>7, <2>8, <2>9, <2>10, <2>11, <2>12, <2>13 DEF Next
<1> QED  BY <1>1, <1>2, ChainInvariant, PTL DEF Spec

\* No process signs lines of an earlier one as its own: between them stands a signature of the earlier
\* process or a "resumed" record (scanTail, part), whatever was cut off, dropped or retried in between.
THEOREM InheritedTailIsMarked == Spec => []InheritedTailMarked
<1>1. IInv /\ TailInv => InheritedTailMarked
  <2> SUFFICES ASSUME IInv, TailInv, InOrder(c.departed), NEW s \in c.files
               PROVE  MarkedIn(c.lines[s])
    BY DEF InheritedTailMarked, MarkedIn
  <2>1. s \in Segments
    BY Fields DEF IInv, Fit
  <2> QED  BY <2>1 DEF TailInv, Tidy, Neat, Laid
<1> QED  BY ChainInvariant, TailInvariant, <1>1, PTL

\* A partition that gave up its file handle is signed to its last record, and the head it will resume
\* from is the last line of the file: what lets forgetColdest, the tick and Close skip it.
THEOREM ClosedStaysComplete == Spec => []ClosedIsComplete
<1>1. IInv /\ TailInv => ClosedIsComplete
  <2> SUFFICES ASSUME IInv, TailInv, c.known, ~ c.open PROVE ClosedIsComplete
    BY DEF ClosedIsComplete
  <2>1. InOrder(c.departed) => CoveredIn(Current(c))
    BY DEF TailInv, Tidy, Neat, Resting, Counted
  <2>2. c.departed = {} => /\ Current(c) # <<>> /\ c.head = Hash(Current(c)[Len(Current(c))])
                           /\ c.seq = Current(c)[Len(Current(c))].seq
    BY DEF IInv, Fit, Sound, Struct, LastLine
  <2> QED  BY <2>1, <2>2 DEF ClosedIsComplete, CoveredIn
<1> QED  BY ChainInvariant, TailInvariant, <1>1, PTL
-----------------------------------------------------------------------------
(* A closed export.                                                        *)

\* The greatest of finitely many values: by the least prefix that has none.
LEMMA GreatestThrough ==
  ASSUME NEW f \in Seq(Line), f # <<>>
  PROVE  \E i \in 1 .. Len(f) : \A j \in 1 .. Len(f) : f[j].through <= f[i].through
<1>1. /\ Len(f) \in Nat /\ Len(f) > 0
      /\ \A i \in 1 .. Len(f) : f[i].through \in Nat
  <2>1. \A i \in 1 .. Len(f) : f[i] \in Line
    BY LinesOf
  <2> QED  BY <2>1, LinesOf, LineTypes
<1> DEFINE Has(n) == \E i \in 1 .. n : \A j \in 1 .. n : f[j].through <= f[i].through
<1>2. SUFFICES ASSUME ~ Has(Len(f)) PROVE FALSE
  OBVIOUS
<1>3. PICK T : T = {n \in 1 .. Len(f) : ~ Has(n)}
  OBVIOUS
<1>4. T \subseteq Nat /\ Len(f) \in T
  BY <1>1, <1>2, <1>3
<1>5. PICK m \in T : \A k \in T : m <= k
  BY <1>4, Least
<1>6. m \in 1 .. Len(f) /\ ~ Has(m)
  BY <1>3, <1>5
<1>7. m # 1
  <2>1. Has(1)
    BY <1>1
  <2> QED  BY <1>6, <2>1
<1>8. m - 1 \in 1 .. Len(f)
  BY <1>1, <1>6, <1>7
<1>9. Has(m - 1)
  <2>1. m - 1 \notin T
    BY <1>1, <1>5, <1>6
  <2> QED  BY <1>3, <1>8, <2>1
<1>10. PICK i \in 1 .. m - 1 : \A j \in 1 .. m - 1 : f[j].through <= f[i].through
  BY <1>9
<1>11. f[i].through \in Nat /\ f[m].through \in Nat /\ i \in 1 .. m /\ m \in 1 .. m
  BY <1>1, <1>6, <1>8, <1>10
<1>12. CASE f[m].through <= f[i].through
  <2>1. \A j \in 1 .. m : f[j].through <= f[i].through
    <3> SUFFICES ASSUME NEW j \in 1 .. m PROVE f[j].through <= f[i].through
      OBVIOUS
    <3>1. j = m \/ j \in 1 .. m - 1
      BY <1>1, <1>6
    <3> QED  BY <1>10, <1>12, <3>1
  <2> QED  BY <1>6, <1>11, <2>1
<1>13. CASE ~ (f[m].through <= f[i].through)
  <2>1. \A j \in 1 .. m : f[j].through <= f[m].through
    <3> SUFFICES ASSUME NEW j \in 1 .. m PROVE f[j].through <= f[m].through
      OBVIOUS
    <3>1. j = m \/ j \in 1 .. m - 1
      BY <1>1, <1>6
    <3>2. CASE j = m
      BY <1>11, <3>2
    <3>3. CASE j \in 1 .. m - 1
      <4>1. f[j].through <= f[i].through /\ f[j].through \in Nat
        <5>1. j \in 1 .. Len(f)
          BY <1>1, <1>6, <3>3
        <5>2. f[j].through \in Nat
          BY <1>1, <5>1
        <5> QED  BY <1>10, <3>3, <5>2
      <4> QED  BY <1>11, <1>13, <4>1
    <3> QED  BY <3>1, <3>2, <3>3
  <2> QED  BY <1>6, <1>11, <2>1
<1> QED  BY <1>12, <1>13

LEMMA ThroughBounds ==
  ASSUME NEW f \in Seq(Line), f # <<>>, NEW i \in 1 .. Len(f)
  PROVE  f[i].through <= PrunedThrough(f)
<1>1. PICK m \in 1 .. Len(f) : \A j \in 1 .. Len(f) : f[j].through <= f[m].through
  BY GreatestThrough
<1>2. PICK T : T = {f[j].through : j \in 1 .. Len(f)}
  OBVIOUS
<1>3. f[m].through \in T /\ \A x \in T : x <= f[m].through
  BY <1>1, <1>2
<1>4. PrunedThrough(f) = CHOOSE n \in T : \A x \in T : x <= n
  BY <1>2 DEF PrunedThrough
<1>5. \A x \in T : x <= PrunedThrough(f)
  BY <1>3, <1>4
<1> QED  BY <1>2, <1>5

\* A file that ends in a signature has none after it.
LEMMA SignedToEnd ==
  ASSUME NEW f \in Seq(Line), f # <<>>, LastLine(f).kind = "batchsig"
  PROVE  LastSig(f) = Len(f) /\ Uncovered(f) = 0
<1>1. Len(f) \in Nat /\ Len(f) > 0 /\ f[Len(f)].seq \in Nat
  BY LinesOf DEF LastLine
<1>2. Len(f) \in SigsOf(f) /\ \A j \in SigsOf(f) : j \in Nat /\ j <= Len(f)
  BY <1>1 DEF SigsOf, LastLine
<1>3. LastSig(f) \in SigsOf(f) /\ \A j \in SigsOf(f) : j <= LastSig(f)
  BY <1>2 DEF LastSig
<1>4. LastSig(f) = Len(f)
  <2>1. LastSig(f) \in Nat /\ LastSig(f) <= Len(f) /\ Len(f) <= LastSig(f)
    BY <1>2, <1>3
  <2> QED  BY <1>1, <2>1
<1> QED  BY <1>1, <1>4 DEF Uncovered

\* Files that continue each other, are declared where they were cut, end in signatures and were begun
\* by one process are an export the verifier accepts.
LEMMA ExportVerifies ==
  ASSUME NEW L \in [Segments -> Seq(Line)], NEW F \in SUBSET Segments,
         NEW Y \in [Segments -> Nat], FilesOK(L, F, Y), Declared(L, F, Y),
         \A s \in F : L[s] # <<>> /\ LastLine(L[s]).kind = "batchsig",
         \A s, t \in F : L[s][1].instance = L[t][1].instance,
         NEW D, D = [s \in F |-> L[s]]
  PROVE  GurdyVerify(D)
<1>0. /\ DOMAIN D = F /\ \A s \in F : D[s] = L[s] /\ D[s] \in Seq(Line)
      /\ F \subseteq Nat \ {0}
  <2>1. Segments \subseteq Nat \ {0}
    BY DEF Segments
  <2> QED  BY <2>1
<1>1. ASSUME NEW s \in F PROVE VerifyFile(D[s]) /\ Uncovered(D[s]) = 0
  <2>1. Whole(L[s], s) /\ s \in Nat \ {0}
    BY <1>0 DEF FilesOK
  <2>2. Walks(D[s])
    BY <1>0, <2>1, WholeWalks
  <2>3. LastSig(D[s]) = Len(D[s]) /\ Uncovered(D[s]) = 0
    BY <1>0, SignedToEnd
  <2>4. LastSig(D[s]) # 0
    <3>1. Len(D[s]) > 0
      BY <1>0, LinesOf
    <3> QED  BY <2>3, <3>1
  <2> QED  BY <2>2, <2>3, <2>4 DEF VerifyFile
<1>2. ASSUME NEW s \in F PROVE D[s][1].segment = s
  BY <1>0 DEF FilesOK, Whole
<1>3. ASSUME NEW g \in {D[s][1].instance : s \in DOMAIN D} PROVE g = g /\ {s \in DOMAIN D : D[s][1].instance = g} = F
  BY <1>0
<1>4. CASE F = {}
  BY <1>0, <1>1, <1>4 DEF GurdyVerify, NoSeamProblem
<1>5. CASE F # {}
  <2>1. PICK b \in F : \A t \in F : b <= t
    BY <1>0, <1>5, Least
  <2>2. PICK a : a = CHOOSE s \in F : \A t \in F : D[s][1].segment <= D[t][1].segment
    OBVIOUS
  <2>3. a \in F /\ \A t \in F : a <= t
    <3>1. \A t \in F : D[b][1].segment <= D[t][1].segment
      BY <1>2, <2>1
    <3>2. a \in F /\ \A t \in F : D[a][1].segment <= D[t][1].segment
      BY <2>1, <2>2, <3>1
    <3> QED  BY <1>2, <3>2
  <2>4. ASSUME D[a][1].segment > 1
        PROVE  \E n \in {PrunedThrough(D[s]) : s \in F} : n >= D[a][1].seq - 1
    <3>1. a > 1 /\ First(F, a)
      BY <1>2, <2>3, <2>4 DEF First
    <3>2. PICK t \in F : Covers(L, Y, t, L[a][1].seq - 1)
      BY <2>3, <3>1 DEF Declared
    <3>3. PICK i \in 1 .. Y[t] : L[t][i].through >= L[a][1].seq - 1
      BY <3>2 DEF Covers
    <3>4. i \in 1 .. Len(D[t])
      <4>1. Y[t] <= Len(L[t]) /\ Y[t] \in Nat /\ Len(L[t]) \in Nat
        BY DEF FilesOK
      <4> QED  BY <1>0, <3>3, <4>1
    <3>5. D[t][i].through <= PrunedThrough(D[t])
      BY <1>0, <3>4, ThroughBounds
    <3>6. D[t][i].through \in Nat /\ D[a][1].seq \in Nat
      <4>1. D[t][i] \in Line
        BY <1>0, <3>4
      <4>2. D[a][1] \in Line
        BY <1>0, <2>3, LinesOf
      <4> QED  BY <4>1, <4>2, LineTypes
    <3>7. PrunedThrough(D[t]) \in Nat
      <4>1. PICK m \in 1 .. Len(D[t]) : \A j \in 1 .. Len(D[t]) : D[t][j].through <= D[t][m].through
        BY <1>0, GreatestThrough
      <4>2. PICK T : T = {D[t][j].through : j \in 1 .. Len(D[t])}
        OBVIOUS
      <4>3. T \subseteq Nat /\ D[t][m].through \in T
        <5>1. \A j \in 1 .. Len(D[t]) : D[t][j] \in Line
          BY <1>0
        <5> QED  BY <4>2, <5>1, LineTypes
      <4>4. \A x \in T : x <= D[t][m].through
        BY <4>1, <4>2
      <4>5. PrunedThrough(D[t]) = CHOOSE n \in T : \A x \in T : x <= n
        BY <4>2 DEF PrunedThrough
      <4>6. PrunedThrough(D[t]) \in T
        BY <4>3, <4>4, <4>5
      <4> QED  BY <4>3, <4>6
    <3>8. PrunedThrough(D[t]) >= D[a][1].seq - 1
      <4>1. PICK q \in Nat : q = PrunedThrough(D[t])
        BY <3>7
      <4>2. PICK u \in Nat : u = D[t][i].through
        BY <3>6
      <4>3. PICK v \in Nat : v = D[a][1].seq
        BY <3>6
      <4>4. u >= v - 1
        BY <1>0, <2>3, <3>3, <4>2, <4>3
      <4>5. u <= q
        BY <3>5, <4>1, <4>2
      <4>6. q >= v - 1
        BY <4>4, <4>5
      <4> QED  BY <4>1, <4>3, <4>6
    <3> QED  BY <3>8
  <2>5. ASSUME NEW s \in F \ {a}
        PROVE  \E t \in F : /\ D[t][1].segment = D[s][1].segment - 1
                            /\ Continues(D[t], D[s])
    <3>1. PICK t : t = s - 1
      OBVIOUS
    <3>2. t \in F /\ t + 1 = s
      <4>1. a <= s /\ a \in Nat /\ s \in Nat /\ a # s
        BY <1>0, <2>3
      <4>2. t \in a .. s /\ t + 1 = s
        BY <3>1, <4>1
      <4> QED  BY <2>3, <4>2 DEF FilesOK, Convex
    <3>3. Continues(L[t], L[s])
      BY <3>2 DEF FilesOK, Sealed
    <3> QED  BY <1>0, <1>2, <3>1, <3>2, <3>3
  <2>6. \A s, t \in F : D[s][1].segment = D[t][1].segment => s = t
    BY <1>2
  <2> DEFINE Joined(S, start) ==
        /\ D[start][1].segment > 1
             => \E n \in {PrunedThrough(D[s]) : s \in S} : n >= D[start][1].seq - 1
        /\ \A s \in S \ {start} :
             \E t \in S : /\ D[t][1].segment = D[s][1].segment - 1
                          /\ Continues(D[t], D[s])
        /\ \A s, t \in S : D[s][1].segment = D[t][1].segment => s = t
  <2> DEFINE Lowest(S) == CHOOSE s \in S : \A t \in S : D[s][1].segment <= D[t][1].segment
  <2>7. Joined(F, Lowest(F))
    <3>1. Joined(F, a)
      BY <2>4, <2>5, <2>6
    <3> QED  BY <2>2, <3>1
  <2>9. ASSUME NEW g \in {D[s][1].instance : s \in DOMAIN D}
        PROVE  Joined({s \in DOMAIN D : D[s][1].instance = g},
                      Lowest({s \in DOMAIN D : D[s][1].instance = g}))
    <3> HIDE DEF Joined, Lowest
    <3>1. {s \in DOMAIN D : D[s][1].instance = g} = F
      BY <1>3
    <3> QED  BY <2>7, <3>1
  <2>8. NoSeamProblem(D)
    BY <2>9, Zenon DEF NoSeamProblem
  <2> QED  BY <1>0, <1>1, <2>8 DEF GurdyVerify
<1> QED  BY <1>4, <1>5

\* A struct that is not broken and counts nothing unsigned is at the end of a signed file, or of
\* one that holds its header only; only an open file has a failed buffer.
Ended(d) ==
  d.departed = {} /\ d.known =>
     /\ ~ d.open => ~ d.broken
     /\ ~ d.broken /\ d.unsigned = 0 =>
           Len(Current(d)) = 1 \/ LastLine(Current(d)).kind = "batchsig"

LEMMA SameEnds ==
  ASSUME NEW d, NEW r, Ended(d), Same(d, r), r.lines = d.lines, r.unsigned = d.unsigned,
         r.open, ~ r.broken => ~ d.broken
  PROVE  Ended(r)
<1>1. Current(r) = Current(d)
  BY DEF Current, Same
<1> QED  BY <1>1 DEF Ended, Same

LEMMA PutEnds ==
  ASSUME NEW d \in ChainType, d.open, NEW l \in Line, l.kind \in Evidence
  PROVE  Ended(Put(d, l))
<1>1. Put(d, l).unsigned = d.unsigned + 1 /\ d.unsigned \in Nat
  BY PutMore, Fields
<1>2. Put(d, l).open
  BY PutIs DEF Same
<1>3. Put(d, l).unsigned # 0
  BY <1>1
<1> QED  BY <1>2, <1>3 DEF Ended

\* A header is the first line of its file and the only one.
LEMMA HeaderEnds ==
  ASSUME NEW d, Fit(d), d.open, LastLine(Current(d)).kind = "header"
  PROVE  Ended(d)
<1> SUFFICES ASSUME d.departed = {}, d.known PROVE Len(Current(d)) = 1
  BY DEF Ended
<1>1. d \in ChainType /\ d.segment \in d.files /\ Current(d) # <<>> /\ Current(d) = d.lines[d.segment]
  BY DEF Fit, Sound, Struct, Current
<1>2. Whole(Current(d), d.segment)
  BY <1>1 DEF Fit, Sound, FilesOK
<1>3. Len(Current(d)) \in Nat /\ Len(Current(d)) > 0
  BY <1>1, LinesOf, Fields
<1>4. \A i \in 2 .. Len(Current(d)) : Current(d)[i].kind # "header"
  BY <1>2 DEF Whole
<1>5. ~ (Len(Current(d)) \in 2 .. Len(Current(d)))
  BY <1>4 DEF LastLine
<1>6. PICK n \in Nat : n = Len(Current(d))
  BY <1>3
<1>7. n > 0 /\ ~ (n \in 2 .. n)
  BY <1>3, <1>5, <1>6
<1>8. n = 1
  BY <1>7
<1> QED  BY <1>6, <1>8

LEMMA SignBatchEnds ==
  ASSUME Env, NEW d, Fit(d), d.open, NEW fail
  PROVE  Ended(SignBatch(d, fail))
<1>1. SignBatch(d, fail).open
  BY SignBatchFits DEF Same
<1>2. ~ SignBatch(d, fail).broken => LastLine(Current(SignBatch(d, fail))).kind = "batchsig"
  BY SignBatchFits
<1> QED  BY <1>1, <1>2 DEF Ended

LEMMA FlushEnds ==
  ASSUME NEW d, Fit(d), d.open, Ended(d), NEW fail
  PROVE  Ended(Flush(d, fail))
<1>1. /\ Same(d, Flush(d, fail)) /\ Flush(d, fail).lines = d.lines
      /\ ~ Flush(d, fail).broken => ~ d.broken
  BY FlushFits
<1>2. Flush(d, fail).unsigned = d.unsigned
  BY DEF Fit, ChainType, Flush
<1>3. Flush(d, fail).open
  BY <1>1 DEF Same
<1> QED  BY <1>1, <1>2, <1>3, SameEnds

LEMMA FinishEnds ==
  ASSUME Env, NEW d, Fit(d), d.open, Ended(d), NEW fail, NEW s,
         s = Flush(SignTail(d, fail), fail)
  PROVE  Ended(s)
<1>t. PICK t : t = SignTail(d, fail)
  OBVIOUS
<1>1. Fit(t) /\ t.open
  BY <1>t, SignTailFits DEF Same
<1>2. Ended(t)
  BY <1>t, SignBatchEnds DEF SignTail
<1> QED  BY <1>t, <1>1, <1>2, FlushEnds

LEMMA RollEnds ==
  ASSUME Env, NEW d, Fit(d), d.open, d.segment < MaxSegments, Ended(d), NEW fail,
         Fit(Roll(d, fail))
  PROVE  Ended(Roll(d, fail))
<1>s. PICK s : s = Flush(SignTail(d, fail), fail)
  OBVIOUS
<1>y. PICK y : y = Sync(s)
  OBVIOUS
<1>n. PICK n : n = Advance(y)
  OBVIOUS
<1>1. Fit(s) /\ s.open /\ s.segment = d.segment
  BY <1>s, FinishFits DEF Same
<1>2. Fit(y) /\ y.segment = s.segment
  BY <1>y, <1>1, SyncFits
<1>3. y \in ChainType /\ y.segment + 1 \in Segments
  <2>1. d.segment \in Segments /\ d.segment \in Nat
    BY Fields DEF Fit
  <2>2. y \in ChainType
    BY <1>2 DEF Fit
  <2>3. y.segment + 1 \in Segments
    BY <1>1, <1>2, <2>1, ChainAssumption DEF Segments
  <2> QED  BY <2>2, <2>3
<1>4. n \in ChainType
  BY <1>n, <1>3, AdvanceIs
<1>7. CASE s.broken \/ fail = "sync"
  <2>1. Roll(d, fail) = s
    BY <1>s, <1>7 DEF Roll
  <2> QED  BY <1>s, <2>1, FinishEnds
<1>8. CASE ~ (s.broken \/ fail = "sync") /\ fail = "open"
  <2>1. Roll(d, fail) = Depart(n)
    BY <1>s, <1>y, <1>n, <1>8 DEF Roll, Advance, Depart
  <2>2. Depart(n).departed # {}
    BY <1>4, DepartIs
  <2> QED  BY <2>1, <2>2 DEF Ended
<1>9. CASE ~ (s.broken \/ fail = "sync") /\ fail # "open"
  <2>o. PICK o : o = OpenFile(n)
    OBVIOUS
  <2>h. PICK h : h = Header(n)
    OBVIOUS
  <2>1. Roll(d, fail) = Put(o, h)
    BY <1>s, <1>y, <1>n, <1>9, <2>o, <2>h DEF Roll, Advance
  <2>2. o \in ChainType /\ o.open
    BY <1>4, <2>o, OpenIs
  <2>3. h \in Line /\ h.kind = "header"
    BY <1>4, <2>h, NewLines
  <2>4. LastLine(Current(Put(o, h))) = h /\ Same(o, Put(o, h))
    BY <2>2, <2>3, PutIs
  <2>5. Put(o, h).open
    BY <2>2, <2>4 DEF Same
  <2>6. Fit(Put(o, h))
    BY <2>1
  <2>7. Ended(Put(o, h))
    BY <2>3, <2>4, <2>5, <2>6, HeaderEnds
  <2> QED  BY <2>1, <2>7
<1> QED  BY <1>7, <1>8, <1>9

LEMMA WriteRecordEnds ==
  ASSUME Env, NEW p, Fit(p), p.open, p.segment < MaxSegments, Ended(p), NEW fail
  PROVE  Ended(WriteRecord(p, fail))
<1>l. PICK l : l = NewLine(p, "record")
  OBVIOUS
<1>w. PICK w : w = AppendLine(p, l, fail)
  OBVIOUS
<1>n. PICK n : n = IF w.unsigned = 1 THEN w.seq ELSE w.first
  OBVIOUS
<1>b. PICK b : b = [w EXCEPT !.first = n]
  OBVIOUS
<1>s. PICK s : s = IF b.unsigned >= BatchMax THEN SignBatch(b, fail) ELSE b
  OBVIOUS
<1>1. WriteRecord(p, fail) = IF w.broken THEN w
                             ELSE IF s.bytes >= SegmentMax THEN Roll(s, fail)
                             ELSE s
  BY <1>l, <1>w, <1>n, <1>b, <1>s DEF WriteRecord
<1>2. p \in ChainType
  BY DEF Fit
<1>3. NextLine(p, l) /\ l \in Line /\ l.kind = "record"
  BY <1>l, <1>2, NewLines DEF NextLine
<1>4. Fit(w) /\ Same(p, w) /\ w.open /\ (~ w.broken => w = Put(p, l))
  <2>1. Fit(w) /\ Same(p, w) /\ (~ w.broken => w = Put(p, l))
    BY <1>w, <1>3, AppendLineFits
  <2> QED  BY <2>1 DEF Same
<1>5. Ended(w)
  <2>1. CASE w.broken
    BY <1>4, <2>1 DEF Ended
  <2>2. CASE ~ w.broken
    BY <1>2, <1>3, <1>4, <2>2, PutEnds DEF Evidence
  <2> QED  BY <2>1, <2>2
<1>6. w \in ChainType /\ n \in Nat
  <2>1. w \in ChainType
    BY <1>4 DEF Fit
  <2> QED  BY <1>n, <2>1, Fields
<1>7. Fit(b) /\ Same(w, b) /\ b.open
  <2>1. Fit(b) /\ Same(w, b)
    BY <1>4, <1>6, <1>b, BatchFirstFits
  <2> QED  BY <1>4, <2>1 DEF Same
<1>8. b.lines = w.lines /\ b.broken = w.broken /\ b.unsigned = w.unsigned
  BY <1>6, <1>b DEF ChainType
<1>9. Ended(b)
  BY <1>5, <1>7, <1>8, SameEnds
<1>10. Fit(s) /\ Same(b, s) /\ Ended(s)
  <2>1. CASE b.unsigned >= BatchMax
    <3>1. s = SignBatch(b, fail)
      BY <1>s, <2>1
    <3>2. Fit(SignBatch(b, fail)) /\ Same(b, SignBatch(b, fail))
      BY <1>7, SignBatchFits
    <3>3. Ended(SignBatch(b, fail))
      BY <1>7, SignBatchEnds
    <3> QED  BY <3>1, <3>2, <3>3
  <2>2. CASE ~ (b.unsigned >= BatchMax)
    BY <1>s, <1>7, <1>9, <2>2 DEF Same
  <2> QED  BY <2>1, <2>2
<1>11. s.open /\ s.segment < MaxSegments
  BY <1>4, <1>7, <1>10 DEF Same
<1>12. CASE ~ w.broken /\ s.bytes >= SegmentMax
  <2>1. WriteRecord(p, fail) = Roll(s, fail)
    BY <1>1, <1>12
  <2>2. Fit(Roll(s, fail))
    <3>1. Fit(WriteRecord(p, fail))
      BY WriteRecordFits
    <3> QED  BY <2>1, <3>1
  <2>3. Ended(Roll(s, fail))
    BY <1>10, <1>11, <2>2, RollEnds
  <2> QED  BY <2>1, <2>3
<1> QED  BY <1>1, <1>5, <1>10, <1>12

\* What part() finds in the latest file, and what it makes of it.
LEMMA ReviveIs ==
  ASSUME NEW d, Fit(d), ~ d.known
  PROVE  \E p \in ChainType, f \in Seq(Line) :
            /\ p.open /\ Current(p) = f
            /\ Revive(d) = IF f = <<>> THEN Put(p, Header(p))
                           ELSE IF Inherited(f) > 0 THEN Put(p, NewLine(p, "resumed"))
                           ELSE p
            /\ ~ p.broken
<1>0. PICK m, f, D, n, h, q, p : ReviveParts(d, m, f, D, n, h, q, p)
  BY Revived
<1>m. m = Latest(d)
  BY <1>0 DEF ReviveParts
<1>f. f = d.lines[m]
  BY <1>0 DEF ReviveParts
<1>D. D = d.departed \cup (IF f = <<>> /\ m > 1 THEN {"emptySegment"} ELSE {})
          \cup (IF 1 \notin d.files /\ d.files # {} THEN {"prunedFirst"} ELSE {})
  BY <1>0 DEF ReviveParts
<1>n. n = IF f = <<>> THEN 0 ELSE f[Len(f)].seq
  BY <1>0 DEF ReviveParts
<1>h. h = IF f = <<>> THEN NoHash ELSE Hash(f[Len(f)])
  BY <1>0 DEF ReviveParts
<1>q. q = [d EXCEPT !.known = TRUE, !.segment = m, !.unsigned = 0, !.first = 0,
                    !.seq = n, !.head = h, !.bytes = Len(f), !.departed = D]
  BY <1>0 DEF ReviveParts
<1>p. p = OpenFile(q)
  BY <1>0 DEF ReviveParts
<1>1. Revive(d) = IF f = <<>> THEN Put(p, Header(p))
                  ELSE IF Inherited(f) > 0 THEN Put(p, NewLine(p, "resumed"))
                  ELSE p
  BY <1>0 DEF ReviveParts
<1>2. d \in ChainType
  BY DEF Fit
<1>3. m \in Segments
  BY <1>m, <1>2, LatestFacts
<1>4. d.departed \in SUBSET Departures /\ f \in Seq(Line) /\ Len(f) \in Nat
  <2>1. d.lines \in [Segments -> Seq(Line)] /\ d.departed \in SUBSET Departures
    BY <1>2, Fields
  <2>2. f \in Seq(Line)
    BY <1>f, <1>3, <2>1
  <2>3. Len(f) \in Nat
    BY <2>2
  <2> QED  BY <2>1, <2>2, <2>3
<1>5. q \in ChainType
  <2>1. f # <<>> => f[Len(f)].seq \in Nat /\ f[Len(f)].instance \in Nat
    BY <1>4, LinesOf, LineTypes DEF LastLine
  <2>2. n \in Nat
    BY <1>n, <2>1
  <2>3. h \in Nat \X Nat
    BY <1>h, <2>1 DEF NoHash, Hash
  <2>4. D \in SUBSET Departures
    BY <1>D, <1>4 DEF Departures
  <2> QED  BY <1>q, <1>2, <1>3, <1>4, <2>2, <2>3, <2>4 DEF ChainType
<1>6. q.lines = d.lines /\ q.segment = m
  BY <1>q, <1>2 DEF ChainType
<1>7. Current(q) = f
  BY <1>f, <1>6 DEF Current
<1>8. p \in ChainType /\ p.open /\ Current(p) = f
  BY <1>p, <1>5, <1>7, OpenIs
<1>9. ~ p.broken
  BY <1>p, <1>5 DEF OpenFile, ChainType
<1> QED  BY <1>1, <1>4, <1>8, <1>9

LEMMA ReviveEnds ==
  ASSUME Env, NEW d, Fit(d), ~ d.known
  PROVE  Ended(Revive(d))
<1>1. PICK p \in ChainType, f \in Seq(Line) :
            /\ p.open /\ Current(p) = f
            /\ Revive(d) = IF f = <<>> THEN Put(p, Header(p))
                           ELSE IF Inherited(f) > 0 THEN Put(p, NewLine(p, "resumed"))
                           ELSE p
            /\ ~ p.broken
  BY ReviveIs
<1>2. CASE f = <<>>
  <2>h. PICK h : h = Header(p)
    OBVIOUS
  <2>1. Revive(d) = Put(p, h)
    BY <1>1, <1>2, <2>h
  <2>2. h \in Line /\ h.kind = "header"
    BY <2>h, NewLines
  <2>3. LastLine(Current(Put(p, h))) = h
    BY <2>2, PutIs
  <2>4. Fit(Put(p, h)) /\ Put(p, h).open
    <3>1. Fit(Revive(d)) /\ Revive(d).open
      BY ReviveFits
    <3> QED  BY <2>1, <3>1
  <2>5. Ended(Put(p, h))
    BY <2>2, <2>3, <2>4, HeaderEnds
  <2> QED  BY <2>1, <2>5
<1>3. CASE f # <<>> /\ Inherited(f) > 0
  <2>h. PICK h : h = NewLine(p, "resumed")
    OBVIOUS
  <2>1. Revive(d) = Put(p, h)
    BY <1>1, <1>3, <2>h
  <2>2. h \in Line /\ h.kind \in Evidence
    BY <2>h, NewLines DEF NextLine, Evidence
  <2>3. Ended(Put(p, h))
    BY <1>1, <2>2, PutEnds
  <2> QED  BY <2>1, <2>3
<1>4. CASE f # <<>> /\ ~ (Inherited(f) > 0)
  <2>1. Revive(d) = p
    BY <1>1, <1>4
  <2>2. LastLine(f).kind = "batchsig"
    BY <1>4, InheritsNone
  <2> QED  BY <1>1, <2>1, <2>2 DEF Ended
<1> QED  BY <1>2, <1>3, <1>4

LEMMA PartEnds ==
  ASSUME Env, NEW d, Fit(d), Ended(d)
  PROVE  Ended(Part(d))
<1>1. d \in ChainType
  BY DEF Fit
<1>2. CASE ~ d.known
  <2>1. PICK p \in ChainType, l \in Line : Glue(d) = Put(p, l) /\ p.open /\ l.kind = "resumed"
    BY <1>2, GlueIs
  <2>2. Ended(Glue(d))
    BY <2>1, PutEnds DEF Evidence
  <2> QED  BY <1>2, <2>2, ReviveEnds DEF Part
<1>3. CASE d.known /\ ~ d.open
  <2>e. PICK e : e = OpenFile(d)
    OBVIOUS
  <2>1. e.departed = d.departed /\ e.known = d.known /\ e.open /\ Current(e) = Current(d)
    BY <1>1, <2>e, OpenIs
  <2>2. e.unsigned = d.unsigned /\ ~ e.broken
    BY <1>1, <2>e DEF OpenFile, ChainType
  <2>3. Ended(e)
    BY <1>3, <2>1, <2>2 DEF Ended
  <2> QED  BY <1>3, <2>e, <2>3 DEF Part
<1>4. CASE d.known /\ d.open
  BY <1>4 DEF Part
<1> QED  BY <1>2, <1>3, <1>4

LEMMA ReleaseEnds ==
  ASSUME NEW d, Fit(d), Ended(d), ~ d.broken
  PROVE  Ended([d EXCEPT !.open = FALSE])
<1>e. PICK e : e = [d EXCEPT !.open = FALSE]
  OBVIOUS
<1>1. /\ e.lines = d.lines /\ e.known = d.known /\ e.departed = d.departed
      /\ e.segment = d.segment /\ e.unsigned = d.unsigned /\ ~ e.broken
  BY <1>e DEF Fit, ChainType
<1>2. Current(e) = Current(d)
  BY <1>1 DEF Current
<1> QED  BY <1>e, <1>1, <1>2 DEF Ended

LEMMA PruneEnds ==
  ASSUME Env, Fit(c), Ended(c), NEW keep \in Segments, NEW fail, Prune(keep, fail)
  PROVE  Ended(c')
<1>p. PICK p : p = Part(c)
  OBVIOUS
<1>l. PICK last : last = p.segment - keep
  OBVIOUS
<1>o. PICK old : old = p.lines[last]
  OBVIOUS
<1>s. PICK s : s = Flush(SignBatch(AppendLine(p, Retention(p, old[Len(old)].seq), fail),
                                   fail), fail)
  OBVIOUS
<1>1. \/ c' = p
      \/ c' = s /\ ~ (last < 1) /\ old # <<>>
      \/ /\ ~ (last < 1) /\ old # <<>>
         /\ \E n \in 0 .. last : c' = Unlink(Sync(s), 1 .. n)
  BY <1>p, <1>l, <1>o, <1>s DEF Prune
<1>2. Fit(p) /\ p.open /\ p \in ChainType /\ Ended(p)
  <2>1. Fit(p) /\ p.open
    BY <1>p, PartFits
  <2>2. Ended(p)
    BY <1>p, PartEnds
  <2> QED  BY <2>1, <2>2 DEF Fit
<1>3. p.segment \in Nat /\ keep \in Nat \ {0} /\ p.lines \in [Segments -> Seq(Line)]
      /\ p.segment \in Segments
  BY <1>2, Fields DEF Segments
<1>4. ASSUME ~ (last < 1), old # <<>>
      PROVE  last \in Nat \ {0} /\ last < s.segment /\ Fit(s) /\ s.open /\ Ended(s)
  <2>1. last \in Nat \ {0} /\ last < p.segment
    BY <1>l, <1>3, <1>4
  <2>n. PICK n : n = old[Len(old)].seq
    OBVIOUS
  <2>t. PICK t : t = Retention(p, n)
    OBVIOUS
  <2>a. PICK a : a = AppendLine(p, t, fail)
    OBVIOUS
  <2>b. PICK b : b = SignBatch(a, fail)
    OBVIOUS
  <2>2. s = Flush(b, fail)
    BY <1>s, <2>n, <2>t, <2>a, <2>b
  <2>3. n \in Nat
    <3>1. last \in Segments
      BY <1>3, <2>1, ChainAssumption DEF Segments
    <3>2. old \in Seq(Line)
      BY <1>o, <1>3, <3>1
    <3> QED  BY <1>4, <2>n, <3>2, LinesOf DEF LastLine
  <2>4. NextLine(p, t)
    BY <1>2, <2>3, <2>t, NewLines
  <2>5. Fit(a) /\ Same(p, a)
    BY <1>2, <2>4, <2>a, AppendLineFits
  <2>6. a.open /\ a.segment = p.segment
    BY <1>2, <2>5 DEF Same
  <2>7. Fit(b) /\ Same(a, b)
    BY <2>5, <2>6, <2>b, SignBatchFits
  <2>8. Ended(b) /\ b.open /\ b.segment = p.segment
    <3>1. Ended(b)
      BY <2>5, <2>6, <2>b, SignBatchEnds
    <3> QED  BY <2>6, <2>7, <3>1 DEF Same
  <2>9. Fit(s) /\ Same(b, s)
    BY <2>2, <2>7, <2>8, FlushFits
  <2>10. Ended(s)
    BY <2>2, <2>7, <2>8, FlushEnds
  <2> QED  BY <2>1, <2>8, <2>9, <2>10 DEF Same
<1>5. CASE c' = p
  BY <1>2, <1>5
<1>6. CASE c' = s /\ ~ (last < 1) /\ old # <<>>
  BY <1>4, <1>6
<1>7. ASSUME ~ (last < 1), old # <<>>, NEW n \in 0 .. last, c' = Unlink(Sync(s), 1 .. n)
      PROVE  Ended(c')
  <2>y. PICK y : y = Sync(s)
    OBVIOUS
  <2>S. PICK S : S = 1 .. n
    OBVIOUS
  <2>e. PICK e : e = Unlink(y, S)
    OBVIOUS
  <2>1. /\ Fit(y) /\ y.lines = s.lines /\ y.segment = s.segment /\ y.departed = s.departed
        /\ y.known = s.known /\ y.open = s.open /\ y.broken = s.broken
    BY <1>4, <1>7, <2>y, SyncFits
  <2>2. y \in ChainType /\ y.unsigned = s.unsigned
    <3>1. y \in ChainType /\ s \in ChainType
      BY <1>4, <1>7, <2>1 DEF Fit
    <3> QED  BY <2>y, <3>1 DEF Sync, ChainType
  <2>3. /\ e.departed = y.departed /\ e.known = y.known /\ e.open = y.open
        /\ e.segment = y.segment
        /\ e.lines = [t \in Segments |-> IF t \in S THEN <<>> ELSE y.lines[t]]
    <3>1. y \in ChainType
      BY <2>2
    <3>2. /\ e.files = y.files \ S
          /\ e.lines = [t \in Segments |-> IF t \in S THEN <<>> ELSE y.lines[t]]
          /\ e.synced = [t \in Segments |-> IF t \in S THEN 0 ELSE y.synced[t]]
          /\ e.departed = y.departed /\ e.known = y.known /\ e.open = y.open
          /\ e.segment = y.segment
      BY <2>e, <3>1, UnlinkIs
    <3> QED  BY <3>2
  <2>4. e.unsigned = y.unsigned /\ e.broken = y.broken
    BY <2>e, <2>2 DEF Unlink, ChainType
  <2>5. Current(e) = Current(s)
    <3>1. s.segment \in Segments /\ s.segment \notin S
      <4>1. s.segment \in Segments /\ s.segment \in Nat
        BY <1>4, <1>7, Fields DEF Fit
      <4>2. n \in Nat /\ n < s.segment
        BY <1>4, <1>7, <4>1
      <4> QED  BY <2>S, <4>1, <4>2
    <3> QED  BY <2>1, <2>3, <3>1 DEF Current
  <2>6. Ended(e)
    BY <1>4, <1>7, <2>1, <2>2, <2>3, <2>4, <2>5 DEF Ended
  <2> QED  BY <1>7, <2>y, <2>S, <2>e, <2>6
<1> QED  BY <1>1, <1>5, <1>6, <1>7

LEMMA NoStructEnds ==
  ASSUME NEW d, ~ d.known
  PROVE  Ended(d)
BY DEF Ended

\* No step leaves the third invariant: a file that takes no more lines for now ends in a signature.
THEOREM EndInvariant == Spec => []Ended(c)
<1>1. Init => Ended(c)
  BY DEF Init, Ended
<1>2. IInv /\ Ended(c) /\ [Next]_vars => Ended(c)'
  <2> SUFFICES ASSUME IInv, Ended(c), [Next]_vars PROVE Ended(c')
    BY DEF Ended, Current
  <2>1. TypeOK /\ Fit(c) /\ Env /\ Ended(c)
    BY ChainAssumption DEF IInv, TypeOK, Env
  <2>2. ASSUME NEW fail, Write(fail) PROVE Ended(c')
    <3>1. Fit(Part(c)) /\ Part(c).open /\ Part(c).segment < MaxSegments
      BY <2>1, <2>2, PartFits DEF Write, RoomToRoll
    <3>2. Ended(Part(c))
      BY <2>1, PartEnds
    <3>3. Ended(WriteRecord(Part(c), fail))
      BY <2>1, <3>1, <3>2, WriteRecordEnds
    <3> QED  BY <2>2, <3>3 DEF Write
  <2>3. ASSUME NEW fail, WriteSync(fail) PROVE Ended(c')
    <3>1. Fit(Part(c)) /\ Part(c).open /\ Part(c).segment < MaxSegments
      BY <2>1, <2>3, PartFits DEF WriteSync, RoomToRoll
    <3>2. Ended(Part(c))
      BY <2>1, PartEnds
    <3>3. PICK w : w = WriteRecord(Part(c), fail)
      OBVIOUS
    <3>4. Ended(w) /\ Fit(w)
      BY <2>1, <3>1, <3>2, <3>3, WriteRecordEnds, WriteRecordFits
    <3>5. w.open => Ended(Flush(w, fail))
      BY <3>4, FlushEnds
    <3> QED  BY <2>3, <3>3, <3>4, <3>5 DEF WriteSync
  <2>4. ASSUME NEW fail, Tick(fail) PROVE Ended(c')
    BY <2>1, <2>4, FinishEnds DEF Tick
  <2>5. ASSUME NEW fail, Evict(fail) PROVE Ended(c')
    <3>s. PICK s : s = Flush(SignTail(c, fail), fail)
      OBVIOUS
    <3>1. Fit(s) /\ s.open /\ Ended(s)
      BY <2>1, <2>5, <3>s, FinishEnds, CloseFits DEF Evict
    <3>2. (~ s.broken /\ c' = [s EXCEPT !.open = FALSE]) \/ c' \in Dropped(s)
      BY <2>5, <3>s DEF Evict
    <3>3. CASE ~ s.broken /\ c' = [s EXCEPT !.open = FALSE]
      BY <3>1, <3>3, ReleaseEnds
    <3>4. CASE c' \in Dropped(s)
      BY <3>1, <3>4, DroppedFits, NoStructEnds
    <3> QED  BY <3>2, <3>3, <3>4
  <2>6. ASSUME NEW fail, Close(fail) PROVE Ended(c')
    <3>1. CASE ~ c.open
      BY <2>1, <2>6, <3>1, NoStructFits, NoStructEnds DEF Close
    <3>2. CASE c.open
      <4>s. PICK s : s = Flush(SignTail(c, fail), fail)
        OBVIOUS
      <4>1. Fit(s) /\ s.open
        BY <2>1, <3>2, <4>s, CloseFits
      <4>2. c' = NoStruct(s) \/ c' \in Dropped(s)
        BY <2>6, <3>2, <4>s DEF Close
      <4> QED  BY <4>1, <4>2, NoStructFits, DroppedFits, NoStructEnds
    <3> QED  BY <3>1, <3>2
  <2>7. ASSUME NEW fail, NEW keep \in Segments, Prune(keep, fail) PROVE Ended(c')
    BY <2>1, <2>7, PruneEnds
  <2>8. CASE Forget
    BY <2>1, <2>8, NoStructFits, NoStructEnds DEF Forget
  <2>9. CASE Kill
    <3>1. CASE ~ c.open /\ c' = NoStruct(c)
      BY <2>1, <3>1, NoStructFits, NoStructEnds
    <3>2. CASE c.open /\ c' \in Dropped(c)
      BY <2>1, <3>2, DroppedFits, NoStructEnds
    <3>3. CASE c' = Unlink(NoStruct(c), {c.segment})
      <4>n. PICK n : n = NoStruct(c)
        OBVIOUS
      <4>S. PICK S : S = {c.segment}
        OBVIOUS
      <4>r. PICK r : r = Unlink(n, S)
        OBVIOUS
      <4>1. n \in ChainType /\ ~ n.known
        BY <2>1, <4>n, NoStructIs DEF Fit
      <4>2. r.known = n.known
        <5>1. n \in ChainType
          BY <4>1
        <5>2. /\ r.files = n.files \ S /\ r.departed = n.departed /\ r.known = n.known
              /\ r.lines = [t \in Segments |-> IF t \in S THEN <<>> ELSE n.lines[t]]
              /\ r.synced = [t \in Segments |-> IF t \in S THEN 0 ELSE n.synced[t]]
          BY <4>r, <5>1, UnlinkIs
        <5> QED  BY <5>2
      <4>3. c' = r
        BY <3>3, <4>n, <4>S, <4>r
      <4> QED  BY <4>1, <4>2, <4>3, NoStructEnds
    <3> QED  BY <2>9, <3>1, <3>2, <3>3 DEF Kill
  <2>10. CASE PowerLoss
    <3>1. NoStruct(c) \in ChainType /\ ~ NoStruct(c).known
      BY <2>1, NoStructIs DEF Fit
    <3>2. PICK s \in c.files :
            \/ \E k \in c.synced[s]..Len(c.lines[s]), torn \in BOOLEAN :
                  c' = Cut(NoStruct(c), s, k, torn)
            \/ c.synced[s] = 0 /\ c' = Unlink(NoStruct(c), {s})
      BY <2>10 DEF PowerLoss
    <3>3. CASE c' = Unlink(NoStruct(c), {s})
      <4>n. PICK n : n = NoStruct(c)
        OBVIOUS
      <4>S. PICK S : S = {s}
        OBVIOUS
      <4>r. PICK r : r = Unlink(n, S)
        OBVIOUS
      <4>1. r.known = n.known
        <5>1. n \in ChainType
          BY <3>1, <4>n
        <5>2. /\ r.files = n.files \ S /\ r.departed = n.departed /\ r.known = n.known
              /\ r.lines = [t \in Segments |-> IF t \in S THEN <<>> ELSE n.lines[t]]
              /\ r.synced = [t \in Segments |-> IF t \in S THEN 0 ELSE n.synced[t]]
          BY <4>r, <5>1, UnlinkIs
        <5> QED  BY <5>2
      <4>2. c' = r /\ ~ n.known
        BY <3>1, <3>3, <4>n, <4>S, <4>r
      <4> QED  BY <4>1, <4>2, NoStructEnds
    <3>4. ASSUME NEW k, NEW torn, c' = Cut(NoStruct(c), s, k, torn) PROVE Ended(c')
      <4>n. PICK n : n = NoStruct(c)
        OBVIOUS
      <4>1. Cut(n, s, k, torn).known = n.known
        BY <3>1, <4>n DEF Cut, ChainType
      <4> QED  BY <3>1, <3>4, <4>n, <4>1, NoStructEnds
    <3> QED  BY <3>2, <3>3, <3>4
  <2>11. ASSUME NEW k \in Keys, Start(k) PROVE Ended(c')
    BY <2>1, <2>11 DEF Start
  <2>12. CASE UNCHANGED vars
    BY <2>1, <2>12 DEF vars
  <2> QED  BY <2>2, <2>3, <2>4, <2>5, <2>6, <2>7, <2>8, <2>9, <2>10, <2>11, <2>12 DEF Next
<1> QED  BY <1>1, <1>2, ChainInvariant, PTL DEF Spec

\* Signing the tail adds to the end of a file only, and fails only where an operation does.
LEMMA FinishKeeps ==
  ASSUME Env, NEW d, Fit(d), d.open, ~ d.broken, NEW s, s = Flush(SignTail(d, "none"), "none")
  PROVE  /\ ~ s.broken /\ Same(d, s)
         /\ \A t \in Segments : d.lines[t] # <<>> => s.lines[t] # <<>> /\ s.lines[t][1] = d.lines[t][1]
<1>t. PICK t : t = SignTail(d, "none")
  OBVIOUS
<1>0. /\ d \in ChainType /\ d.lines \in [Segments -> Seq(Line)] /\ d.segment \in Segments
      /\ Current(d) = d.lines[d.segment] /\ Current(d) \in Seq(Line)
  BY Fields DEF Fit, Current
<1>1. Fit(t) /\ Same(d, t) /\ t.open
  BY <1>t, SignTailFits DEF Same
<1>2. ~ t.broken
  <2>1. CASE d.unsigned > 0
    <3>l. PICK l : l = BatchSig(d)
      OBVIOUS
    <3>1. l \in Line
      BY <1>0, <3>l, NewLines DEF NextLine
    <3>e. PICK e : e = Put(d, l)
      OBVIOUS
    <3>2. e \in ChainType /\ ~ e.broken
      <4>1. d \in ChainType
        BY <1>0
      <4>2. Put(d, l) \in ChainType /\ Put(d, l).broken = d.broken
        BY <3>1, <4>1, PutIs
      <4> QED  BY <3>e, <4>2
    <3>3. AppendLine(d, l, "none") = e
      BY <3>e DEF AppendLine
    <3>4. t = Flush([e EXCEPT !.unsigned = 0], "none")
      <4>1. t = SignBatch(d, "none")
        BY <1>t, <2>1 DEF SignTail
      <4> QED  BY <3>l, <3>2, <3>3, <4>1 DEF SignBatch
    <3>u. PICK u : u = [e EXCEPT !.unsigned = 0]
      OBVIOUS
    <3>5. ~ u.broken /\ t = Flush(u, "none") /\ u \in ChainType
      BY <3>2, <3>4, <3>u DEF ChainType
    <3>6. t = [u EXCEPT !.flushed = Len(Current(u))]
      BY <3>5 DEF Flush
    <3> QED  BY <3>5, <3>6 DEF ChainType
  <2>2. CASE ~ (d.unsigned > 0)
    BY <1>t, <2>2 DEF SignTail
  <2> QED  BY <2>1, <2>2
<1>3. \A x \in Segments : d.lines[x] # <<>> => t.lines[x] # <<>> /\ t.lines[x][1] = d.lines[x][1]
  <2>1. CASE d.unsigned > 0
    <3>1. t = SignBatch(d, "none")
      BY <1>t, <2>1 DEF SignTail
    <3>2. /\ Current(t) = Append(Current(d), BatchSig(d))
          /\ \A x \in Segments \ {d.segment} : t.lines[x] = d.lines[x]
      BY <1>2, <3>1, SignBatchFits
    <3>3. t.lines[d.segment] = Append(d.lines[d.segment], BatchSig(d))
      BY <1>0, <1>1, <3>2 DEF Same, Current
    <3>l. PICK l : l = BatchSig(d)
      OBVIOUS
    <3>4. l \in Line
      BY <1>0, <3>l, NewLines DEF NextLine
    <3>f. PICK f : f = d.lines[d.segment]
      OBVIOUS
    <3>5. f \in Seq(Line) /\ t.lines[d.segment] = Append(f, l)
      BY <1>0, <3>3, <3>l, <3>f
    <3>6. f # <<>> => Append(f, l) # <<>> /\ Append(f, l)[1] = f[1]
      BY <3>4, <3>5
    <3> QED  BY <3>2, <3>5, <3>6, <3>f
  <2>2. CASE ~ (d.unsigned > 0)
    BY <1>t, <2>2 DEF SignTail
  <2> QED  BY <2>1, <2>2
<1>4. /\ Same(t, s) /\ s.lines = t.lines
  BY <1>t, <1>1, FlushFits
<1>5. ~ s.broken
  <2>1. s = [t EXCEPT !.flushed = Len(Current(t))]
    BY <1>t, <1>2 DEF Flush
  <2> QED  BY <1>1, <1>2, <2>1 DEF Fit, ChainType
<1>6. Same(d, s)
  BY <1>1, <1>4, SameTrans
<1> QED  BY <1>3, <1>4, <1>5, <1>6

\* A partition that was written to and closed without error passes gurdy-verify as it is delivered, through
\* rolls, evictions, prunes and what earlier processes left, but for the windows of Departures.
THEOREM ClosedExportVerifiesHolds == Spec => ClosedExportVerifies
<1>1. IInv /\ IInv' /\ TailInv /\ Ended(c) /\ [Next]_vars =>
        [/\ c.known /\ ~ c.broken /\ c.departed = {} /\ ~ BareHeader /\ ~ TwoInstances
         /\ Close("none")
         => GurdyVerify(OnDisk(c'))]_vars
  <2> SUFFICES ASSUME IInv, IInv', TailInv, Ended(c), c.known, ~ c.broken, c.departed = {},
                      ~ BareHeader, ~ TwoInstances, Close("none")
               PROVE  GurdyVerify(OnDisk(c'))
    OBVIOUS
  <2>0. TypeOK /\ Fit(c) /\ Env
    BY ChainAssumption DEF IInv, TypeOK, Env
  <2>g. PICK g : g = c.segment
    OBVIOUS
  <2>1. /\ c \in ChainType /\ Sound(c) /\ g \in c.files /\ g + 1 \notin c.files
        /\ Current(c) = c.lines[g] /\ Current(c) # <<>> /\ Len(Current(c)) # 1
    BY <2>0, <2>g DEF Fit, Sound, Struct, Current, BareHeader
  <2>2. c.unsigned = 0 => LastLine(c.lines[g]).kind = "batchsig"
    BY <2>1 DEF Ended
  <2>3. PICK x : /\ x \in ChainType /\ c' = NoStruct(x) /\ x.files = c.files /\ x.departed = {}
                 /\ LastLine(x.lines[g]).kind = "batchsig"
                 /\ \A t \in Segments : c.lines[t] # <<>> =>
                       x.lines[t] # <<>> /\ x.lines[t][1] = c.lines[t][1]
    <3>1. CASE ~ c.open
      <4>1. c.unsigned = 0
        BY <3>1 DEF TailInv, Tidy, InOrder, Neat, Resting
      <4>2. c' = NoStruct(c)
        BY <3>1 DEF Close
      <4> QED  BY <2>1, <2>2, <4>1, <4>2
    <3>2. CASE c.open
      <4>s. PICK s : s = Flush(SignTail(c, "none"), "none")
        OBVIOUS
      <4>1. /\ ~ s.broken /\ Same(c, s)
            /\ \A t \in Segments : c.lines[t] # <<>> =>
                  s.lines[t] # <<>> /\ s.lines[t][1] = c.lines[t][1]
        BY <2>0, <3>2, <4>s, FinishKeeps
      <4>2. c' = NoStruct(s)
        BY <3>2, <4>s, <4>1 DEF Close
      <4>3. s \in ChainType
        BY <2>0, <3>2, <4>s, CloseFits DEF Fit
      <4>4. c.unsigned > 0 \/ LastLine(Current(c)).kind = "batchsig"
        <5>1. c.unsigned \in Nat
          BY <2>1, Fields
        <5> QED  BY <2>1, <2>2, <5>1
      <4>5. LastLine(Current(s)).kind = "batchsig"
        BY <2>0, <3>2, <4>s, <4>1, <4>4, FinishFits
      <4>6. LastLine(s.lines[g]).kind = "batchsig"
        BY <2>g, <4>1, <4>5 DEF Same, Current
      <4> QED  BY <4>1, <4>2, <4>3, <4>6 DEF Same
    <3> QED  BY <3>1, <3>2
  <2>e. PICK e : e = c'
    OBVIOUS
  <2>4. /\ e \in ChainType /\ e.lines = x.lines /\ e.files = c.files /\ e.departed = {}
    BY <2>3, <2>e, NoStructIs
  <2>5. FilesOK(e.lines, e.files, e.synced) /\ Declared(e.lines, e.files, e.synced)
    <3>1. c'.departed = {} => FilesOK(c'.lines, c'.files, c'.synced)
                              /\ Declared(c'.lines, c'.files, c'.synced)
      BY DEF IInv, Fit, Sound
    <3> QED  BY <2>e, <2>4, <3>1
  <2>6. /\ e.files \in SUBSET Segments /\ e.lines \in [Segments -> Seq(Line)]
        /\ e.synced \in [Segments -> Nat]
    BY <2>4, Fields
  <2>7. ASSUME NEW t \in c.files PROVE c.lines[t] # <<>> /\ (t # g => t + 1 \in c.files)
    <3>1. FilesOK(c.lines, c.files, c.synced)
      BY <2>1 DEF Sound
    <3>2. CASE t = g
      BY <2>1, <3>2
    <3>3. CASE t # g
      <4>1. t \in Nat /\ g \in Nat
        BY <2>1, <2>4, <2>6 DEF Segments
      <4>2. t < g
        <5> SUFFICES ASSUME ~ (t < g) PROVE FALSE
          OBVIOUS
        <5>1. g + 1 \in g .. t
          BY <3>3, <4>1
        <5> QED  BY <2>1, <3>1, <5>1 DEF FilesOK, Convex
      <4>3. t + 1 \in t .. g
        BY <4>1, <4>2
      <4>4. t + 1 \in c.files
        BY <2>1, <3>1, <4>3 DEF FilesOK, Convex
      <4> QED  BY <3>1, <4>4 DEF FilesOK, Sealed
    <3> QED  BY <3>2, <3>3
  <2>8. ASSUME NEW t \in e.files
        PROVE  /\ e.lines[t] # <<>> /\ LastLine(e.lines[t]).kind = "batchsig"
               /\ e.lines[t][1] = c.lines[t][1]
    <3>1. t \in c.files /\ t \in Segments /\ c.lines[t] # <<>>
      BY <2>4, <2>6, <2>7
    <3>2. e.lines[t] # <<>> /\ e.lines[t][1] = c.lines[t][1]
      BY <2>3, <2>4, <3>1
    <3>3. CASE t = g
      BY <2>3, <2>4, <3>2, <3>3
    <3>4. CASE t # g
      <4>1. t + 1 \in e.files
        BY <2>4, <2>7, <3>1, <3>4
      <4>2. LastLine(e.lines[t]).kind = "batchsig"
        BY <2>5, <4>1 DEF FilesOK, Sealed
      <4> QED  BY <3>2, <4>2
    <3> QED  BY <3>3, <3>4
  <2>9. \A s, t \in e.files : e.lines[s][1].instance = e.lines[t][1].instance
    BY <2>4, <2>8 DEF TwoInstances
  <2>10. OnDisk(e) = [s \in e.files |-> e.lines[s]]
    <3>1. {t \in e.files : e.lines[t] # <<>>} = e.files
      BY <2>8
    <3> QED  BY <3>1 DEF OnDisk
  <2>11. GurdyVerify(OnDisk(e))
    <3>1. PICK L, F, Y : L = e.lines /\ F = e.files /\ Y = e.synced
      OBVIOUS
    <3>2. PICK D : D = [s \in F |-> L[s]]
      OBVIOUS
    <3>3. GurdyVerify(D)
      BY <2>5, <2>6, <2>8, <2>9, <3>1, <3>2, ExportVerifies
    <3> QED  BY <2>10, <3>1, <3>2, <3>3
  <2> QED  BY <2>e, <2>11
<1> QED  BY <1>1, ChainInvariant, TailInvariant, EndInvariant, PTL DEF Spec, ClosedExportVerifies
=============================================================================
