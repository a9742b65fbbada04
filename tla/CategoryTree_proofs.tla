------------------------- MODULE CategoryTree_proofs -------------------------
(***************************************************************************)
(* The category tree: the stored ids and slugs follow the parents, for any *)
(* categories and any history of one request at a time.  What the splicing *)
(* of paths does is proved first, of functions from categories to paths;   *)
(* the actions then only replace, add or drop such paths.                  *)
(***************************************************************************)
EXTENDS CategoryTree, SequenceTheorems, FiniteSetTheorems, WellFoundedInduction, TLAPS

-----------------------------------------------------------------------------
(* Paths. *)

\* What follows the one occurrence of a category in a path.
LEMMA AfterIs ==
  ASSUME NEW S, NEW s \in Seq(S), NEW m \in 1 .. Len(s), NEW c, s[m] = c,
         \A k \in 1 .. Len(s) : s[k] = c => k = m
  PROVE  After(s, c) = SubSeq(s, m + 1, Len(s))
<1> DEFINE I == {i \in 1 .. Len(s) : s[i] = c}
<1>1. I = {m}
  OBVIOUS
<1>2. SelectInSeq(s, LAMBDA x : x = c) = IF I # {} THEN Min(I) ELSE 0
  BY DEF SelectInSeq
<1>3. Min(I) = m
  BY <1>1 DEF Min
<1> QED
  BY <1>1, <1>2, <1>3 DEF After

\* t is s with what comes before its place m replaced by new.
IsSpliced(t, S, s, m, new) ==
  /\ t \in Seq(S)
  /\ Len(t) = Len(new) + 1 + Len(s) - m
  /\ \A i \in 1 .. Len(new) : t[i] = new[i]
  /\ t[Len(new) + 1] = s[m]
  /\ \A i \in m + 1 .. Len(s) : t[Len(new) + 1 + i - m] = s[i]

\* A path with its beginning, up to a category, replaced.
LEMMA SplicedIs ==
  ASSUME NEW S, NEW s \in Seq(S), NEW m \in 1 .. Len(s), NEW c \in S, s[m] = c,
         \A k \in 1 .. Len(s) : s[k] = c => k = m, NEW new \in Seq(S)
  PROVE  IsSpliced(Spliced(s, c, new), S, s, m, new)
<1> DEFINE a == Append(new, c)
           b == SubSeq(s, m + 1, Len(s))
<1>0. Len(s) \in Nat /\ Len(new) \in Nat /\ m \in Nat
  OBVIOUS
<1>1. a \in Seq(S) /\ Len(a) = Len(new) + 1 /\ a[Len(new) + 1] = c
      /\ \A i \in 1 .. Len(new) : a[i] = new[i]
  BY AppendProperties
<1>2. /\ b \in Seq(S) /\ Len(b) = Len(s) - m
      /\ \A i \in 1 .. Len(s) - m : b[i] = s[m + i]
  <2>1. \A i \in m + 1 .. Len(s) : s[i] \in S
    BY <1>0, ElementOfSeq
  <2>2. m + 1 \in Int /\ Len(s) \in Int
    BY <1>0
  <2>3. /\ b \in Seq(S)
        /\ Len(b) = IF m + 1 <= Len(s) THEN Len(s) - (m + 1) + 1 ELSE 0
        /\ \A i \in 1 .. Len(s) - (m + 1) + 1 : b[i] = s[(m + 1) + i - 1]
    BY <2>1, <2>2, SubSeqProperties
  <2> HIDE DEF b
  <2> QED
    BY <1>0, <2>3
<1>3. Spliced(s, c, new) = a \o b
  BY AfterIs DEF Spliced
<1> HIDE DEF a, b
<1>4. /\ a \o b \in Seq(S) /\ Len(a \o b) = Len(a) + Len(b)
      /\ \A i \in 1 .. Len(a) + Len(b) :
           (a \o b)[i] = IF i <= Len(a) THEN a[i] ELSE b[i - Len(a)]
  BY <1>1, <1>2, ConcatProperties
<1> DEFINE t == a \o b
<1> HIDE DEF t
<1>5. /\ t \in Seq(S) /\ Len(t) = Len(new) + 1 + Len(s) - m
      /\ \A i \in 1 .. Len(new) : t[i] = new[i]
      /\ t[Len(new) + 1] = c
  BY <1>0, <1>1, <1>2, <1>4 DEF t
<1>6. ASSUME NEW i \in m + 1 .. Len(s)
      PROVE  t[Len(new) + 1 + i - m] = s[i]
  <2>1. Len(new) + 1 + i - m \in 1 .. Len(a) + Len(b) /\ ~(Len(new) + 1 + i - m <= Len(a))
        /\ Len(new) + 1 + i - m - Len(a) = i - m /\ i - m \in 1 .. Len(s) - m /\ m + (i - m) = i
    BY <1>0, <1>1, <1>2
  <2>2. t[Len(new) + 1 + i - m] = b[i - m]
    BY <1>4, <2>1 DEF t
  <2> QED
    BY <1>2, <2>1, <2>2
<1>7. IsSpliced(t, S, s, m, new)
  BY <1>5, <1>6 DEF IsSpliced
<1> QED
  BY <1>3, <1>7 DEF t

\* An initial part of a path.
LEMMA Part ==
  ASSUME NEW S, NEW s \in Seq(S), NEW k \in 1 .. Len(s)
  PROVE  /\ SubSeq(s, 1, k - 1) \in Seq(S) /\ Len(SubSeq(s, 1, k - 1)) = k - 1
         /\ \A i \in 1 .. k - 1 : SubSeq(s, 1, k - 1)[i] = s[i]
<1>0. Len(s) \in Nat /\ k \in Nat /\ 1 \in Int /\ k - 1 \in Int
  OBVIOUS
<1>1. \A i \in 1 .. k - 1 : s[i] \in S
  BY <1>0, ElementOfSeq
<1>2. /\ SubSeq(s, 1, k - 1) \in Seq(S)
      /\ Len(SubSeq(s, 1, k - 1)) = IF 1 <= k - 1 THEN k - 1 - 1 + 1 ELSE 0
      /\ \A i \in 1 .. k - 1 - 1 + 1 : SubSeq(s, 1, k - 1)[i] = s[1 + i - 1]
  BY <1>0, <1>1, SubSeqProperties
<1> DEFINE t == SubSeq(s, 1, k - 1)
<1> HIDE DEF t
<1>3. t \in Seq(S) /\ Len(t) = k - 1 /\ \A i \in 1 .. k - 1 : t[i] = s[i]
  BY <1>0, <1>2 DEF t
<1> QED
  BY <1>3 DEF t

\* A sequence with the length and the elements of an initial part is that part.
LEMMA IsPart ==
  ASSUME NEW S, NEW s \in Seq(S), NEW k \in 1 .. Len(s), NEW t \in Seq(S), Len(t) = k - 1,
         \A i \in 1 .. k - 1 : t[i] = s[i]
  PROVE  t = SubSeq(s, 1, k - 1)
<1> DEFINE u == SubSeq(s, 1, k - 1)
<1>1. u \in Seq(S) /\ Len(u) = k - 1 /\ \A i \in 1 .. k - 1 : u[i] = s[i]
  BY Part
<1> HIDE DEF u
<1>2. t = u
  BY <1>1, SeqEqual
<1> QED
  BY <1>2 DEF u

\* In rooted paths, where an id stands tells how long its own path is.
StandsAt(f, live, d, k) ==
  /\ f[d] \in Seq(live) /\ f[d][k] \in live /\ f[f[d][k]] \in Seq(live)
  /\ Len(f[f[d][k]]) = k - 1
  /\ \A i \in 1 .. k - 1 : f[f[d][k]][i] = f[d][i]

LEMMA Places ==
  ASSUME NEW f, NEW live, Rooted(f, live), NEW d \in live, NEW k \in 1 .. Len(f[d])
  PROVE  StandsAt(f, live, d, k)
<1>1. f[d] \in Seq(live) /\ f[f[d][k]] = SubSeq(f[d], 1, k - 1)
  BY DEF Rooted
<1>2. f[d][k] \in live
  BY <1>1, ElementOfSeq
<1> QED
  BY <1>1, <1>2, Part DEF StandsAt

\* Hence no id stands in a path twice.
LEMMA OnePlace ==
  ASSUME NEW f, NEW live, Rooted(f, live), NEW d \in live,
         NEW j \in 1 .. Len(f[d]), NEW k \in 1 .. Len(f[d]), f[d][j] = f[d][k]
  PROVE  j = k
<1>1. Len(f[f[d][j]]) = j - 1
  BY Places DEF StandsAt
<1>2. Len(f[f[d][k]]) = k - 1
  BY Places DEF StandsAt
<1>3. j \in Int /\ k \in Int
  OBVIOUS
<1> QED
  BY <1>1, <1>2, <1>3

\* And none stands in its own.
LEMMA NotBelowItself ==
  ASSUME NEW f, NEW live, Rooted(f, live), NEW d \in live
  PROVE  ~Contains(f[d], d)
<1> SUFFICES ASSUME NEW k \in 1 .. Len(f[d]), f[d][k] = d PROVE FALSE
  BY DEF Contains
<1>1. Len(f[d]) = k - 1 /\ f[d] \in Seq(live)
  BY Places DEF StandsAt
<1>2. Len(f[d]) \in Nat
  BY <1>1
<1> QED
  BY <1>1, <1>2

\* A path with an id contains all that the path of the id does.
LEMMA ContainsMore ==
  ASSUME NEW f, NEW live, Rooted(f, live), NEW d \in live, NEW k \in 1 .. Len(f[d]),
         NEW c, Contains(f[f[d][k]], c)
  PROVE  Contains(f[d], c)
<1>1. PICK i \in 1 .. Len(f[f[d][k]]) : f[f[d][k]][i] = c
  BY DEF Contains
<1>2. /\ f[d] \in Seq(live) /\ f[d][k] \in live /\ f[f[d][k]] \in Seq(live)
      /\ Len(f[f[d][k]]) = k - 1
      /\ \A j \in 1 .. k - 1 : f[f[d][k]][j] = f[d][j]
  <2>1. StandsAt(f, live, d, k)
    BY Places
  <2> QED
    BY <2>1 DEF StandsAt
<1>3. i \in 1 .. Len(f[d])
  <2>1. Len(f[d]) \in Nat
    BY <1>2
  <2> QED
    BY <1>2, <2>1
<1> QED
  BY <1>1, <1>2, <1>3 DEF Contains

LEMMA SeqOver ==
  ASSUME NEW S, NEW T, NEW s \in Seq(S), \A k \in 1 .. Len(s) : s[k] \in T
  PROVE  s \in Seq(T)
<1>1. Len(s) \in Nat /\ s \in [1 .. Len(s) -> S]
  BY LenProperties
<1>2. s \in [1 .. Len(s) -> T]
  BY <1>1
<1> QED
  BY <1>1, <1>2, SeqDef

\* A path below a category, or at the top.
Leads(f, live, new) ==
  new \in Seq(live) /\ \A k \in 1 .. Len(new) : f[new[k]] = SubSeq(new, 1, k - 1)

LEMMA EmptyLeads ==
  ASSUME NEW f, NEW live
  PROVE  Leads(f, live, <<>>)
<1>1. <<>> \in Seq(live) /\ Len(<<>>) = 0
  BY EmptySeq
<1>2. 1 .. 0 = {}
  OBVIOUS
<1> QED
  BY <1>1, <1>2 DEF Leads

LEMMA BelowLeads ==
  ASSUME NEW f, NEW live, Rooted(f, live), NEW p \in live
  PROVE  Leads(f, live, Append(f[p], p))
<1> DEFINE s == f[p]
           t == Append(s, p)
<1>1. s \in Seq(live) /\ \A k \in 1 .. Len(s) : f[s[k]] = SubSeq(s, 1, k - 1)
  BY DEF Rooted
<1>2. t \in Seq(live) /\ Len(t) = Len(s) + 1 /\ t[Len(s) + 1] = p
      /\ \A i \in 1 .. Len(s) : t[i] = s[i]
  BY <1>1, AppendProperties
<1>3. Len(s) \in Nat
  BY <1>1
<1>4. ASSUME NEW k \in 1 .. Len(t)
      PROVE  f[t[k]] = SubSeq(t, 1, k - 1)
  <2>1. CASE k \in 1 .. Len(s)
    <3> DEFINE x == SubSeq(s, 1, k - 1)
    <3>1. x \in Seq(live) /\ Len(x) = k - 1 /\ \A i \in 1 .. k - 1 : x[i] = s[i]
      BY <1>1, <2>1, Part
    <3>2. f[t[k]] = x
      BY <1>1, <1>2, <2>1
    <3> HIDE DEF x, t, s
    <3>3. \A i \in 1 .. k - 1 : x[i] = t[i]
      BY <1>2, <1>3, <2>1, <3>1
    <3>4. x = SubSeq(t, 1, k - 1)
      BY <1>2, <3>1, <3>3, IsPart
    <3> QED
      BY <3>2, <3>4
  <2>2. CASE k = Len(s) + 1
    <3>1. f[t[k]] = s
      BY <1>2, <2>2
    <3> HIDE DEF t, s
    <3>2. Len(s) = k - 1 /\ \A i \in 1 .. k - 1 : s[i] = t[i]
      BY <1>2, <1>3, <2>2
    <3>3. s = SubSeq(t, 1, k - 1)
      BY <1>1, <1>2, <3>2, IsPart
    <3> QED
      BY <3>1, <3>3
  <2> QED
    BY <1>2, <1>3, <2>1, <2>2
<1> HIDE DEF t
<1>5. Leads(f, live, t)
  BY <1>2, <1>4 DEF Leads
<1> QED
  BY <1>5 DEF t

\* A category is added at the end of a path.
LEMMA Grows ==
  ASSUME NEW f, NEW live, Rooted(f, live), NEW new, Leads(f, live, new), NEW c, c \notin live,
         NEW g, g[c] = new, \A d \in live : g[d] = f[d]
  PROVE  Rooted(g, live \cup {c})
<1>1. ASSUME NEW d \in live \cup {c}
      PROVE  g[d] \in Seq(live) /\ \A k \in 1 .. Len(g[d]) : f[g[d][k]] = SubSeq(g[d], 1, k - 1)
  <2>1. CASE d = c
    BY <2>1 DEF Leads
  <2>2. CASE d \in live
    BY <2>2 DEF Rooted
  <2> QED
    BY <2>1, <2>2
<1>2. ASSUME NEW d \in live \cup {c}
      PROVE  g[d] \in Seq(live \cup {c})
             /\ \A k \in 1 .. Len(g[d]) : g[g[d][k]] = SubSeq(g[d], 1, k - 1)
  <2>1. g[d] \in Seq(live \cup {c})
    BY <1>1, SeqMonotonic
  <2>2. \A k \in 1 .. Len(g[d]) : g[d][k] \in live
    BY <1>1, ElementOfSeq
  <2> QED
    BY <1>1, <2>1, <2>2
<1> QED
  BY <1>2 DEF Rooted

\* A category is removed with all whose path it is in.
LEMMA Pruned ==
  ASSUME NEW f, NEW live, Rooted(f, live), NEW c
  PROVE  Rooted(f, {d \in live : d # c /\ ~Contains(f[d], c)})
<1> DEFINE rest == {d \in live : d # c /\ ~Contains(f[d], c)}
<1> SUFFICES ASSUME NEW d \in rest
             PROVE  f[d] \in Seq(rest) /\ \A k \in 1 .. Len(f[d]) : f[f[d][k]] = SubSeq(f[d], 1, k - 1)
  BY DEF Rooted
<1>1. d \in live /\ f[d] \in Seq(live)
      /\ \A k \in 1 .. Len(f[d]) : f[f[d][k]] = SubSeq(f[d], 1, k - 1)
  BY DEF Rooted
<1>2. ASSUME NEW k \in 1 .. Len(f[d])
      PROVE  f[d][k] \in rest
  <2>1. f[d][k] \in live
    BY <1>1, ElementOfSeq
  <2>2. f[d][k] # c
    BY DEF Contains
  <2>3. ~Contains(f[f[d][k]], c)
    BY <1>1, ContainsMore
  <2> QED
    BY <2>1, <2>2, <2>3
<1> HIDE DEF rest
<1>3. f[d] \in Seq(rest)
  BY <1>1, <1>2, SeqOver
<1> QED
  BY <1>1, <1>3

\* A rooted path spliced where a category stands.
LEMMA SplicedRooted ==
  ASSUME NEW f, NEW live, Rooted(f, live), NEW d \in live, NEW m \in 1 .. Len(f[d]),
         NEW c, f[d][m] = c, NEW new \in Seq(live)
  PROVE  IsSpliced(Spliced(f[d], c, new), live, f[d], m, new)
<1>1. f[d] \in Seq(live)
  BY DEF Rooted
<1>2. c \in live
  BY <1>1, ElementOfSeq
<1>3. \A k \in 1 .. Len(f[d]) : f[d][k] = c => k = m
  BY OnePlace
<1> DEFINE s == f[d]
<1> HIDE DEF s
<1>4. s \in Seq(live) /\ m \in 1 .. Len(s) /\ s[m] = c /\ \A k \in 1 .. Len(s) : s[k] = c => k = m
  BY <1>1, <1>3 DEF s
<1>5. IsSpliced(Spliced(s, c, new), live, s, m, new)
  BY <1>2, <1>4, SplicedIs
<1> QED
  BY <1>5 DEF s

\* The paths after a category and all below it moved to a new path, outside its own.
Moved(f, live, c, new, g) ==
  \A d \in live : g[d] = IF d = c THEN new
                         ELSE IF Contains(f[d], c) THEN Spliced(f[d], c, new) ELSE f[d]

\* The path of a category above the one that moved, or beside it, stays.
LEMMA StaysPut ==
  ASSUME NEW f, NEW live, NEW c \in live, NEW to, NEW g, Moved(f, live, c, to, g),
         NEW new, Leads(f, live, new), ~Contains(new, c), NEW k \in 1 .. Len(new)
  PROVE  g[new[k]] = SubSeq(new, 1, k - 1)
<1>1. new \in Seq(live) /\ f[new[k]] = SubSeq(new, 1, k - 1)
  BY DEF Leads
<1>2. new[k] \in live /\ new[k] # c
  BY <1>1, ElementOfSeq DEF Contains
<1>3. ~Contains(f[new[k]], c)
  <2> SUFFICES ASSUME NEW i \in 1 .. Len(f[new[k]]), f[new[k]][i] = c PROVE FALSE
    BY DEF Contains
  <2> DEFINE x == SubSeq(new, 1, k - 1)
  <2>1. Len(x) = k - 1 /\ \A j \in 1 .. k - 1 : x[j] = new[j]
    BY <1>1, Part
  <2> HIDE DEF x
  <2>2. i \in 1 .. k - 1 /\ x[i] = c
    BY <1>1, <2>1 DEF x
  <2>3. i \in 1 .. Len(new)
    <3>1. Len(new) \in Nat
      BY <1>1
    <3> QED
      BY <2>2, <3>1
  <2> QED
    BY <2>1, <2>2, <2>3 DEF Contains
<1> QED
  BY <1>1, <1>2, <1>3 DEF Moved

\* A path below the category that moved.
LEMMA FollowsTheMove ==
  ASSUME NEW f, NEW live, Rooted(f, live), NEW c \in live, NEW new, Leads(f, live, new),
         ~Contains(new, c), NEW g, Moved(f, live, c, new, g),
         NEW d \in live, d # c, NEW m \in 1 .. Len(f[d]), f[d][m] = c
  PROVE  g[d] \in Seq(live) /\ \A k \in 1 .. Len(g[d]) : g[g[d][k]] = SubSeq(g[d], 1, k - 1)
<1> DEFINE n == Len(new)
           l == Len(f[d])
           t == Spliced(f[d], c, new)
<1>0. new \in Seq(live) /\ n \in Nat /\ m \in 1 .. l /\ m \in Nat /\ f[d] \in Seq(live) /\ l \in Nat
  BY DEF Leads, Rooted
<1>1. g[d] = t
  BY DEF Moved, Contains
<1>2. IsSpliced(t, live, f[d], m, new)
  BY <1>0, SplicedRooted
<1> HIDE DEF t
<1>3. /\ t \in Seq(live) /\ Len(t) = n + 1 + l - m
      /\ \A i \in 1 .. n : t[i] = new[i]
      /\ t[n + 1] = c
      /\ \A i \in m + 1 .. l : t[n + 1 + i - m] = f[d][i]
  BY <1>2 DEF IsSpliced
<1>4. Len(new) = n /\ Len(f[d]) = l
  OBVIOUS
<1> HIDE DEF n, l
<1>5. ASSUME NEW k \in 1 .. n
      PROVE  g[t[k]] = SubSeq(t, 1, k - 1)
  <2>0. k \in 1 .. Len(new)
    BY <1>4
  <2>1. g[new[k]] = SubSeq(new, 1, k - 1)
    BY <2>0, StaysPut
  <2> DEFINE x == SubSeq(new, 1, k - 1)
  <2>2. x \in Seq(live) /\ Len(x) = k - 1 /\ \A i \in 1 .. k - 1 : x[i] = new[i]
    BY <1>0, <2>0, Part
  <2>5. g[t[k]] = x
    BY <1>3, <2>1
  <2> HIDE DEF x
  <2>3. k \in 1 .. Len(t) /\ \A i \in 1 .. k - 1 : x[i] = t[i]
    BY <1>0, <1>3, <2>2
  <2>4. x = SubSeq(t, 1, k - 1)
    BY <1>3, <2>2, <2>3, IsPart
  <2> QED
    BY <2>4, <2>5
<1>6. g[t[n + 1]] = SubSeq(t, 1, n)
  <2>1. g[t[n + 1]] = new
    BY <1>3 DEF Moved
  <2> DEFINE k == n + 1
  <2>2. k \in 1 .. Len(t) /\ Len(new) = k - 1 /\ \A i \in 1 .. k - 1 : new[i] = t[i]
    BY <1>0, <1>3, <1>4
  <2>3. k - 1 = n
    BY <1>0
  <2> HIDE DEF k
  <2>4. new = SubSeq(t, 1, k - 1)
    BY <1>0, <1>3, <2>2, IsPart
  <2> QED
    BY <2>1, <2>3, <2>4
<1>7. ASSUME NEW i \in m + 1 .. l
      PROVE  g[f[d][i]] = SubSeq(t, 1, n + i - m)
  <2> DEFINE x == f[d][i]
             u == Spliced(f[x], c, new)
             k == n + 1 + i - m
  <2>1. i \in 1 .. l /\ i \in 1 .. Len(f[d]) /\ m \in 1 .. i - 1 /\ i \in Nat
    BY <1>0, <1>4
  <2>2. /\ f[d] \in Seq(live) /\ f[d][i] \in live /\ f[f[d][i]] \in Seq(live)
        /\ Len(f[f[d][i]]) = i - 1
        /\ \A j \in 1 .. i - 1 : f[f[d][i]][j] = f[d][j]
    BY <2>1, Places DEF StandsAt
  <2>3. x \in live /\ m \in 1 .. Len(f[x]) /\ f[x][m] = c
    BY <2>1, <2>2
  <2>3a. m \in 1 .. Len(f[d])
    BY <1>0, <1>4
  <2>4. x # c
    <3> SUFFICES ASSUME x = c PROVE FALSE
      OBVIOUS
    <3>1. i = m
      BY <2>1, <2>3a, OnePlace
    <3> QED
      BY <2>1, <3>1
  <2>5. g[x] = u
    BY <2>3, <2>4 DEF Moved, Contains
  <2>6. Len(f[x]) = i - 1 /\ \A j \in 1 .. i - 1 : f[x][j] = f[d][j]
    BY <2>2
  <2> HIDE DEF x
  <2>6a. IsSpliced(u, live, f[x], m, new)
    BY <1>0, <2>3, SplicedRooted
  <2> HIDE DEF u
  <2>7. /\ u \in Seq(live) /\ Len(u) = n + 1 + (i - 1) - m
        /\ \A j \in 1 .. n : u[j] = new[j]
        /\ u[n + 1] = c
        /\ \A j \in m + 1 .. i - 1 : u[n + 1 + j - m] = f[x][j]
    BY <1>4, <2>3, <2>6, <2>6a DEF IsSpliced
  <2>8. k \in 1 .. Len(t) /\ Len(u) = k - 1
    BY <1>0, <1>3, <2>1, <2>6, <2>7
  <2>9. ASSUME NEW j \in 1 .. k - 1
        PROVE  u[j] = t[j]
    <3>1. CASE j \in 1 .. n
      BY <1>3, <2>7, <3>1
    <3>2. CASE j = n + 1
      BY <1>3, <2>7, <3>2
    <3>3. CASE j \in n + 2 .. k - 1
      <4> DEFINE q == j - n - 1 + m
      <4>1. q \in m + 1 .. i - 1 /\ q \in m + 1 .. l /\ q \in 1 .. i - 1 /\ n + 1 + q - m = j
        BY <1>0, <2>1, <3>3
      <4> HIDE DEF q
      <4>2. u[n + 1 + q - m] = f[x][q]
        BY <2>6, <2>7, <4>1
      <4>3. t[n + 1 + q - m] = f[d][q]
        BY <1>3, <4>1
      <4> QED
        BY <2>6, <4>1, <4>2, <4>3
    <3>4. j \in 1 .. n \/ j = n + 1 \/ j \in n + 2 .. k - 1
      BY <1>0, <2>1
    <3> QED
      BY <3>1, <3>2, <3>3, <3>4
  <2>10. k - 1 = n + i - m
    BY <1>0, <2>1
  <2> HIDE DEF k
  <2>11. u = SubSeq(t, 1, k - 1)
    BY <1>3, <2>7, <2>8, <2>9, IsPart
  <2> QED
    BY <2>5, <2>10, <2>11 DEF x
<1>8. ASSUME NEW k \in 1 .. Len(t)
      PROVE  g[t[k]] = SubSeq(t, 1, k - 1)
  <2>1. CASE k \in 1 .. n
    BY <1>5, <2>1
  <2>2. CASE k = n + 1
    <3>1. k - 1 = n
      BY <1>0, <2>2
    <3> QED
      BY <1>6, <2>2, <3>1
  <2>3. CASE k \in n + 2 .. Len(t)
    <3> DEFINE i == k - n - 1 + m
    <3>1. i \in m + 1 .. l /\ n + 1 + i - m = k /\ n + i - m = k - 1
      BY <1>0, <1>3, <2>3
    <3> HIDE DEF i
    <3>2. t[n + 1 + i - m] = f[d][i]
      BY <1>3, <3>1
    <3> QED
      BY <1>7, <3>1, <3>2
  <2>4. k \in 1 .. n \/ k = n + 1 \/ k \in n + 2 .. Len(t)
    BY <1>0, <1>3
  <2> QED
    BY <2>1, <2>2, <2>3, <2>4
<1> QED
  BY <1>1, <1>3, <1>8

\* After a move, every path is rooted again.
LEMMA MoveKeepsRoots ==
  ASSUME NEW f, NEW live, Rooted(f, live), NEW c \in live, NEW new, Leads(f, live, new),
         ~Contains(new, c), NEW g, Moved(f, live, c, new, g)
  PROVE  Rooted(g, live)
<1> SUFFICES ASSUME NEW d \in live
             PROVE  g[d] \in Seq(live)
                    /\ \A k \in 1 .. Len(g[d]) : g[g[d][k]] = SubSeq(g[d], 1, k - 1)
  BY DEF Rooted
<1>1. CASE d = c
  <2>1. g[d] = new /\ new \in Seq(live)
    BY <1>1 DEF Moved, Leads
  <2>2. \A k \in 1 .. Len(new) : g[new[k]] = SubSeq(new, 1, k - 1)
    BY StaysPut
  <2> QED
    BY <2>1, <2>2
<1>2. CASE d # c /\ ~Contains(f[d], c)
  <2>1. g[d] = f[d] /\ Leads(f, live, f[d])
    BY <1>2 DEF Moved, Rooted, Leads
  <2> DEFINE s == f[d]
  <2>2. Leads(f, live, s) /\ ~Contains(s, c) /\ s \in Seq(live)
    BY <1>2, <2>1 DEF Leads
  <2> HIDE DEF s
  <2>3. ASSUME NEW k \in 1 .. Len(s) PROVE g[s[k]] = SubSeq(s, 1, k - 1)
    BY <2>2, StaysPut
  <2> QED
    BY <2>1, <2>2, <2>3 DEF s
<1>3. CASE d # c /\ Contains(f[d], c)
  <2>1. PICK m \in 1 .. Len(f[d]) : f[d][m] = c
    BY <1>3 DEF Contains
  <2> QED
    BY <1>3, <2>1, FollowsTheMove
<1> QED
  BY <1>1, <1>2, <1>3

\* What is below the category that moved keeps its parent.
LEMMA KeepsItsEnd ==
  ASSUME NEW f, NEW live, Rooted(f, live), NEW c \in live, NEW new \in Seq(live),
         NEW d \in live, Contains(f[d], c)
  PROVE  /\ f[d] # <<>> /\ Spliced(f[d], c, new) # <<>>
         /\ Spliced(f[d], c, new)[Len(Spliced(f[d], c, new))] = f[d][Len(f[d])]
<1>1. PICK m \in 1 .. Len(f[d]) : f[d][m] = c
  BY DEF Contains
<1> DEFINE t == Spliced(f[d], c, new)
           l == Len(f[d])
           n == Len(new)
<1>2. IsSpliced(t, live, f[d], m, new)
  BY <1>1, SplicedRooted
<1> HIDE DEF t
<1>3. f[d] \in Seq(live) /\ l \in Nat /\ n \in Nat /\ m \in 1 .. l /\ m \in Nat
  BY <1>1 DEF Rooted
<1>4. /\ t \in Seq(live) /\ Len(t) = n + 1 + l - m /\ t[n + 1] = f[d][m]
      /\ \A i \in m + 1 .. l : t[n + 1 + i - m] = f[d][i]
  BY <1>2 DEF IsSpliced
<1>5. Len(t) > 0 /\ Len(f[d]) > 0
  <2> HIDE DEF n
  <2>1. l > 0 /\ n + 1 + l - m > 0
    <3> HIDE DEF l
    <3> QED
      BY <1>3
  <2> QED
    BY <1>4, <2>1
<1>6. t # <<>> /\ f[d] # <<>>
  BY <1>5, EmptySeq
<1>7. t[n + 1 + l - m] = f[d][l]
  <2> HIDE DEF l, n
  <2>1. CASE m = l
    <3>1. n + 1 + l - m = n + 1
      BY <1>3, <2>1
    <3> QED
      BY <1>4, <2>1, <3>1
  <2>2. CASE m # l
    <3>1. l \in m + 1 .. l
      BY <1>3, <2>2
    <3> QED
      BY <1>4, <3>1
  <2> QED
    BY <2>1, <2>2
<1>8. t[Len(t)] = f[d][l]
  BY <1>4, <1>7
<1> QED
  BY <1>6, <1>8 DEF t

\* Spliced with the path that its category has already, a path stays as it is.
LEMMA RestoresItself ==
  ASSUME NEW f, NEW live, Rooted(f, live), NEW c \in live, NEW d \in live, Contains(f[d], c)
  PROVE  Spliced(f[d], c, f[c]) = f[d]
<1>1. PICK m \in 1 .. Len(f[d]) : f[d][m] = c
  BY DEF Contains
<1> DEFINE t == Spliced(f[d], c, f[c])
           l == Len(f[d])
<1>2. f[d] \in Seq(live) /\ f[c] \in Seq(live) /\ l \in Nat /\ m \in 1 .. l /\ m \in Nat
  BY <1>1 DEF Rooted
<1>3. /\ f[d] \in Seq(live) /\ f[d][m] \in live /\ f[f[d][m]] \in Seq(live)
      /\ Len(f[f[d][m]]) = m - 1
      /\ \A j \in 1 .. m - 1 : f[f[d][m]][j] = f[d][j]
  BY Places DEF StandsAt
<1>4. Len(f[c]) = m - 1 /\ \A j \in 1 .. m - 1 : f[c][j] = f[d][j]
  BY <1>1, <1>3
<1>5. IsSpliced(t, live, f[d], m, f[c])
  BY <1>1, <1>2, SplicedRooted
<1> HIDE DEF t
<1>6. /\ t \in Seq(live) /\ Len(t) = (m - 1) + 1 + l - m
      /\ \A i \in 1 .. m - 1 : t[i] = f[c][i]
      /\ t[(m - 1) + 1] = f[d][m]
      /\ \A i \in m + 1 .. l : t[(m - 1) + 1 + i - m] = f[d][i]
  BY <1>4, <1>5 DEF IsSpliced
<1>7. Len(t) = Len(f[d])
  <2>1. (m - 1) + 1 + l - m = l
    <3> HIDE DEF l
    <3> QED
      BY <1>2
  <2> QED
    BY <1>6, <2>1
<1>8. ASSUME NEW i \in 1 .. l
      PROVE  t[i] = f[d][i]
  <2> HIDE DEF l
  <2>1. CASE i \in 1 .. m - 1
    BY <1>4, <1>6, <2>1
  <2>2. CASE i = m
    <3>1. (m - 1) + 1 = m
      BY <1>2
    <3> QED
      BY <1>6, <2>2, <3>1
  <2>3. CASE i \in m + 1 .. l
    <3>1. (m - 1) + 1 + i - m = i
      BY <1>2, <2>3
    <3> QED
      BY <1>6, <2>3, <3>1
  <2> QED
    BY <1>2, <2>1, <2>2, <2>3
<1>9. t = f[d]
  BY <1>2, <1>6, <1>7, <1>8, SeqEqual
<1> QED
  BY <1>9 DEF t

-----------------------------------------------------------------------------
(* Types. *)

LEMMA NatIsWellFounded == IsWellFoundedOn({ss \in Nat \X Nat : ss[1] < ss[2]}, Nat)
BY Zenon, NatLessThanWellFounded DEF OpToRel

LEMMA LeastOf ==
  ASSUME NEW I, I \subseteq Nat, I # {}
  PROVE  \E x \in I : \A y \in I : x <= y
<1> DEFINE R == {ss \in Nat \X Nat : ss[1] < ss[2]}
<1>1. \A x, y \in Nat : <<y, x>> \in R \/ x <= y
  OBVIOUS
<1>2. IsWellFoundedOn(R, Nat)
  BY NatIsWellFounded
<1> HIDE DEF R
<1>3. \E x \in I : \A y \in I : ~(<<y, x>> \in R)
  BY <1>2, WFMin
<1> QED
  BY <1>1, <1>3

LEMMA AfterType ==
  ASSUME NEW S, NEW s \in Seq(S), NEW c
  PROVE  After(s, c) \in Seq(S)
<1> DEFINE I == {i \in 1 .. Len(s) : s[i] = c}
           m == SelectInSeq(s, LAMBDA x : x = c)
<1>1. m = IF I # {} THEN Min(I) ELSE 0
  BY DEF SelectInSeq
<1>2. m \in Nat
  <2>1. CASE I = {}
    BY <1>1, <2>1
  <2>2. CASE I # {}
    <3>1. I \subseteq Nat
      OBVIOUS
    <3>2. \E x \in I : \A y \in I : x <= y
      BY <2>2, <3>1, LeastOf
    <3>3. Min(I) \in I
      BY <3>2 DEF Min
    <3> QED
      BY <1>1, <2>2, <3>3
  <2> QED
    BY <2>1, <2>2
<1> HIDE DEF m
<1>3. SubSeq(s, m + 1, Len(s)) \in Seq(S)
  <2>1. Len(s) \in Int /\ m + 1 \in Int
    BY <1>2
  <2>2. \A i \in m + 1 .. Len(s) : s[i] \in S
    BY <1>2, ElementOfSeq
  <2> QED
    BY <2>1, <2>2, SubSeqProperties
<1> QED
  BY <1>3 DEF After, m

LEMMA SplicedType ==
  ASSUME NEW S, NEW s \in Seq(S), NEW c \in S, NEW new \in Seq(S)
  PROVE  Spliced(s, c, new) \in Seq(S)
<1> DEFINE b == After(s, c)
           a == Append(new, c)
<1>1. b \in Seq(S) /\ a \in Seq(S)
  BY AfterType, AppendProperties
<1> HIDE DEF a, b
<1>2. a \o b \in Seq(S)
  BY <1>1, ConcatProperties
<1> QED
  BY <1>2 DEF Spliced, a, b

\* The rows and the jobs are written whole.
LEMMA PlacedType ==
  \A x \in CategoryRow, p \in Categories \cup {Root}, ids \in Seq(Categories), path \in Seq(Slug) :
    [x EXCEPT !.parent = p, !.ids = ids, !.path = path] \in CategoryRow
BY DEF CategoryRow

LEMMA SlugPathType ==
  ASSUME TypeOK, NEW ids \in Seq(Categories)
  PROVE  /\ Known(ids) = ids
         /\ SlugPath(ids) \in Seq(Slug) /\ Len(SlugPath(ids)) = Len(ids)
         /\ \A k \in 1 .. Len(ids) : SlugPath(ids)[k] = SlugOf(ids[k])
<1>1. /\ Len(ids) \in Nat /\ DOMAIN ids = 1 .. Len(ids)
      /\ \A k \in 1 .. Len(ids) : ids[k] \in Categories
  BY ElementOfSeq, LenProperties
<1>2. Known(ids) = ids
  BY <1>1 DEF Known
<1>3. SlugPath(ids) = [k \in 1 .. Len(ids) |-> SlugOf(ids[k])]
  BY <1>1, <1>2 DEF SlugPath
<1>4. \A c \in Categories : SlugOf(c) \in Slug
  BY DEF SlugOf, Slug, TypeOK, CategoryRow
<1>5. SlugPath(ids) \in [1 .. Len(ids) -> Slug]
  BY <1>1, <1>3, <1>4
<1>6. SlugPath(ids) \in Seq(Slug) /\ Len(SlugPath(ids)) = Len(ids)
  BY <1>1, <1>5, IsASeq
<1> QED
  BY <1>2, <1>3, <1>6

LEMMA PathBelowType ==
  ASSUME TypeOK, NEW p \in Categories \cup {Root}
  PROVE  PathBelow(p).ids \in Seq(Categories) /\ PathBelow(p).path \in Seq(Slug)
<1>1. CASE p = Root
  BY <1>1, EmptySeq DEF PathBelow
<1>2. CASE p # Root
  <2>1. p \in Categories /\ row[p].ids \in Seq(Categories) /\ row[p].path \in Seq(Slug)
        /\ SlugOf(p) \in Slug
    BY <1>2 DEF TypeOK, CategoryRow, SlugOf, Slug
  <2>2. Append(row[p].ids, p) \in Seq(Categories) /\ Append(row[p].path, SlugOf(p)) \in Seq(Slug)
    BY <2>1, AppendProperties
  <2> QED
    BY <1>2, <2>2 DEF PathBelow
<1> QED
  BY <1>1, <1>2

LEMMA InitTyped == Init => Typed
BY EmptySeq DEF Init, Typed, TypeOK, HasCategory, CategoryRow, Job, NoCategory, NoJob

LEMMA NoJobType == NoJob \in Job
BY EmptySeq DEF NoJob, Job

LEMMA BuildPathTyped ==
  ASSUME Typed, NEW r \in Requests, NEW c \in Categories, NEW p \in Categories \cup {Root},
         NEW next \in {"create", "move", "rename"}, BuildPath(r, c, p, next), row' = row
  PROVE  Typed'
<1>1. CASE p # Root /\ ~Live(p)
  BY <1>1, NoJobType DEF Typed, TypeOK, HasCategory, BuildPath, Finish, GoTo
<1>2. CASE ~(p # Root /\ ~Live(p))
  <2> DEFINE j == [cat |-> c, parent |-> p, todo |-> {},
                   ids |-> PathBelow(p).ids, path |-> PathBelow(p).path]
  <2>1. j \in Job /\ j.cat = c
    BY PathBelowType DEF Typed, Job
  <2>2. job' = [job EXCEPT ![r] = j] /\ pc' = [pc EXCEPT ![r] = next]
    BY <1>2 DEF BuildPath, GoTo
  <2> HIDE DEF j
  <2> QED
    BY <2>1, <2>2 DEF Typed, TypeOK, HasCategory
<1> QED
  BY <1>1, <1>2

LEMMA CreateBeginTyped ==
  ASSUME Typed, NEW r \in Requests, NEW c \in Categories, NEW p \in Categories \cup {Root},
         CreateBegin(r, c, p)
  PROVE  Typed'
BY BuildPathTyped DEF CreateBegin

LEMMA InsertTyped ==
  ASSUME Typed, NEW r \in Requests, Insert(r) PROVE Typed'
<1>1. job[r] \in Job /\ job[r].cat \in Categories
  BY DEF Typed, TypeOK, HasCategory, Insert
<1>2. PICK flag \in BOOLEAN : row' = [row EXCEPT ![job[r].cat] =
        [state |-> "live", parent |-> job[r].parent, ids |-> job[r].ids,
         path |-> job[r].path, name |-> 0, active |-> flag]]
  BY DEF Insert
<1> DEFINE x == [state |-> "live", parent |-> job[r].parent, ids |-> job[r].ids,
                 path |-> job[r].path, name |-> 0, active |-> flag]
<1>3. x \in CategoryRow
  BY <1>1 DEF Job, CategoryRow
<1>4. row' = [row EXCEPT ![job[r].cat] = x]
  BY <1>2
<1> HIDE DEF x
<1> QED
  BY <1>1, <1>3, <1>4, NoJobType DEF Typed, TypeOK, HasCategory, Insert, Finish, GoTo

LEMMA MoveBeginTyped ==
  ASSUME Typed, NEW r \in Requests, NEW c \in Categories, NEW p \in Categories \cup {Root},
         MoveBegin(r, c, p)
  PROVE  Typed'
<1>1. CASE RefusedMove(c, p)
  BY <1>1 DEF Typed, TypeOK, HasCategory, MoveBegin
<1>2. CASE ~RefusedMove(c, p)
  <2> DEFINE j == [NoJob EXCEPT !.cat = c, !.parent = p]
  <2>1. j \in Job /\ j.cat = c
    BY NoJobType DEF Job
  <2>2. job' = [job EXCEPT ![r] = j] /\ pc' = [pc EXCEPT ![r] = "build_move"] /\ row' = row
    BY <1>2 DEF MoveBegin, GoTo
  <2> HIDE DEF j
  <2> QED
    BY <2>1, <2>2 DEF Typed, TypeOK, HasCategory
<1> QED
  BY <1>1, <1>2

LEMMA MoveBuildTyped ==
  ASSUME Typed, NEW r \in Requests, MoveBuild(r) PROVE Typed'
<1>1. job[r] \in Job /\ job[r].cat \in Categories
  BY DEF Typed, TypeOK, HasCategory, MoveBuild
<1> QED
  BY <1>1, BuildPathTyped DEF MoveBuild, Job

LEMMA MoveWriteTyped ==
  ASSUME Typed, NEW r \in Requests, MoveWrite(r) PROVE Typed'
<1>1. job[r] \in Job /\ job[r].cat \in Categories
  BY DEF Typed, TypeOK, HasCategory, MoveWrite
<1> DEFINE x == Placed(job[r].cat, job[r].parent, job[r].ids, job[r].path)
<1>2. x \in CategoryRow
  BY <1>1, PlacedType DEF Typed, TypeOK, Job, Placed
<1>3. row' = [row EXCEPT ![job[r].cat] = x]
  BY DEF MoveWrite
<1> HIDE DEF x
<1> QED
  BY <1>1, <1>2, <1>3 DEF Typed, TypeOK, HasCategory, MoveWrite, GoTo

LEMMA SwitchActiveTyped ==
  ASSUME Typed, NEW r \in Requests, NEW c \in Categories, SwitchActive(r, c) PROVE Typed'
<1> DEFINE x == [row[c] EXCEPT !.active = ~row[c].active]
<1>1. x \in CategoryRow
  BY DEF Typed, TypeOK, CategoryRow
<1>2. row' = [row EXCEPT ![c] = x] /\ pc' = pc /\ job' = job
  BY DEF SwitchActive
<1> HIDE DEF x
<1> QED
  BY <1>1, <1>2 DEF Typed, TypeOK, HasCategory

LEMMA RenameBeginTyped ==
  ASSUME Typed, NEW r \in Requests, NEW c \in Categories, RenameBegin(r, c) PROVE Typed'
<1>0. PICK flag \in BOOLEAN : row' = [row EXCEPT ![c].name = 1 - @, ![c].active = flag]
  BY DEF RenameBegin
<1> DEFINE j == [NoJob EXCEPT !.cat = c, !.parent = row[c].parent]
           x == [row[c] EXCEPT !.name = 1 - row[c].name, !.active = flag]
<1>1. j \in Job /\ j.cat = c
  BY NoJobType DEF Typed, TypeOK, CategoryRow, Job
<1>2. x \in CategoryRow
  <2>1. row[c] \in CategoryRow
    BY DEF Typed, TypeOK
  <2>2. 1 - row[c].name \in {0, 1}
    BY <2>1 DEF CategoryRow
  <2> QED
    BY <2>1, <2>2 DEF CategoryRow
<1>3. /\ row' = [row EXCEPT ![c] = x] /\ job' = [job EXCEPT ![r] = j]
      /\ pc' = [pc EXCEPT ![r] = "build_rename"]
  BY <1>0 DEF RenameBegin, GoTo, Typed, TypeOK
<1> HIDE DEF j, x
<1> QED
  BY <1>1, <1>2, <1>3 DEF Typed, TypeOK, HasCategory

LEMMA RenameBuildTyped ==
  ASSUME Typed, NEW r \in Requests, RenameBuild(r) PROVE Typed'
<1>1. job[r] \in Job /\ job[r].cat \in Categories
  BY DEF Typed, TypeOK, HasCategory, RenameBuild
<1> QED
  BY <1>1, BuildPathTyped DEF RenameBuild, Job

LEMMA RenameWriteTyped ==
  ASSUME Typed, NEW r \in Requests, RenameWrite(r) PROVE Typed'
<1>1. job[r] \in Job /\ job[r].cat \in Categories
  BY DEF Typed, TypeOK, HasCategory, RenameWrite
<1> DEFINE x == Placed(job[r].cat, row[job[r].cat].parent, job[r].ids, job[r].path)
<1>2. row[job[r].cat] \in CategoryRow
  BY <1>1 DEF Typed, TypeOK
<1>3. x \in CategoryRow
  BY <1>1, <1>2, PlacedType DEF Job, CategoryRow, Placed
<1>4. row' = [row EXCEPT ![job[r].cat] = x]
  BY DEF RenameWrite
<1> HIDE DEF x
<1> QED
  BY <1>1, <1>3, <1>4 DEF Typed, TypeOK, HasCategory, RenameWrite, GoTo

LEMMA FindDescendantsTyped ==
  ASSUME Typed, NEW r \in Requests, FindDescendants(r) PROVE Typed'
<1> DEFINE found == Descendants(job[r].cat)
           todo == {<<d, row[d].ids>> : d \in found}
<1>1. todo \in SUBSET (Categories \X Seq(Categories))
  BY DEF Typed, TypeOK, CategoryRow, Descendants
<1>2. CASE found = {}
  BY <1>2, NoJobType DEF Typed, TypeOK, HasCategory, FindDescendants, Finish, GoTo
<1>3. CASE found # {}
  <2>1. job' = [job EXCEPT ![r].todo = todo] /\ pc' = [pc EXCEPT ![r] = "rewrite"] /\ row' = row
        /\ pc[r] = "find"
    BY <1>3 DEF FindDescendants, GoTo
  <2> HIDE DEF todo, found
  <2> QED
    BY <1>1, <2>1 DEF Typed, TypeOK, HasCategory, Job
<1> QED
  BY <1>2, <1>3

LEMMA RewriteDescendantTyped ==
  ASSUME Typed, NEW r \in Requests, RewriteDescendant(r) PROVE Typed'
<1>1. job[r] \in Job /\ job[r].cat \in Categories
  BY DEF Typed, TypeOK, HasCategory, RewriteDescendant
<1>2. PICK t \in job[r].todo :
        /\ row' = [row EXCEPT ![t[1]] = Placed(t[1], row[t[1]].parent,
                     Spliced(t[2], job[r].cat, job[r].ids), SlugPath(Spliced(t[2], job[r].cat, job[r].ids)))]
        /\ IF job[r].todo = {t} THEN Finish(r)
           ELSE job' = [job EXCEPT ![r].todo = @ \ {t}] /\ UNCHANGED pc
  BY DEF RewriteDescendant
<1> DEFINE ids == Spliced(t[2], job[r].cat, job[r].ids)
           x == Placed(t[1], row[t[1]].parent, ids, SlugPath(ids))
<1>3. t[1] \in Categories /\ t[2] \in Seq(Categories) /\ job[r].ids \in Seq(Categories)
  BY <1>1 DEF Job
<1>4. ids \in Seq(Categories)
  BY <1>1, <1>3, SplicedType
<1> HIDE DEF ids
<1>5. SlugPath(ids) \in Seq(Slug)
  BY <1>4, SlugPathType DEF Typed
<1>6. row[t[1]] \in CategoryRow /\ row[t[1]].parent \in Categories \cup {Root}
  BY <1>3 DEF Typed, TypeOK, CategoryRow
<1>7. x \in CategoryRow
  BY <1>4, <1>5, <1>6, PlacedType DEF Placed
<1>8. row' = [row EXCEPT ![t[1]] = x]
  BY <1>2 DEF ids
<1> HIDE DEF x
<1>9. row' \in [Categories -> CategoryRow]
  BY <1>7, <1>8 DEF Typed, TypeOK
<1>10. CASE job[r].todo = {t}
  BY <1>2, <1>9, <1>10, NoJobType DEF Typed, TypeOK, HasCategory, Finish, GoTo
<1>11. CASE job[r].todo # {t}
  <2>1. job' = [job EXCEPT ![r].todo = job[r].todo \ {t}] /\ pc' = pc
    BY <1>2, <1>11
  <2>2. job' \in [Requests -> Job] /\ \A q \in Requests : job'[q].cat = job[q].cat
    BY <1>1, <2>1 DEF Typed, TypeOK, Job
  <2> QED
    BY <1>9, <2>1, <2>2 DEF Typed, TypeOK, HasCategory
<1> QED
  BY <1>10, <1>11

LEMMA RemoveBeginTyped ==
  ASSUME Typed, NEW r \in Requests, NEW c \in Categories, RemoveBegin(r, c) PROVE Typed'
<1> DEFINE j == [NoJob EXCEPT !.cat = c]
<1>1. j \in Job /\ j.cat = c
  BY NoJobType DEF Job
<1>2. job' = [job EXCEPT ![r] = j] /\ pc' = [pc EXCEPT ![r] = "remove"] /\ row' = row
  BY DEF RemoveBegin, GoTo
<1> HIDE DEF j
<1> QED
  BY <1>1, <1>2 DEF Typed, TypeOK, HasCategory

LEMMA RemoveFindTyped ==
  ASSUME Typed, NEW r \in Requests, RemoveFind(r) PROVE Typed'
<1> DEFINE todo == {<<d, row[d].ids>> : d \in Descendants(job[r].cat)}
<1>1. todo \in SUBSET (Categories \X Seq(Categories))
  BY DEF Typed, TypeOK, CategoryRow, Descendants
<1>2. job' = [job EXCEPT ![r].todo = todo] /\ pc' = [pc EXCEPT ![r] = "delete"] /\ row' = row
      /\ pc[r] = "remove"
  BY DEF RemoveFind, GoTo
<1> HIDE DEF todo
<1> QED
  BY <1>1, <1>2 DEF Typed, TypeOK, HasCategory, Job

LEMMA DeleteTyped ==
  ASSUME Typed, NEW r \in Requests, Delete(r) PROVE Typed'
<1>1. row' \in [Categories -> CategoryRow]
  <2>1. \A x \in CategoryRow : [x EXCEPT !.state = "deleted"] \in CategoryRow
    BY DEF CategoryRow
  <2> QED
    BY <2>1 DEF Typed, TypeOK, Delete
<1> QED
  BY <1>1, NoJobType DEF Typed, TypeOK, HasCategory, Delete, Finish, GoTo

LEMMA StepTyped == Typed /\ [Next]_vars => Typed'
<1> SUFFICES ASSUME Typed, [Next]_vars PROVE Typed'
  OBVIOUS
<1>1. CASE UNCHANGED vars
  BY <1>1 DEF vars, Typed, TypeOK, HasCategory
<1>2. CASE Next
  BY <1>2, CreateBeginTyped, InsertTyped, MoveBeginTyped, MoveBuildTyped, MoveWriteTyped,
     SwitchActiveTyped, RenameBeginTyped, RenameBuildTyped, RenameWriteTyped, FindDescendantsTyped,
     RewriteDescendantTyped, RemoveBeginTyped, RemoveFindTyped, DeleteTyped DEF Next
<1> QED
  BY <1>1, <1>2

\* The tables and the requests keep their types, whoever edits: the splicing of a path that
\* lacks the moved category yields a path too (category.service.ts:93-120).
THEOREM TypeCorrect == Spec => []TypeOK
<1>1. Typed => TypeOK
  BY DEF Typed
<1> QED
  BY <1>1, InitTyped, StepTyped, PTL DEF Spec

-----------------------------------------------------------------------------
(* What the tree looks like while nothing is due for rewriting. *)

Ids == [d \in Categories |-> row[d].ids]

LEMMA Settled ==
  ASSUME NEW r, Due(r) = {} PROVE Final(r) = Ids
BY DEF Final, Ids

LEMMA SettledNext ==
  ASSUME NEW r, Due(r)' = {} PROVE Final(r)' = Ids'
BY DEF Final, Ids

LEMMA SameRows ==
  ASSUME row' = row
  PROVE  /\ Ids' = Ids /\ Lives' = Lives
         /\ \A c : Live(c)' = Live(c) /\ Descendants(c)' = Descendants(c)
         /\ \A p : PathBelow(p)' = PathBelow(p)
         /\ \A c, p : OutsideSubtree(c, p)' = OutsideSubtree(c, p)
         /\ \A s : SlugPath(s)' = SlugPath(s)
<1> USE DEF Live
<1>1. Ids' = Ids /\ Lives' = Lives
  BY DEF Ids, Lives
<1>2. \A c : Descendants(c)' = Descendants(c)
  BY DEF Descendants
<1>3. \A p : PathBelow(p)' = PathBelow(p)
  BY DEF PathBelow, SlugOf
<1>4. \A c, p : OutsideSubtree(c, p)' = OutsideSubtree(c, p)
  BY DEF OutsideSubtree
<1>5. \A s : SlugPath(s)' = SlugPath(s)
  BY DEF SlugPath, SlugOf
<1> QED
  BY <1>1, <1>2, <1>3, <1>4, <1>5

\* A slug path depends on the names of the ids in it only.
LEMMA NamesKept ==
  ASSUME Typed, NEW s \in Seq(Categories), \A k \in 1 .. Len(s) : row'[s[k]].name = row[s[k]].name
  PROVE  SlugPath(s)' = SlugPath(s)
<1>1. Known(s) = s /\ DOMAIN s = 1 .. Len(s)
  BY SlugPathType, LenProperties DEF Typed
<1>2. \A k \in DOMAIN s : SlugOf(s[k])' = SlugOf(s[k])
  BY <1>1 DEF SlugOf
<1>3. SlugPath(s)' = [k \in DOMAIN s |-> SlugOf(s[k])'] /\ SlugPath(s) = [k \in DOMAIN s |-> SlugOf(s[k])]
  BY <1>1 DEF SlugPath, SlugOf
<1> QED
  BY <1>2, <1>3

\* The path below a live category, or at the top, is rooted and ends in it.
LEMMA PathLeads ==
  ASSUME Typed, Rooted(Ids, Lives), NEW p, p = Root \/ p \in Lives
  PROVE  /\ Leads(Ids, Lives, PathBelow(p).ids)
         /\ p = IF PathBelow(p).ids = <<>> THEN Root ELSE PathBelow(p).ids[Len(PathBelow(p).ids)]
<1>1. CASE p = Root
  BY <1>1, EmptyLeads DEF PathBelow
<1>2. CASE p # Root
  <2>1. p \in Lives /\ p \in Categories /\ row[p].ids \in Seq(Categories) /\ Ids[p] = row[p].ids
    BY <1>2 DEF Lives, Ids, Typed, TypeOK, CategoryRow
  <2> DEFINE s == row[p].ids
             t == Append(s, p)
  <2>2. PathBelow(p).ids = t
    BY <1>2 DEF PathBelow
  <2>3. Leads(Ids, Lives, Append(Ids[p], p))
    BY <2>1, BelowLeads
  <2>4. Leads(Ids, Lives, t)
    BY <2>1, <2>3
  <2>5. t \in Seq(Categories) /\ Len(t) = Len(s) + 1 /\ t[Len(s) + 1] = p
    BY <2>1, AppendProperties
  <2>6. t # <<>> /\ t[Len(t)] = p
    <3>1. Len(t) # 0
      BY <2>1, <2>5
    <3> QED
      BY <2>5, <3>1, EmptySeq
  <2> HIDE DEF t
  <2> QED
    BY <2>2, <2>4, <2>6
<1> QED
  BY <1>1, <1>2

\* And shows the names when that category's does.
LEMMA PathShows ==
  ASSUME Typed, NEW p \in Categories \cup {Root}, p # Root => row[p].path = SlugPath(row[p].ids)
  PROVE  PathBelow(p).path = SlugPath(PathBelow(p).ids)
<1>1. CASE p = Root
  <2>1. PathBelow(p).path = <<>> /\ PathBelow(p).ids = <<>>
    BY <1>1 DEF PathBelow
  <2>2. <<>> \in Seq(Categories) /\ Len(<<>>) = 0
    BY EmptySeq
  <2>3. SlugPath(<<>>) \in Seq(Slug) /\ Len(SlugPath(<<>>)) = Len(<<>>)
    BY <2>2, SlugPathType DEF Typed
  <2>4. SlugPath(<<>>) = <<>>
    BY <2>2, <2>3, EmptySeq
  <2> QED
    BY <2>1, <2>4
<1>2. CASE p # Root
  <2> DEFINE s == row[p].ids
             t == Append(s, p)
             q == Append(SlugPath(s), SlugOf(p))
  <2>1. s \in Seq(Categories) /\ p \in Categories /\ SlugOf(p) \in Slug
    BY <1>2 DEF Typed, TypeOK, CategoryRow, SlugOf, Slug
  <2>2. PathBelow(p).ids = t /\ PathBelow(p).path = q
    BY <1>2 DEF PathBelow
  <2> HIDE DEF s
  <2>3. t \in Seq(Categories) /\ Len(t) = Len(s) + 1 /\ t[Len(s) + 1] = p
        /\ \A k \in 1 .. Len(s) : t[k] = s[k]
    BY <2>1, AppendProperties
  <2>4. SlugPath(s) \in Seq(Slug) /\ Len(SlugPath(s)) = Len(s)
        /\ \A k \in 1 .. Len(s) : SlugPath(s)[k] = SlugOf(s[k])
    BY <2>1, SlugPathType DEF Typed
  <2>5. q \in Seq(Slug) /\ Len(q) = Len(s) + 1 /\ q[Len(s) + 1] = SlugOf(p)
        /\ \A k \in 1 .. Len(s) : q[k] = SlugPath(s)[k]
    BY <2>1, <2>4, AppendProperties
  <2> HIDE DEF t, q
  <2>6. SlugPath(t) \in Seq(Slug) /\ Len(SlugPath(t)) = Len(t)
        /\ \A k \in 1 .. Len(t) : SlugPath(t)[k] = SlugOf(t[k])
    BY <2>3, SlugPathType DEF Typed
  <2> DEFINE l == Len(s)
  <2>7. l \in Nat
    BY <2>1
  <2>8. ASSUME NEW k \in 1 .. l + 1 PROVE q[k] = SlugPath(t)[k]
    <3>1. CASE k \in 1 .. l
      BY <2>3, <2>4, <2>5, <2>6, <2>7, <3>1
    <3>2. CASE k = l + 1
      BY <2>3, <2>5, <2>6, <2>7, <3>2
    <3> QED
      BY <2>7, <3>1, <3>2
  <2>9. q = SlugPath(t)
    BY <2>3, <2>5, <2>6, <2>8, SeqEqual
  <2> QED
    BY <2>2, <2>9
<1> QED
  BY <1>1, <1>2

\* A live category's path is the one below its parent.
LEMMA ParentsPath ==
  ASSUME Typed, Rooted(Ids, Lives), EndsInParent(Ids), NEW d \in Lives
  PROVE  /\ row[d].parent = Root \/ row[d].parent \in Lives
         /\ row[d].parent # Root => \E k \in 1 .. Len(Ids[d]) : Ids[d][k] = row[d].parent
         /\ row[d].ids = PathBelow(row[d].parent).ids
<1> DEFINE s == Ids[d]
           p == row[d].parent
           l == Len(s)
<1>1. d \in Categories /\ s = row[d].ids /\ s \in Seq(Lives)
      /\ \A k \in 1 .. l : Ids[s[k]] = SubSeq(s, 1, k - 1)
  BY DEF Rooted, Lives, Ids
<1>2. p = IF s = <<>> THEN Root ELSE s[Len(s)]
  BY DEF EndsInParent
<1> HIDE DEF s
<1>3. CASE s = <<>>
  <2>1. p = Root
    BY <1>2, <1>3
  <2> QED
    BY <1>1, <1>3, <2>1 DEF PathBelow, s
<1>4. CASE s # <<>>
  <2>1. l \in Nat /\ l # 0
    BY <1>1, <1>4, EmptySeq
  <2>2. l \in 1 .. l /\ p = s[l]
    BY <1>2, <1>4, <2>1
  <2>3. p \in Lives
    BY <1>1, <2>2, ElementOfSeq
  <2>4. p \in Categories /\ p # Root
    BY <2>3, RootIsNoCategory DEF Lives
  <2> DEFINE x == SubSeq(s, 1, l - 1)
             y == Append(x, p)
  <2>5. row[p].ids = x
    BY <1>1, <2>2, <2>4 DEF Ids
  <2>6. x \in Seq(Lives) /\ Len(x) = l - 1 /\ \A k \in 1 .. l - 1 : x[k] = s[k]
    BY <1>1, <2>2, Part
  <2> HIDE DEF x
  <2>7. y \in Seq(Lives) /\ Len(y) = Len(x) + 1 /\ y[Len(x) + 1] = p
        /\ \A k \in 1 .. Len(x) : y[k] = x[k]
    BY <2>3, <2>6, AppendProperties
  <2>8. PathBelow(p).ids = y
    BY <2>4, <2>5 DEF PathBelow
  <2> HIDE DEF y, p
  <2>9. Len(y) = l /\ \A k \in 1 .. l : y[k] = s[k]
    <3> HIDE DEF l
    <3> QED
      BY <2>1, <2>2, <2>6, <2>7
  <2>10. y = s
    BY <1>1, <2>7, <2>9, SeqEqual
  <2> QED
    BY <1>1, <2>2, <2>3, <2>8, <2>10 DEF p, s
<1> QED
  BY <1>3, <1>4

-----------------------------------------------------------------------------
(* The tree, one lemma per action. *)

\* A step that writes no row and leaves nothing due keeps the rows as they were.
LEMMA NoWrite ==
  ASSUME NEW r, Due(r) = {}, Due(r)' = {}, row' = row, Rooted(Final(r), Lives), EndsInParent(Final(r))
  PROVE  Rooted(Final(r), Lives)' /\ EndsInParent(Final(r))'
<1>1. Final(r)' = Final(r) /\ Lives' = Lives
  BY Settled, SettledNext, SameRows
<1> QED
  BY <1>1 DEF Rooted, EndsInParent

\* A request that ends with nothing due leaves a tree that agrees with itself.
LEMMA Ended ==
  ASSUME NEW r \in Requests, Typed, pc'[r] = "idle", row' = row, Due(r) = {},
         Rooted(Final(r), Lives), EndsInParent(Final(r)),
         \A d \in Lives : row[d].path = SlugPath(row[d].ids)
  PROVE  TreeFor(r)'
<1>1. Due(r)' = {} /\ Stale(r)' = {}
  BY DEF Due, Stale
<1>2. Rooted(Final(r), Lives)' /\ EndsInParent(Final(r))'
  BY <1>1, NoWrite
<1>3. KnowsTree(r)'
  BY DEF KnowsTree
<1>4. ShowsNames(r)'
  BY <1>1, SameRows DEF ShowsNames
<1> QED
  BY <1>2, <1>3, <1>4 DEF TreeFor

LEMMA BuildPathTree ==
  ASSUME Typed, NEW r \in Requests, NEW c \in Categories, NEW p \in Categories \cup {Root},
         NEW next \in {"create", "move", "rename"}, BuildPath(r, c, p, next), row' = row,
         Due(r) = {}, Rooted(Final(r), Lives), EndsInParent(Final(r)),
         p \in Lives => row[p].path = SlugPath(row[p].ids),
         next = "create" => row[c] = NoCategory,
         next = "move" => OutsideSubtree(c, p) /\ Live(c),
         next = "rename" => /\ p = Root \/ p \in Lives
                            /\ row[c].ids = PathBelow(p).ids /\ Live(c),
         \A d \in Lives : (d \in Descendants(c) /\ next = "rename")
                          \/ row[d].path = SlugPath(row[d].ids)
  PROVE  TreeFor(r)'
<1>1. CASE p # Root /\ ~Live(p)
  <2>1. pc'[r] = "idle" /\ next # "rename"
    BY <1>1 DEF BuildPath, Finish, GoTo, Typed, TypeOK, Lives
  <2> QED
    BY <2>1, Ended
<1>2. CASE ~(p # Root /\ ~Live(p))
  <2> DEFINE j == [cat |-> c, parent |-> p, todo |-> {},
                   ids |-> PathBelow(p).ids, path |-> PathBelow(p).path]
  <2>1. pc'[r] = next /\ job'[r] = j
    BY <1>2 DEF BuildPath, GoTo, Typed, TypeOK
  <2>2. job'[r].cat = c /\ job'[r].parent = p /\ job'[r].todo = {}
        /\ job'[r].ids = PathBelow(p).ids /\ job'[r].path = PathBelow(p).path
    BY <2>1
  <2>3. p = Root \/ p \in Lives
    BY <1>2 DEF Lives
  <2>4. Due(r)' = {}
    BY <2>1 DEF Due
  <2>5. Rooted(Final(r), Lives)' /\ EndsInParent(Final(r))'
    BY <2>4, NoWrite
  <2>6. KnowsTree(r)'
    BY <1>2, <2>1, <2>2, SameRows DEF KnowsTree
  <2>7. ShowsNames(r)'
    <3>1. PathBelow(p).path = SlugPath(PathBelow(p).ids)
      BY <2>3, PathShows
    <3>2. Stale(r)' = IF next = "rename" THEN Descendants(c) ELSE {}
      BY <2>1, <2>2, <2>4, SameRows DEF Stale
    <3>3. \A d \in Lives : d \notin Stale(r)' => row[d].path = SlugPath(row[d].ids)
      BY <3>2
    <3> QED
      BY <2>2, <3>1, <3>3, SameRows DEF ShowsNames
  <2> QED
    BY <2>5, <2>6, <2>7 DEF TreeFor
<1> QED
  BY <1>1, <1>2

LEMMA CreateBeginTree ==
  ASSUME Typed, NEW r \in Requests, TreeFor(r),
         NEW c \in Categories, NEW p \in Categories \cup {Root}, CreateBegin(r, c, p)
  PROVE  TreeFor(r)'
<1>1. pc[r] = "idle" /\ row[c] = NoCategory /\ BuildPath(r, c, p, "create") /\ row' = row
  BY DEF CreateBegin
<1>2. Due(r) = {} /\ Stale(r) = {}
  BY <1>1 DEF Due, Stale
<1>3. \A d \in Lives : row[d].path = SlugPath(row[d].ids)
  BY <1>2 DEF TreeFor, ShowsNames
<1> QED
  BY <1>1, <1>2, <1>3, BuildPathTree DEF TreeFor

LEMMA MoveBuildTree ==
  ASSUME Typed, NEW r \in Requests, TreeFor(r), MoveBuild(r)
  PROVE  TreeFor(r)'
<1> DEFINE c == job[r].cat
           p == job[r].parent
<1>1. pc[r] = "build_move" /\ BuildPath(r, c, p, "move") /\ row' = row
  BY DEF MoveBuild
<1>2. c \in Categories /\ p \in Categories \cup {Root}
  BY <1>1 DEF Typed, TypeOK, HasCategory, Job
<1>3. Due(r) = {} /\ Stale(r) = {}
  BY <1>1 DEF Due, Stale
<1>4. \A d \in Lives : row[d].path = SlugPath(row[d].ids)
  BY <1>3 DEF TreeFor, ShowsNames
<1>5. OutsideSubtree(c, p) /\ Live(c)
  BY <1>1 DEF TreeFor, KnowsTree
<1> HIDE DEF c, p
<1> QED
  BY <1>1, <1>2, <1>3, <1>4, <1>5, BuildPathTree DEF TreeFor

LEMMA RenameBuildTree ==
  ASSUME Typed, NEW r \in Requests, TreeFor(r), RenameBuild(r)
  PROVE  TreeFor(r)'
<1> DEFINE c == job[r].cat
           p == job[r].parent
<1>1. pc[r] = "build_rename" /\ BuildPath(r, c, p, "rename") /\ row' = row
  BY DEF RenameBuild
<1>2. c \in Categories /\ p \in Categories \cup {Root}
  BY <1>1 DEF Typed, TypeOK, HasCategory, Job
<1>3. Due(r) = {} /\ Stale(r) = Descendants(c)
  BY <1>1 DEF Due, Stale
<1>4. \A d \in Lives : d \in Descendants(c) \/ row[d].path = SlugPath(row[d].ids)
  BY <1>3 DEF TreeFor, ShowsNames
<1>5. p = row[c].parent /\ Live(c) /\ c \in Lives
  BY <1>1, <1>2 DEF TreeFor, KnowsTree, Lives
<1>6. Rooted(Ids, Lives) /\ EndsInParent(Ids)
  BY <1>3, Settled DEF TreeFor
<1>7. /\ p = Root \/ p \in Lives
      /\ p # Root => \E k \in 1 .. Len(Ids[c]) : Ids[c][k] = p
      /\ row[c].ids = PathBelow(p).ids
  BY <1>5, <1>6, ParentsPath
<1>8. ASSUME p \in Lives
      PROVE  row[p].path = SlugPath(row[p].ids)
  <2>1. p # Root
    BY <1>8, RootIsNoCategory DEF Lives
  <2>2. PICK k \in 1 .. Len(Ids[c]) : Ids[c][k] = p
    BY <1>7, <2>1
  <2>3. ~Contains(Ids[p], c)
    <3>1. ~Contains(Ids[c], c)
      BY <1>5, <1>6, NotBelowItself
    <3> HIDE DEF c
    <3>2. ~Contains(Ids[Ids[c][k]], c)
      BY <1>5, <1>6, <3>1, ContainsMore
    <3> QED
      BY <2>2, <3>2
  <2>4. p \notin Descendants(c)
    BY <1>8, <2>3 DEF Descendants, Ids, Lives
  <2> QED
    BY <1>4, <1>8, <2>4
<1> HIDE DEF c, p
<1> QED
  BY <1>1, <1>2, <1>3, <1>4, <1>5, <1>7, <1>8, BuildPathTree DEF TreeFor

LEMMA MoveBeginTree ==
  ASSUME Typed, NEW r \in Requests, TreeFor(r), ~MayLoop,
         NEW c \in Categories, NEW p \in Categories \cup {Root}, MoveBegin(r, c, p)
  PROVE  TreeFor(r)'
<1>1. pc[r] = "idle" /\ Live(c) /\ OutsideSubtree(c, p) /\ row' = row
  BY DEF MoveBegin
<1>2. Due(r) = {} /\ Stale(r) = {}
  BY <1>1 DEF Due, Stale
<1>3. Rooted(Final(r), Lives) /\ EndsInParent(Final(r))
      /\ \A d \in Lives : row[d].path = SlugPath(row[d].ids)
  BY <1>2 DEF TreeFor, ShowsNames
<1>4. CASE RefusedMove(c, p)
  <2>1. pc'[r] = "idle"
    BY <1>1, <1>4 DEF MoveBegin
  <2> QED
    BY <1>1, <1>2, <1>3, <2>1, Ended
<1>5. CASE ~RefusedMove(c, p)
  <2> DEFINE j == [NoJob EXCEPT !.cat = c, !.parent = p]
  <2>1. j.cat = c /\ j.parent = p
    BY DEF NoJob
  <2>2. job'[r] = j /\ pc'[r] = "build_move"
    BY <1>5 DEF MoveBegin, GoTo, Typed, TypeOK
  <2> HIDE DEF j
  <2>3. Due(r)' = {} /\ Stale(r)' = {}
    BY <2>2 DEF Due, Stale
  <2>4. Rooted(Final(r), Lives)' /\ EndsInParent(Final(r))'
    BY <1>1, <1>2, <1>3, <2>3, NoWrite
  <2>5. KnowsTree(r)'
    BY <1>1, <2>1, <2>2, SameRows DEF KnowsTree
  <2>6. ShowsNames(r)'
    BY <1>1, <1>3, <2>2, <2>3, SameRows DEF ShowsNames
  <2> QED
    BY <2>4, <2>5, <2>6 DEF TreeFor
<1> QED
  BY <1>4, <1>5

LEMMA RemoveBeginTree ==
  ASSUME Typed, NEW r \in Requests, TreeFor(r), NEW c \in Categories, RemoveBegin(r, c)
  PROVE  TreeFor(r)'
<1>1. pc[r] = "idle" /\ Live(c) /\ row' = row
  BY DEF RemoveBegin
<1>2. Due(r) = {} /\ Stale(r) = {}
  BY <1>1 DEF Due, Stale
<1>3. Rooted(Final(r), Lives) /\ EndsInParent(Final(r))
      /\ \A d \in Lives : row[d].path = SlugPath(row[d].ids)
  BY <1>2 DEF TreeFor, ShowsNames
<1> DEFINE j == [NoJob EXCEPT !.cat = c]
<1>4. j.cat = c
  BY DEF NoJob
<1>5. job'[r] = j /\ pc'[r] = "remove"
  BY DEF RemoveBegin, GoTo, Typed, TypeOK
<1> HIDE DEF j
<1>6. Due(r)' = {} /\ Stale(r)' = {}
  BY <1>5 DEF Due, Stale
<1>7. Rooted(Final(r), Lives)' /\ EndsInParent(Final(r))'
  BY <1>1, <1>2, <1>3, <1>6, NoWrite
<1>8. KnowsTree(r)'
  BY <1>1, <1>4, <1>5, SameRows DEF KnowsTree
<1>9. ShowsNames(r)'
  BY <1>1, <1>3, <1>5, <1>6, SameRows DEF ShowsNames
<1> QED
  BY <1>7, <1>8, <1>9 DEF TreeFor

LEMMA Firsts ==
  ASSUME NEW S, NEW f
  PROVE  {t[1] : t \in {<<d, f[d].ids>> : d \in S}} = S
<1> DEFINE T == {<<d, f[d].ids>> : d \in S}
<1>1. \A t \in T : t[1] \in S
  OBVIOUS
<1>2. \A d \in S : \E t \in T : t[1] = d
  <2> TAKE d \in S
  <2>1. <<d, f[d].ids>> \in T
    OBVIOUS
  <2>2. <<d, f[d].ids>>[1] = d
    OBVIOUS
  <2> QED
    BY <2>1, <2>2
<1> HIDE DEF T
<1>3. {t[1] : t \in T} = S
  BY <1>1, <1>2
<1> QED
  BY <1>3 DEF T

LEMMA RemoveFindTree ==
  ASSUME Typed, NEW r \in Requests, TreeFor(r), RemoveFind(r)
  PROVE  TreeFor(r)'
<1> DEFINE c == job[r].cat
           todo == {<<d, row[d].ids>> : d \in Descendants(c)}
<1>1. pc[r] = "remove" /\ row' = row /\ pc'[r] = "delete"
      /\ job'[r].todo = todo /\ job'[r].cat = c
  BY DEF RemoveFind, GoTo, Typed, TypeOK, Job
<1>2. Due(r) = {} /\ Stale(r) = {} /\ Due(r)' = {} /\ Stale(r)' = {}
  BY <1>1 DEF Due, Stale
<1>3. Rooted(Final(r), Lives)' /\ EndsInParent(Final(r))'
  BY <1>1, <1>2, NoWrite DEF TreeFor
<1>4. {t[1] : t \in todo} = Descendants(c)
  BY Firsts
<1> HIDE DEF todo
<1>5. IdsToDelete(r)' = {c} \cup Descendants(c)
  BY <1>1, <1>4 DEF IdsToDelete
<1>6. Live(c)
  BY <1>1 DEF TreeFor, KnowsTree
<1> HIDE DEF c
<1>7. KnowsTree(r)'
  BY <1>1, <1>5, <1>6, SameRows DEF KnowsTree
<1>8. ShowsNames(r)'
  BY <1>1, <1>2, SameRows DEF TreeFor, ShowsNames
<1> QED
  BY <1>3, <1>7, <1>8 DEF TreeFor

LEMMA InsertTree ==
  ASSUME Typed, NEW r \in Requests, TreeFor(r), Insert(r)
  PROVE  TreeFor(r)'
<1> DEFINE c == job[r].cat
           p == job[r].parent
           new == job[r].ids
<1>0. PICK flag \in BOOLEAN : row' = [row EXCEPT ![c] =
        [state |-> "live", parent |-> p, ids |-> new, path |-> job[r].path, name |-> 0,
         active |-> flag]]
  BY DEF Insert
<1> DEFINE x == [state |-> "live", parent |-> p, ids |-> new, path |-> job[r].path, name |-> 0,
                 active |-> flag]
<1>1. pc[r] = "create" /\ row' = [row EXCEPT ![c] = x] /\ pc'[r] = "idle"
  BY <1>0 DEF Insert, Finish, GoTo, Typed, TypeOK
<1>2. c \in Categories /\ p \in Categories \cup {Root} /\ new \in Seq(Categories)
  BY <1>1 DEF Typed, TypeOK, HasCategory, Job
<1>3. /\ x.state = "live" /\ x.parent = p /\ x.ids = new /\ x.path = job[r].path /\ x.name = 0
      /\ row'[c] = x /\ \A d \in Categories \ {c} : row'[d] = row[d]
  BY <1>1, <1>2 DEF Typed, TypeOK
<1>4. row[c] = NoCategory /\ (p = Root \/ Live(p)) /\ new = PathBelow(p).ids
      /\ job[r].path = SlugPath(new)
  BY <1>1 DEF TreeFor, KnowsTree, ShowsNames
<1> HIDE DEF x, new, p, c
<1>5. p = Root \/ p \in Lives
  BY <1>2, <1>4 DEF Lives
<1>6. Due(r) = {} /\ Stale(r) = {} /\ Due(r)' = {} /\ Stale(r)' = {}
  BY <1>1 DEF Due, Stale
<1>7. Rooted(Ids, Lives) /\ EndsInParent(Ids) /\ \A d \in Lives : row[d].path = SlugPath(row[d].ids)
  BY <1>6, Settled DEF TreeFor, ShowsNames
<1>8. Leads(Ids, Lives, new) /\ p = IF new = <<>> THEN Root ELSE new[Len(new)]
  BY <1>4, <1>5, <1>7, PathLeads
<1>9. c \notin Lives /\ Lives' = Lives \cup {c}
  BY <1>2, <1>3, <1>4 DEF Lives, Live, NoCategory
<1>10. Ids'[c] = new /\ \A d \in Lives : Ids'[d] = Ids[d]
  BY <1>2, <1>3, <1>9 DEF Ids, Lives
<1>11. Rooted(Ids', Lives')
  BY <1>7, <1>8, <1>9, <1>10, Grows
<1>12. Rooted(Final(r), Lives)'
  BY <1>6, <1>11, SettledNext DEF Rooted
<1>13. EndsInParent(Final(r))'
  <2>1. ASSUME NEW d \in Lives'
        PROVE  row'[d].parent = IF Ids'[d] = <<>> THEN Root ELSE Ids'[d][Len(Ids'[d])]
    <3>1. CASE d = c
      BY <1>3, <1>8, <1>10, <3>1
    <3>2. CASE d # c
      BY <1>3, <1>7, <1>9, <1>10, <3>2 DEF EndsInParent, Lives
    <3> QED
      BY <3>1, <3>2
  <2> QED
    BY <1>6, <2>1, SettledNext DEF EndsInParent
<1>14. KnowsTree(r)'
  BY <1>1 DEF KnowsTree
<1>15. \A s \in Seq(Categories) : SlugPath(s)' = SlugPath(s)
  <2> TAKE s \in Seq(Categories)
  <2>1. \A d \in Categories : row'[d].name = row[d].name
    BY <1>3, <1>4 DEF NoCategory
  <2>2. \A k \in 1 .. Len(s) : row'[s[k]].name = row[s[k]].name
    BY <2>1, ElementOfSeq
  <2> QED
    BY <2>2, NamesKept
<1>16. ShowsNames(r)'
  <2>1. ASSUME NEW d \in Lives'
        PROVE  (row[d].path = SlugPath(row[d].ids))'
    <3>1. CASE d = c
      BY <1>2, <1>3, <1>4, <1>15, <3>1
    <3>2. CASE d # c
      <4>1. d \in Lives /\ d \in Categories /\ row[d].ids \in Seq(Categories) /\ row'[d] = row[d]
        BY <1>3, <1>9, <3>2 DEF Lives, Typed, TypeOK, CategoryRow
      <4> QED
        BY <1>7, <1>15, <4>1
    <3> QED
      BY <3>1, <3>2
  <2> QED
    BY <1>1, <2>1 DEF ShowsNames
<1> QED
  BY <1>12, <1>13, <1>14, <1>16 DEF TreeFor

LEMMA MoveWriteTree ==
  ASSUME Typed, NEW r \in Requests, TreeFor(r), MoveWrite(r)
  PROVE  TreeFor(r)'
<1>0. pc[r] = "move" /\ job[r].cat \in Categories
  BY DEF MoveWrite, Typed, HasCategory
<1> PICK c \in Categories : c = job[r].cat
  BY <1>0
<1> DEFINE p == job[r].parent
           new == job[r].ids
           x == Placed(c, p, new, job[r].path)
<1>1. pc[r] = "move" /\ row' = [row EXCEPT ![c] = x] /\ pc'[r] = "find" /\ job' = job
  BY DEF MoveWrite, GoTo, Typed, TypeOK
<1>2. c \in Categories /\ p \in Categories \cup {Root} /\ new \in Seq(Categories)
  BY <1>1 DEF Typed, TypeOK, HasCategory, Job
<1>3. /\ x.state = row[c].state /\ x.parent = p /\ x.ids = new /\ x.path = job[r].path
      /\ x.name = row[c].name
      /\ row'[c] = x /\ \A d \in Categories \ {c} : row'[d] = row[d]
  <2>1. row[c] \in CategoryRow
    BY <1>2 DEF Typed, TypeOK
  <2> QED
    BY <1>1, <1>2, <2>1 DEF Typed, TypeOK, CategoryRow, Placed
<1>4. Live(c) /\ (p = Root \/ Live(p)) /\ new = PathBelow(p).ids /\ OutsideSubtree(c, p)
      /\ job[r].path = SlugPath(new)
  BY <1>1 DEF TreeFor, KnowsTree, ShowsNames
<1>5. job'[r].cat = c /\ job'[r].ids = new
  BY <1>1
<1> HIDE DEF x, new, p
<1>6. (p = Root \/ p \in Lives) /\ c \in Lives
  BY <1>2, <1>4 DEF Lives
<1>7. Due(r) = {} /\ Stale(r) = {} /\ Due(r)' = Descendants(c)' /\ Stale(r)' = Descendants(c)'
  BY <1>1, <1>5 DEF Due, Stale
<1>8. Rooted(Ids, Lives) /\ EndsInParent(Ids) /\ \A d \in Lives : row[d].path = SlugPath(row[d].ids)
  BY <1>7, Settled DEF TreeFor, ShowsNames
<1>9. Leads(Ids, Lives, new) /\ p = IF new = <<>> THEN Root ELSE new[Len(new)]
  BY <1>4, <1>6, <1>8, PathLeads
<1>10. Lives' = Lives
  BY <1>2, <1>3 DEF Lives, Live
<1>11. ~Contains(new, c)
  <2>1. CASE p = Root
    <3>1. new = <<>> /\ Len(<<>>) = 0
      BY <1>4, <2>1, EmptySeq DEF PathBelow
    <3> QED
      BY <3>1 DEF Contains
  <2>2. CASE p # Root
    <3> DEFINE s == row[p].ids
    <3>1. s \in Seq(Categories) /\ p \in Categories /\ p # c /\ ~Contains(s, c)
      BY <1>2, <1>4, <2>2 DEF OutsideSubtree, Typed, TypeOK, CategoryRow
    <3>2. new = Append(s, p)
      BY <1>4, <2>2 DEF PathBelow
    <3> HIDE DEF s
    <3>3. Len(new) = Len(s) + 1 /\ new[Len(s) + 1] = p /\ \A k \in 1 .. Len(s) : new[k] = s[k]
      BY <3>1, <3>2, AppendProperties
    <3>4. \A k \in 1 .. Len(new) : k \in 1 .. Len(s) \/ k = Len(s) + 1
      <4> DEFINE l == Len(s)
      <4>1. l \in Nat
        BY <3>1
      <4>2. Len(new) = l + 1
        BY <3>3
      <4> HIDE DEF l
      <4>3. \A k \in 1 .. l + 1 : k \in 1 .. l \/ k = l + 1
        BY <4>1
      <4> QED
        BY <4>2, <4>3 DEF l
    <3> QED
      BY <3>1, <3>3, <3>4 DEF Contains
  <2> QED
    BY <2>1, <2>2
<1> DEFINE g == Final(r)'
<1>12. \A d \in Lives : g[d] = IF d = c THEN new
                               ELSE IF Contains(Ids[d], c) THEN Spliced(Ids[d], c, new) ELSE Ids[d]
  <2> TAKE d \in Lives
  <2>1. d \in Categories
    BY DEF Lives
  <2>2. g[d] = IF d \in Descendants(c)' THEN Spliced(row'[d].ids, c, new) ELSE row'[d].ids
    BY <1>5, <1>7, <2>1 DEF Final
  <2>3. CASE d = c
    BY <1>3, <2>2, <2>3 DEF Descendants
  <2>4. CASE d # c
    BY <1>3, <2>1, <2>2, <2>4 DEF Descendants, Live, Lives, Ids
  <2> QED
    BY <2>3, <2>4
<1> HIDE DEF g
<1>13. Moved(Ids, Lives, c, new, g)
  BY <1>12 DEF Moved
<1>14. Rooted(g, Lives)
  BY <1>6, <1>8, <1>9, <1>11, <1>13, MoveKeepsRoots
<1>15. Rooted(Final(r), Lives)'
  BY <1>10, <1>14 DEF Rooted, g
<1>16. EndsInParent(Final(r))'
  <2>1. ASSUME NEW d \in Lives
        PROVE  row'[d].parent = IF g[d] = <<>> THEN Root ELSE g[d][Len(g[d])]
    <3>1. CASE d = c
      BY <1>3, <1>9, <1>12, <3>1
    <3>2. CASE d # c
      <4>1. row'[d].parent = IF Ids[d] = <<>> THEN Root ELSE Ids[d][Len(Ids[d])]
        BY <1>3, <1>8, <3>2 DEF EndsInParent, Lives
      <4>2. CASE Contains(Ids[d], c)
        <5>1. new \in Seq(Lives)
          BY <1>9 DEF Leads
        <5>2. /\ Ids[d] # <<>> /\ Spliced(Ids[d], c, new) # <<>>
              /\ Spliced(Ids[d], c, new)[Len(Spliced(Ids[d], c, new))] = Ids[d][Len(Ids[d])]
          BY <1>6, <1>8, <4>2, <5>1, KeepsItsEnd
        <5> QED
          BY <1>12, <3>2, <4>1, <4>2, <5>2
      <4>3. CASE ~Contains(Ids[d], c)
        BY <1>12, <3>2, <4>1, <4>3
      <4> QED
        BY <4>2, <4>3
    <3> QED
      BY <3>1, <3>2
  <2> QED
    BY <1>10, <2>1 DEF EndsInParent, g
<1>17. KnowsTree(r)'
  BY <1>1, <1>3, <1>4, <1>5 DEF KnowsTree, Live
<1>18. \A s \in Seq(Categories) : SlugPath(s)' = SlugPath(s)
  <2> TAKE s \in Seq(Categories)
  <2>1. \A d \in Categories : row'[d].name = row[d].name
    BY <1>3
  <2>2. \A k \in 1 .. Len(s) : row'[s[k]].name = row[s[k]].name
    BY <2>1, ElementOfSeq
  <2> QED
    BY <2>2, NamesKept
<1>19. ShowsNames(r)'
  <2>1. ASSUME NEW d \in Lives'
        PROVE  (row[d].path = SlugPath(row[d].ids))'
    <3>1. CASE d = c
      BY <1>2, <1>3, <1>4, <1>18, <3>1
    <3>2. CASE d # c
      <4>1. d \in Lives /\ d \in Categories /\ row[d].ids \in Seq(Categories) /\ row'[d] = row[d]
        BY <1>3, <1>10, <3>2 DEF Lives, Typed, TypeOK, CategoryRow
      <4> QED
        BY <1>8, <1>18, <4>1
    <3> QED
      BY <3>1, <3>2
  <2> QED
    BY <1>1, <2>1 DEF ShowsNames
<1> QED
  BY <1>15, <1>16, <1>17, <1>19 DEF TreeFor

\* The renamed category is in the slug paths of its descendants only.
LEMMA SwitchActiveTree ==
  ASSUME Typed, NEW r \in Requests, TreeFor(r), NEW c \in Categories, SwitchActive(r, c)
  PROVE  TreeFor(r)'
<1> DEFINE x == [row[c] EXCEPT !.active = ~row[c].active]
<1>1. pc[r] = "idle" /\ row' = [row EXCEPT ![c] = x] /\ pc'[r] = "idle"
  BY DEF SwitchActive
<1>2. \A d \in Categories :
        /\ row'[d].state = row[d].state /\ row'[d].parent = row[d].parent
        /\ row'[d].ids = row[d].ids /\ row'[d].path = row[d].path /\ row'[d].name = row[d].name
  <2>1. row[c] \in CategoryRow
    BY DEF Typed, TypeOK
  <2>2. /\ x.state = row[c].state /\ x.parent = row[c].parent /\ x.ids = row[c].ids
        /\ x.path = row[c].path /\ x.name = row[c].name
    BY <2>1 DEF CategoryRow
  <2>3. row'[c] = x /\ \A d \in Categories \ {c} : row'[d] = row[d]
    BY <1>1 DEF Typed, TypeOK
  <2> HIDE DEF x
  <2> QED
    BY <2>2, <2>3
<1> HIDE DEF x
<1>3. Due(r) = {} /\ Stale(r) = {} /\ Due(r)' = {} /\ Stale(r)' = {}
  BY <1>1 DEF Due, Stale
<1>4. Rooted(Ids, Lives) /\ EndsInParent(Ids) /\ \A d \in Lives : row[d].path = SlugPath(row[d].ids)
  BY <1>3, Settled DEF TreeFor, ShowsNames
<1>5. Ids' = Ids /\ Lives' = Lives
  BY <1>2 DEF Ids, Lives, Live
<1>6. Rooted(Final(r), Lives)' /\ EndsInParent(Final(r))'
  <2>1. Final(r)' = Ids
    BY <1>3, <1>5, SettledNext
  <2>2. \A d \in Lives : row'[d].parent = row[d].parent
    BY <1>2 DEF Lives
  <2> QED
    BY <1>4, <1>5, <2>1, <2>2 DEF Rooted, EndsInParent
<1>7. KnowsTree(r)'
  BY <1>1 DEF KnowsTree
<1>8. ShowsNames(r)'
  <2>1. ASSUME NEW d \in Lives PROVE (row[d].path = SlugPath(row[d].ids))'
    <3>1. PICK u \in Seq(Categories) : u = row[d].ids
      BY DEF Lives, Typed, TypeOK, CategoryRow
    <3>2. SlugPath(u)' = SlugPath(u)
      BY <1>2, ElementOfSeq, NamesKept
    <3>3. row'[d].ids = u /\ row'[d].path = SlugPath(u)
      BY <1>2, <1>4, <3>1 DEF Lives
    <3> QED
      BY <3>2, <3>3
  <2> QED
    BY <1>1, <1>5, <2>1 DEF ShowsNames
<1> QED
  BY <1>6, <1>7, <1>8 DEF TreeFor

LEMMA RenameBeginTree ==
  ASSUME Typed, NEW r \in Requests, TreeFor(r), NEW c \in Categories, RenameBegin(r, c)
  PROVE  TreeFor(r)'
<1>0. PICK flag \in BOOLEAN : row' = [row EXCEPT ![c].name = 1 - @, ![c].active = flag]
  BY DEF RenameBegin
<1> DEFINE j == [NoJob EXCEPT !.cat = c, !.parent = row[c].parent]
           x == [row[c] EXCEPT !.name = 1 - row[c].name, !.active = flag]
<1>1. pc[r] = "idle" /\ Live(c) /\ row' = [row EXCEPT ![c] = x] /\ pc'[r] = "build_rename"
      /\ job'[r] = j
  BY <1>0 DEF RenameBegin, GoTo, Typed, TypeOK
<1>2. j.cat = c /\ j.parent = row[c].parent
  BY DEF NoJob
<1>3. /\ x.state = row[c].state /\ x.parent = row[c].parent /\ x.ids = row[c].ids
      /\ x.path = row[c].path
      /\ row'[c] = x /\ \A d \in Categories \ {c} : row'[d] = row[d]
  <2>1. row[c] \in CategoryRow
    BY DEF Typed, TypeOK
  <2> QED
    BY <1>1, <2>1 DEF Typed, TypeOK, CategoryRow
<1> HIDE DEF j, x
<1>4. \A d \in Categories : row'[d].state = row[d].state /\ row'[d].parent = row[d].parent
                            /\ row'[d].ids = row[d].ids /\ row'[d].path = row[d].path
  BY <1>3
<1>5. Due(r) = {} /\ Stale(r) = {} /\ Due(r)' = {} /\ Stale(r)' = Descendants(c)'
  BY <1>1, <1>2 DEF Due, Stale
<1>6. Rooted(Ids, Lives) /\ EndsInParent(Ids) /\ \A d \in Lives : row[d].path = SlugPath(row[d].ids)
  BY <1>5, Settled DEF TreeFor, ShowsNames
<1>7. Ids' = Ids /\ Lives' = Lives /\ Descendants(c)' = Descendants(c)
  BY <1>4 DEF Ids, Lives, Live, Descendants
<1>8. Rooted(Final(r), Lives)' /\ EndsInParent(Final(r))'
  <2>1. Final(r)' = Ids
    BY <1>5, <1>7, SettledNext
  <2>2. \A d \in Lives : row'[d].parent = row[d].parent
    BY <1>4 DEF Lives
  <2> QED
    BY <1>6, <1>7, <2>1, <2>2 DEF Rooted, EndsInParent
<1>9. KnowsTree(r)'
  BY <1>1, <1>2, <1>4 DEF KnowsTree, Live
<1>10. ShowsNames(r)'
  <2>1. ASSUME NEW d \in Lives', d \notin Descendants(c)
        PROVE  (row[d].path = SlugPath(row[d].ids))'
    <3> DEFINE s == row[d].ids
    <3>1. d \in Lives /\ d \in Categories /\ s \in Seq(Categories) /\ s = Ids[d]
      BY <1>7 DEF Lives, Ids, Typed, TypeOK, CategoryRow
    <3>2. ~Contains(Ids[d], c)
      <4>1. CASE d = c
        BY <1>6, <3>1, <4>1, NotBelowItself
      <4>2. CASE d # c
        BY <2>1, <3>1, <4>2 DEF Descendants, Lives, Ids
      <4> QED
        BY <4>1, <4>2
    <3>3. PICK u \in Seq(Categories) : u = s
      BY <3>1
    <3>4. \A k \in 1 .. Len(u) : row'[u[k]].name = row[u[k]].name
      <4> TAKE k \in 1 .. Len(u)
      <4>1. u[k] # c
        BY <3>1, <3>2, <3>3 DEF Contains
      <4>2. u[k] \in Categories
        BY ElementOfSeq
      <4> QED
        BY <1>3, <4>1, <4>2
    <3>5. SlugPath(u)' = SlugPath(u)
      BY <3>4, NamesKept
    <3>6. row[d].path = SlugPath(u)
      BY <1>6, <3>1, <3>3
    <3>7. row'[d].ids = u /\ row'[d].path = row[d].path
      BY <1>4, <3>1, <3>3
    <3> QED
      BY <3>5, <3>6, <3>7
  <2> QED
    BY <1>1, <1>5, <1>7, <2>1 DEF ShowsNames
<1> QED
  BY <1>8, <1>9, <1>10 DEF TreeFor

\* The renamed category keeps its ids, so all that is due are the ids that are there.
LEMMA RenameWriteTree ==
  ASSUME Typed, NEW r \in Requests, TreeFor(r), RenameWrite(r)
  PROVE  TreeFor(r)'
<1>0. pc[r] = "rename" /\ job[r].cat \in Categories
  BY DEF RenameWrite, Typed, HasCategory
<1> PICK c \in Categories : c = job[r].cat
  BY <1>0
<1> DEFINE new == job[r].ids
           x == Placed(c, row[c].parent, new, job[r].path)
<1>1. row' = [row EXCEPT ![c] = x] /\ pc'[r] = "find" /\ job' = job
  BY DEF RenameWrite, GoTo, Typed, TypeOK
<1>2. new \in Seq(Categories)
  BY <1>0 DEF Typed, TypeOK, Job
<1>3. /\ x.state = row[c].state /\ x.parent = row[c].parent /\ x.ids = new
      /\ x.path = job[r].path /\ x.name = row[c].name
      /\ row'[c] = x /\ \A d \in Categories \ {c} : row'[d] = row[d]
  <2>1. row[c] \in CategoryRow
    BY DEF Typed, TypeOK
  <2> QED
    BY <1>1, <1>2, <2>1 DEF Typed, TypeOK, CategoryRow, Placed
<1>4. Live(c) /\ new = row[c].ids /\ job[r].path = SlugPath(new)
  BY <1>0 DEF TreeFor, KnowsTree, ShowsNames
<1>5. job'[r].cat = c /\ job'[r].ids = new
  BY <1>1
<1> HIDE DEF x, new
<1>6. c \in Lives
  BY <1>4 DEF Lives
<1>7. Due(r) = {} /\ Stale(r) = Descendants(c)
      /\ Due(r)' = Descendants(c)' /\ Stale(r)' = Descendants(c)'
  BY <1>0, <1>1, <1>5 DEF Due, Stale
<1>8. Rooted(Ids, Lives) /\ EndsInParent(Ids)
      /\ \A d \in Lives \ Descendants(c) : row[d].path = SlugPath(row[d].ids)
  BY <1>7, Settled DEF TreeFor, ShowsNames
<1>9. \A d \in Categories : row'[d].state = row[d].state /\ row'[d].parent = row[d].parent
                            /\ row'[d].ids = row[d].ids /\ row'[d].name = row[d].name
  BY <1>3, <1>4
<1>10. Lives' = Lives /\ Descendants(c)' = Descendants(c)
  BY <1>9 DEF Lives, Live, Descendants
<1> DEFINE g == Final(r)'
<1>11. \A d \in Lives : g[d] = Ids[d]
  <2> TAKE d \in Lives
  <2>1. d \in Categories /\ Ids[d] = row[d].ids /\ row'[d].ids = row[d].ids /\ Ids[c] = row[c].ids
    BY <1>9 DEF Lives, Ids
  <2>2. g[d] = IF d \in Descendants(c) THEN Spliced(row'[d].ids, c, new) ELSE row'[d].ids
    BY <1>5, <1>7, <1>10, <2>1 DEF Final
  <2>3. CASE d \in Descendants(c)
    <3>1. Contains(Ids[d], c)
      BY <2>1, <2>3 DEF Descendants
    <3>2. Spliced(Ids[d], c, Ids[c]) = Ids[d]
      BY <1>6, <1>8, <3>1, RestoresItself
    <3> QED
      BY <1>4, <2>1, <2>2, <2>3, <3>2
  <2>4. CASE d \notin Descendants(c)
    BY <2>1, <2>2, <2>4
  <2> QED
    BY <2>3, <2>4
<1> HIDE DEF g
<1>12. Rooted(g, Lives)
  <2>1. ASSUME NEW d \in Lives
        PROVE  g[d] \in Seq(Lives) /\ \A k \in 1 .. Len(g[d]) : g[g[d][k]] = SubSeq(g[d], 1, k - 1)
    <3>1. Ids[d] \in Seq(Lives)
          /\ \A k \in 1 .. Len(Ids[d]) : Ids[Ids[d][k]] = SubSeq(Ids[d], 1, k - 1)
      BY <1>8 DEF Rooted
    <3>2. \A k \in 1 .. Len(Ids[d]) : Ids[d][k] \in Lives
      BY <3>1, ElementOfSeq
    <3> QED
      BY <1>11, <3>1, <3>2
  <2> QED
    BY <2>1 DEF Rooted
<1>13. Rooted(Final(r), Lives)'
  BY <1>10, <1>12 DEF Rooted, g
<1>14. EndsInParent(Final(r))'
  <2>1. ASSUME NEW d \in Lives
        PROVE  row'[d].parent = IF g[d] = <<>> THEN Root ELSE g[d][Len(g[d])]
    BY <1>8, <1>9, <1>11 DEF EndsInParent, Lives
  <2> QED
    BY <1>10, <2>1 DEF EndsInParent, g
<1>15. KnowsTree(r)'
  BY <1>1, <1>3, <1>4, <1>5 DEF KnowsTree, Live
<1>16. \A s \in Seq(Categories) : SlugPath(s)' = SlugPath(s)
  <2> TAKE s \in Seq(Categories)
  <2>1. \A k \in 1 .. Len(s) : row'[s[k]].name = row[s[k]].name
    BY <1>9, ElementOfSeq
  <2> QED
    BY <2>1, NamesKept
<1>17. ShowsNames(r)'
  <2>1. ASSUME NEW d \in Lives', d \notin Descendants(c)
        PROVE  (row[d].path = SlugPath(row[d].ids))'
    <3>1. CASE d = c
      BY <1>2, <1>3, <1>4, <1>16, <3>1
    <3>2. CASE d # c
      <4>1. d \in Lives /\ d \in Categories /\ row[d].ids \in Seq(Categories) /\ row'[d] = row[d]
        BY <1>3, <1>10, <3>2 DEF Lives, Typed, TypeOK, CategoryRow
      <4> QED
        BY <1>8, <1>16, <2>1, <4>1
    <3> QED
      BY <3>1, <3>2
  <2> QED
    BY <1>1, <1>7, <1>10, <2>1 DEF ShowsNames
<1> QED
  BY <1>13, <1>14, <1>15, <1>17 DEF TreeFor

LEMMA FindDescendantsTree ==
  ASSUME Typed, NEW r \in Requests, TreeFor(r), FindDescendants(r)
  PROVE  TreeFor(r)'
<1>0. pc[r] = "find" /\ job[r].cat \in Categories
  BY DEF FindDescendants, Typed, HasCategory
<1> PICK c \in Categories : c = job[r].cat
  BY <1>0
<1>1. Due(r) = Descendants(c) /\ Stale(r) = Descendants(c) /\ row' = row
  BY <1>0 DEF Due, Stale, FindDescendants
<1>2. CASE Descendants(c) = {}
  <2>1. pc'[r] = "idle"
    BY <1>2 DEF FindDescendants, Finish, GoTo, Typed, TypeOK
  <2>2. \A d \in Lives : row[d].path = SlugPath(row[d].ids)
    BY <1>1, <1>2 DEF TreeFor, ShowsNames
  <2> QED
    BY <1>1, <1>2, <2>1, <2>2, Ended DEF TreeFor
<1>3. CASE Descendants(c) # {}
  <2> DEFINE todo == {<<d, row[d].ids>> : d \in Descendants(c)}
  <2>1. pc'[r] = "rewrite" /\ job'[r] = [job[r] EXCEPT !.todo = todo]
    BY <1>3 DEF FindDescendants, GoTo, Typed, TypeOK
  <2>2. {t[1] : t \in todo} = Descendants(c)
    BY Firsts
  <2>3. \A t \in todo : t[1] # c /\ Live(t[1]) /\ t[2] = row[t[1]].ids
    BY DEF Descendants
  <2> HIDE DEF todo
  <2>4. job'[r].todo = todo /\ job'[r].cat = c /\ job'[r].ids = job[r].ids
    BY <2>1 DEF Typed, TypeOK, Job
  <2>5. Due(r)' = Descendants(c) /\ Stale(r)' = Descendants(c)
    BY <2>1, <2>2, <2>4 DEF Due, Stale
  <2>6. Final(r)' = Final(r)
    BY <1>1, <2>4, <2>5 DEF Final
  <2>7. Rooted(Final(r), Lives)' /\ EndsInParent(Final(r))'
    BY <1>1, <2>6, SameRows DEF TreeFor, Rooted, EndsInParent
  <2>8. KnowsTree(r)'
    <3>1. Live(c) /\ job[r].ids = row[c].ids
      BY <1>0 DEF TreeFor, KnowsTree
    <3> QED
      BY <1>1, <2>1, <2>3, <2>4, <3>1, SameRows DEF KnowsTree
  <2>9. ShowsNames(r)'
    BY <1>1, <2>1, <2>5, SameRows DEF TreeFor, ShowsNames
  <2> QED
    BY <2>7, <2>8, <2>9 DEF TreeFor
<1> QED
  BY <1>2, <1>3

\* A rewritten path is the one that was due, so what the rows will be does not change.
LEMMA RewriteDescendantTree ==
  ASSUME Typed, NEW r \in Requests, TreeFor(r), RewriteDescendant(r)
  PROVE  TreeFor(r)'
<1>0. pc[r] = "rewrite" /\ job[r].cat \in Categories /\ job[r] \in Job
  BY DEF RewriteDescendant, Typed, TypeOK, HasCategory
<1> PICK c \in Categories : c = job[r].cat
  BY <1>0
<1> PICK new \in Seq(Categories) : new = job[r].ids
  BY <1>0 DEF Job
<1> PICK todo \in SUBSET (Categories \X Seq(Categories)) : todo = job[r].todo
  BY <1>0 DEF Job
<1>1. PICK t \in todo :
        /\ row' = [row EXCEPT ![t[1]] = Placed(t[1], row[t[1]].parent,
                     Spliced(t[2], c, new), SlugPath(Spliced(t[2], c, new)))]
        /\ IF todo = {t} THEN Finish(r)
           ELSE job' = [job EXCEPT ![r].todo = @ \ {t}] /\ UNCHANGED pc
  BY DEF RewriteDescendant
<1> PICK e \in Categories : e = t[1]
  OBVIOUS
<1>2. t[2] \in Seq(Categories) /\ Spliced(t[2], c, new) \in Seq(Categories)
  BY SplicedType
<1> PICK ids \in Seq(Categories) : ids = Spliced(t[2], c, new)
  BY <1>2
<1> DEFINE x == Placed(e, row[e].parent, ids, SlugPath(ids))
<1>3. /\ x.state = row[e].state /\ x.parent = row[e].parent /\ x.ids = ids
      /\ x.path = SlugPath(ids) /\ x.name = row[e].name
      /\ row'[e] = x /\ \A d \in Categories \ {e} : row'[d] = row[d]
  <2>1. row[e] \in CategoryRow
    BY DEF Typed, TypeOK
  <2> QED
    BY <1>1, <2>1 DEF Typed, TypeOK, CategoryRow, Placed
<1> HIDE DEF x
<1>4. Live(c) /\ new = row[c].ids
      /\ \A u \in todo : u[1] # c /\ Live(u[1]) /\ u[2] = row[u[1]].ids
  BY <1>0 DEF TreeFor, KnowsTree
<1>5. e # c /\ t[2] = row[e].ids
  BY <1>4
<1>6. ASSUME NEW u \in todo, u # t PROVE u[1] # e
  <2>1. u = <<u[1], u[2]>> /\ t = <<t[1], t[2]>>
    OBVIOUS
  <2>2. u[2] = row[u[1]].ids /\ t[2] = row[t[1]].ids
    BY <1>4
  <2> QED
    BY <1>6, <2>1, <2>2
<1> DEFINE due == {u[1] : u \in todo}
<1>7. Due(r) = due /\ Stale(r) = due
  BY <1>0 DEF Due, Stale
<1>8. e \in due /\ {u[1] : u \in todo \ {t}} = due \ {e}
  BY <1>6
<1>9. Due(r)' = due \ {e} /\ Stale(r)' = due \ {e} /\ pc'[r] \in {"idle", "rewrite"}
      /\ (pc'[r] = "rewrite" => /\ job'[r].cat = c /\ job'[r].ids = new
                                /\ job'[r].todo = todo \ {t})
  <2>1. CASE todo = {t}
    <3>1. pc'[r] = "idle"
      BY <1>1, <2>1 DEF Finish, GoTo, Typed, TypeOK
    <3>2. due \ {e} = {}
      BY <1>8, <2>1
    <3> QED
      BY <3>1, <3>2 DEF Due, Stale
  <2>2. CASE todo # {t}
    <3>1. pc'[r] = "rewrite" /\ job'[r] = [job[r] EXCEPT !.todo = todo \ {t}]
      BY <1>0, <1>1, <2>2 DEF Typed, TypeOK
    <3>2. job'[r].cat = c /\ job'[r].ids = new /\ job'[r].todo = todo \ {t}
      BY <1>0, <3>1 DEF Job
    <3> HIDE DEF due
    <3> QED
      BY <1>8, <3>1, <3>2 DEF Due, Stale
  <2> QED
    BY <2>1, <2>2
<1> HIDE DEF due
<1>10. \A d \in Categories : row'[d].state = row[d].state /\ row'[d].parent = row[d].parent
                             /\ row'[d].name = row[d].name
  BY <1>3
<1>11. Lives' = Lives
  BY <1>10 DEF Lives, Live
<1>12. Final(r)' = Final(r)
  <2>1. ASSUME NEW d \in Categories PROVE Final(r)'[d] = Final(r)[d]
    <3>1. Final(r)[d] = IF d \in due THEN Spliced(row[d].ids, c, new) ELSE row[d].ids
      BY <1>7 DEF Final
    <3>2. CASE d = e
      <4>1. Final(r)'[d] = row'[d].ids
        BY <1>9, <3>2 DEF Final
      <4> QED
        BY <1>3, <1>5, <1>8, <3>1, <3>2, <4>1
    <3>3. CASE d # e /\ d \in due
      <4>1. pc'[r] = "rewrite"
        BY <1>9, <3>3 DEF Due
      <4>2. Final(r)'[d] = Spliced(row'[d].ids, c, new)
        BY <1>9, <3>3, <4>1 DEF Final
      <4> QED
        BY <1>3, <3>1, <3>3, <4>2
    <3>4. CASE d # e /\ d \notin due
      <4>1. Final(r)'[d] = row'[d].ids
        BY <1>9, <3>4 DEF Final
      <4> QED
        BY <1>3, <3>1, <3>4, <4>1
    <3> QED
      BY <3>2, <3>3, <3>4
  <2>2. /\ Final(r) = [d \in Categories |-> Final(r)[d]]
        /\ Final(r)' = [d \in Categories |-> Final(r)'[d]]
    BY DEF Final
  <2> QED
    BY <2>1, <2>2
<1>13. Rooted(Final(r), Lives)'
  BY <1>11, <1>12 DEF TreeFor, Rooted
<1>14. EndsInParent(Final(r))'
  <2>1. \A d \in Lives : row'[d].parent = row[d].parent
    BY <1>10 DEF Lives
  <2> QED
    BY <1>11, <1>12, <2>1 DEF TreeFor, EndsInParent
<1>15. KnowsTree(r)'
  <2>1. CASE pc'[r] = "idle"
    BY <2>1 DEF KnowsTree
  <2>2. CASE pc'[r] = "rewrite"
    <3>1. \A u \in todo \ {t} : u[1] # c /\ row'[u[1]].state = "live" /\ u[2] = row'[u[1]].ids
      BY <1>3, <1>4, <1>6 DEF Live
    <3>2. row'[c].state = "live" /\ new = row'[c].ids
      BY <1>3, <1>4, <1>5 DEF Live
    <3> QED
      BY <1>9, <2>2, <3>1, <3>2 DEF KnowsTree, Live
  <2> QED
    BY <1>9, <2>1, <2>2
<1>16. \A s \in Seq(Categories) : SlugPath(s)' = SlugPath(s)
  <2> TAKE s \in Seq(Categories)
  <2>1. \A k \in 1 .. Len(s) : row'[s[k]].name = row[s[k]].name
    BY <1>10, ElementOfSeq
  <2> QED
    BY <2>1, NamesKept
<1>17. ShowsNames(r)'
  <2>1. ASSUME NEW d \in Lives', d \notin due \ {e}
        PROVE  (row[d].path = SlugPath(row[d].ids))'
    <3>1. CASE d = e
      BY <1>3, <1>16, <3>1
    <3>2. CASE d # e
      <4>1. d \in Lives \ due /\ d \in Categories /\ row[d].ids \in Seq(Categories)
            /\ row'[d] = row[d]
        BY <1>3, <1>11, <2>1, <3>2 DEF Lives, Typed, TypeOK, CategoryRow
      <4>2. row[d].path = SlugPath(row[d].ids)
        BY <1>7, <4>1 DEF TreeFor, ShowsNames
      <4> QED
        BY <1>16, <4>1, <4>2
    <3> QED
      BY <3>1, <3>2
  <2> QED
    BY <1>9, <2>1 DEF ShowsNames
<1> QED
  BY <1>13, <1>14, <1>15, <1>17 DEF TreeFor

\* A category goes with all that it is in the path of, so no path loses an id.
LEMMA DeleteTree ==
  ASSUME Typed, NEW r \in Requests, TreeFor(r), Delete(r)
  PROVE  TreeFor(r)'
<1>0. pc[r] = "delete" /\ job[r].cat \in Categories /\ pc'[r] = "idle"
  BY DEF Delete, Finish, GoTo, Typed, TypeOK, HasCategory
<1> PICK c \in Categories : c = job[r].cat
  BY <1>0
<1>1. Due(r) = {} /\ Stale(r) = {} /\ Due(r)' = {} /\ Stale(r)' = {}
  BY <1>0 DEF Due, Stale
<1>2. Rooted(Ids, Lives) /\ EndsInParent(Ids) /\ \A d \in Lives : row[d].path = SlugPath(row[d].ids)
  BY <1>1, Settled DEF TreeFor, ShowsNames
<1>3. IdsToDelete(r) = {c} \cup Descendants(c)
  BY <1>0 DEF TreeFor, KnowsTree
<1>4. \A d \in Categories :
        /\ row'[d].state = IF d \in {c} \cup Descendants(c) THEN "deleted" ELSE row[d].state
        /\ row'[d].parent = row[d].parent /\ row'[d].ids = row[d].ids
        /\ row'[d].path = row[d].path /\ row'[d].name = row[d].name
  BY <1>3 DEF Delete, Typed, TypeOK, CategoryRow
<1>5. Ids' = Ids
  BY <1>4 DEF Ids
<1>6. Lives' = {d \in Lives : d # c /\ ~Contains(Ids[d], c)}
  BY <1>4 DEF Lives, Live, Descendants, Ids
<1>7. Rooted(Ids', Lives')
  BY <1>2, <1>5, <1>6, Pruned
<1>8. Rooted(Final(r), Lives)'
  <2>1. Final(r)' = Ids'
    BY <1>1, SettledNext
  <2> QED
    BY <1>7, <2>1 DEF Rooted
<1>9. EndsInParent(Final(r))'
  <2>1. \A d \in Lives' : d \in Lives /\ row'[d].parent = row[d].parent
    BY <1>4, <1>6 DEF Lives
  <2> QED
    BY <1>1, <1>2, <1>5, <2>1, SettledNext DEF EndsInParent
<1>10. KnowsTree(r)'
  BY <1>0 DEF KnowsTree
<1>11. \A s \in Seq(Categories) : SlugPath(s)' = SlugPath(s)
  <2> TAKE s \in Seq(Categories)
  <2>1. \A k \in 1 .. Len(s) : row'[s[k]].name = row[s[k]].name
    BY <1>4, ElementOfSeq
  <2> QED
    BY <2>1, NamesKept
<1>12. ShowsNames(r)'
  <2>1. ASSUME NEW d \in Lives' PROVE (row[d].path = SlugPath(row[d].ids))'
    <3>1. d \in Lives /\ d \in Categories /\ row[d].ids \in Seq(Categories)
          /\ row'[d].path = row[d].path /\ row'[d].ids = row[d].ids
      BY <1>4, <1>6 DEF Lives, Typed, TypeOK, CategoryRow
    <3> QED
      BY <1>2, <1>11, <3>1
  <2> QED
    BY <1>0, <2>1 DEF ShowsNames
<1> QED
  BY <1>8, <1>9, <1>10, <1>12 DEF TreeFor

-----------------------------------------------------------------------------
(* The induction. *)

LEMMA InitTree == Init => TreeOK
<1> SUFFICES ASSUME Init, NEW r \in Requests PROVE TreeFor(r)
  BY DEF TreeOK
<1>1. Lives = {} /\ pc[r] = "idle"
  BY DEF Init, Lives, Live, NoCategory
<1> QED
  BY <1>1 DEF TreeFor, Rooted, EndsInParent, KnowsTree, ShowsNames

LEMMA StepTree ==
  ASSUME Typed, OneAtATime, TreeOK, [Next]_vars
  PROVE  TreeOK'
<1> PICK r \in Requests : Requests = {r}
  BY DEF OneAtATime
<1> SUFFICES TreeFor(r)'
  BY DEF TreeOK
<1>0. TreeFor(r) /\ ~MayLoop
  BY DEF TreeOK, OneAtATime
<1>1. CASE UNCHANGED vars
  <2>1. row' = row /\ pc' = pc /\ job' = job
    BY <1>1 DEF vars
  <2>2. Due(r)' = Due(r) /\ Stale(r)' = Stale(r) /\ Lives' = Lives
    BY <2>1, SameRows DEF Due, Stale
  <2>3. Final(r)' = Final(r)
    BY <2>1, <2>2 DEF Final
  <2>4. Rooted(Final(r), Lives)' /\ EndsInParent(Final(r))'
    BY <1>0, <2>1, <2>2, <2>3 DEF TreeFor, Rooted, EndsInParent
  <2>5. KnowsTree(r)'
    BY <1>0, <2>1, SameRows DEF TreeFor, KnowsTree, IdsToDelete
  <2>6. ShowsNames(r)'
    BY <1>0, <2>1, <2>2, SameRows DEF TreeFor, ShowsNames
  <2> QED
    BY <2>4, <2>5, <2>6 DEF TreeFor
<1>2. ASSUME NEW c \in Categories, NEW p \in Categories \cup {Root},
             CreateBegin(r, c, p) \/ MoveBegin(r, c, p)
      PROVE  TreeFor(r)'
  BY <1>0, <1>2, CreateBeginTree, MoveBeginTree
<1>3. ASSUME NEW c \in Categories, SwitchActive(r, c) \/ RenameBegin(r, c) \/ RemoveBegin(r, c)
      PROVE  TreeFor(r)'
  BY <1>0, <1>3, SwitchActiveTree, RenameBeginTree, RemoveBeginTree
<1>4. CASE Insert(r) \/ MoveBuild(r) \/ MoveWrite(r) \/ RenameBuild(r) \/ RenameWrite(r)
  BY <1>0, <1>4, InsertTree, MoveBuildTree, MoveWriteTree, RenameBuildTree, RenameWriteTree
<1>5. CASE FindDescendants(r) \/ RewriteDescendant(r) \/ RemoveFind(r) \/ Delete(r)
  BY <1>0, <1>5, FindDescendantsTree, RewriteDescendantTree, RemoveFindTree, DeleteTree
<1> QED
  BY <1>1, <1>2, <1>3, <1>4, <1>5 DEF Next

THEOREM TreeStaysRooted == Spec => []IInv
<1>1. Init => IInv
  BY InitTyped, InitTree DEF IInv
<1>2. IInv /\ [Next]_vars => IInv'
  <2> SUFFICES ASSUME IInv, [Next]_vars PROVE IInv'
    OBVIOUS
  <2>1. Typed'
    BY StepTyped DEF IInv
  <2>2. OneAtATime => TreeOK'
    BY StepTree DEF IInv
  <2> QED
    BY <2>1, <2>2 DEF IInv, OneAtATime
<1> QED
  BY <1>1, <1>2, PTL DEF Spec

LEMMA QuietTree ==
  ASSUME OneAtATime, IInv, Quiet
  PROVE  Rooted(Ids, Lives) /\ EndsInParent(Ids) /\ \A d \in Lives : row[d].path = SlugPath(row[d].ids)
<1> PICK r \in Requests : Requests = {r}
  BY DEF OneAtATime
<1>1. pc[r] = "idle" /\ TreeFor(r)
  BY DEF Quiet, IInv, TreeOK
<1>2. Due(r) = {} /\ Stale(r) = {}
  BY <1>1 DEF Due, Stale
<1> QED
  BY <1>1, <1>2, Settled DEF TreeFor, ShowsNames

\* Between requests, when one runs at a time and none moves a category below itself, the
\* stored ids of every category are those of its parent and the parent (category.service.ts
\* 26-132), for any categories and any history.
THEOREM IdsStayWithParents ==
  ASSUME OneAtATime
  PROVE  Spec => []IdsFollowParents
<1>1. IInv => IdsFollowParents
  <2> SUFFICES ASSUME IInv, Quiet, NEW c \in Categories, Live(c)
               PROVE  row[c].ids = PathBelow(row[c].parent).ids
    BY DEF IdsFollowParents
  <2>1. Typed /\ c \in Lives
    BY DEF IInv, Lives
  <2> QED
    BY <2>1, QuietTree, ParentsPath
<1> QED
  BY <1>1, TreeStaysRooted, PTL

\* And the slug path shows the name that every ancestor has now, however far above it was
\* renamed or moved (category.service.ts:716-724).
THEOREM SlugsStayWithNames ==
  ASSUME OneAtATime
  PROVE  Spec => []SlugsFollowNames
<1>1. IInv => SlugsFollowNames
  <2> SUFFICES ASSUME IInv, Quiet, NEW c \in Categories, Live(c)
               PROVE  row[c].path = PathBelow(row[c].parent).path
    BY DEF SlugsFollowNames
  <2> DEFINE p == row[c].parent
  <2>1. Typed /\ c \in Lives /\ p \in Categories \cup {Root}
    BY DEF IInv, Lives, Typed, TypeOK, CategoryRow
  <2>2. Rooted(Ids, Lives) /\ EndsInParent(Ids)
        /\ \A d \in Lives : row[d].path = SlugPath(row[d].ids)
    BY QuietTree
  <2>3. /\ p = Root \/ p \in Lives
        /\ row[c].ids = PathBelow(p).ids
    BY <2>1, <2>2, ParentsPath
  <2> HIDE DEF p
  <2>4. PathBelow(p).path = SlugPath(PathBelow(p).ids)
    BY <2>1, <2>2, <2>3, PathShows
  <2>5. row[c].path = PathBelow(p).path
    BY <2>1, <2>2, <2>3, <2>4
  <2> QED
    BY <2>5 DEF p
<1> QED
  BY <1>1, TreeStaysRooted, PTL

-----------------------------------------------------------------------------
(* What the walks from parent to children find. *)

\* The levels that a walk loads, one from the other: the recursion has a solution, because
\* there is no least number of levels for which it has none.
LEMMA LevelsExist ==
  ASSUME NEW K \in Nat, NEW P, NEW S
  PROVE  \E g : g = [n \in 0 .. K |-> IF n = 0 THEN P ELSE ChildrenOf(g[n - 1], S)]
<1> DEFINE Bad == {k \in Nat : ~ \E g : g = [n \in 0 .. k |-> IF n = 0 THEN P ELSE ChildrenOf(g[n - 1], S)]}
<1> SUFFICES ASSUME Bad # {} PROVE FALSE
  OBVIOUS
<1>1. PICK k \in Bad : \A m \in Bad : k <= m
  <2>1. Bad \subseteq Nat
    OBVIOUS
  <2> HIDE DEF Bad
  <2> QED
    BY <2>1, LeastOf
<1>2. k \in Nat /\ ~ \E g : g = [n \in 0 .. k |-> IF n = 0 THEN P ELSE ChildrenOf(g[n - 1], S)]
  OBVIOUS
<1>3. CASE k = 0
  <2> DEFINE h == [n \in 0 .. 0 |-> P]
  <2>1. h = [n \in 0 .. 0 |-> IF n = 0 THEN P ELSE ChildrenOf(h[n - 1], S)]
    OBVIOUS
  <2> QED
    BY <1>2, <1>3, <2>1
<1>4. CASE k # 0
  <2>1. k - 1 \in Nat /\ k - 1 \notin Bad
    <3>1. k - 1 \in Nat /\ ~(k <= k - 1)
      BY <1>2, <1>4
    <3> HIDE DEF Bad
    <3> QED
      BY <1>1, <3>1
  <2>2. PICK g : g = [n \in 0 .. k - 1 |-> IF n = 0 THEN P ELSE ChildrenOf(g[n - 1], S)]
    BY <2>1
  <2> DEFINE h == [n \in 0 .. k |-> IF n = 0 THEN P ELSE ChildrenOf(g[n - 1], S)]
  <2>3. \A n \in 0 .. k - 1 : h[n] = g[n]
    BY <1>2, <2>2
  <2>4. \A n \in 0 .. k : n # 0 => n - 1 \in 0 .. k - 1
    BY <1>2
  <2>5. \A n \in 0 .. k : h[n] = IF n = 0 THEN P ELSE ChildrenOf(h[n - 1], S)
    BY <2>3, <2>4
  <2>6. h = [n \in 0 .. k |-> h[n]]
    OBVIOUS
  <2> HIDE DEF h
  <2>7. h = [n \in 0 .. k |-> IF n = 0 THEN P ELSE ChildrenOf(h[n - 1], S)]
    BY <2>5, <2>6
  <2> QED
    BY <1>2, <2>7
<1> QED
  BY <1>3, <1>4

Levels(lev, K, P, S) ==
  lev[0] = P /\ \A n \in 1 .. K : lev[n] = ChildrenOf(lev[n - 1], S)

LEMMA LoadedIs ==
  ASSUME NEW K \in Nat, K = Cardinality(Categories), NEW P, NEW S
  PROVE  \E lev : /\ Levels(lev, K, P, S)
                  /\ Loaded(P, S) = UNION {lev[n] : n \in 1 .. K}
<1> DEFINE lev == CHOOSE g : g = [n \in 0 .. K |-> IF n = 0 THEN P ELSE ChildrenOf(g[n - 1], S)]
<1>1. Loaded(P, S) = UNION {lev[n] : n \in 1 .. K}
  BY DEF Loaded
<1>2. lev = [n \in 0 .. K |-> IF n = 0 THEN P ELSE ChildrenOf(lev[n - 1], S)]
  BY LevelsExist
<1> HIDE DEF lev
<1>3. Levels(lev, K, P, S)
  <2>1. 0 \in 0 .. K /\ \A n \in 1 .. K : n \in 0 .. K /\ n # 0
    OBVIOUS
  <2>2. \A n \in 0 .. K : lev[n] = IF n = 0 THEN P ELSE ChildrenOf(lev[n - 1], S)
    BY <1>2
  <2> QED
    BY <2>1, <2>2 DEF Levels
<1> QED
  BY <1>1, <1>3

\* The parent of a category, by its rooted path.
LEMMA ParentIs ==
  ASSUME NEW f, Rooted(f, Lives), EndsInParent(f), NEW d \in Lives
  PROVE  /\ Len(f[d]) \in Nat
         /\ \/ Len(f[d]) = 0 /\ row[d].parent = Root
            \/ /\ Len(f[d]) # 0 /\ row[d].parent \in Lives /\ row[d].parent = f[d][Len(f[d])]
               /\ Len(f[row[d].parent]) = Len(f[d]) - 1
               /\ \A i \in 1 .. Len(f[d]) - 1 : f[row[d].parent][i] = f[d][i]
<1>1. f[d] \in Seq(Lives) /\ Len(f[d]) \in Nat
  BY DEF Rooted
<1>2. row[d].parent = IF f[d] = <<>> THEN Root ELSE f[d][Len(f[d])]
  BY DEF EndsInParent
<1>3. CASE f[d] = <<>>
  BY <1>1, <1>2, <1>3, EmptySeq
<1>4. CASE f[d] # <<>>
  <2>1. Len(f[d]) # 0
    BY <1>1, <1>4, EmptySeq
  <2> DEFINE l == Len(f[d])
  <2>2. l \in 1 .. Len(f[d])
    BY <1>1, <2>1
  <2>3. f[d][l] \in Lives /\ Len(f[f[d][l]]) = l - 1
        /\ \A i \in 1 .. l - 1 : f[f[d][l]][i] = f[d][i]
    <3> HIDE DEF l
    <3> QED
      BY <2>2, Places DEF StandsAt
  <2> QED
    BY <1>1, <1>2, <1>4, <2>1, <2>3
<1> QED
  BY <1>3, <1>4

\* A path and its category are different categories, so there are that many.
LEMMA DepthBound ==
  ASSUME NEW K \in Nat, K = Cardinality(Categories), IsFiniteSet(Categories),
         NEW f, Rooted(f, Lives), NEW d \in Lives
  PROVE  Len(f[d]) + 1 <= K
<1> DEFINE l == Len(f[d])
           h == [k \in 1 .. l + 1 |-> IF k = l + 1 THEN d ELSE f[d][k]]
<1>1. f[d] \in Seq(Lives) /\ l \in Nat
  BY DEF Rooted
<1>2. \A k \in 1 .. l : f[d][k] \in Lives /\ f[d][k] # d
  BY <1>1, ElementOfSeq, NotBelowItself DEF Contains
<1>3. \A j, k \in 1 .. l : f[d][j] = f[d][k] => j = k
  BY OnePlace
<1> HIDE DEF l
<1>4. \A k \in 1 .. l + 1 : k = l + 1 \/ k \in 1 .. l
  BY <1>1
<1>5. h \in [1 .. l + 1 -> Categories]
  BY <1>2, <1>4 DEF Lives
<1>6. \A j, k \in 1 .. l + 1 : h[j] = h[k] => j = k
  BY <1>2, <1>3, <1>4
<1> HIDE DEF h
<1>7. h \in Injection(1 .. l + 1, Categories)
  BY <1>5, <1>6 DEF Injection, IsInjective
<1>8. Cardinality(1 .. l + 1) <= K
  BY <1>7, FS_Injection
<1>9. Cardinality(1 .. l + 1) = l + 1
  <2> DEFINE b == l + 1
  <2>1. 1 \in Int /\ b \in Int /\ ~(1 > b)
    BY <1>1
  <2> HIDE DEF b
  <2>2. Cardinality(1 .. b) = b - 1 + 1
    BY <2>1, FS_Interval
  <2>3. Cardinality(1 .. b) = b
    BY <2>1, <2>2
  <2> QED
    BY <2>3 DEF b
<1> QED
  BY <1>8, <1>9 DEF l

\* What a walk that follows only categories of S meets: those of S with only such above them.
Visible(f, S) == {d \in S : \A k \in 1 .. Len(f[d]) : f[d][k] \in S}

\* What the levels hold, from the top and from a category.
TopLevels(lev, K, f, S) ==
  \A n \in 1 .. K : \A d : d \in lev[n] <=> d \in Visible(f, S) /\ Len(f[d]) = n - 1
LevelsBelow(lev, K, f, c) ==
  \A n \in 1 .. K : \A d :
    d \in lev[n] <=> d \in Lives /\ n <= Len(f[d]) /\ f[d][Len(f[d]) + 1 - n] = c

\* From the top, the n-th level is the categories met that have a path of n - 1 ids.
LEMMA LevelsFromTheTop ==
  ASSUME NEW K \in Nat, NEW f, Rooted(f, Lives), EndsInParent(f), NEW S \in SUBSET Lives,
         NEW lev, Levels(lev, K, {Root}, S)
  PROVE  TopLevels(lev, K, f, S)
<1> DEFINE At(n) == {d \in Visible(f, S) : Len(f[d]) = n - 1}
           Bad == {n \in 1 .. K : lev[n] # At(n)}
<1> SUFFICES ASSUME Bad # {} PROVE FALSE
  BY DEF TopLevels
<1>1. PICK n \in Bad : \A m \in Bad : n <= m
  <2>1. Bad \subseteq Nat
    OBVIOUS
  <2> HIDE DEF Bad
  <2> QED
    BY <2>1, LeastOf
<1>2. n \in 1 .. K /\ n \in Nat /\ lev[n] = ChildrenOf(lev[n - 1], S) /\ lev[0] = {Root}
  BY DEF Levels
<1>3. \A d \in S : row[d].parent \in lev[n - 1] <=> d \in At(n)
  <2> TAKE d \in S
  <2>0. d \in Lives
    OBVIOUS
  <2> DEFINE l == Len(f[d])
             p == row[d].parent
  <2>1. /\ l \in Nat
        /\ \/ l = 0 /\ p = Root
           \/ /\ l # 0 /\ p \in Lives /\ p = f[d][l] /\ Len(f[p]) = l - 1
              /\ \A i \in 1 .. l - 1 : f[p][i] = f[d][i]
    BY <2>0, ParentIs
  <2>2. Root \notin Lives
    BY RootIsNoCategory DEF Lives
  <2>3. d \in Visible(f, S) <=> l = 0 \/ p \in Visible(f, S)
    <3> HIDE DEF l, p
    <3>1. d \in Visible(f, S) <=> \A k \in 1 .. l : f[d][k] \in S
      BY DEF Visible, l
    <3>2. CASE l = 0
      BY <3>1, <3>2
    <3>3. CASE l # 0
      <4>1. p \in Visible(f, S) <=> p \in S /\ \A k \in 1 .. l - 1 : f[p][k] \in S
        BY <2>1, <3>3 DEF Visible
      <4>2. \A k \in 1 .. l : k = l \/ k \in 1 .. l - 1
        BY <2>1
      <4>3. l \in 1 .. l /\ \A k \in 1 .. l - 1 : k \in 1 .. l
        BY <2>1, <3>3
      <4> QED
        BY <2>1, <3>1, <3>3, <4>1, <4>2, <4>3
    <3> QED
      BY <3>2, <3>3
  <2>4. d \in At(n) <=> l = n - 1 /\ (l = 0 \/ p \in Visible(f, S))
    BY <2>3
  <2>5. CASE n = 1
    <3> HIDE DEF l, p, At
    <3>1. p \in lev[n - 1] <=> p = Root
      BY <1>2, <2>5
    <3>2. d \in At(n) <=> p = Root
      BY <2>1, <2>2, <2>4, <2>5
    <3> QED
      BY <3>1, <3>2 DEF p
  <2>6. CASE n # 1
    <3>1. n - 1 \in 1 .. K /\ n - 1 \notin Bad
      <4>1. n - 1 \in 1 .. K /\ ~(n <= n - 1)
        BY <1>2, <2>6
      <4> HIDE DEF Bad
      <4> QED
        BY <1>1, <4>1
    <3>2. lev[n - 1] = At(n - 1)
      BY <3>1
    <3>3. p \in lev[n - 1] <=> p \in Visible(f, S) /\ Len(f[p]) = n - 1 - 1
      BY <3>2
    <3>4. p = Root => p \notin Visible(f, S)
      BY <2>2 DEF Visible
    <3> HIDE DEF l, p, At
    <3>5. p \in lev[n - 1] <=> d \in At(n)
      BY <1>2, <2>1, <2>4, <2>6, <3>3, <3>4
    <3> QED
      BY <3>5 DEF p
  <2> QED
    BY <2>5, <2>6
<1>4. lev[n] = At(n)
  <2>1. At(n) \subseteq S
    BY DEF Visible
  <2> HIDE DEF At
  <2> QED
    BY <1>2, <1>3, <2>1 DEF ChildrenOf
<1> QED
  BY <1>4

\* From a category, the n-th level is those that have it n-th from the end of their path.
LEMMA LevelsFromBelow ==
  ASSUME NEW K \in Nat, NEW f, Rooted(f, Lives), EndsInParent(f), NEW c \in Lives,
         NEW lev, Levels(lev, K, {c}, Lives)
  PROVE  LevelsBelow(lev, K, f, c)
<1> DEFINE Below(n) == {d \in Lives : n <= Len(f[d]) /\ f[d][Len(f[d]) + 1 - n] = c}
           Bad == {n \in 1 .. K : lev[n] # Below(n)}
<1> SUFFICES ASSUME Bad # {} PROVE FALSE
  BY DEF LevelsBelow
<1>1. PICK n \in Bad : \A m \in Bad : n <= m
  <2>1. Bad \subseteq Nat
    OBVIOUS
  <2> HIDE DEF Bad
  <2> QED
    BY <2>1, LeastOf
<1>2. n \in 1 .. K /\ n \in Nat /\ lev[n] = ChildrenOf(lev[n - 1], Lives) /\ lev[0] = {c}
  BY DEF Levels
<1>3. \A d \in Lives : row[d].parent \in lev[n - 1] <=> n <= Len(f[d]) /\ f[d][Len(f[d]) + 1 - n] = c
  <2> TAKE d \in Lives
  <2> DEFINE l == Len(f[d])
             p == row[d].parent
  <2>1. /\ l \in Nat
        /\ \/ l = 0 /\ p = Root
           \/ /\ l # 0 /\ p \in Lives /\ p = f[d][l] /\ Len(f[p]) = l - 1
              /\ \A i \in 1 .. l - 1 : f[p][i] = f[d][i]
    BY ParentIs
  <2>2. Root \notin Lives /\ Root # c
    BY RootIsNoCategory DEF Lives
  <2> HIDE DEF l, p
  <2>3. CASE n = 1
    <3>1. p \in lev[n - 1] <=> p = c
      BY <1>2, <2>3
    <3>2. (n <= l /\ l + 1 - n = l) \/ (l = 0 /\ ~(n <= l))
      BY <2>1, <2>3
    <3> QED
      BY <2>1, <2>2, <2>3, <3>1, <3>2 DEF l, p
  <2>4. CASE n # 1
    <3>1. n - 1 \in 1 .. K /\ n - 1 \notin Bad
      <4>1. n - 1 \in 1 .. K /\ ~(n <= n - 1)
        BY <1>2, <2>4
      <4> HIDE DEF Bad
      <4> QED
        BY <1>1, <4>1
    <3>2. p \in lev[n - 1] <=> p \in Lives /\ n - 1 <= Len(f[p]) /\ f[p][Len(f[p]) + 1 - (n - 1)] = c
      BY <3>1
    <3>3. CASE l = 0
      BY <1>2, <2>1, <2>2, <3>2, <3>3 DEF l, p
    <3>4. CASE l # 0
      <4>1. p \in lev[n - 1] <=> n - 1 <= l - 1 /\ f[p][l - 1 + 1 - (n - 1)] = c
        BY <2>1, <3>2, <3>4
      <4>2. l - 1 + 1 - (n - 1) = l + 1 - n /\ (n - 1 <= l - 1 <=> n <= l)
        BY <1>2, <2>1
      <4>3. n <= l => l + 1 - n \in 1 .. l - 1
        BY <1>2, <2>1, <2>4
      <4>4. p \in lev[n - 1] <=> n <= l /\ f[d][l + 1 - n] = c
        BY <2>1, <3>4, <4>1, <4>2, <4>3
      <4> QED
        BY <4>4 DEF l, p
    <3> QED
      BY <3>3, <3>4
  <2> QED
    BY <2>3, <2>4
<1>4. lev[n] = Below(n)
  BY <1>2, <1>3 DEF ChildrenOf, Lives
<1> QED
  BY <1>4

LEMMA TreeIsVisible ==
  ASSUME IsFiniteSet(Categories), NEW f, Rooted(f, Lives), EndsInParent(f), NEW S \in SUBSET Lives
  PROVE  Loaded({Root}, S) = Visible(f, S)
<1> DEFINE K == Cardinality(Categories)
<1>1. K \in Nat
  BY FS_CardinalityType
<1>2. PICK lev : Levels(lev, K, {Root}, S) /\ Loaded({Root}, S) = UNION {lev[n] : n \in 1 .. K}
  BY <1>1, LoadedIs
<1>3. \A d \in Lives : Len(f[d]) + 1 <= K /\ Len(f[d]) \in Nat
  BY <1>1, DepthBound, ParentIs
<1> HIDE DEF K
<1>4. \A n \in 1 .. K : \A d : d \in lev[n] <=> d \in Visible(f, S) /\ Len(f[d]) = n - 1
  <2>1. TopLevels(lev, K, f, S)
    BY <1>1, <1>2, LevelsFromTheTop
  <2> QED
    BY <2>1 DEF TopLevels
<1>5. ASSUME NEW d \in Visible(f, S) PROVE \E n \in 1 .. K : d \in lev[n]
  <2> DEFINE n == Len(f[d]) + 1
  <2>0. d \in Lives
    BY DEF Visible
  <2>1. n \in 1 .. K /\ Len(f[d]) = n - 1
    BY <1>1, <1>3, <2>0
  <2> HIDE DEF n
  <2> QED
    BY <1>4, <2>1
<1>6. \A n \in 1 .. K : lev[n] \subseteq Visible(f, S)
  BY <1>4
<1>7. UNION {lev[n] : n \in 1 .. K} = Visible(f, S)
  BY <1>5, <1>6
<1> QED
  BY <1>2, <1>7

\* A rooted path holds live categories only, so a walk over all of them meets all.
LEMMA AllVisible ==
  ASSUME NEW f, Rooted(f, Lives)
  PROVE  Visible(f, Lives) = Lives
BY ElementOfSeq DEF Rooted, Visible

LEMMA BelowIsContained ==
  ASSUME IsFiniteSet(Categories), NEW f, Rooted(f, Lives), EndsInParent(f), NEW c \in Lives
  PROVE  Loaded({c}, Lives) = {d \in Lives : Contains(f[d], c)}
<1> DEFINE K == Cardinality(Categories)
<1>1. K \in Nat
  BY FS_CardinalityType
<1>2. PICK lev : Levels(lev, K, {c}, Lives) /\ Loaded({c}, Lives) = UNION {lev[n] : n \in 1 .. K}
  BY <1>1, LoadedIs
<1>3. \A d \in Lives : Len(f[d]) + 1 <= K /\ Len(f[d]) \in Nat
  BY <1>1, DepthBound, ParentIs
<1> HIDE DEF K
<1>4. \A n \in 1 .. K : \A d :
        d \in lev[n] <=> d \in Lives /\ n <= Len(f[d]) /\ f[d][Len(f[d]) + 1 - n] = c
  <2>1. LevelsBelow(lev, K, f, c)
    BY <1>1, <1>2, LevelsFromBelow
  <2> QED
    BY <2>1 DEF LevelsBelow
<1>5. ASSUME NEW n \in 1 .. K, NEW d \in lev[n] PROVE d \in Lives /\ Contains(f[d], c)
  <2> DEFINE k == Len(f[d]) + 1 - n
  <2>1. d \in Lives /\ n <= Len(f[d]) /\ f[d][k] = c
    BY <1>4
  <2>2. k \in 1 .. Len(f[d])
    BY <1>3, <2>1
  <2> HIDE DEF k
  <2> QED
    BY <2>1, <2>2 DEF Contains
<1>6. ASSUME NEW d \in Lives, NEW k \in 1 .. Len(f[d]), f[d][k] = c
      PROVE  \E n \in 1 .. K : d \in lev[n]
  <2> DEFINE l == Len(f[d])
             n == l + 1 - k
  <2>1. l \in Nat /\ l + 1 <= K /\ k \in 1 .. l
    BY <1>3
  <2> HIDE DEF l
  <2>2. n \in 1 .. K /\ n <= l /\ l + 1 - n = k
    BY <1>1, <2>1
  <2> HIDE DEF n
  <2>3. n <= Len(f[d]) /\ f[d][Len(f[d]) + 1 - n] = c
    BY <1>6, <2>2 DEF l
  <2> QED
    BY <1>4, <2>2, <2>3
<1>7. \A d \in Lives : Contains(f[d], c) <=> \E k \in 1 .. Len(f[d]) : f[d][k] = c
  BY DEF Contains
<1>8. UNION {lev[n] : n \in 1 .. K} = {d \in Lives : Contains(f[d], c)}
  <2>1. ASSUME NEW d, d \in UNION {lev[n] : n \in 1 .. K}
        PROVE  d \in Lives /\ Contains(f[d], c)
    BY <1>5, <2>1
  <2>2. ASSUME NEW d \in Lives, Contains(f[d], c)
        PROVE  d \in UNION {lev[n] : n \in 1 .. K}
    BY <1>6, <1>7, <2>2
  <2> QED
    BY <2>1, <2>2
<1> QED
  BY <1>2, <1>8

\* The tree read from the roots shows every live category at any moment.  Between requests
\* the products listed for a category are its own and those of the active categories shown
\* below it, and the public tree shows an active category just if every one its path names
\* is active (category.service.ts 384-420, 894-996, 1016-1047); for any finite set of
\* categories and any choice of the active ones.
THEOREM ReadsAgree ==
  ASSUME OneAtATime, IsFiniteSet(Categories)
  PROVE  Spec => []ReadsShowTheTree
<1>1. IInv => ReadsShowTheTree
  <2> SUFFICES ASSUME IInv PROVE ReadsShowTheTree
    OBVIOUS
  <2> PICK r \in Requests : Requests = {r}
    BY DEF OneAtATime
  <2>1. Rooted(Final(r), Lives) /\ EndsInParent(Final(r))
    BY DEF IInv, TreeOK, TreeFor
  <2>2. Tree = Lives
    BY <2>1, TreeIsVisible, AllVisible DEF Tree
  <2>3. ASSUME Quiet, NEW c \in Lives
        PROVE  WithSubcategories(c) = {c} \cup (Loaded({c}, Lives) \cap Active)
    <3>1. Rooted(Ids, Lives) /\ EndsInParent(Ids)
      BY <2>3, QuietTree
    <3>2. Loaded({c}, Lives) = {d \in Lives : Contains(Ids[d], c)}
      BY <3>1, BelowIsContained
    <3>3. Descendants(c) = {d \in Lives : d # c /\ Contains(Ids[d], c)}
      BY DEF Descendants, Lives, Ids
    <3> QED
      BY <3>2, <3>3 DEF WithSubcategories
  <2>4. ASSUME Quiet
        PROVE  TreeWithCounts =
                 {c \in Active : \A k \in DOMAIN row[c].ids : row[row[c].ids[k]].active}
    <3>1. Rooted(Ids, Lives) /\ EndsInParent(Ids)
      BY <2>4, QuietTree
    <3>2. TreeWithCounts = Visible(Ids, Active)
      BY <3>1, TreeIsVisible DEF TreeWithCounts, Active
    <3>3. ASSUME NEW c \in Active
          PROVE  c \in Visible(Ids, Active) <=> \A k \in DOMAIN row[c].ids : row[row[c].ids[k]].active
      <4>1. c \in Lives /\ Ids[c] = row[c].ids
        BY DEF Active, Lives, Ids
      <4>2. Ids[c] \in Seq(Lives) /\ DOMAIN Ids[c] = 1 .. Len(Ids[c])
        BY <3>1, <4>1, LenProperties DEF Rooted
      <4>3. \A k \in 1 .. Len(Ids[c]) : Ids[c][k] \in Lives
        BY <4>2, ElementOfSeq
      <4> QED
        BY <4>1, <4>2, <4>3 DEF Visible, Active
    <3> QED
      BY <3>2, <3>3 DEF Visible
  <2> QED
    BY <2>2, <2>3, <2>4 DEF ReadsShowTheTree
<1> QED
  BY <1>1, TreeStaysRooted, PTL

\* The promise that the guard of move does not keep (category.service.ts:751) holds when nobody
\* asks for the impossible and requests do not overlap, also in the middle of an edit.
THEOREM NoCycleUnlessAskedFor ==
  ASSUME OneAtATime
  PROVE  Spec => []NoCycle
<1>1. IInv => NoCycle
  <2> SUFFICES ASSUME IInv, NEW S \in SUBSET Lives, S # {}, \A c \in S : row[c].parent \in S
               PROVE  FALSE
    BY DEF NoCycle, Lives
  <2> PICK r \in Requests : Requests = {r}
    BY DEF OneAtATime
  <2>1. PICK f : f = Final(r)
    OBVIOUS
  <2>2. Rooted(f, Lives) /\ EndsInParent(f)
    BY <2>1 DEF IInv, TreeOK, TreeFor
  <2>3. ASSUME NEW d \in S
        PROVE  Len(f[d]) \in Nat /\ Len(f[row[d].parent]) = Len(f[d]) - 1
    <3>1. row[d].parent # Root
      BY RootIsNoCategory DEF Lives
    <3> QED
      BY <2>2, <3>1, ParentIs
  <2> DEFINE I == {Len(f[d]) : d \in S}
  <2>4. I \subseteq Nat /\ I # {}
    BY <2>3
  <2> HIDE DEF I
  <2>5. PICK m \in I : \A n \in I : m <= n
    BY <2>4, LeastOf
  <2>6. PICK d \in S : Len(f[d]) = m
    BY DEF I
  <2>7. Len(f[row[d].parent]) \in I
    BY DEF I
  <2> QED
    BY <2>3, <2>5, <2>6, <2>7
<1> QED
  BY <1>1, TreeStaysRooted, PTL

=============================================================================
