-------------------------- MODULE CallbacksProofs --------------------------
(* Proofs about Callbacks, for every program and web: what callbacks do to *)
(* the slices they are registered in, what the limit on responses holds,   *)
(* and what a tidy program shows and visits.                               *)
EXTENDS CallbacksProps, TLAPS, SequenceTheorems, FiniteSetTheorems,
        WellFoundedInduction

LEMMA NobodyIsContainer == Nobody \in Container
BY CallbacksAssumption DEF Nobody, Container, Acts

LEMMA Padding ==
  ASSUME NEW s \in Seq(Container), NEW n \in Nat
  PROVE  /\ Padded(s, n) \in Seq(Container)
         /\ Len(Padded(s, n)) >= Len(s) /\ Len(Padded(s, n)) >= n
         /\ \A i \in 1..Len(s) : Padded(s, n)[i] = s[i]
         /\ \A i \in DOMAIN Padded(s, n) : i > Len(s) => Padded(s, n)[i] = Nobody
<1> DEFINE p == [i \in 1..(n - Len(s)) |-> Nobody]
<1>1. p \in Seq(Container)
  <2>1. CASE n - Len(s) >= 0
    BY <2>1, NobodyIsContainer
  <2>2. CASE n - Len(s) < 0
    <3>1. 1..(n - Len(s)) = 1..0
      BY <2>2
    <3> QED BY <3>1, NobodyIsContainer
  <2> QED BY <2>1, <2>2
<1>2. /\ DOMAIN p = 1..Len(p) /\ Len(p) \in Nat
      /\ Len(s) \in Nat
  BY <1>1, LenProperties
<1>3. DOMAIN p = 1..(n - Len(s)) /\ \A i \in DOMAIN p : p[i] = Nobody
  OBVIOUS
<1> HIDE DEF p
<1>4. Len(p) >= n - Len(s) /\ \A i \in 1..Len(p) : p[i] = Nobody
  <2>1. n - Len(s) > 0 => n - Len(s) \in 1..Len(p)
    BY <1>2, <1>3
  <2> QED BY <2>1, <1>2, <1>3
<1>5. Padded(s, n) = s \o p
  BY DEF Padded, p
<1> QED BY <1>1, <1>2, <1>3, <1>4, <1>5, ConcatProperties, LenProperties

LEMMA Extending ==
  ASSUME NEW s \in Seq(Container), NEW n \in Nat, NEW cb \in Container,
         Room(s, n)
  PROVE  /\ Extended(s, n, cb) \in Seq(Container)
         /\ Len(Extended(s, n, cb)) = Len(s)
         /\ Extended(s, n, cb)[n + 1] = cb
         /\ \A i \in 1..Len(s) : i # n + 1 => Extended(s, n, cb)[i] = s[i]
<1>1. n + 1 \in 1..Len(s)
  BY DEF Room
<1> QED BY <1>1, ExceptSeq DEF Extended

LEMMA Shifting ==
  ASSUME NEW s \in Seq(Container), NEW len \in 0..Len(s), NEW k \in 1..len
  PROVE  /\ Shifted(s, k, len) \in Seq(Container)
         /\ Len(Shifted(s, k, len)) = Len(s)
         /\ \A i \in 1..Len(s) :
              Shifted(s, k, len)[i] = IF i \in k..(len - 1) THEN s[i + 1] ELSE s[i]
<1>1. \A i \in 1..Len(s) :
         (IF i \in k..(len - 1) THEN s[i + 1] ELSE s[i]) \in Container
  BY ElementOfSeq
<1> QED BY <1>1, LenProperties DEF Shifted

LEMMA IdsOfSlice ==
  ASSUME NEW s \in Seq(Container), NEW n \in 0..Len(s)
  PROVE  Ids(SubSeq(s, 1, n)) = {s[i].id : i \in 1..n}
<1>1. \A i \in 1..n : s[i] \in Container
  BY ElementOfSeq
<1>2. /\ SubSeq(s, 1, n) \in Seq(Container)
      /\ Len(SubSeq(s, 1, n)) = n
      /\ \A i \in 1..n : SubSeq(s, 1, n)[i] = s[i]
  BY <1>1, SubSeqProperties
<1> QED BY <1>2, LenProperties DEF Ids

-----------------------------------------------------------------------------
(* What OnHTML does to the arrays of html.  The slice grows by the new     *)
(* callback, and nothing that any slice covers changes.                    *)
LEMMA HtmlSlots ==
  ASSUME TypeOK, SlicesFit
  PROVE  /\ arrays["html"] \in Seq(Seq(Container))
         /\ header["html"].ver \in 1..Len(arrays["html"])
         /\ header["html"].ver = Len(arrays["html"])
         /\ Slots("html") = arrays["html"][header["html"].ver]
         /\ Slots("html") \in Seq(Container)
         /\ header["html"].len \in 0..Len(Slots("html"))
         /\ Len(Slots("html")) > 0
<1>1. "html" \in Lists
  BY DEF Lists, Serp
<1>2. header["html"] \in [ver : Nat, len : Nat]
  BY <1>1 DEF TypeOK
<1>3. arrays["html"] \in Seq(Seq(Container)) /\ Len(arrays["html"]) \in Nat
  BY <1>1, LenProperties DEF TypeOK
<1>4. header["html"].ver = Len(arrays["html"]) /\ header["html"].ver > 0
  BY <1>1 DEF SlicesFit
<1>5. header["html"].ver \in 1..Len(arrays["html"])
  BY <1>2, <1>3, <1>4
<1>6. Slots("html") \in Seq(Container)
  BY <1>3, <1>5, ElementOfSeq DEF Slots
<1>7. /\ header["html"].len <= Len(Slots("html")) /\ Len(Slots("html")) \in Nat
      /\ Len(Slots("html")) > 0
  BY <1>1, <1>6, LenProperties DEF SlicesFit
<1> QED BY <1>2, <1>3, <1>4, <1>5, <1>6, <1>7 DEF Slots

(* b is what append makes of the arrays a: where the slice is n long in    *)
(* the newest array, nothing that a slice covers has changed, and nothing  *)
(* but cb and free slots has come in.                                      *)
Kept(a, b, n) ==
  \A v \in 1..Len(a) :
    /\ Len(b[v]) = Len(a[v])
    /\ \A i \in 1..Len(a[v]) : (v = Len(a) => i <= n) => b[v][i] = a[v][i]

Brings(a, b, cb) ==
  \A v \in 1..Len(b) : \A i \in 1..Len(b[v]) :
    \/ b[v][i] \in {cb, Nobody}
    \/ \E u \in 1..Len(a) : \E j \in 1..Len(a[u]) : b[v][i] = a[u][j]

Grown(a, b, n, cb) ==
  /\ b \in Seq(Seq(Container)) /\ Len(b) \in {Len(a), Len(a) + 1}
  /\ n + 1 <= Len(b[Len(b)])
  /\ b[Len(b)][n + 1] = cb
  /\ \A i \in 1..n : b[Len(b)][i] = a[Len(a)][i]
  /\ Kept(a, b, n) /\ Brings(a, b, cb)

LEMMA LenOfAppend ==
  ASSUME NEW a, NEW t, NEW S, a \in Seq(S), Append(a, t) \in Seq(S)
  PROVE  Len(Append(a, t)) = Len(a) + 1
OBVIOUS

LEMMA GrownInPlace ==
  ASSUME NEW a \in Seq(Seq(Container)), a # <<>>, NEW cb \in Container,
         NEW n \in Nat, Room(a[Len(a)], n)
  PROVE  Grown(a, [a EXCEPT ![Len(a)] = Extended(a[Len(a)], n, cb)], n, cb)
<1> DEFINE s == a[Len(a)]
           t == Extended(s, n, cb)
           b == [a EXCEPT ![Len(a)] = t]
<1>1. /\ Len(a) \in 1..Len(a)
      /\ \A v \in 1..Len(a) : a[v] \in Seq(Container) /\ Len(a[v]) \in Nat
  BY ElementOfSeq, LenProperties, EmptySeq
<1>2. /\ t \in Seq(Container) /\ Len(t) = Len(s) /\ t[n + 1] = cb
      /\ \A i \in 1..Len(s) : i # n + 1 => t[i] = s[i]
  BY <1>1, Extending
<1>3. n + 1 <= Len(s)
  BY <1>1 DEF Room
<1> HIDE DEF t
<1>4. /\ b \in Seq(Seq(Container)) /\ Len(b) = Len(a)
      /\ \A v \in 1..Len(a) : b[v] = IF v = Len(a) THEN t ELSE a[v]
  BY <1>1, <1>2, ExceptSeq
<1> HIDE DEF b
<1>5. \A i \in 1..n : b[Len(b)][i] = a[Len(a)][i]
  <2>1. b[Len(b)] = t
    BY <1>1, <1>4
  <2> QED BY <2>1, <1>1, <1>2, <1>3
<1>6. Kept(a, b, n)
  BY <1>1, <1>2, <1>4 DEF Kept
<1>7. Brings(a, b, cb)
  BY <1>1, <1>2, <1>4 DEF Brings
<1>8. Grown(a, b, n, cb)
  BY <1>1, <1>2, <1>3, <1>4, <1>5, <1>6, <1>7 DEF Grown
<1> QED BY <1>8 DEF b, t

LEMMA GrownByCopy ==
  ASSUME NEW a \in Seq(Seq(Container)), a # <<>>, NEW cb \in Container,
         NEW n \in Nat, n = Len(a[Len(a)]), n > 0
  PROVE  Grown(a, Append(a, Extended(Padded(a[Len(a)], 2 * n), n, cb)), n, cb)
<1> DEFINE s == a[Len(a)]
           p == Padded(s, 2 * n)
           t == Extended(p, n, cb)
           b == Append(a, t)
<1>1. /\ Len(a) \in 1..Len(a)
      /\ \A v \in 1..Len(a) : a[v] \in Seq(Container) /\ Len(a[v]) \in Nat
  BY ElementOfSeq, LenProperties, EmptySeq
<1>2. /\ p \in Seq(Container) /\ Len(p) \in Nat /\ n < Len(p)
      /\ \A i \in 1..n : p[i] = s[i]
      /\ \A i \in 1..Len(p) : i > n => p[i] = Nobody
  <2>1. 2 * n \in Nat /\ 2 * n > n
    OBVIOUS
  <2>2. s \in Seq(Container) /\ Len(s) = n
    BY <1>1
  <2> QED BY <2>1, <2>2, Padding, LenProperties
<1> HIDE DEF p
<1>3. /\ t \in Seq(Container) /\ Len(t) = Len(p) /\ t[n + 1] = cb
      /\ \A i \in 1..Len(p) : i # n + 1 => t[i] = p[i]
  BY <1>2, Extending DEF Room
<1> HIDE DEF t
<1>4. /\ b \in Seq(Seq(Container)) /\ Len(b) = Len(a) + 1
      /\ b[Len(a) + 1] = t
      /\ \A v \in 1..Len(a) : b[v] = a[v]
  BY <1>1, <1>3, AppendProperties
<1> HIDE DEF b
<1>9. \A i \in 1..n : t[i] = s[i]
  <2> SUFFICES ASSUME NEW i \in 1..n
               PROVE  t[i] = s[i]
    OBVIOUS
  <2> HIDE DEF s
  <2>1. i \in 1..Len(p) /\ i # n + 1
    BY <1>2
  <2>2. t[i] = p[i]
    BY <2>1, <1>3
  <2>3. p[i] = s[i]
    BY <1>2
  <2> QED BY <2>2, <2>3
<1>10. b[Len(b)] = t
  BY <1>4
<1>5. \A i \in 1..n : b[Len(b)][i] = a[Len(a)][i]
  BY <1>9, <1>10
<1>6. Kept(a, b, n)
  BY <1>1, <1>4 DEF Kept
<1>7. Brings(a, b, cb)
  <2> SUFFICES ASSUME NEW v \in 1..Len(b), NEW i \in 1..Len(b[v])
               PROVE  \/ b[v][i] \in {cb, Nobody}
                      \/ \E u \in 1..Len(a) : \E j \in 1..Len(a[u]) : b[v][i] = a[u][j]
    BY DEF Brings
  <2>1. CASE v = Len(a) + 1
    <3>1. b[v] = t /\ i \in 1..Len(p)
      BY <2>1, <1>3, <1>4
    <3>2. i <= n => t[i] = s[i]
      <4>1. i <= n => i \in 1..n
        BY <3>1
      <4> HIDE DEF s
      <4> QED BY <4>1, <1>9
    <3>3. i > n => t[i] \in {cb, Nobody}
      BY <3>1, <1>2, <1>3
    <3>4. i <= n => i \in 1..Len(a[Len(a)])
      OBVIOUS
    <3>5. CASE i <= n
      BY <3>1, <3>2, <3>4, <3>5, <1>1
    <3>6. CASE i > n
      BY <3>1, <3>3, <3>6
    <3> QED BY <3>1, <3>5, <3>6, <1>2
  <2>2. CASE v # Len(a) + 1
    <3>1. v \in 1..Len(a) /\ b[v] = a[v]
      BY <2>2, <1>1, <1>4
    <3> QED BY <3>1
  <2> QED BY <2>1, <2>2
<1>8. Grown(a, b, n, cb)
  BY <1>1, <1>2, <1>3, <1>4, <1>5, <1>6, <1>7 DEF Grown
<1> QED BY <1>8 DEF b, t, p

(* When only the slice of html changed, the slices fit as soon as the new   *)
(* one does.                                                               *)
LEMMA FitAgain ==
  ASSUME SlicesFit, program' = program,
         \A l \in Lists \ {"html"} : arrays'[l] = arrays[l] /\ header'[l] = header[l],
         header'["html"].ver = Len(arrays'["html"]), header'["html"].ver > 0,
         header'["html"].len <= Len(Slots("html")'), Len(Slots("html")') > 0
  PROVE  SlicesFit'
<1>1. ASSUME NEW l \in Lists
      PROVE  /\ header'[l].ver = Len(arrays'[l]) /\ header'[l].ver > 0
             /\ header'[l].len <= Len(Slots(l)') /\ Len(Slots(l)') > 0
  <2>1. CASE l = "html"
    BY <2>1
  <2>2. CASE l # "html"
    <3>1. arrays'[l] = arrays[l] /\ header'[l] = header[l]
      BY <2>2
    <3>2. Slots(l)' = Slots(l)
      BY <3>1 DEF Slots
    <3>3. /\ header[l].ver = Len(arrays[l]) /\ header[l].ver > 0
          /\ header[l].len <= Len(Slots(l)) /\ Len(Slots(l)) > 0
      BY DEF SlicesFit
    <3> QED BY <3>1, <3>2, <3>3
  <2> QED BY <2>1, <2>2
<1>2. \A l \in Lists \ {"html"} :
        /\ arrays'[l] = <<Padded(program'.on[l], Capacity)>>
        /\ header'[l] = [ver |-> 1, len |-> Len(program'.on[l])]
  BY DEF SlicesFit
<1> QED BY <1>1, <1>2 DEF SlicesFit

LEMMA Appending ==
  ASSUME TypeOK, SlicesFit, NEW cb \in Container, Appended("html", cb)
  PROVE  /\ arrays' \in [Lists -> Seq(Seq(Container))]
         /\ header' \in [Lists -> [ver : Nat, len : Nat]]
         /\ \A l \in Lists \ {"html"} : arrays'[l] = arrays[l] /\ header'[l] = header[l]
         /\ Grown(arrays["html"], arrays'["html"], header["html"].len, cb)
         /\ header'["html"].len = header["html"].len + 1
         /\ header'["html"].ver = Len(arrays'["html"])
<1> DEFINE a == arrays["html"]
           n == header["html"].len
           ver == header["html"].ver
           b == arrays'["html"]
<1>1. "html" \in Lists
  BY DEF Lists, Serp
<1>2. /\ a \in Seq(Seq(Container)) /\ a # <<>> /\ ver = Len(a)
      /\ Slots("html") = a[ver] /\ a[ver] \in Seq(Container)
      /\ n \in Nat /\ n <= Len(a[ver]) /\ Len(a[ver]) \in Nat /\ Len(a) \in Nat
      /\ Len(a[ver]) > 0
  BY HtmlSlots, LenProperties, EmptySeq
<1>3. /\ arrays \in [Lists -> Seq(Seq(Container))]
      /\ header \in [Lists -> [ver : Nat, len : Nat]]
  BY DEF TypeOK
<1>4. CASE Room(a[ver], n)
  <2>1. /\ header' = [header EXCEPT !["html"].len = n + 1]
        /\ arrays' = [arrays EXCEPT !["html"][ver] = Extended(a[ver], n, cb)]
    BY <1>4, <1>2 DEF Appended
  <2>2. /\ b = [a EXCEPT ![Len(a)] = Extended(a[Len(a)], n, cb)]
        /\ \A l \in Lists \ {"html"} : arrays'[l] = arrays[l]
    BY <2>1, <1>1, <1>2, <1>3
  <2>3. /\ header' \in [Lists -> [ver : Nat, len : Nat]]
        /\ header'["html"].len = n + 1 /\ header'["html"].ver = ver
        /\ \A l \in Lists \ {"html"} : header'[l] = header[l]
    BY <2>1, <1>1, <1>2, <1>3
  <2> HIDE DEF a, b, n, ver
  <2>4. Grown(a, b, n, cb)
    BY <2>2, <1>2, <1>4, GrownInPlace
  <2>5. arrays' \in [Lists -> Seq(Seq(Container))]
    <3>1. b \in Seq(Seq(Container))
      BY <2>4 DEF Grown
    <3> QED BY <2>1, <3>1, <1>1, <1>3 DEF b
  <2>6. Len(b) = Len(a)
    BY <2>2, <1>2, LenProperties
  <2> QED BY <2>2, <2>3, <2>4, <2>5, <2>6, <1>2 DEF a, b, n, ver
<1>5. CASE ~Room(a[ver], n)
  <2>1. n = Len(a[ver]) /\ n > 0
    BY <1>2, <1>5 DEF Room
  <2>2. /\ header' = [header EXCEPT !["html"] = [ver |-> ver + 1, len |-> n + 1]]
        /\ arrays' = [arrays EXCEPT !["html"] =
             Append(a, Extended(Padded(a[ver], 2 * Len(a[ver])), n, cb))]
    BY <1>5, <1>2, <1>1, <1>3 DEF Appended
  <2>3. /\ b = Append(a, Extended(Padded(a[Len(a)], 2 * n), n, cb))
        /\ \A l \in Lists \ {"html"} : arrays'[l] = arrays[l]
    BY <2>1, <2>2, <1>1, <1>2, <1>3
  <2>4. /\ header' \in [Lists -> [ver : Nat, len : Nat]]
        /\ header'["html"].len = n + 1 /\ header'["html"].ver = ver + 1
        /\ \A l \in Lists \ {"html"} : header'[l] = header[l]
    BY <2>2, <1>1, <1>2, <1>3
  <2> HIDE DEF a, b, n, ver
  <2>5. Grown(a, b, n, cb)
    BY <2>1, <2>3, <1>2, GrownByCopy
  <2>6. b \in Seq(Seq(Container))
    BY <2>5 DEF Grown
  <2>7. arrays' \in [Lists -> Seq(Seq(Container))]
    BY <2>2, <2>6, <1>1, <1>3 DEF b
  <2>8. Len(b) = Len(a) + 1
    BY <2>3, <1>2, LenOfAppend
  <2> QED BY <2>3, <2>4, <2>5, <2>7, <2>8, <1>2 DEF a, b, n, ver
<1> QED BY <1>4, <1>5

(* What OnHTMLDetach does: it takes the k-th callback out of the slice.    *)
LEMMA Detaching ==
  ASSUME TypeOK, SlicesFit, NEW k \in 1..header["html"].len, InPlace(k)
  PROVE  /\ arrays' \in [Lists -> Seq(Seq(Container))]
         /\ header' \in [Lists -> [ver : Nat, len : Nat]]
         /\ \A l \in Lists \ {"html"} : arrays'[l] = arrays[l] /\ header'[l] = header[l]
         /\ header'["html"].ver = header["html"].ver
         /\ header'["html"].len = header["html"].len - 1
         /\ Len(arrays'["html"]) = Len(arrays["html"])
         /\ \A v \in 1..Len(arrays["html"]) :
              /\ Len(arrays'["html"][v]) = Len(arrays["html"][v])
              /\ \A i \in 1..Len(arrays["html"][v]) :
                   \E j \in 1..Len(arrays["html"][v]) :
                     arrays'["html"][v][i] = arrays["html"][v][j]
         /\ \A i \in 1..(header["html"].len - 1) :
              arrays'["html"][header["html"].ver][i] =
                IF i < k THEN Slots("html")[i] ELSE Slots("html")[i + 1]
<1> DEFINE a == arrays["html"]
           n == header["html"].len
           ver == header["html"].ver
           b == arrays'["html"]
           t == Shifted(a[ver], k, n)
<1>1. "html" \in Lists
  BY DEF Lists, Serp
<1>2. /\ a \in Seq(Seq(Container)) /\ ver \in 1..Len(a) /\ ver = Len(a)
      /\ Slots("html") = a[ver] /\ a[ver] \in Seq(Container)
      /\ n \in Nat /\ n \in 0..Len(a[ver]) /\ Len(a[ver]) \in Nat
      /\ k \in 1..n
  BY HtmlSlots, LenProperties
<1>3. /\ arrays \in [Lists -> Seq(Seq(Container))]
      /\ header \in [Lists -> [ver : Nat, len : Nat]]
  BY DEF TypeOK
<1>4. /\ arrays' = [arrays EXCEPT !["html"][ver] = t]
      /\ header' = [header EXCEPT !["html"].len = n - 1]
  BY <1>1, <1>2, <1>3 DEF InPlace
<1>5. /\ b = [a EXCEPT ![ver] = t]
      /\ \A l \in Lists \ {"html"} : arrays'[l] = arrays[l]
  BY <1>1, <1>3, <1>4
<1>6. /\ header' \in [Lists -> [ver : Nat, len : Nat]]
      /\ header'["html"].len = n - 1 /\ header'["html"].ver = ver
      /\ \A l \in Lists \ {"html"} : header'[l] = header[l]
  BY <1>1, <1>2, <1>3, <1>4
<1> HIDE DEF a, b, n, ver
<1>7. /\ t \in Seq(Container) /\ Len(t) = Len(a[ver])
      /\ \A i \in 1..Len(a[ver]) :
           t[i] = IF i \in k..(n - 1) THEN a[ver][i + 1] ELSE a[ver][i]
  BY <1>2, Shifting
<1> HIDE DEF t
<1>8. /\ b \in Seq(Seq(Container)) /\ Len(b) = Len(a)
      /\ \A v \in 1..Len(a) : b[v] = IF v = ver THEN t ELSE a[v]
  BY <1>2, <1>5, <1>7, ExceptSeq
<1>9. arrays' \in [Lists -> Seq(Seq(Container))]
  BY <1>1, <1>3, <1>4, <1>8, <1>5 DEF b
<1>10. \A v \in 1..Len(a) :
         /\ Len(b[v]) = Len(a[v])
         /\ \A i \in 1..Len(a[v]) : \E j \in 1..Len(a[v]) : b[v][i] = a[v][j]
  <2> SUFFICES ASSUME NEW v \in 1..Len(a)
               PROVE  /\ Len(b[v]) = Len(a[v])
                      /\ \A i \in 1..Len(a[v]) :
                           \E j \in 1..Len(a[v]) : b[v][i] = a[v][j]
    OBVIOUS
  <2>1. CASE v = ver
    <3>1. \A i \in 1..Len(a[v]) :
            /\ i \in k..(n - 1) => i + 1 \in 1..Len(a[v]) /\ b[v][i] = a[v][i + 1]
            /\ i \notin k..(n - 1) => b[v][i] = a[v][i]
      BY <2>1, <1>2, <1>7, <1>8
    <3> QED BY <3>1, <2>1, <1>7, <1>8
  <2>2. CASE v # ver
    BY <2>2, <1>8
  <2> QED BY <2>1, <2>2
<1>11. \A i \in 1..(n - 1) :
         b[ver][i] = IF i < k THEN a[ver][i] ELSE a[ver][i + 1]
  <2>1. b[ver] = t
    BY <1>2, <1>8
  <2>2. \A i \in 1..(n - 1) : i \in 1..Len(a[ver]) /\ (i < k <=> i \notin k..(n - 1))
    BY <1>2
  <2> QED BY <1>7, <2>1, <2>2
<1> QED BY <1>2, <1>5, <1>6, <1>8, <1>9, <1>10, <1>11 DEF a, b, n, ver

(* OnHTMLDetach looks for the first callback of the slice that matches.    *)
LEMMA Selected ==
  ASSUME TypeOK, SlicesFit, NEW sel, OnHTMLDetach(sel)
  PROVE  \/ UNCHANGED <<arrays, header, detached, stack>>
         \/ \E k \in 1..header["html"].len :
              /\ InPlace(k)
              /\ detached' = detached \cup {Live("html")[k].id}
              /\ stack' = [i \in DOMAIN stack |->
                             [stack[i] EXCEPT !.disturbed = @ \/ stack[i].at = "html"]]
<1> DEFINE k == SelectInSeq(Live("html"), LAMBDA cb : cb.sel = sel)
<1> DEFINE I == {i \in 1..Len(Live("html")) : Live("html")[i].sel = sel}
<1>1. k = IF I # {} THEN Min(I) ELSE 0
  BY DEF SelectInSeq
<1>2. Len(Live("html")) = header["html"].len /\ header["html"].len \in Nat
  BY HtmlSlots, ElementOfSeq, SubSeqProperties DEF Live
<1>3. I # {} => Min(I) \in I
  <2> SUFFICES ASSUME I # {} PROVE Min(I) \in I
    OBVIOUS
  <2>1. I \subseteq Nat
    BY <1>2
  <2>2. PICK m \in I : \A j \in I : ~ (<<j, m>> \in OpToRel(<, Nat))
    BY <2>1, NatLessThanWellFounded, WFMin
  <2>3. \A j \in I : m <= j
    <3> SUFFICES ASSUME NEW j \in I, j < m PROVE FALSE
      BY <2>1
    <3>1. <<j, m>> \in Nat \X Nat
      BY <2>1
    <3>2. <<j, m>> \in OpToRel(<, Nat)
      BY <3>1, Zenon DEF OpToRel
    <3> QED BY <2>2, <3>2
  <2> QED BY <2>3 DEF Min
<1>4. \A i \in I : i \in 1..header["html"].len
  BY <1>2
<1> HIDE DEF I
<1>5. k \in 0..header["html"].len
  <2>1. CASE I # {}
    BY <1>1, <1>2, <1>3, <1>4, <2>1
  <2>2. CASE I = {}
    BY <1>1, <1>2, <2>2
  <2> QED BY <2>1, <2>2
<1>6. \/ k = 0 /\ UNCHANGED <<arrays, header, detached, stack>>
      \/ /\ k # 0
         /\ InPlace(k)
         /\ detached' = detached \cup {Live("html")[k].id}
         /\ stack' = [i \in DOMAIN stack |->
                        [stack[i] EXCEPT !.disturbed = @ \/ stack[i].at = "html"]]
  BY DEF OnHTMLDetach
<1> HIDE DEF k
<1> QED BY <1>2, <1>5, <1>6

-----------------------------------------------------------------------------
(* The stack of fetches: its top frame, and what replaces it.              *)
LEMMA TopFrame ==
  ASSUME TypeOK, stack # <<>>
  PROVE  /\ Len(stack) \in Nat \ {0} /\ DOMAIN stack = 1..Len(stack)
         /\ Top \in FrameRecord /\ Top = stack[Len(stack)]
         /\ Under \in Seq(FrameRecord) /\ Len(Under) = Len(stack) - 1
         /\ \A k \in 1..(Len(stack) - 1) : Under[k] = stack[k]
         /\ DOMAIN Under = 1..(Len(stack) - 1)
<1>1. /\ stack \in Seq(FrameRecord) /\ Len(stack) \in Nat \ {0}
      /\ DOMAIN stack = 1..Len(stack)
  BY EmptySeq, LenProperties DEF TypeOK
<1>2. \A k \in 1..Len(stack) : stack[k] \in FrameRecord
  BY <1>1, ElementOfSeq
<1>3. Top \in FrameRecord /\ Top = stack[Len(stack)]
  BY <1>1, <1>2 DEF Top, Last
<1>4. /\ Under \in Seq(FrameRecord) /\ Len(Under) = Len(stack) - 1
      /\ \A k \in 1..(Len(stack) - 1) : Under[k] = stack[k]
  BY <1>1, <1>2, SubSeqProperties DEF Under, Front
<1> QED BY <1>1, <1>3, <1>4, LenProperties

LEMMA Pushing ==
  ASSUME NEW s \in Seq(FrameRecord), NEW g \in FrameRecord
  PROVE  /\ Append(s, g) \in Seq(FrameRecord) /\ Append(s, g) # <<>>
         /\ Len(Append(s, g)) = Len(s) + 1 /\ Len(s) \in Nat
         /\ DOMAIN Append(s, g) = 1..(Len(s) + 1) /\ DOMAIN s = 1..Len(s)
         /\ Append(s, g)[Len(s) + 1] = g /\ Last(Append(s, g)) = g
         /\ \A k \in 1..Len(s) : Append(s, g)[k] = s[k]
<1>1. /\ Append(s, g) \in Seq(FrameRecord) /\ Append(s, g) # <<>>
      /\ Len(Append(s, g)) = Len(s) + 1 /\ Len(s) \in Nat
      /\ Append(s, g)[Len(s) + 1] = g
      /\ \A k \in 1..Len(s) : Append(s, g)[k] = s[k]
  BY AppendProperties, LenProperties
<1> QED BY <1>1, LenProperties DEF Last

LEMMA Replacing ==
  ASSUME TypeOK, stack # <<>>, NEW g \in FrameRecord
  PROVE  /\ Append(Under, g) \in Seq(FrameRecord) /\ Append(Under, g) # <<>>
         /\ Len(Append(Under, g)) = Len(stack)
         /\ DOMAIN Append(Under, g) = DOMAIN stack
         /\ Append(Under, g)[Len(stack)] = g /\ Last(Append(Under, g)) = g
         /\ \A k \in 1..(Len(stack) - 1) : Append(Under, g)[k] = stack[k]
<1>1. /\ Len(stack) \in Nat \ {0} /\ DOMAIN stack = 1..Len(stack)
      /\ Under \in Seq(FrameRecord) /\ Len(Under) = Len(stack) - 1
      /\ \A k \in 1..(Len(stack) - 1) : Under[k] = stack[k]
  BY TopFrame
<1>2. /\ Append(Under, g) \in Seq(FrameRecord)
      /\ Len(Append(Under, g)) = Len(Under) + 1
      /\ Append(Under, g)[Len(Under) + 1] = g
      /\ \A k \in 1..Len(Under) : Append(Under, g)[k] = Under[k]
  BY <1>1, Pushing
<1>3. /\ Len(Append(Under, g)) = Len(stack)
      /\ Append(Under, g)[Len(stack)] = g
  BY <1>1, <1>2
<1>4. Append(Under, g) # <<>> /\ DOMAIN Append(Under, g) = DOMAIN stack
  BY <1>1, <1>2, <1>3, EmptySeq, LenProperties
<1> QED BY <1>1, <1>2, <1>3, <1>4 DEF Last

-----------------------------------------------------------------------------
(* Pages and what they show.                                               *)
LEMMA SettingTypes ==
  ASSUME TypeOK
  PROVE  /\ settings \in Settings
         /\ settings.parallelism \in Nat \ {0}
         /\ settings.maxDepth \in Nat /\ settings.maxResponses \in Nat
         /\ settings.maxPageNum \in Nat
         /\ settings.skipOnHTMLOfMaxDepth \in BOOLEAN
         /\ program.on \in [Lists -> Seq(Container)]
         /\ site \in Site /\ WellFormed(program)
<1>1. settings \in Settings /\ program.on \in [Lists -> Seq(Container)]
  BY DEF TypeOK, Program, settings
<1> QED BY <1>1 DEF Settings, TypeOK

LEMMA GoingBack ==
  ASSUME NEW h \in Seq(Shown), h # <<>>, NEW n \in Nat
  PROVE  MustGoBack(h, n) \in Seq(Shown) /\ MustGoBack(h, n) # <<>>
<1>1. Len(h) \in Nat \ {0} /\ \A i \in 1..Len(h) : h[i] \in Shown
  BY EmptySeq, ElementOfSeq
<1>2. CASE Len(h) > n
  <2>1. /\ SubSeq(h, 1, Len(h) - n) \in Seq(Shown)
        /\ Len(SubSeq(h, 1, Len(h) - n)) = Len(h) - n
    BY <1>1, <1>2, SubSeqProperties
  <2>2. Len(h) - n # 0 /\ Len(<<>>) = 0
    BY <1>1, <1>2
  <2>3. SubSeq(h, 1, Len(h) - n) # <<>>
    BY <2>1, <2>2
  <2> QED BY <2>1, <2>3, <1>2 DEF MustGoBack
<1>3. CASE ~(Len(h) > n)
  <2>1. Head(h) \in Shown
    BY HeadTailProperties
  <2> QED BY <2>1, <1>3 DEF MustGoBack
<1> QED BY <1>2, <1>3

LEMMA PageTypes ==
  ASSUME TypeOK, NEW p \in Pages
  PROVE  /\ history[p] \in Seq(Shown) /\ history[p] # <<>>
         /\ Showing(p) \in Shown
         /\ Len(history[p]) \in Nat \ {0}
<1>1. history[p] \in Seq(Shown) /\ history[p] # <<>>
  BY DEF TypeOK
<1>2. Len(history[p]) \in Nat \ {0} /\ Len(history[p]) \in 1..Len(history[p])
  BY <1>1, EmptySeq
<1> QED BY <1>1, <1>2, ElementOfSeq DEF Showing, Last

LEMMA DeferredTypes ==
  ASSUME TypeOK, NEW f \in FrameRecord
  PROVE  /\ Deferred(f) \in Seq(Shown) \ {<<>>} /\ Last(Deferred(f)) \in Shown
         /\ [history EXCEPT ![f.page] = Deferred(f)] \in [Pages -> Seq(Shown) \ {<<>>}]
<1>1. f.page \in Pages /\ f.backs \in Nat
  BY DEF FrameRecord
<1>2. Deferred(f) \in Seq(Shown) /\ Deferred(f) # <<>>
  BY <1>1, PageTypes, GoingBack DEF Deferred
<1>3. Len(Deferred(f)) \in 1..Len(Deferred(f))
  BY <1>2, EmptySeq
<1>4. Last(Deferred(f)) \in Shown
  BY <1>2, <1>3, ElementOfSeq DEF Last
<1> QED BY <1>1, <1>2, <1>4 DEF TypeOK

LEMMA OfferedTypes ==
  ASSUME TypeOK, NEW f \in FrameRecord, NEW sel \in Selectors
  PROVE  /\ Offered(f, sel) \in Seq(Shown \cup {NoURL})
         /\ f.at \in Serp => Offered(f, sel) \in Seq(Docs)
         /\ Len(Offered(f, sel)) \in Nat
<1>1. \A d : Elements(d, sel) \in Seq(Docs)
  BY DEF Elements, TypeOK, Site
<1>2. \A s \in Seq(Docs) : s \in Seq(Shown \cup {NoURL})
  BY SeqMonotonic DEF Shown
<1>3. f.url \in Shown \cup {NoURL}
  BY DEF FrameRecord
<1>4. <<f.url>> \in Seq(Shown \cup {NoURL})
  BY <1>3
<1>5. CASE f.at \in Serp
  BY <1>1, <1>2, <1>5, LenProperties DEF Offered
<1>6. CASE f.at = "data"
  <2>1. f.at \notin Serp
    BY <1>6 DEF Serp
  <2> QED BY <1>1, <1>2, <1>6, <2>1, LenProperties DEF Offered
<1>7. CASE f.at \notin Serp /\ f.at # "data"
  BY <1>4, <1>7, LenProperties DEF Offered
<1> QED BY <1>5, <1>6, <1>7

-----------------------------------------------------------------------------
(* Frames that begin a range, and frames that stay in theirs.              *)
LEMMA LiveIsCaptured ==
  ASSUME TypeOK, SlicesFit, NEW l \in Lists
  PROVE  /\ header[l].ver \in DOMAIN arrays[l] /\ header[l].ver \in Nat
         /\ header[l] \in [ver : Nat, len : Nat]
         /\ header[l].len <= Len(arrays[l][header[l].ver])
         /\ Live(l) = SubSeq(arrays[l][header[l].ver], 1, header[l].len)
<1>1. header[l] \in [ver : Nat, len : Nat] /\ arrays[l] \in Seq(Seq(Container))
  BY DEF TypeOK
<1>2. /\ header[l].ver = Len(arrays[l]) /\ header[l].ver > 0
      /\ header[l].len <= Len(Slots(l))
  BY DEF SlicesFit
<1>3. header[l].ver \in DOMAIN arrays[l]
  BY <1>1, <1>2, LenProperties
<1> QED BY <1>1, <1>2, <1>3 DEF Slots, Live

LEMMA Entering ==
  ASSUME TypeOK, SlicesFit, DetachedIsOut,
         NEW f \in FrameRecord, NEW l \in Lists \cup {"get"}
  PROVE  /\ Enter(f, l) \in FrameRecord
         /\ Enter(f, l).at = l /\ Enter(f, l).i = 0
         /\ Fits(Enter(f, l)) /\ Undetached(Enter(f, l))
         /\ Running(Enter(f, l))
<1> DEFINE g == Enter(f, l)
<1>1. Last(Deferred(f)) \in Shown
  BY DeferredTypes
<1>2. /\ f.over \in [ver : Nat, len : Nat]
      /\ l \in Lists => header[l] \in [ver : Nat, len : Nat]
  BY DEF FrameRecord, TypeOK
<1>3. g \in FrameRecord
  BY <1>1, <1>2 DEF Enter, FrameRecord
<1>4. /\ g.at = l /\ g.i = 0 /\ g.cb = 1 /\ g.disturbed = FALSE
      /\ l \in Lists => g.over = header[l]
  BY DEF Enter, FrameRecord
<1>5. Fits(g)
  <2> SUFFICES ASSUME l \in Lists PROVE Fits(g)
    BY <1>4 DEF Fits
  <2> HIDE DEF g
  <2> QED BY <1>4, LiveIsCaptured DEF Fits
<1>6. Undetached(g)
  <2> SUFFICES ASSUME l = "html" PROVE Ids(Captured(g)) \cap detached = {}
    BY <1>4 DEF Undetached
  <2>1. Captured(g) = Live("html")
    BY <1>4, LiveIsCaptured DEF Captured, Lists, Serp
  <2> QED BY <2>1 DEF DetachedIsOut
<1>7. Running(g)
  BY <1>4 DEF Running
<1> QED BY <1>3, <1>4, <1>5, <1>6, <1>7

LEMMA Beginning ==
  ASSUME TypeOK, SlicesFit, NEW url \in Shown \cup {NoURL}, NEW depth \in Nat,
         NEW page \in Pages
  PROVE  /\ Frame(url, depth, page) \in FrameRecord
         /\ Frame(url, depth, page).at = "request"
         /\ Frame(url, depth, page).i = 0
         /\ Fits(Frame(url, depth, page)) /\ Undetached(Frame(url, depth, page))
         /\ Running(Frame(url, depth, page))
<1> DEFINE g == Frame(url, depth, page)
<1>1. "request" \in Lists
  BY DEF Lists
<1>2. header["request"] \in [ver : Nat, len : Nat]
  BY <1>1 DEF TypeOK
<1>3. g \in FrameRecord
  BY <1>1, <1>2, NobodyIsContainer DEF Frame, FrameRecord, Shown
<1>4. /\ g.at = "request" /\ g.i = 0 /\ g.cb = 1
      /\ g.over = header["request"]
  BY DEF Frame
<1> HIDE DEF g
<1>5. Fits(g)
  BY <1>1, <1>4, LiveIsCaptured DEF Fits
<1>6. Undetached(g) /\ Running(g)
  BY <1>4 DEF Undetached, Running
<1> QED BY <1>3, <1>4, <1>5, <1>6 DEF g

LEMMA SameRange ==
  ASSUME NEW f, NEW g, Fits(f), Undetached(f),
         g.at = f.at, g.over = f.over, g.disturbed = f.disturbed, g.cb > 0
  PROVE  Fits(g) /\ Undetached(g)
BY DEF Fits, Undetached, Captured

-----------------------------------------------------------------------------
(* Steps that leave the registry alone: what is left to show of each kind. *)
RestTypes ==
  /\ pool \in Seq(Pages) \ {<<>>}
  /\ history \in [Pages -> Seq(Shown) \ {<<>>}]
  /\ visited \subseteq Shown
  /\ responseCount \in Nat /\ pageNum \in Nat

Sound(f) == f \in FrameRecord /\ Fits(f) /\ Undetached(f) /\ Running(f)

LEMMA FramesSound ==
  ASSUME RangesInv
  PROVE  \A k \in DOMAIN stack : Sound(stack[k])
<1>1. \A k \in DOMAIN stack : stack[k] \in FrameRecord
  BY ElementOfSeq, LenProperties DEF RangesInv, TypeOK
<1> QED BY <1>1 DEF RangesInv, RangesFit, DetachedIsOut, CallersWait, Sound

LEMMA Steady ==
  ASSUME RangesInv, UNCHANGED <<program, site, registry>>, RestTypes',
         stack' \in Seq(FrameRecord), ret' \in {"none", "ok", "err"},
         \A k \in DOMAIN stack' :
           /\ Sound(stack'[k])
           /\ k < Len(stack') \/ ret' # "none" => stack'[k].i > 0
  PROVE  RangesInv'
<1>1. /\ program' = program /\ site' = site /\ arrays' = arrays
      /\ header' = header /\ registered' = registered /\ detached' = detached
  BY DEF registry
<1>2. Pages' = Pages /\ FrameRecord' = FrameRecord
  BY <1>1 DEF FrameRecord, Pages, settings
<1>3. TypeOK'
  BY <1>1, <1>2 DEF RangesInv, TypeOK, RestTypes
<1>4. SlicesFit' /\ LiveApart'
  BY <1>1 DEF RangesInv, SlicesFit, LiveApart, Slots
<1>5. \A k \in DOMAIN stack' : /\ Fits(stack[k])' /\ Undetached(stack[k])'
                               /\ Running(stack[k])'
  BY <1>1 DEF Sound, Fits, Undetached, Captured, Running
<1>6. DetachedIsOut'
  BY <1>1, <1>5 DEF RangesInv, DetachedIsOut, Live, Slots
<1>7. RangesFit' /\ CallersWait'
  BY <1>5 DEF RangesFit, CallersWait
<1> QED BY <1>3, <1>4, <1>6, <1>7 DEF RangesInv

LEMMA LastOrBefore ==
  ASSUME NEW n \in Nat \ {0}
  PROVE  \A k \in 1..n : k = n \/ k \in 1..(n - 1)
OBVIOUS

LEMMA SteadyReplace ==
  ASSUME RangesInv, UNCHANGED <<program, site, registry>>, RestTypes',
         stack # <<>>, NEW g, Sound(g), Becomes(g),
         ret' \in {"none", "ok", "err"}, ret' # "none" => g.i > 0
  PROVE  RangesInv'
<1>1. /\ TypeOK /\ g \in FrameRecord /\ stack' = Append(Under, g)
      /\ Len(stack) \in Nat \ {0} /\ DOMAIN stack = 1..Len(stack)
  BY TopFrame DEF RangesInv, Sound, Becomes
<1>2. /\ stack' \in Seq(FrameRecord) /\ Len(stack') = Len(stack)
      /\ DOMAIN stack' = 1..Len(stack) /\ stack'[Len(stack)] = g
      /\ \A k \in 1..(Len(stack) - 1) : stack'[k] = stack[k]
  BY <1>1, Replacing
<1>3. \A k \in 1..(Len(stack) - 1) : Sound(stack[k]) /\ stack[k].i > 0
  BY <1>1, FramesSound DEF RangesInv, CallersWait
<1>4. ASSUME NEW k \in DOMAIN stack'
      PROVE  /\ Sound(stack'[k])
             /\ k < Len(stack') \/ ret' # "none" => stack'[k].i > 0
  <2>1. CASE k = Len(stack)
    BY <2>1, <1>1, <1>2
  <2>2. CASE k # Len(stack)
    BY <2>2, <1>1, <1>2, <1>3, LastOrBefore
  <2> QED BY <2>1, <2>2
<1> QED BY <1>2, <1>4, Steady

LEMMA SteadyPush ==
  ASSUME RangesInv, UNCHANGED <<program, site, registry>>, RestTypes',
         NEW callers \in Seq(FrameRecord),
         \A k \in DOMAIN callers : Sound(callers[k]) /\ callers[k].i > 0,
         NEW g, Sound(g), stack' = Append(callers, g), ret' = "none"
  PROVE  RangesInv'
<1>1. g \in FrameRecord
  BY DEF Sound
<1>2. /\ stack' \in Seq(FrameRecord) /\ Len(stack') = Len(callers) + 1
      /\ DOMAIN stack' = 1..(Len(callers) + 1) /\ DOMAIN callers = 1..Len(callers)
      /\ stack'[Len(callers) + 1] = g
      /\ \A k \in 1..Len(callers) : stack'[k] = callers[k]
      /\ Len(callers) \in Nat
  BY <1>1, Pushing
<1>3. \A k \in 1..(Len(callers) + 1) : k = Len(callers) + 1 \/ k \in 1..Len(callers)
  BY <1>2
<1> QED BY <1>2, <1>3, Steady

LEMMA SteadyPop ==
  ASSUME RangesInv, UNCHANGED <<program, site, registry>>, RestTypes',
         stack # <<>>, stack' = Under, ret' \in {"none", "ok", "err"}
  PROVE  RangesInv'
<1>1. /\ Len(stack) \in Nat \ {0} /\ DOMAIN stack = 1..Len(stack)
      /\ Under \in Seq(FrameRecord) /\ DOMAIN Under = 1..(Len(stack) - 1)
      /\ \A k \in 1..(Len(stack) - 1) : Under[k] = stack[k]
  BY TopFrame DEF RangesInv
<1>2. \A k \in 1..(Len(stack) - 1) : Sound(stack[k]) /\ stack[k].i > 0
  BY <1>1, FramesSound DEF RangesInv, CallersWait
<1> QED BY <1>1, <1>2, Steady

LEMMA SteadyTop ==
  ASSUME RangesInv, stack # <<>>
  PROVE  /\ TypeOK /\ SlicesFit /\ DetachedIsOut
         /\ Sound(Top) /\ Top \in FrameRecord /\ Top.page \in Pages
         /\ Top.depth \in Nat /\ Top.i \in Nat /\ Top.cb \in Nat
         /\ Top.count \in Nat /\ Top.backs \in Nat /\ Top.run \in Container
         /\ Top.url \in Shown \cup {NoURL}
         /\ ret # "none" => Top.i > 0
<1>1. /\ TypeOK /\ SlicesFit /\ DetachedIsOut /\ Top = stack[Len(stack)]
      /\ Len(stack) \in DOMAIN stack /\ Top \in FrameRecord
  BY TopFrame DEF RangesInv
<1>2. Sound(Top)
  BY <1>1, FramesSound
<1>3. ret # "none" => Top.i > 0
  BY <1>1 DEF RangesInv, CallersWait
<1> QED BY <1>1, <1>2, <1>3 DEF FrameRecord

-----------------------------------------------------------------------------
(* Visits: scrape, whoever calls it.                                       *)
LEMMA CallersSound ==
  ASSUME RangesInv, stack # <<>>, Top.i > 0, NEW strict \in BOOLEAN
  PROVE  /\ Calling(strict) \in Seq(FrameRecord)
         /\ \A k \in DOMAIN Calling(strict) :
              Sound(Calling(strict)[k]) /\ Calling(strict)[k].i > 0
<1> DEFINE g == [Top EXCEPT !.strict = strict]
<1>1. /\ TypeOK /\ Sound(Top) /\ Top \in FrameRecord
      /\ Len(stack) \in Nat \ {0} /\ DOMAIN stack = 1..Len(stack)
  BY SteadyTop, TopFrame
<1>2. /\ g \in FrameRecord /\ g.i = Top.i /\ g.at = Top.at /\ g.run = Top.run
      /\ g.over = Top.over /\ g.disturbed = Top.disturbed /\ g.cb = Top.cb
  BY <1>1 DEF FrameRecord
<1> HIDE DEF g
<1>3. Top.at \in Lists
  BY <1>1 DEF Sound, Running
<1>4. Sound(g)
  BY <1>1, <1>2, <1>3, SameRange DEF Sound, Running, Fits
<1>5. Calling(strict) = Append(Under, g)
  BY DEF Calling, g
<1>6. /\ Calling(strict) \in Seq(FrameRecord)
      /\ DOMAIN Calling(strict) = 1..Len(stack)
      /\ Calling(strict)[Len(stack)] = g
      /\ \A k \in 1..(Len(stack) - 1) : Calling(strict)[k] = stack[k]
  BY <1>1, <1>2, <1>5, Replacing
<1>7. \A k \in 1..(Len(stack) - 1) : Sound(stack[k]) /\ stack[k].i > 0
  BY <1>1, FramesSound DEF RangesInv, CallersWait
<1> QED BY <1>1, <1>2, <1>4, <1>6, <1>7, LastOrBefore

LEMMA ScrapeKeepsInv ==
  ASSUME RangesInv, UNCHANGED <<program, site, registry>>,
         history' \in [Pages -> Seq(Shown) \ {<<>>}],
         responseCount' \in Nat, pageNum' \in Nat,
         NEW callers \in Seq(FrameRecord),
         \A k \in DOMAIN callers : Sound(callers[k]) /\ callers[k].i > 0,
         NEW url \in Shown \cup {NoURL}, NEW depth \in Nat,
         Scrape(url, depth, callers)
  PROVE  RangesInv'
<1>1. /\ pool \in Seq(Pages) /\ pool # <<>> /\ visited \subseteq Shown
      /\ TypeOK /\ SlicesFit
  BY DEF RangesInv, TypeOK
<1>2. Pages' = Pages
  BY DEF Pages, settings
<1>3. CASE /\ stack' = callers /\ ret' = "err" /\ UNCHANGED <<visited, pool>>
  <2>1. RestTypes'
    BY <1>1, <1>2, <1>3 DEF RestTypes, Shown
  <2> QED BY <1>3, <2>1, Steady
<1>4. CASE /\ visited' = visited \cup ({url} \ {NoURL})
           /\ stack' = Append(callers, Frame(url, depth, Head(pool)))
           /\ pool' = Append(Tail(pool), Head(pool)) /\ ret' = "none"
  <2>1. Head(pool) \in Pages /\ Tail(pool) \in Seq(Pages)
    BY <1>1, HeadTailProperties
  <2>2. pool' \in Seq(Pages) /\ pool' # <<>>
    <3>1. /\ pool' \in Seq(Pages) /\ Len(pool') = Len(Tail(pool)) + 1
          /\ Len(Tail(pool)) \in Nat
      BY <1>4, <2>1, AppendProperties, LenProperties
    <3>2. Len(<<>>) = 0
      OBVIOUS
    <3>3. Len(pool') # 0
      BY <3>1
    <3> QED BY <3>1, <3>2, <3>3
  <2>3. visited' \subseteq Shown
    BY <1>1, <1>4
  <2>4. RestTypes'
    BY <1>2, <2>2, <2>3 DEF RestTypes, Shown
  <2>5. Sound(Frame(url, depth, Head(pool)))
    BY <1>1, <2>1, Beginning DEF Sound
  <2> QED BY <1>4, <2>4, <2>5, SteadyPush
<1> QED BY <1>3, <1>4 DEF Scrape

LEMMA VisitKeepsInv ==
  ASSUME RangesInv, Visit
  PROVE  RangesInv'
<1>1. /\ Scrape(Start, 1, <<>>) /\ UNCHANGED <<program, site, registry, history>>
      /\ UNCHANGED <<responseCount, pageNum>>
  BY DEF Visit
<1>2. /\ history' \in [Pages -> Seq(Shown) \ {<<>>}]
      /\ responseCount' \in Nat /\ pageNum' \in Nat
  BY <1>1 DEF RangesInv, TypeOK
<1>3. Start \in Shown
  BY CallbacksAssumption DEF Shown
<1>4. <<>> \in Seq(FrameRecord) /\ DOMAIN <<>> = {}
  OBVIOUS
<1> QED BY <1>1, <1>2, <1>3, <1>4, ScrapeKeepsInv

-----------------------------------------------------------------------------
(* The callback of a range.                                                *)
LEMMA NextIsContainer ==
  ASSUME RangesInv, stack # <<>>, Top.at \in Lists, Top.cb <= Top.over.len
  PROVE  /\ arrays[Top.at][Top.over.ver][Top.cb] \in Container
         /\ Top.at \notin Serp =>
              ~Clicks(arrays[Top.at][Top.over.ver][Top.cb])
         /\ Top.at # "html" =>
              arrays[Top.at][Top.over.ver][Top.cb]
                \in Range(program.on[Top.at]) \cup {Nobody}
         /\ Top.over.ver \in 1..Len(arrays[Top.at])
         /\ Top.cb \in 1..Len(arrays[Top.at][Top.over.ver])
<1> DEFINE l == Top.at
           v == Top.over.ver
           k == Top.cb
<1>1. /\ TypeOK /\ SlicesFit /\ Sound(Top) /\ Top \in FrameRecord /\ k \in Nat
  BY SteadyTop
<1>2. /\ arrays[l] \in Seq(Seq(Container)) /\ v \in DOMAIN arrays[l]
      /\ Top.over.len <= Len(arrays[l][v]) /\ k > 0
      /\ Top.over \in [ver : Nat, len : Nat]
  BY <1>1 DEF Sound, Fits, TypeOK, FrameRecord
<1>3. /\ v \in 1..Len(arrays[l]) /\ arrays[l][v] \in Seq(Container)
      /\ Len(arrays[l][v]) \in Nat
  BY <1>2, ElementOfSeq, LenProperties
<1>4. k \in 1..Len(arrays[l][v])
  BY <1>1, <1>2, <1>3
<1>5. arrays[l][v][k] \in Container
  BY <1>3, <1>4, ElementOfSeq
<1>6. ASSUME l # "html"
      PROVE  \/ k \in DOMAIN program.on[l] /\ arrays[l][v][k] = program.on[l][k]
             \/ arrays[l][v][k] = Nobody
  <2> DEFINE p == program.on[l]
  <2>1. p \in Seq(Container) /\ Capacity \in Nat /\ Len(p) \in Nat
    BY <1>1, SettingTypes, CallbacksAssumption, LenProperties
  <2>2. arrays[l] = <<Padded(p, Capacity)>>
    BY <1>1, <1>6 DEF SlicesFit
  <2> HIDE DEF p
  <2>3. v = 1 /\ arrays[l][v] = Padded(p, Capacity)
    BY <1>3, <2>2
  <2>4. CASE k <= Len(p)
    <3>1. arrays[l][v][k] = p[k] /\ k \in DOMAIN p
      BY <2>1, <2>3, <2>4, <1>4, Padding, LenProperties
    <3> QED BY <3>1 DEF p
  <2>5. CASE k > Len(p)
    <3>1. \A i \in DOMAIN Padded(p, Capacity) :
            i > Len(p) => Padded(p, Capacity)[i] = Nobody
      BY <2>1, Padding
    <3>2. k \in DOMAIN Padded(p, Capacity)
      BY <2>3, <1>3, <1>4, LenProperties
    <3> QED BY <2>3, <2>5, <3>1, <3>2
  <2> QED BY <2>4, <2>5, <1>1, <2>1
<1>7. l # "html" => arrays[l][v][k] \in Range(program.on[l]) \cup {Nobody}
  BY <1>6 DEF Range
<1>8. ASSUME l \notin Serp PROVE ~Clicks(arrays[l][v][k])
  <2>1. l # "html" /\ WellFormed(program)
    BY <1>1, <1>8, SettingTypes DEF Serp
  <2>2. ~Clicks(Nobody)
    BY DEF Nobody, Clicks
  <2> QED BY <1>6, <1>8, <2>1, <2>2 DEF WellFormed
<1> QED BY <1>3, <1>4, <1>5, <1>7, <1>8

LEMMA FailingSound ==
  ASSUME TypeOK, SlicesFit, DetachedIsOut, NEW f \in FrameRecord
  PROVE  Sound(Failing(f)) /\ Failing(f).i = 0 /\ Failing(f).at = "error"
<1> DEFINE e == Enter(f, "error")
<1>1. "error" \in Lists
  BY DEF Lists
<1>2. /\ e \in FrameRecord /\ e.at = "error" /\ e.i = 0
      /\ Fits(e) /\ Undetached(e) /\ Running(e)
  BY <1>1, Entering
<1> DEFINE g == [e EXCEPT !.failed = TRUE]
<1> HIDE DEF e
<1>3. /\ g \in FrameRecord /\ g.at = e.at /\ g.i = e.i /\ g.over = e.over
      /\ g.disturbed = e.disturbed /\ g.cb = e.cb
  BY <1>2 DEF FrameRecord
<1> HIDE DEF g
<1>4. Sound(g)
  BY <1>1, <1>2, <1>3, SameRange DEF Sound, Running, Fits
<1> QED BY <1>2, <1>3, <1>4 DEF Failing, g, e

LEMMA OldTypes ==
  ASSUME RangesInv
  PROVE  /\ RestTypes /\ TypeOK /\ SlicesFit /\ DetachedIsOut
         /\ ret \in {"none", "ok", "err"}
BY DEF RangesInv, TypeOK, RestTypes

LEMMA SamePages ==
  ASSUME UNCHANGED program
  PROVE  Pages' = Pages /\ settings' = settings
BY DEF Pages, settings

LEMMA MustGetKeepsInv ==
  ASSUME RangesInv, MustGet
  PROVE  RangesInv'
<1>1. /\ stack # <<>> /\ Top.at = "get"
      /\ UNCHANGED <<program, site, registry, ret, pool, pageNum>>
  BY DEF MustGet
<1>2. /\ Sound(Top) /\ Top \in FrameRecord /\ Top.page \in Pages
      /\ TypeOK /\ SlicesFit /\ DetachedIsOut /\ RestTypes
      /\ Top.url \in Shown \cup {NoURL}
  BY <1>1, SteadyTop, OldTypes
<1>3. Top.i = 0 /\ ret = "none"
  <2>1. "get" \notin Lists
    BY DEF Lists, Serp
  <2>2. Top.i \in Nat /\ ~(Top.i > 0)
    BY <1>1, <1>2, <2>1 DEF Sound, Running, FrameRecord
  <2> QED BY <1>1, <2>2, SteadyTop, OldTypes
<1>4. /\ "response" \in Lists
      /\ \A g \in FrameRecord : Sound(Enter(g, "response")) /\ Sound(Failing(g))
  BY <1>2, Entering, FailingSound DEF Sound, Lists
<1>5. Pages' = Pages
  BY <1>1, SamePages
<1>6. history[Top.page] \in Seq(Shown) /\ Showing(Top.page) \in Shown
  BY <1>2, PageTypes
<1>7. ASSUME NEW g, Sound(g), Becomes(g), history' \in [Pages -> Seq(Shown) \ {<<>>}],
             visited' \subseteq Shown, responseCount' \in Nat
      PROVE  RangesInv'
  <2>1. RestTypes'
    BY <1>1, <1>2, <1>5, <1>7 DEF RestTypes, Shown
  <2>2. ret' = "none"
    BY <1>1, <1>3
  <2> QED BY <1>1, <1>7, <2>1, <2>2, SteadyReplace
<1>8. /\ history \in [Pages -> Seq(Shown) \ {<<>>}] /\ visited \subseteq Shown
      /\ responseCount \in Nat /\ responseCount + 1 \in Nat
  BY <1>2 DEF RestTypes
<1>9. CASE /\ Top.url # NoURL
           /\ history' = [history EXCEPT ![Top.page] = Append(@, Top.url)]
           /\ \/ Becomes(Failing(Top)) /\ UNCHANGED responseCount
              \/ Answered(Top)
           /\ UNCHANGED visited
  <2>1. /\ Append(history[Top.page], Top.url) \in Seq(Shown)
        /\ Append(history[Top.page], Top.url) # <<>>
    <3>1. Top.url \in Shown
      BY <1>2, <1>9
    <3> HIDE DEF Shown
    <3> QED BY <3>1, <1>6, AppendProperties
  <2>2. history' \in [Pages -> Seq(Shown) \ {<<>>}]
    BY <1>8, <1>9, <2>1
  <2> QED BY <1>2, <1>4, <1>7, <1>8, <1>9, <2>2 DEF Answered
<1>10. CASE /\ visited' = visited \cup {Showing(Top.page)}
            /\ Answered([Top EXCEPT !.url = Showing(Top.page)])
            /\ UNCHANGED history
  <2>1. [Top EXCEPT !.url = Showing(Top.page)] \in FrameRecord
    BY <1>2, <1>6 DEF FrameRecord
  <2> QED BY <1>4, <1>6, <1>7, <1>8, <1>10, <2>1 DEF Answered
<1>11. CASE Becomes(Failing(Top)) /\ UNCHANGED <<history, visited, responseCount>>
  BY <1>2, <1>4, <1>7, <1>8, <1>11
<1> QED BY <1>9, <1>10, <1>11 DEF MustGet

(* A frame that stays in its range.                                        *)
LEMMA StaysSound ==
  ASSUME NEW f, Sound(f), NEW g \in FrameRecord, g.at = f.at, g.over = f.over,
         g.disturbed = f.disturbed, g.cb > 0, Running(g)
  PROVE  Sound(g)
BY SameRange DEF Sound

LEMMA AdvancingSound ==
  ASSUME NEW f, Sound(f)
  PROVE  Sound(Advance(f)) /\ Advance(f).at = f.at
<1> DEFINE g == [f EXCEPT !.i = 0, !.cb = @ + 1]
<1>1. f \in FrameRecord /\ f.cb + 1 \in Nat /\ f.cb + 1 > 0
  BY DEF Sound, FrameRecord
<1>2. /\ g \in FrameRecord /\ g.at = f.at /\ g.over = f.over
      /\ g.disturbed = f.disturbed
  BY <1>1 DEF FrameRecord
<1>3. g.i = 0 /\ g.cb = f.cb + 1
  BY <1>1 DEF FrameRecord
<1> HIDE DEF g
<1>4. Running(g) /\ g.cb > 0
  BY <1>1, <1>3 DEF Running
<1>5. Sound(g)
  BY <1>2, <1>4, StaysSound
<1> QED BY <1>2, <1>5 DEF Advance, g

LEMMA NextCallbackKeepsInv ==
  ASSUME RangesInv, NextCallback
  PROVE  RangesInv'
<1> DEFINE cb == arrays[Top.at][Top.over.ver][Top.cb]
           f == [Top EXCEPT !.backs = Defer(Top, cb)]
           found == Offered(f, cb.sel)
<1>1. /\ stack # <<>> /\ ret = "none" /\ Top.at \in Lists
      /\ Top.i = 0 /\ Top.cb <= Top.over.len
      /\ UNCHANGED <<program, site, registry, ret, pool, counts>>
  BY DEF NextCallback, InRange
<1>2. /\ Sound(Top) /\ Top \in FrameRecord /\ Top.cb \in Nat /\ Top.backs \in Nat
      /\ TypeOK /\ SlicesFit /\ DetachedIsOut /\ RestTypes
  BY <1>1, SteadyTop, OldTypes
<1>3. cb \in Container /\ (Top.at \notin Serp => ~Clicks(cb))
  BY <1>1, NextIsContainer
<1>4. Top.cb > 0
  BY <1>1, <1>2 DEF Sound, Fits
<1>5. Pages' = Pages
  BY <1>1, SamePages
<1>6. \/ RunDeferred(f) /\ Becomes(Failing(f))
      \/ Becomes(Advance(f)) /\ UNCHANGED history
      \/ Becomes([f EXCEPT !.run = cb, !.i = 1, !.count = Len(found)]) /\ UNCHANGED history
  BY DEF NextCallback
<1> HIDE DEF cb
<1>7. Defer(Top, cb) \in Nat /\ cb.sel \in Selectors
  BY <1>2, <1>3 DEF Defer, Container
<1>8. /\ f \in FrameRecord /\ f.at = Top.at /\ f.over = Top.over
      /\ f.disturbed = Top.disturbed /\ f.cb = Top.cb /\ f.i = 0
  BY <1>1, <1>2, <1>7 DEF FrameRecord
<1> HIDE DEF f
<1>9. Len(found) \in Nat
  BY <1>2, <1>7, <1>8, OfferedTypes
<1> HIDE DEF found
<1>10. ASSUME NEW g, Sound(g), Becomes(g), history' \in [Pages -> Seq(Shown) \ {<<>>}]
       PROVE  RangesInv'
  <2>1. RestTypes'
    BY <1>1, <1>2, <1>5, <1>10 DEF RestTypes, Shown, counts
  <2>2. ret' = "none"
    BY <1>1
  <2> QED BY <1>1, <1>10, <2>1, <2>2, SteadyReplace
<1>11. history \in [Pages -> Seq(Shown) \ {<<>>}]
  BY <1>2 DEF RestTypes
<1>12. CASE RunDeferred(f) /\ Becomes(Failing(f))
  <2>1. history' \in [Pages -> Seq(Shown) \ {<<>>}]
    BY <1>2, <1>8, <1>12, DeferredTypes DEF RunDeferred
  <2> QED BY <1>2, <1>8, <1>10, <1>12, <2>1, FailingSound
<1>13. CASE Becomes(Advance(f)) /\ UNCHANGED history
  <2>1. Running(f)
    BY <1>8 DEF Running
  <2>2. Sound(f)
    BY <1>2, <1>4, <1>8, <2>1, StaysSound
  <2> QED BY <1>10, <1>11, <1>13, <2>2, AdvancingSound
<1>14. CASE /\ Becomes([f EXCEPT !.run = cb, !.i = 1, !.count = Len(found)])
            /\ UNCHANGED history
  <2> DEFINE g == [f EXCEPT !.run = cb, !.i = 1, !.count = Len(found)]
  <2>1. /\ g \in FrameRecord /\ g.at = f.at /\ g.over = f.over
        /\ g.disturbed = f.disturbed /\ g.cb = f.cb /\ g.run = cb
    BY <1>3, <1>8, <1>9 DEF FrameRecord
  <2> HIDE DEF g
  <2>2. Running(g) /\ g.cb > 0
    BY <1>1, <1>3, <1>4, <1>8, <2>1 DEF Running
  <2>3. Sound(g)
    BY <1>2, <1>8, <2>1, <2>2, StaysSound
  <2> QED BY <1>10, <1>11, <1>14, <2>3 DEF g
<1> QED BY <1>6, <1>12, <1>13, <1>14

LEMMA CallbackOverKeepsInv ==
  ASSUME RangesInv, CallbackOver
  PROVE  RangesInv'
<1>1. /\ stack # <<>> /\ ret = "none" /\ Becomes(Advance(Top))
      /\ UNCHANGED <<program, site, registry, ret, browser, counts>>
  BY DEF CallbackOver, InRange
<1>2. Sound(Top) /\ RestTypes
  BY <1>1, SteadyTop, OldTypes
<1>3. RestTypes'
  BY <1>1, <1>2, SamePages DEF RestTypes, Shown, counts, browser
<1> QED BY <1>1, <1>2, <1>3, AdvancingSound, SteadyReplace

LEMMA NextElementSound ==
  ASSUME RangesInv, stack # <<>>, Top.at \in Lists, Top.i > 0
  PROVE  LET g == [Top EXCEPT !.i = @ + 1] IN Sound(g) /\ g.i > 0
<1> DEFINE g == [Top EXCEPT !.i = @ + 1]
<1>1. Sound(Top) /\ Top \in FrameRecord /\ Top.i \in Nat
  BY SteadyTop
<1>2. /\ g \in FrameRecord /\ g.at = Top.at /\ g.over = Top.over
      /\ g.disturbed = Top.disturbed /\ g.cb = Top.cb /\ g.run = Top.run
  BY <1>1 DEF FrameRecord
<1>3. g.i > 0
  BY <1>1 DEF FrameRecord
<1> HIDE DEF g
<1>4. Running(g) /\ g.cb > 0
  BY <1>1, <1>2, <1>3 DEF Sound, Running, Fits
<1>5. Sound(g)
  BY <1>1, <1>2, <1>4, StaysSound
<1> QED BY <1>3, <1>5 DEF g

LEMMA ElementMissedKeepsInv ==
  ASSUME RangesInv, ElementMissed
  PROVE  RangesInv'
<1> DEFINE now == Offered(Top, Top.run.sel)
<1>1. /\ stack # <<>> /\ ret = "none" /\ Top.at \in Lists /\ Top.i > 0
      /\ Becomes([Top EXCEPT !.i = @ + 1])
      /\ history' = [history EXCEPT ![Top.page] =
                       IF now = <<>> THEN MustGoBack(@, 1) ELSE @]
      /\ UNCHANGED <<program, site, registry, ret, pool, counts>>
  <2>1. Top.i \in 1..Top.count => Top.i > 0
    OBVIOUS
  <2> QED BY <2>1 DEF ElementMissed, InRange, Lists
<1>2. TypeOK /\ RestTypes /\ Top.page \in Pages
  BY <1>1, SteadyTop, OldTypes
<1>3. /\ history[Top.page] \in Seq(Shown) \ {<<>>}
      /\ MustGoBack(history[Top.page], 1) \in Seq(Shown) \ {<<>>}
  BY <1>2, PageTypes, GoingBack
<1>4. history' \in [Pages -> Seq(Shown) \ {<<>>}]
  BY <1>1, <1>2, <1>3 DEF RestTypes
<1>5. RestTypes'
  BY <1>1, <1>2, <1>4, SamePages DEF RestTypes, Shown, counts
<1>6. ret' = "none"
  BY <1>1
<1> QED BY <1>1, <1>5, <1>6, NextElementSound, SteadyReplace

LEMMA ActingFacts ==
  ASSUME RangesInv, NEW act, Acting(act)
  PROVE  /\ stack # <<>> /\ ret = "none" /\ Top.at \in Lists /\ Top.i > 0
         /\ Top.i \in 1..Len(Offered(Top, Top.run.sel))
         /\ act \in Top.run.does
         /\ Target \in Shown \cup {NoURL}
         /\ Top.at \in Serp => Target \in Docs
<1>1. /\ stack # <<>> /\ ret = "none" /\ Top.at \in Lists
      /\ Top.i \in 1..Top.count /\ Top.i <= Len(Offered(Top, Top.run.sel))
      /\ act \in Top.run.does
  BY DEF Acting, InRange
<1>2. TypeOK /\ Top \in FrameRecord /\ Top.run.sel \in Selectors
  BY <1>1, SteadyTop DEF Container
<1>3. /\ Offered(Top, Top.run.sel) \in Seq(Shown \cup {NoURL})
      /\ Top.at \in Serp => Offered(Top, Top.run.sel) \in Seq(Docs)
      /\ Len(Offered(Top, Top.run.sel)) \in Nat
  BY <1>2, OfferedTypes
<1>4. Top.i > 0 /\ Top.i \in 1..Len(Offered(Top, Top.run.sel))
  BY <1>1, <1>3
<1> QED BY <1>1, <1>3, <1>4, ElementOfSeq DEF Target

LEMMA JustReturnKeepsInv ==
  ASSUME RangesInv, JustReturn
  PROVE  RangesInv'
<1>1. /\ stack # <<>> /\ Top.i > 0
      /\ stack' = Calling(TRUE) /\ ret' \in {"ok", "err"}
      /\ UNCHANGED <<program, site, registry, browser, counts>>
  BY ActingFacts DEF JustReturn
<1>2. RestTypes'
  BY <1>1, OldTypes, SamePages DEF RestTypes, Shown, counts, browser
<1>3. /\ Calling(TRUE) \in Seq(FrameRecord)
      /\ \A k \in DOMAIN Calling(TRUE) :
           Sound(Calling(TRUE)[k]) /\ Calling(TRUE)[k].i > 0
  BY <1>1, CallersSound
<1> QED BY <1>1, <1>2, <1>3, Steady

LEMMA VisitLinkKeepsInv ==
  ASSUME RangesInv, VisitLink
  PROVE  RangesInv'
<1>1. /\ UNCHANGED <<program, site, registry, history>>
      /\ UNCHANGED <<responseCount, pageNum>>
  BY DEF VisitLink
<1>2. PICK act \in {"visit", "follow", "enter"}, depth \in {Top.depth + 1, 1},
           strict \in BOOLEAN :
        Acting(act) /\ Scrape(Target, depth, Calling(strict))
  BY DEF VisitLink
<1>3. /\ stack # <<>> /\ Top.i > 0 /\ Target \in Shown \cup {NoURL}
  BY <1>2, ActingFacts
<1>4. depth \in Nat
  <2>1. Top.depth + 1 \in Nat
    BY <1>3, SteadyTop
  <2> QED BY <1>2, <2>1
<1>5. /\ history' \in [Pages -> Seq(Shown) \ {<<>>}]
      /\ responseCount' \in Nat /\ pageNum' \in Nat
  BY <1>1, OldTypes DEF RestTypes
<1>6. /\ Calling(strict) \in Seq(FrameRecord)
      /\ \A k \in DOMAIN Calling(strict) :
           Sound(Calling(strict)[k]) /\ Calling(strict)[k].i > 0
  BY <1>3, CallersSound
<1> QED BY <1>1, <1>2, <1>3, <1>4, <1>5, <1>6, ScrapeKeepsInv

LEMMA ClickKeepsInv ==
  ASSUME RangesInv, Click
  PROVE  RangesInv'
<1>1. /\ history' = [history EXCEPT ![Top.page] = Append(@, Target)]
      /\ UNCHANGED <<program, site, registry, responseCount>>
  BY DEF Click
<1>2. PICK act \in {"click", "step", "turn"}, depth \in {Top.depth, Top.depth + 1} :
        Acting(act) /\ Scrape(NoURL, depth, Calling(TRUE))
  BY DEF Click
<1>3. /\ stack # <<>> /\ Top.i > 0 /\ Top.at \in Lists /\ act \in Top.run.does
      /\ Top.at \in Serp => Target \in Docs
  BY <1>2, ActingFacts
<1>4. /\ TypeOK /\ RestTypes /\ Sound(Top) /\ Top.page \in Pages
      /\ Top.depth \in Nat
  BY <1>3, SteadyTop, OldTypes
<1>5. Target \in Shown
  <2>1. Clicks(Top.run)
    BY <1>2, <1>3 DEF Clicks
  <2> QED BY <1>3, <1>4, <2>1 DEF Sound, Running, Shown
<1>6. depth \in Nat
  <2>1. Top.depth + 1 \in Nat
    BY <1>4
  <2> QED BY <1>2, <1>4, <2>1
<1>7. pageNum' \in Nat
  <2>1. Showing(Top.page) \in Shown
    BY <1>4, PageTypes
  <2>2. Showing(Top.page) \in Nat
    BY <2>1, CallbacksAssumption DEF Shown, Docs, Blank
  <2>3. UNCHANGED pageNum \/ pageNum' = Showing(Top.page)
    BY DEF Click
  <2> QED BY <1>4, <2>1, <2>2, <2>3 DEF RestTypes
<1>8. history' \in [Pages -> Seq(Shown) \ {<<>>}]
  <2>1. /\ Append(history[Top.page], Target) \in Seq(Shown)
        /\ Append(history[Top.page], Target) # <<>>
    <3>1. history[Top.page] \in Seq(Shown)
      BY <1>4, PageTypes
    <3> HIDE DEF Shown
    <3> QED BY <3>1, <1>5, AppendProperties
  <2> QED BY <1>1, <1>4, <2>1 DEF RestTypes
<1>9. responseCount' \in Nat
  BY <1>1, <1>4 DEF RestTypes
<1>10. /\ Calling(TRUE) \in Seq(FrameRecord)
       /\ \A k \in DOMAIN Calling(TRUE) :
            Sound(Calling(TRUE)[k]) /\ Calling(TRUE)[k].i > 0
  BY <1>3, CallersSound
<1> QED BY <1>1, <1>2, <1>6, <1>7, <1>8, <1>9, <1>10, ScrapeKeepsInv

LEMMA ReturnKeepsInv ==
  ASSUME RangesInv, Return
  PROVE  RangesInv'
<1>1. /\ stack # <<>> /\ ret # "none" /\ ret' = "none"
      /\ UNCHANGED <<program, site, registry, pool, counts>>
  BY DEF Return
<1>2. /\ TypeOK /\ SlicesFit /\ DetachedIsOut /\ Sound(Top)
      /\ Top \in FrameRecord /\ Top.i > 0 /\ RestTypes
  BY <1>1, SteadyTop, OldTypes
<1>3. Top.at \in Lists
  BY <1>2 DEF Sound, Running
<1>4. CASE RunDeferred(Top) /\ Becomes(Failing(Top))
  <2>1. history' \in [Pages -> Seq(Shown) \ {<<>>}]
    BY <1>2, <1>4, DeferredTypes DEF RunDeferred
  <2>2. RestTypes'
    BY <1>1, <1>2, <2>1, SamePages DEF RestTypes, Shown, counts
  <2> QED BY <1>1, <1>2, <1>4, <2>2, FailingSound, SteadyReplace
<1>5. CASE Becomes([Top EXCEPT !.i = @ + 1]) /\ UNCHANGED history
  <2>1. RestTypes'
    BY <1>1, <1>2, <1>5, SamePages DEF RestTypes, Shown, counts
  <2> QED BY <1>1, <1>2, <1>3, <1>5, <2>1, NextElementSound, SteadyReplace
<1> QED BY <1>4, <1>5 DEF Return

LEMMA StageOverKeepsInv ==
  ASSUME RangesInv, StageOver
  PROVE  RangesInv'
<1>1. /\ stack # <<>> /\ ret = "none" /\ Top.at \in Lists /\ RunDeferred(Top)
      /\ UNCHANGED <<program, site, registry, pool, counts>>
  BY DEF StageOver, InRange
<1>2. /\ TypeOK /\ SlicesFit /\ DetachedIsOut /\ Sound(Top)
      /\ Top \in FrameRecord /\ RestTypes
  BY <1>1, SteadyTop, OldTypes
<1>3. history' \in [Pages -> Seq(Shown) \ {<<>>}]
  BY <1>1, <1>2, DeferredTypes DEF RunDeferred
<1>4. RestTypes'
  BY <1>1, <1>2, <1>3, SamePages DEF RestTypes, Shown, counts
<1>5. CASE Finish("err") \/ Finish("ok")
  BY <1>1, <1>4, <1>5, SteadyPop DEF Finish
<1>6. CASE /\ Top.at \notin {"error", "scraped"}
           /\ Becomes(Enter(Top, NextStage(Top.at))) /\ UNCHANGED ret
  <2>1. NextStage(Top.at) \in Lists \cup {"get"}
    BY <1>1, <1>6 DEF NextStage, Lists, Serp
  <2>2. Sound(Enter(Top, NextStage(Top.at)))
    BY <1>2, <2>1, Entering DEF Sound
  <2> QED BY <1>1, <1>4, <1>6, <2>2, SteadyReplace
<1> QED BY <1>5, <1>6 DEF StageOver

-----------------------------------------------------------------------------
(* Steps that change the slice of html.                                    *)
LEMMA LiveIds ==
  ASSUME RangesInv
  PROVE  /\ Ids(Live("html")) = {Slots("html")[i].id : i \in 1..header["html"].len}
         /\ \A i \in 1..header["html"].len : Slots("html")[i].id \in 1..registered
         /\ \A i \in 1..header["html"].len : Slots("html")[i].id \notin detached
         /\ detached \subseteq 1..registered /\ registered \in Nat
<1>1. /\ Slots("html") \in Seq(Container)
      /\ header["html"].len \in 0..Len(Slots("html"))
  BY HtmlSlots DEF RangesInv
<1>2. Ids(Live("html")) = {Slots("html")[i].id : i \in 1..header["html"].len}
  BY <1>1, IdsOfSlice DEF Live
<1>3. /\ Ids(Live("html")) \cap detached = {}
      /\ Ids(Live("html")) \cup detached = 1..registered
      /\ registered \in Nat
  BY DEF RangesInv, DetachedIsOut, TypeOK
<1> QED BY <1>2, <1>3

(* Neither a callback appended in place nor a copy of the array reaches a  *)
(* range that was not disturbed.                                           *)
LEMMA CapturedKept ==
  ASSUME RangesInv, NEW cb \in Container, Appended("html", cb),
         NEW f \in FrameRecord, Fits(f), f.at \in Lists, ~f.disturbed
  PROVE  SubSeq(arrays'[f.at][f.over.ver], 1, f.over.len) = Captured(f)
<1> DEFINE s == arrays[f.at][f.over.ver]
           t == arrays'[f.at][f.over.ver]
           m == f.over.len
<1>1. CASE f.at # "html"
  <2>1. \A l \in Lists \ {"html"} : arrays'[l] = arrays[l]
    BY Appending DEF RangesInv
  <2> QED BY <1>1, <2>1 DEF Captured
<1>2. CASE f.at = "html"
  <2>1. /\ Grown(arrays["html"], arrays'["html"], header["html"].len, cb)
        /\ arrays' \in [Lists -> Seq(Seq(Container))]
    BY Appending DEF RangesInv
  <2>2. /\ arrays["html"] \in Seq(Seq(Container))
        /\ header["html"].ver = Len(arrays["html"])
        /\ Len(arrays["html"]) \in Nat
    BY HtmlSlots, LenProperties DEF RangesInv
  <2>3. /\ f.over.ver \in 1..Len(arrays["html"])
        /\ m \in Nat /\ m <= Len(s)
        /\ f.over.ver = Len(arrays["html"]) => m <= header["html"].len
    BY <1>2, <2>2, LenProperties DEF Fits, FrameRecord
  <2>4. s \in Seq(Container) /\ Len(s) \in Nat
    BY <1>2, <2>2, <2>3, ElementOfSeq, LenProperties
  <2>5. f.over.ver \in 1..Len(arrays'["html"]) /\ arrays'["html"] \in Seq(Seq(Container))
    BY <2>1, <2>2, <2>3 DEF Grown
  <2>6. t \in Seq(Container) /\ Len(t) = Len(s)
    BY <1>2, <2>1, <2>3, <2>5, ElementOfSeq DEF Grown, Kept
  <2>7. \A i \in 1..m : t[i] = s[i]
    <3> SUFFICES ASSUME NEW i \in 1..m PROVE t[i] = s[i]
      OBVIOUS
    <3>1. i \in 1..Len(s) /\ (f.over.ver = Len(arrays["html"]) => i <= header["html"].len)
      <4>1. header["html"].len \in Nat
        BY HtmlSlots DEF RangesInv
      <4> QED BY <2>3, <2>4, <4>1
    <3>2. Kept(arrays["html"], arrays'["html"], header["html"].len)
      BY <2>1 DEF Grown
    <3>3. /\ i \in 1..Len(arrays["html"][f.over.ver])
          /\ s = arrays["html"][f.over.ver] /\ t = arrays'["html"][f.over.ver]
      BY <1>2, <3>1
    <3>4. \/ f.over.ver # Len(arrays["html"])
          \/ i <= header["html"].len
      BY <3>1
    <3> HIDE DEF s, t
    <3>5. arrays'["html"][f.over.ver][i] = arrays["html"][f.over.ver][i]
      BY <2>3, <3>2, <3>3, <3>4 DEF Kept
    <3> QED BY <3>3, <3>5
  <2>8. \A i \in 1..m : s[i] \in Container /\ t[i] \in Container
    <3> SUFFICES ASSUME NEW i \in 1..m
                 PROVE  s[i] \in Container /\ t[i] \in Container
      OBVIOUS
    <3> HIDE DEF s, t, m
    <3>1. i \in 1..Len(s) /\ i \in 1..Len(t)
      BY <2>3, <2>4, <2>6
    <3> QED BY <2>4, <2>6, <3>1, ElementOfSeq
  <2> HIDE DEF s, t, m
  <2>9. /\ SubSeq(s, 1, m) \in Seq(Container) /\ SubSeq(t, 1, m) \in Seq(Container)
        /\ Len(SubSeq(s, 1, m)) = m /\ Len(SubSeq(t, 1, m)) = m
        /\ \A i \in 1..m : SubSeq(s, 1, m)[i] = s[i] /\ SubSeq(t, 1, m)[i] = t[i]
    BY <2>3, <2>8, SubSeqProperties
  <2>10. SubSeq(t, 1, m) = SubSeq(s, 1, m)
    BY <2>7, <2>9, SeqEqual
  <2> QED BY <2>10 DEF Captured, s, t, m
<1> QED BY <1>1, <1>2

LEMMA RegisterKeepsInv ==
  ASSUME RangesInv, Register
  PROVE  RangesInv'
<1> DEFINE cb == [Top.run EXCEPT !.id = registered + 1]
           n == header["html"].len
<1>1. /\ stack # <<>> /\ Top.i > 0 /\ Appended("html", cb)
      /\ registered' = registered + 1 /\ ret' = "ok"
      /\ UNCHANGED <<program, site, browser, counts, detached, stack>>
  BY ActingFacts DEF Register, OnHTML
<1>2. /\ TypeOK /\ SlicesFit /\ LiveApart /\ DetachedIsOut /\ RestTypes
      /\ Top.run \in Container /\ registered \in Nat /\ n \in Nat
  BY <1>1, SteadyTop, OldTypes, LiveIds, HtmlSlots DEF RangesInv
<1>3. cb \in Container /\ cb.id = registered + 1
  BY <1>2 DEF Container
<1> HIDE DEF cb
<1>4. /\ arrays' \in [Lists -> Seq(Seq(Container))]
      /\ header' \in [Lists -> [ver : Nat, len : Nat]]
      /\ \A l \in Lists \ {"html"} : arrays'[l] = arrays[l] /\ header'[l] = header[l]
      /\ Grown(arrays["html"], arrays'["html"], n, cb)
      /\ header'["html"].len = n + 1
      /\ header'["html"].ver = Len(arrays'["html"])
  BY <1>1, <1>2, <1>3, Appending
<1>5. /\ Pages' = Pages /\ FrameRecord' = FrameRecord /\ settings' = settings
  BY <1>1, SamePages DEF FrameRecord
<1>6. RestTypes'
  BY <1>1, <1>2, <1>5 DEF RestTypes, Shown, counts, browser
<1>7. TypeOK'
  <2>1. registered' \in Nat /\ detached' \subseteq Nat
    BY <1>1, <1>2, LiveIds DEF TypeOK
  <2>2. stack' \in Seq(FrameRecord') /\ ret' \in {"none", "ok", "err"}
    BY <1>1, <1>2, <1>5 DEF TypeOK
  <2>3. program' \in Program /\ WellFormed(program') /\ site' \in Site
    BY <1>1, <1>2 DEF TypeOK
  <2> QED BY <1>4, <1>6, <2>1, <2>2, <2>3 DEF TypeOK, RestTypes
<1>8. SlicesFit' /\ Slots("html")' \in Seq(Container) /\ n + 1 \in 0..Len(Slots("html")')
  <2>1. /\ header'["html"].ver \in Nat /\ header'["html"].ver > 0
        /\ n + 1 <= Len(Slots("html")') /\ Len(Slots("html")') > 0
        /\ Slots("html")' \in Seq(Container) /\ Len(Slots("html")') \in Nat
    <3>1. Len(arrays["html"]) > 0 /\ Len(arrays["html"]) \in Nat
      BY <1>2, HtmlSlots, LenProperties
    <3>2. Len(arrays'["html"]) \in {Len(arrays["html"]), Len(arrays["html"]) + 1}
      BY <1>4 DEF Grown
    <3>3. arrays'["html"] \in Seq(Seq(Container)) /\ Len(arrays'["html"]) \in 1..Len(arrays'["html"])
      BY <1>4, <3>1, <3>2 DEF Grown
    <3>4. Slots("html")' \in Seq(Container) /\ Slots("html")' = arrays'["html"][Len(arrays'["html"])]
      BY <1>4, <3>3, ElementOfSeq DEF Slots
    <3>5. n + 1 <= Len(Slots("html")') /\ Len(Slots("html")') \in Nat
      BY <1>4, <3>4, LenProperties DEF Grown
    <3> QED BY <1>2, <1>4, <3>1, <3>2, <3>4, <3>5
  <2>2. /\ program' = program /\ header'["html"].ver = Len(arrays'["html"])
        /\ header'["html"].len = n + 1
        /\ \A l \in Lists \ {"html"} : arrays'[l] = arrays[l] /\ header'[l] = header[l]
    BY <1>1, <1>4 DEF Grown
  <2>3. SlicesFit'
    <3> HIDE DEF n
    <3> QED BY <1>2, <2>1, <2>2, FitAgain
  <2> QED BY <1>2, <2>1, <2>3
<1>9. /\ \A i \in 1..n : Slots("html")'[i] = Slots("html")[i]
      /\ Slots("html")'[n + 1] = cb
  BY <1>2, <1>4, HtmlSlots DEF Grown, Slots
<1>10. /\ \A i \in 1..n : Slots("html")[i].id \in 1..registered
       /\ \A i \in 1..n : Slots("html")[i].id \notin detached
       /\ Ids(Live("html")) = {Slots("html")[i].id : i \in 1..n}
       /\ detached \subseteq 1..registered
  BY LiveIds
<1>11. LiveApart'
  <2> SUFFICES ASSUME NEW i \in 1..(n + 1), NEW j \in 1..(n + 1),
                      Slots("html")'[i].id = Slots("html")'[j].id
               PROVE  i = j
    BY <1>4 DEF LiveApart
  <2>1. CASE i \in 1..n /\ j \in 1..n
    BY <2>1, <1>2, <1>9 DEF LiveApart
  <2>2. CASE i \notin 1..n /\ j \notin 1..n
    BY <2>2, <1>2
  <2>3. \A k \in 1..n : Slots("html")'[k].id # registered + 1
    BY <1>2, <1>9, <1>10
  <2>4. Slots("html")'[n + 1].id = registered + 1
    BY <1>3, <1>9
  <2>5. CASE i \in 1..n /\ j \notin 1..n
    <3>1. j = n + 1
      BY <2>5, <1>2
    <3> QED BY <2>3, <2>4, <2>5, <3>1
  <2>6. CASE i \notin 1..n /\ j \in 1..n
    <3>1. i = n + 1
      BY <2>6, <1>2
    <3> QED BY <2>3, <2>4, <2>6, <3>1
  <2> QED BY <2>1, <2>2, <2>5, <2>6
<1>12. Ids(Live("html"))' = Ids(Live("html")) \cup {registered + 1}
  <2>1. Ids(Live("html"))' = {Slots("html")'[i].id : i \in 1..(n + 1)}
    BY <1>4, <1>8, IdsOfSlice DEF Live
  <2>2. 1..(n + 1) = 1..n \cup {n + 1}
    BY <1>2
  <2> QED BY <2>1, <2>2, <1>3, <1>9, <1>10
<1>13. /\ Ids(Live("html"))' \cap detached' = {}
       /\ Ids(Live("html"))' \cup detached' = 1..registered'
  <2>1. 1..(registered + 1) = 1..registered \cup {registered + 1}
    BY <1>2
  <2>2. registered + 1 \notin 1..registered
    BY <1>2
  <2> QED BY <1>1, <1>2, <1>10, <1>12, <2>1, <2>2 DEF DetachedIsOut
<1>14. ASSUME NEW k \in DOMAIN stack PROVE Fits(stack[k])' /\ Undetached(stack[k])'
  <2> DEFINE f == stack[k]
  <2>1. Sound(f) /\ f \in FrameRecord
    BY FramesSound DEF Sound
  <2>2. stack'[k] = f
    BY <1>1
  <2>3. Fits(f) /\ Undetached(f)
    BY <2>1 DEF Sound
  <2>4. CASE f.at \in Lists \ {"html"}
    BY <1>4, <2>2, <2>3, <2>4 DEF Fits, Undetached
  <2>5. CASE f.at = "html"
    <3>1. /\ f.over.ver \in 1..Len(arrays["html"]) /\ f.cb > 0
          /\ f.over.len <= Len(arrays["html"][f.over.ver])
          /\ f.over \in [ver : Nat, len : Nat]
          /\ header["html"].ver = Len(arrays["html"]) /\ Len(arrays["html"]) \in Nat
      BY <1>2, <2>1, <2>3, <2>5, HtmlSlots, LenProperties DEF Fits, FrameRecord, Lists, Serp
    <3>2. /\ Len(arrays'["html"]) \in {Len(arrays["html"]), Len(arrays["html"]) + 1}
          /\ Len(arrays'["html"][f.over.ver]) = Len(arrays["html"][f.over.ver])
          /\ arrays'["html"] \in Seq(Seq(Container))
      BY <1>4, <3>1 DEF Grown, Kept
    <3>3. f.over.ver \in DOMAIN arrays'["html"]
      BY <3>1, <3>2, LenProperties
    <3>4. ASSUME ~f.disturbed, f.over.ver = header'["html"].ver
          PROVE  f.over.len <= header'["html"].len
      <4>1. header'["html"].ver = header["html"].ver
        BY <1>4, <3>1, <3>2, <3>4
      <4>2. f.over.len <= n
        BY <2>3, <2>5, <3>4, <4>1 DEF Fits, Lists, Serp
      <4> QED BY <1>2, <1>4, <3>1, <4>2
    <3>5. Fits(stack[k])'
      BY <2>2, <2>5, <3>1, <3>2, <3>3, <3>4 DEF Fits
    <3>6. ~f.disturbed =>
            SubSeq(arrays'[f.at][f.over.ver], 1, f.over.len) = Captured(f)
      BY <1>1, <1>3, <2>1, <2>3, <2>5, CapturedKept DEF Lists, Serp
    <3>7. Undetached(stack[k])'
      BY <1>1, <2>2, <2>3, <3>6 DEF Undetached, Captured
    <3> QED BY <3>5, <3>7
  <2>6. CASE f.at \notin Lists
    BY <2>2, <2>6 DEF Fits, Undetached, Lists, Serp
  <2> QED BY <2>4, <2>5, <2>6
<1>15. DetachedIsOut' /\ RangesFit'
  BY <1>1, <1>13, <1>14 DEF DetachedIsOut, RangesFit
<1>16. CallersWait'
  <2>1. ASSUME NEW k \in DOMAIN stack
        PROVE  Running(stack[k]) /\ stack[k].i > 0
    <3>1. Running(stack[k])
      BY FramesSound DEF Sound
    <3>2. CASE k = Len(stack)
      BY <1>1, <1>2, <3>1, <3>2, TopFrame
    <3>3. CASE k # Len(stack)
      <4>1. k \in 1..(Len(stack) - 1) /\ k < Len(stack)
        BY <1>1, <1>2, <3>3, TopFrame, LastOrBefore
      <4> QED BY <3>1, <4>1 DEF RangesInv, CallersWait
    <3> QED BY <3>2, <3>3
  <2> QED BY <1>1, <2>1 DEF CallersWait, Running
<1> QED BY <1>7, <1>8, <1>11, <1>15, <1>16 DEF RangesInv

(* The frames after a detach: those that range over html are disturbed.    *)
Disturbing == [i \in DOMAIN stack |->
                 [stack[i] EXCEPT !.disturbed = @ \/ stack[i].at = "html"]]

LEMMA IsSequence ==
  ASSUME NEW n \in Nat, NEW f, NEW S, f = [k \in 1..n |-> f[k]],
         \A k \in 1..n : f[k] \in S
  PROVE  f \in Seq(S) /\ Len(f) = n
OBVIOUS

LEMMA DisturbedFrames ==
  ASSUME TypeOK
  PROVE  /\ Disturbing \in Seq(FrameRecord) /\ Len(Disturbing) = Len(stack)
         /\ DOMAIN Disturbing = DOMAIN stack
         /\ \A k \in DOMAIN stack :
              LET f == stack[k]
                  g == Disturbing[k]
              IN  /\ g = [f EXCEPT !.disturbed = g.disturbed] /\ g \in FrameRecord
                  /\ g.disturbed = (f.disturbed \/ f.at = "html")
                  /\ g.at = f.at /\ g.over = f.over /\ g.cb = f.cb /\ g.i = f.i
                  /\ g.run = f.run /\ g.strict = f.strict
<1>1. /\ stack \in Seq(FrameRecord) /\ DOMAIN stack = 1..Len(stack)
      /\ Len(stack) \in Nat
  BY LenProperties DEF TypeOK
<1>2. ASSUME NEW k \in DOMAIN stack
      PROVE  LET f == stack[k]
                 g == Disturbing[k]
             IN  /\ g = [f EXCEPT !.disturbed = g.disturbed] /\ g \in FrameRecord
                 /\ g.disturbed = (f.disturbed \/ f.at = "html")
                 /\ g.at = f.at /\ g.over = f.over /\ g.cb = f.cb /\ g.i = f.i
                 /\ g.run = f.run /\ g.strict = f.strict
  <2>1. stack[k] \in FrameRecord
    BY <1>1, ElementOfSeq
  <2>2. Disturbing[k] = [stack[k] EXCEPT !.disturbed = @ \/ stack[k].at = "html"]
    BY DEF Disturbing
  <2>3. (stack[k].disturbed \/ stack[k].at = "html") \in BOOLEAN
    BY <2>1, Zenon DEF FrameRecord
  <2> QED BY <2>1, <2>2, <2>3 DEF FrameRecord
<1>3. DOMAIN Disturbing = 1..Len(stack)
  BY <1>1 DEF Disturbing
<1>4. \A k \in 1..Len(stack) : Disturbing[k] \in FrameRecord
  BY <1>1, <1>2
<1>5. Disturbing = [k \in 1..Len(stack) |-> Disturbing[k]]
  BY <1>1 DEF Disturbing
<1>6. Disturbing \in Seq(FrameRecord) /\ Len(Disturbing) = Len(stack)
  BY <1>1, <1>3, <1>4, <1>5, IsSequence
<1> QED BY <1>1, <1>2, <1>3, <1>6

LEMMA DetachKeepsInv ==
  ASSUME RangesInv, Detach
  PROVE  RangesInv'
<1> DEFINE n == header["html"].len
           s == Slots("html")
           t == arrays'["html"][header["html"].ver]
<1>1. /\ stack # <<>> /\ Top.i > 0
      /\ UNCHANGED <<program, site, registered, browser, counts>> /\ ret' = "ok"
  <2>1. stack # <<>> /\ Top.i \in 1..Len(Offered(Top, Top.run.sel))
    BY DEF Detach, InRange
  <2>2. Top.i \in Nat /\ Top.i # 0
    <3>1. Len(Offered(Top, Top.run.sel)) \in Nat
      BY <2>1, SteadyTop, OfferedTypes DEF Container
    <3> QED BY <2>1, <3>1
  <2> QED BY <2>1, <2>2 DEF Detach
<1>2. /\ TypeOK /\ SlicesFit /\ LiveApart /\ DetachedIsOut /\ RestTypes
      /\ registered \in Nat /\ n \in Nat /\ Len(stack) \in Nat \ {0}
      /\ DOMAIN stack = 1..Len(stack)
  BY <1>1, TopFrame, OldTypes, LiveIds, HtmlSlots DEF RangesInv
<1>3. \A j \in 1..Len(stack) : Sound(stack[j]) /\ stack[j].i > 0
  <2>1. \A j \in 1..(Len(stack) - 1) : stack[j].i > 0
    BY <1>2 DEF RangesInv, CallersWait
  <2>2. stack[Len(stack)].i > 0
    BY <1>1, TopFrame, OldTypes
  <2> QED BY <1>2, <2>1, <2>2, LastOrBefore, FramesSound
<1>4. RestTypes'
  BY <1>1, <1>2, SamePages DEF RestTypes, Shown, counts, browser
<1>5. PICK sel \in Top.run.drops : OnHTMLDetach(sel)
  BY DEF Detach
<1>6. \/ UNCHANGED <<arrays, header, detached, stack>>
      \/ \E k \in 1..n :
           /\ InPlace(k)
           /\ detached' = detached \cup {Live("html")[k].id}
           /\ stack' = Disturbing
  BY <1>2, <1>5, Selected DEF Disturbing
<1>7. CASE UNCHANGED <<arrays, header, detached, stack>>
  <2>1. UNCHANGED registry
    BY <1>1, <1>7 DEF registry
  <2>2. stack' \in Seq(FrameRecord)
    BY <1>2, <1>7 DEF TypeOK
  <2> QED BY <1>1, <1>2, <1>3, <1>4, <1>7, <2>1, <2>2, Steady
<1>8. ASSUME NEW k \in 1..n, InPlace(k),
             detached' = detached \cup {Live("html")[k].id}, stack' = Disturbing
      PROVE  RangesInv'
  <2>1. k \in 1..n
    OBVIOUS
  <2>2. /\ arrays' \in [Lists -> Seq(Seq(Container))]
        /\ header' \in [Lists -> [ver : Nat, len : Nat]]
        /\ \A l \in Lists \ {"html"} : arrays'[l] = arrays[l] /\ header'[l] = header[l]
        /\ header'["html"].ver = header["html"].ver
        /\ header'["html"].len = n - 1
        /\ Len(arrays'["html"]) = Len(arrays["html"])
        /\ \A v \in 1..Len(arrays["html"]) :
             Len(arrays'["html"][v]) = Len(arrays["html"][v])
        /\ \A i \in 1..(n - 1) : t[i] = IF i < k THEN s[i] ELSE s[i + 1]
    BY <1>2, <1>8, <2>1, Detaching
  <2>3. /\ arrays["html"] \in Seq(Seq(Container))
        /\ header["html"].ver \in 1..Len(arrays["html"])
        /\ s = arrays["html"][header["html"].ver] /\ Len(s) > 0
        /\ s \in Seq(Container) /\ n \in 0..Len(s) /\ Len(s) \in Nat
        /\ header["html"].ver = Len(arrays["html"])
    BY <1>2, HtmlSlots, LenProperties
  <2>4. Slots("html")' = t /\ t \in Seq(Container) /\ Len(t) = Len(s)
    <3>1. "html" \in Lists
      BY DEF Lists, Serp
    <3>2. arrays'["html"] \in Seq(Seq(Container))
      BY <2>2, <3>1
    <3>3. t \in Seq(Container)
      BY <2>2, <2>3, <3>2, ElementOfSeq
    <3>4. Slots("html")' = t
      BY <2>2 DEF Slots
    <3> QED BY <2>2, <2>3, <3>3, <3>4
  <2>5. Live("html")[k] = s[k]
    BY <2>1, <2>3, ElementOfSeq, SubSeqProperties DEF Live
  <2> HIDE DEF s, t
  <2>6. FrameRecord' = FrameRecord /\ Pages' = Pages
    BY <1>1, SamePages DEF FrameRecord
  <2>7. /\ stack' \in Seq(FrameRecord) /\ Len(stack') = Len(stack)
        /\ DOMAIN stack' = DOMAIN stack
        /\ \A j \in DOMAIN stack :
             /\ stack'[j].disturbed = (stack[j].disturbed \/ stack[j].at = "html")
             /\ stack'[j].at = stack[j].at /\ stack'[j].over = stack[j].over
             /\ stack'[j].cb = stack[j].cb /\ stack'[j].i = stack[j].i
             /\ stack'[j].run = stack[j].run
    BY <1>2, <1>8, DisturbedFrames
  <2>8. s[k].id \in 1..registered /\ detached \subseteq 1..registered
    BY <2>1, LiveIds DEF s
  <2>9. TypeOK'
    <3>1. detached' \subseteq Nat /\ registered' \in Nat
      <4>1. 1..registered \subseteq Nat
        BY <1>2
      <4> QED BY <1>1, <1>2, <1>8, <2>5, <2>8, <4>1
    <3>2. program' \in Program /\ WellFormed(program') /\ site' \in Site
      BY <1>1, <1>2 DEF TypeOK
    <3> QED BY <1>1, <1>4, <2>2, <2>6, <2>7, <3>1, <3>2 DEF TypeOK, RestTypes
  <2>10. SlicesFit'
    <3> HIDE DEF n
    <3>1. header'["html"].ver = Len(arrays'["html"])
      BY <2>2, <2>3
    <3>2. header["html"].ver > 0
      <4>1. Len(arrays["html"]) \in Nat
        BY <2>3, LenProperties
      <4> QED BY <2>3, <4>1
    <3>3. header'["html"].ver > 0
      BY <2>2, <3>2
    <3>4. n - 1 <= Len(s)
      BY <2>3
    <3>5. header'["html"].len <= Len(Slots("html")') /\ Len(Slots("html")') > 0
      <4>1. header'["html"].len = n - 1 /\ Len(Slots("html")') = Len(s) /\ Len(s) > 0
        BY <2>2, <2>3, <2>4
      <4> QED BY <3>4, <4>1
    <3>6. program' = program
      BY <1>1
    <3>7. \A l \in Lists \ {"html"} : arrays'[l] = arrays[l] /\ header'[l] = header[l]
      BY <2>2
    <3> QED BY <1>2, <3>1, <3>3, <3>5, <3>6, <3>7, FitAgain
  <2>11. \A i \in 1..n, j \in 1..n : s[i].id = s[j].id => i = j
    BY <1>2 DEF LiveApart, s
  <2>12. LiveApart'
    <3> SUFFICES ASSUME NEW i \in 1..(n - 1), NEW j \in 1..(n - 1), t[i].id = t[j].id
                 PROVE  i = j
      BY <2>2, <2>4 DEF LiveApart
    <3>1. /\ i \in 1..n /\ j \in 1..n /\ i + 1 \in 1..n /\ j + 1 \in 1..n
      BY <1>2
    <3>2. /\ t[i] = IF i < k THEN s[i] ELSE s[i + 1]
          /\ t[j] = IF j < k THEN s[j] ELSE s[j + 1]
      BY <2>2
    <3>3. CASE i < k /\ j < k
      BY <2>11, <3>1, <3>2, <3>3
    <3>4. CASE ~(i < k) /\ ~(j < k)
      <4>1. i + 1 = j + 1
        BY <2>11, <3>1, <3>2, <3>4
      <4> QED BY <4>1
    <3>5. CASE i < k /\ ~(j < k)
      <4>1. i = j + 1
        BY <2>11, <3>1, <3>2, <3>5
      <4> QED BY <2>1, <3>5, <4>1
    <3>6. CASE ~(i < k) /\ j < k
      <4>1. i + 1 = j
        BY <2>11, <3>1, <3>2, <3>6
      <4> QED BY <2>1, <3>6, <4>1
    <3> QED BY <3>3, <3>4, <3>5, <3>6
  <2>13. Ids(Live("html"))' = {t[i].id : i \in 1..(n - 1)}
    <3>1. n - 1 \in 0..Len(t)
      BY <2>1, <2>3, <2>4
    <3> QED BY <2>2, <2>4, <3>1, IdsOfSlice DEF Live
  <2>14. {t[i].id : i \in 1..(n - 1)} = {s[j].id : j \in 1..n} \ {s[k].id}
    <3>1. ASSUME NEW i \in 1..(n - 1)
          PROVE  t[i].id \in {s[j].id : j \in 1..n} \ {s[k].id}
      <4>1. PICK j \in 1..n : t[i] = s[j] /\ j # k
        <5>1. i \in 1..n /\ i + 1 \in 1..n /\ i + 1 # i
          BY <1>2
        <5>2. t[i] = IF i < k THEN s[i] ELSE s[i + 1]
          BY <2>2
        <5>3. i < k => i # k
          BY <2>1
        <5>4. ~(i < k) => i + 1 # k
          BY <2>1
        <5> QED BY <5>1, <5>2, <5>3, <5>4
      <4> QED BY <2>1, <2>11, <4>1
    <3>2. ASSUME NEW j \in 1..n, s[j].id # s[k].id
          PROVE  \E i \in 1..(n - 1) : t[i].id = s[j].id
      <4>1. CASE j < k
        <5>1. j \in 1..(n - 1)
          BY <2>1, <4>1, <1>2
        <5> QED BY <2>2, <4>1, <5>1
      <4>2. CASE j > k
        <5>1. j - 1 \in 1..(n - 1) /\ ~(j - 1 < k) /\ (j - 1) + 1 = j
          BY <2>1, <4>2, <1>2
        <5>2. t[j - 1] = s[j]
          BY <2>2, <5>1
        <5> QED BY <5>1, <5>2
      <4>3. j # k
        BY <3>2
      <4> QED BY <2>1, <4>1, <4>2, <4>3
    <3> QED BY <3>1, <3>2
  <2>15. /\ Ids(Live("html"))' \cap detached' = {}
         /\ Ids(Live("html"))' \cup detached' = 1..registered'
    <3>1. Ids(Live("html")) = {s[j].id : j \in 1..n}
      BY LiveIds DEF s
    <3>2. /\ Ids(Live("html")) \cap detached = {}
          /\ Ids(Live("html")) \cup detached = 1..registered
      BY <1>2 DEF DetachedIsOut
    <3>3. s[k].id \in Ids(Live("html"))
      BY <2>1, <3>1
    <3>4. detached' = detached \cup {s[k].id}
      BY <1>8, <2>5
    <3>5. Ids(Live("html"))' = Ids(Live("html")) \ {s[k].id}
      BY <2>13, <2>14, <3>1
    <3> QED BY <1>1, <3>2, <3>3, <3>4, <3>5
  <2>16. ASSUME NEW j \in DOMAIN stack'
         PROVE  /\ Fits(stack[j])' /\ Undetached(stack[j])' /\ Running(stack[j])'
                /\ stack'[j].i > 0
    <3>1. j \in DOMAIN stack /\ Sound(stack[j]) /\ stack[j].i > 0
      BY <1>2, <1>3, <2>7
    <3>2. /\ stack'[j].disturbed = (stack[j].disturbed \/ stack[j].at = "html")
          /\ stack'[j].at = stack[j].at /\ stack'[j].over = stack[j].over
          /\ stack'[j].cb = stack[j].cb /\ stack'[j].i = stack[j].i
          /\ stack'[j].run = stack[j].run
      BY <2>7, <3>1
    <3>3. Running(stack[j])' /\ stack'[j].i > 0
      BY <3>1, <3>2 DEF Sound, Running
    <3>4. Undetached(stack[j])'
      BY <3>2 DEF Undetached
    <3>5. Fits(stack[j])'
      <4>1. CASE stack[j].at \in Lists \ {"html"}
        <5>1. arrays'[stack[j].at] = arrays[stack[j].at] /\ stack[j].at # "html"
          BY <2>2, <4>1
        <5>2. /\ stack[j].over.ver \in DOMAIN arrays[stack[j].at]
              /\ stack[j].over.len <= Len(arrays[stack[j].at][stack[j].over.ver])
              /\ stack[j].cb > 0
          BY <3>1, <4>1 DEF Sound, Fits
        <5>3. /\ stack'[j].at = stack[j].at /\ stack'[j].over = stack[j].over
              /\ stack'[j].cb = stack[j].cb
          BY <3>2
        <5> QED BY <5>1, <5>2, <5>3 DEF Fits
      <4>2. CASE stack[j].at = "html"
        <5>1. /\ stack[j].over.ver \in DOMAIN arrays["html"] /\ stack[j].cb > 0
              /\ stack[j].over.len <= Len(arrays["html"][stack[j].over.ver])
          BY <3>1, <4>2 DEF Sound, Fits, Lists, Serp
        <5>2. DOMAIN arrays'["html"] = DOMAIN arrays["html"] /\ DOMAIN arrays["html"] = 1..Len(arrays["html"])
          BY <2>2, <2>3, LenProperties DEF Lists, Serp
        <5> QED BY <2>2, <3>2, <4>2, <5>1, <5>2 DEF Fits
      <4>3. CASE stack[j].at \notin Lists
        BY <3>2, <4>3 DEF Fits
      <4> QED BY <4>1, <4>2, <4>3
    <3> QED BY <3>3, <3>4, <3>5
  <2>17. DetachedIsOut' /\ RangesFit' /\ CallersWait'
    BY <2>15, <2>16 DEF DetachedIsOut, RangesFit, CallersWait
  <2> QED BY <2>9, <2>10, <2>12, <2>17 DEF RangesInv
<1> QED BY <1>6, <1>7, <1>8

-----------------------------------------------------------------------------
LEMMA InitInv ==
  ASSUME Init
  PROVE  RangesInv
<1> DEFINE p == program.on["html"]
           par == settings.parallelism
<1>1. PICK w \in Worlds : program = w[1] /\ site = w[2]
  BY DEF Init
<1>2. program \in Program /\ WellFormed(program) /\ site \in Site
  BY <1>1, CallbacksAssumption
<1>3. program.on \in [Lists -> Seq(Container)] /\ par \in Nat \ {0}
  BY <1>2 DEF Program, Settings, settings
<1>4. /\ arrays = [l \in Lists |-> <<Padded(program.on[l], Capacity)>>]
      /\ header = [l \in Lists |-> [ver |-> 1, len |-> Len(program.on[l])]]
      /\ registered = Len(p) /\ stack = <<>> /\ ret = "none"
      /\ pool = [i \in 1..par |-> i]
      /\ history = [q \in 1..par |-> <<Blank>>]
      /\ visited = {} /\ responseCount = 0 /\ pageNum = 0
      /\ detached = {}
  BY DEF Init
<1>5. \A l \in Lists : /\ program.on[l] \in Seq(Container) /\ Len(program.on[l]) \in Nat
                       /\ Padded(program.on[l], Capacity) \in Seq(Container)
                       /\ Len(Padded(program.on[l], Capacity)) \in Nat
                       /\ Len(Padded(program.on[l], Capacity)) >= Len(program.on[l])
                       /\ Len(Padded(program.on[l], Capacity)) >= Capacity
                       /\ \A i \in 1..Len(program.on[l]) :
                            Padded(program.on[l], Capacity)[i] = program.on[l][i]
  BY <1>3, CallbacksAssumption, Padding, LenProperties
<1>6. "html" \in Lists
  BY DEF Lists, Serp
<1>7. TypeOK
  <2>1. arrays \in [Lists -> Seq(Seq(Container))]
    <3>1. \A l \in Lists : <<Padded(program.on[l], Capacity)>> \in Seq(Seq(Container))
      BY <1>5
    <3> QED BY <1>4, <3>1
  <2>2. header \in [Lists -> [ver : Nat, len : Nat]]
    BY <1>4, <1>5
  <2>3. pool \in Seq(Pages) \ {<<>>}
    <3>1. pool \in Seq(Pages)
      BY <1>3, <1>4 DEF Pages
    <3>2. 1 \in DOMAIN pool
      BY <1>3, <1>4
    <3> QED BY <3>1, <3>2
  <2>4. history \in [Pages -> Seq(Shown) \ {<<>>}]
    <3>1. <<Blank>> \in Seq(Shown) /\ <<Blank>> # <<>>
      BY DEF Shown
    <3> QED BY <1>4, <3>1 DEF Pages
  <2>5. /\ registered \in Nat /\ detached \subseteq Nat
        /\ stack \in Seq(FrameRecord) /\ ret \in {"none", "ok", "err"}
        /\ visited \subseteq Shown
        /\ responseCount \in Nat /\ pageNum \in Nat
    BY <1>4, <1>5, <1>6
  <2> QED BY <1>2, <2>1, <2>2, <2>3, <2>4, <2>5 DEF TypeOK
<1>8. \A l \in Lists : Slots(l) = Padded(program.on[l], Capacity)
  BY <1>4 DEF Slots
<1>9. SlicesFit
  <2> SUFFICES ASSUME NEW l \in Lists
               PROVE  /\ header[l].ver = Len(arrays[l]) /\ header[l].ver > 0
                      /\ header[l].len <= Len(Slots(l)) /\ Len(Slots(l)) > 0
                      /\ arrays[l] = <<Padded(program.on[l], Capacity)>>
                      /\ header[l] = [ver |-> 1, len |-> Len(program.on[l])]
    BY DEF SlicesFit
  <2>1. /\ arrays[l] = <<Padded(program.on[l], Capacity)>>
        /\ header[l] = [ver |-> 1, len |-> Len(program.on[l])]
    BY <1>4
  <2>2. Len(arrays[l]) = 1
    BY <2>1
  <2>3. header[l].len <= Len(Slots(l)) /\ Len(Slots(l)) > 0
    BY <1>5, <1>8, <2>1, CallbacksAssumption
  <2> QED BY <2>1, <2>2, <2>3
<1>10. /\ header["html"].len = Len(p) /\ Len(p) \in 0..Len(Slots("html"))
       /\ Slots("html") \in Seq(Container)
       /\ \A i \in 1..Len(p) : Slots("html")[i].id = i
  <2>1. \A i \in 1..Len(p) : p[i].id = i
    BY <1>2, <1>5, <1>6, LenProperties DEF WellFormed
  <2>2. header["html"].len = Len(p) /\ Slots("html") = Padded(p, Capacity)
    BY <1>4, <1>6, <1>8
  <2>3. /\ Padded(p, Capacity) \in Seq(Container)
        /\ Len(p) \in 0..Len(Padded(p, Capacity))
        /\ \A i \in 1..Len(p) : Padded(p, Capacity)[i] = p[i]
    BY <1>5, <1>6
  <2> QED BY <2>1, <2>2, <2>3
<1>11. LiveApart
  BY <1>10 DEF LiveApart
<1>12. Ids(Live("html")) = 1..Len(p)
  <2>1. Ids(Live("html")) = {Slots("html")[i].id : i \in 1..Len(p)}
    BY <1>10, IdsOfSlice DEF Live
  <2> QED BY <1>10, <2>1
<1>13. DetachedIsOut /\ RangesFit /\ CallersWait
  <2>1. DOMAIN stack = {}
    BY <1>4
  <2> QED BY <1>4, <1>12, <2>1 DEF DetachedIsOut, RangesFit, CallersWait
<1> QED BY <1>7, <1>9, <1>11, <1>13 DEF RangesInv

LEMMA StutterKeepsInv ==
  ASSUME RangesInv, UNCHANGED vars
  PROVE  RangesInv'
<1>1. UNCHANGED <<program, site, registry, stack, ret, browser, counts>>
  BY DEF vars
<1>2. RestTypes'
  BY <1>1, OldTypes, SamePages DEF RestTypes, Shown, browser, counts
<1>3. stack' \in Seq(FrameRecord) /\ ret' \in {"none", "ok", "err"}
  BY <1>1, OldTypes DEF TypeOK
<1>4. \A k \in DOMAIN stack' :
        /\ Sound(stack'[k])
        /\ k < Len(stack') \/ ret' # "none" => stack'[k].i > 0
  BY <1>1, FramesSound DEF RangesInv, CallersWait
<1> QED BY <1>1, <1>2, <1>3, <1>4, Steady

LEMMA NextKeepsInv ==
  ASSUME RangesInv, [Next]_vars
  PROVE  RangesInv'
BY VisitKeepsInv, MustGetKeepsInv, NextCallbackKeepsInv, CallbackOverKeepsInv,
   ElementMissedKeepsInv, JustReturnKeepsInv, VisitLinkKeepsInv, ClickKeepsInv,
   RegisterKeepsInv, DetachKeepsInv, ReturnKeepsInv, StageOverKeepsInv,
   StutterKeepsInv
   DEF Next, Step

(* Slices, ranges and callers fit together always, whatever the callbacks  *)
(* of the program register, detach, visit and click.                       *)
THEOREM RangesInvariant == Spec => []RangesInv
BY InitInv, NextKeepsInv, PTL DEF Spec

(* OnHTMLDetach (roddy.go:404) takes its callback, and no other one, out   *)
(* of every range that begins later.                                       *)
THEOREM DetachedStaysOut == Spec => []DetachedIsOut
<1>1. RangesInv => DetachedIsOut
  BY DEF RangesInv
<1> QED BY <1>1, RangesInvariant, PTL

-----------------------------------------------------------------------------
(* Ranges keep what they captured: a step either leaves the arrays alone   *)
(* and every frame in its slice, or appends, or disturbs those of html.    *)
LEMMA SameOverStays ==
  ASSUME UNCHANGED arrays,
         \A k \in DOMAIN stack \cap DOMAIN stack' :
           stack[k].at \in Lists /\ stack'[k].at = stack[k].at
             => stack'[k].over = stack[k].over
  PROVE  CapturedStays
BY DEF CapturedStays, Captured

LEMMA ReplaceStays ==
  ASSUME RangesInv, UNCHANGED arrays, stack # <<>>,
         NEW g \in FrameRecord, Becomes(g),
         Top.at \in Lists /\ g.at = Top.at => g.over = Top.over
  PROVE  CapturedStays
<1>1. /\ TypeOK /\ stack' = Append(Under, g)
      /\ Len(stack) \in Nat \ {0} /\ DOMAIN stack = 1..Len(stack)
      /\ Top = stack[Len(stack)]
  BY TopFrame DEF RangesInv, Becomes
<1>2. /\ stack'[Len(stack)] = g
      /\ \A k \in 1..(Len(stack) - 1) : stack'[k] = stack[k]
  BY <1>1, Replacing
<1> QED BY <1>1, <1>2, LastOrBefore, SameOverStays

LEMMA CallersStay ==
  ASSUME RangesInv, UNCHANGED arrays, stack # <<>>, NEW strict \in BOOLEAN,
         \/ stack' = Calling(strict)
         \/ \E g \in FrameRecord : stack' = Append(Calling(strict), g)
  PROVE  CapturedStays
<1> DEFINE t == [Top EXCEPT !.strict = strict]
<1>1. /\ TypeOK /\ Top \in FrameRecord /\ Top = stack[Len(stack)]
      /\ Len(stack) \in Nat \ {0} /\ DOMAIN stack = 1..Len(stack)
  BY TopFrame DEF RangesInv
<1>2. t \in FrameRecord /\ t.over = Top.over
  BY <1>1 DEF FrameRecord
<1> HIDE DEF t
<1>3. Calling(strict) = Append(Under, t)
  BY DEF Calling, t
<1>4. /\ Calling(strict) \in Seq(FrameRecord)
      /\ Len(Calling(strict)) = Len(stack)
      /\ Calling(strict)[Len(stack)] = t
      /\ \A k \in 1..(Len(stack) - 1) : Calling(strict)[k] = stack[k]
  <2>1. /\ Append(Under, t) \in Seq(FrameRecord)
        /\ Len(Append(Under, t)) = Len(stack)
        /\ Append(Under, t)[Len(stack)] = t
        /\ \A k \in 1..(Len(stack) - 1) : Append(Under, t)[k] = stack[k]
    BY <1>1, <1>2, Replacing
  <2> QED BY <1>3, <2>1
<1>5. \A k \in 1..Len(stack) : Calling(strict)[k].over = stack[k].over
  BY <1>1, <1>2, <1>4, LastOrBefore
<1>6. \A k \in 1..Len(stack) : stack'[k] = Calling(strict)[k]
  BY <1>1, <1>4, Pushing
<1> QED BY <1>1, <1>5, <1>6, SameOverStays

LEMMA PopStays ==
  ASSUME RangesInv, UNCHANGED arrays, stack # <<>>, stack' = Under
  PROVE  CapturedStays
BY TopFrame, SameOverStays DEF RangesInv

LEMMA ScrapeStays ==
  ASSUME RangesInv, UNCHANGED arrays, stack # <<>>, NEW url \in Shown \cup {NoURL},
         NEW depth \in Nat, NEW strict \in BOOLEAN, Scrape(url, depth, Calling(strict))
  PROVE  CapturedStays
<1>1. Frame(url, depth, Head(pool)) \in FrameRecord
  <2>1. Head(pool) \in Pages
    BY HeadTailProperties DEF RangesInv, TypeOK
  <2> QED BY <2>1, Beginning DEF RangesInv
<1> QED BY <1>1, CallersStay DEF Scrape

LEMMA RegisterStays ==
  ASSUME RangesInv, Register
  PROVE  CapturedStays
<1> DEFINE cb == [Top.run EXCEPT !.id = registered + 1]
<1>1. /\ stack # <<>> /\ Appended("html", cb) /\ stack' = stack
  BY ActingFacts DEF Register, OnHTML
<1>2. Top.run \in Container /\ registered \in Nat
  BY <1>1, SteadyTop DEF TypeOK
<1>3. cb \in Container
  BY <1>2 DEF Container
<1> HIDE DEF cb
<1> SUFFICES ASSUME NEW k \in DOMAIN stack, stack[k].at \in Lists,
                    ~stack[k].disturbed
             PROVE  Captured(stack[k])' = Captured(stack[k])
  BY <1>1 DEF CapturedStays
<1>4. stack[k] \in FrameRecord /\ Fits(stack[k])
  BY FramesSound DEF Sound
<1>5. SubSeq(arrays'[stack[k].at][stack[k].over.ver], 1, stack[k].over.len)
        = Captured(stack[k])
  BY <1>1, <1>3, <1>4, CapturedKept
<1> QED BY <1>1, <1>5 DEF Captured

LEMMA DetachStays ==
  ASSUME RangesInv, Detach
  PROVE  CapturedStays
<1>1. TypeOK /\ SlicesFit
  BY DEF RangesInv
<1>2. PICK sel \in Top.run.drops : OnHTMLDetach(sel)
  BY DEF Detach
<1>3. \/ UNCHANGED <<arrays, stack>>
      \/ \E k \in 1..header["html"].len : InPlace(k) /\ stack' = Disturbing
  BY <1>1, <1>2, Selected DEF Disturbing
<1>4. CASE UNCHANGED <<arrays, stack>>
  BY <1>4, SameOverStays
<1>5. ASSUME NEW k \in 1..header["html"].len, InPlace(k), stack' = Disturbing
      PROVE  CapturedStays
  <2>1. \A l \in Lists \ {"html"} : arrays'[l] = arrays[l]
    BY <1>1, <1>5, Detaching
  <2>2. /\ DOMAIN stack' = DOMAIN stack
        /\ \A j \in DOMAIN stack :
             /\ stack'[j].disturbed = (stack[j].disturbed \/ stack[j].at = "html")
             /\ stack'[j].at = stack[j].at /\ stack'[j].over = stack[j].over
    BY <1>1, <1>5, DisturbedFrames
  <2> QED BY <2>1, <2>2 DEF CapturedStays, Captured
<1> QED BY <1>3, <1>4, <1>5

(* The callback that is next, with its go-back deferred.                   *)
LEMMA NextFacts ==
  ASSUME RangesInv, NextCallback
  PROVE  LET cb == arrays[Top.at][Top.over.ver][Top.cb]
             f == [Top EXCEPT !.backs = Defer(Top, cb)]
         IN  /\ cb \in Container /\ f \in FrameRecord
             /\ f.at = Top.at /\ f.over = Top.over /\ f.i = 0
             /\ f.strict = Top.strict /\ f.run = Top.run /\ f.page = Top.page
             /\ Len(Offered(f, cb.sel)) \in Nat
<1> DEFINE cb == arrays[Top.at][Top.over.ver][Top.cb]
           f == [Top EXCEPT !.backs = Defer(Top, cb)]
<1>1. stack # <<>> /\ Top.at \in Lists /\ Top.i = 0 /\ Top.cb <= Top.over.len
  BY DEF NextCallback, InRange
<1>2. TypeOK /\ Top \in FrameRecord /\ Top.backs \in Nat
  BY <1>1, SteadyTop
<1>3. cb \in Container
  BY <1>1, NextIsContainer
<1> HIDE DEF cb
<1>4. Defer(Top, cb) \in Nat /\ cb.sel \in Selectors
  BY <1>2, <1>3 DEF Defer, Container
<1>5. /\ f \in FrameRecord /\ f.at = Top.at /\ f.over = Top.over /\ f.i = 0
      /\ f.strict = Top.strict /\ f.run = Top.run /\ f.page = Top.page
  BY <1>1, <1>2, <1>4 DEF FrameRecord
<1> HIDE DEF f
<1>6. Len(Offered(f, cb.sel)) \in Nat
  BY <1>2, <1>4, <1>5, OfferedTypes
<1> QED BY <1>3, <1>5, <1>6 DEF f, cb

LEMMA FrameMoves ==
  ASSUME RangesInv, NEW f \in FrameRecord
  PROVE  /\ Advance(f) \in FrameRecord /\ Advance(f).at = f.at
         /\ Advance(f).over = f.over /\ Advance(f).i = 0
         /\ Failing(f) \in FrameRecord /\ Failing(f).at = "error"
         /\ Failing(f).i = 0
         /\ LET g == [f EXCEPT !.i = @ + 1]
            IN  /\ g \in FrameRecord /\ g.at = f.at /\ g.over = f.over
                /\ g.i = f.i + 1 /\ g.run = f.run /\ g.strict = f.strict
<1>1. Failing(f) \in FrameRecord /\ Failing(f).at = "error" /\ Failing(f).i = 0
  BY FailingSound DEF RangesInv, Sound
<1>2. /\ Advance(f) \in FrameRecord /\ Advance(f).at = f.at
      /\ Advance(f).over = f.over /\ Advance(f).i = 0
  <2> DEFINE g == [f EXCEPT !.i = 0, !.cb = @ + 1]
  <2>1. f.cb + 1 \in Nat
    BY DEF FrameRecord
  <2>2. g \in FrameRecord /\ g.at = f.at /\ g.over = f.over /\ g.i = 0
    BY <2>1 DEF FrameRecord
  <2> QED BY <2>2 DEF Advance
<1>3. LET g == [f EXCEPT !.i = @ + 1]
      IN  /\ g \in FrameRecord /\ g.at = f.at /\ g.over = f.over
          /\ g.i = f.i + 1 /\ g.run = f.run /\ g.strict = f.strict
  BY DEF FrameRecord
<1> QED BY <1>1, <1>2, <1>3

LEMMA NextCallbackStays ==
  ASSUME RangesInv, NextCallback
  PROVE  CapturedStays
<1> DEFINE cb == arrays[Top.at][Top.over.ver][Top.cb]
           f == [Top EXCEPT !.backs = Defer(Top, cb)]
           n == Len(Offered(f, cb.sel))
<1>1. /\ cb \in Container /\ f \in FrameRecord /\ n \in Nat
      /\ f.at = Top.at /\ f.over = Top.over
  BY NextFacts
<1>2. /\ stack # <<>> /\ UNCHANGED arrays
      /\ \/ Top.at \in Serp /\ Becomes(Failing(f))
         \/ Becomes(Advance(f))
         \/ Becomes([f EXCEPT !.run = cb, !.i = 1, !.count = n])
  BY <1>1 DEF NextCallback, InRange, registry
<1> HIDE DEF f, cb, n
<1>3. CASE Top.at \in Serp /\ Becomes(Failing(f))
  BY <1>1, <1>2, <1>3, FrameMoves, ReplaceStays DEF Serp
<1>4. CASE Becomes(Advance(f))
  BY <1>1, <1>2, <1>4, FrameMoves, ReplaceStays
<1>5. CASE Becomes([f EXCEPT !.run = cb, !.i = 1, !.count = n])
  <2>1. \E g \in FrameRecord : Becomes(g) /\ g.over = Top.over
    <3> DEFINE g == [f EXCEPT !.run = cb, !.i = 1, !.count = n]
    <3>1. g \in FrameRecord /\ g.over = f.over
      BY <1>1 DEF FrameRecord
    <3>2. Becomes(g)
      BY <1>5
    <3> QED BY <1>1, <3>1, <3>2
  <2> QED BY <1>2, <2>1, ReplaceStays
<1> QED BY <1>2, <1>3, <1>4, <1>5

LEMMA StageOverStays ==
  ASSUME RangesInv, StageOver
  PROVE  CapturedStays
<1>1. stack # <<>> /\ Top.at \in Lists /\ UNCHANGED arrays
  BY DEF StageOver, InRange, registry
<1>2. TypeOK /\ SlicesFit /\ DetachedIsOut /\ Top \in FrameRecord
  BY <1>1, SteadyTop
<1>3. CASE Finish("err") \/ Finish("ok")
  BY <1>1, <1>3, PopStays DEF Finish
<1>4. CASE /\ Top.at \notin {"error", "scraped"}
           /\ Becomes(Enter(Top, NextStage(Top.at)))
  <2>1. NextStage(Top.at) \in Lists \cup {"get"} /\ NextStage(Top.at) # Top.at
    BY <1>1, <1>4 DEF NextStage, Lists, Serp
  <2>2. /\ Enter(Top, NextStage(Top.at)) \in FrameRecord
        /\ Enter(Top, NextStage(Top.at)).at # Top.at
    BY <1>2, <2>1, Entering
  <2> QED BY <1>1, <1>4, <2>2, ReplaceStays
<1> QED BY <1>3, <1>4 DEF StageOver

LEMMA MustGetStays ==
  ASSUME RangesInv, MustGet
  PROVE  CapturedStays
<1>1. stack # <<>> /\ Top.at = "get" /\ UNCHANGED arrays
  BY DEF MustGet, registry
<1>2. /\ TypeOK /\ SlicesFit /\ DetachedIsOut /\ Top \in FrameRecord
      /\ Top.page \in Pages
  BY <1>1, SteadyTop
<1>3. [Top EXCEPT !.url = Showing(Top.page)] \in FrameRecord
  BY <1>2, PageTypes DEF FrameRecord
<1>4. \E g \in FrameRecord : Becomes(g)
  <2>1. \A g \in FrameRecord : Enter(g, "response") \in FrameRecord
    BY <1>2, Entering DEF Lists
  <2> QED BY <1>2, <1>3, <2>1, FrameMoves DEF MustGet, Answered
<1>5. Top.at \notin Lists
  BY <1>1 DEF Lists, Serp
<1> QED BY <1>1, <1>4, <1>5, ReplaceStays

LEMMA NextStays ==
  ASSUME RangesInv, [Next]_vars
  PROVE  [CapturedStays]_vars
<1>1. CASE Visit
  BY <1>1 DEF Visit, CapturedStays
<1>2. CASE CallbackOver \/ ElementMissed
  <2>1. /\ stack # <<>> /\ UNCHANGED arrays
        /\ \/ Becomes(Advance(Top))
           \/ Becomes([Top EXCEPT !.i = @ + 1])
    BY <1>2 DEF CallbackOver, ElementMissed, InRange, registry
  <2>2. \E g \in FrameRecord : Becomes(g) /\ g.over = Top.over
    <3>1. Top \in FrameRecord
      BY <2>1, SteadyTop
    <3>2. CASE Becomes(Advance(Top))
      BY <3>1, <3>2, FrameMoves
    <3>3. CASE Becomes([Top EXCEPT !.i = @ + 1])
      BY <3>1, <3>3, FrameMoves
    <3> QED BY <2>1, <3>2, <3>3
  <2> QED BY <2>1, <2>2, ReplaceStays
<1>3. CASE JustReturn
  <2>1. stack # <<>> /\ UNCHANGED arrays /\ stack' = Calling(TRUE)
    BY <1>3, ActingFacts DEF JustReturn, registry
  <2> QED BY <2>1, CallersStay
<1>4. CASE VisitLink
  <2>1. PICK act \in {"visit", "follow", "enter"}, depth \in {Top.depth + 1, 1},
             strict \in BOOLEAN :
          Acting(act) /\ Scrape(Target, depth, Calling(strict))
    BY <1>4 DEF VisitLink
  <2>2. stack # <<>> /\ Target \in Shown \cup {NoURL} /\ UNCHANGED arrays
    BY <1>4, <2>1, ActingFacts DEF VisitLink, registry
  <2>3. depth \in Nat
    <3>1. Top.depth + 1 \in Nat
      BY <2>2, SteadyTop
    <3> QED BY <2>1, <3>1
  <2> QED BY <2>1, <2>2, <2>3, ScrapeStays
<1>5. CASE Click
  <2>1. PICK act \in {"click", "step", "turn"}, depth \in {Top.depth, Top.depth + 1} :
          Acting(act) /\ Scrape(NoURL, depth, Calling(TRUE))
    BY <1>5 DEF Click
  <2>2. stack # <<>> /\ UNCHANGED arrays
    BY <1>5, <2>1, ActingFacts DEF Click, registry
  <2>3. depth \in Nat
    <3>1. Top.depth \in Nat /\ Top.depth + 1 \in Nat
      BY <2>2, SteadyTop
    <3> QED BY <2>1, <3>1
  <2> QED BY <2>1, <2>2, <2>3, ScrapeStays
<1>6. CASE Return
  <2>1. /\ stack # <<>> /\ UNCHANGED arrays
        /\ \/ Top.at \in Serp /\ Becomes(Failing(Top))
           \/ Becomes([Top EXCEPT !.i = @ + 1])
    BY <1>6 DEF Return, Leaves, registry
  <2> QED BY <2>1, SteadyTop, FrameMoves, ReplaceStays DEF Serp
<1> QED BY <1>1, <1>2, <1>3, <1>4, <1>5, <1>6, RegisterStays, DetachStays,
           NextCallbackStays, StageOverStays, MustGetStays DEF Next, Step

(* OnHTML (roddy.go:389) from within a callback changes no range that is   *)
(* under way, in whatever fetch: only OnHTMLDetach does.                   *)
THEOREM RegisteringKeepsRanges == Spec => RangeKept
BY RangesInvariant, NextStays, PTL DEF Spec, RangeKept

-----------------------------------------------------------------------------
(* Where only paging callbacks visit.                                      *)
LEMMA NextIsQuiet ==
  ASSUME RangesInv, OnlyPagingVisits, QuietSlots,
         stack # <<>>, Top.at \in Lists, Top.cb <= Top.over.len
  PROVE  LET cb == arrays[Top.at][Top.over.ver][Top.cb]
         IN  \/ ~Visits(cb)
             \/ Top.at = "paging" /\ cb \in Range(program.on["paging"])
<1> DEFINE cb == arrays[Top.at][Top.over.ver][Top.cb]
<1> SUFFICES \/ ~Visits(cb)
             \/ Top.at = "paging" /\ cb \in Range(program.on["paging"])
  OBVIOUS
<1>1. /\ Top.at # "html" => cb \in Range(program.on[Top.at]) \cup {Nobody}
      /\ Top.over.ver \in 1..Len(arrays[Top.at])
      /\ Top.cb \in 1..Len(arrays[Top.at][Top.over.ver])
      /\ arrays[Top.at] \in Seq(Seq(Container))
  BY NextIsContainer DEF RangesInv, TypeOK
<1>2. /\ Top.over.ver \in DOMAIN arrays[Top.at]
      /\ Top.cb \in DOMAIN arrays[Top.at][Top.over.ver]
  BY <1>1, ElementOfSeq, LenProperties
<1>3. ~Visits(Nobody)
  BY DEF Nobody, Visits
<1>4. CASE Top.at = "html"
  BY <1>2, <1>4 DEF QuietSlots
<1> HIDE DEF cb
<1>5. CASE Top.at = "paging"
  <2>1. cb \in Range(program.on["paging"]) \cup {Nobody}
    BY <1>1, <1>5
  <2>2. CASE cb = Nobody
    BY <1>3, <2>2
  <2>3. CASE cb \in Range(program.on["paging"])
    BY <1>5, <2>3
  <2> QED BY <2>1, <2>2, <2>3
<1>6. CASE Top.at \notin {"html", "paging"}
  <2>1. cb \in Range(program.on[Top.at]) \cup {Nobody}
    BY <1>1, <1>6
  <2>2. CASE cb = Nobody
    BY <1>3, <2>2
  <2>3. CASE cb \in Range(program.on[Top.at])
    BY <1>6, <2>3 DEF OnlyPagingVisits, Range
  <2> QED BY <2>1, <2>2, <2>3
<1> QED BY <1>4, <1>5, <1>6

LEMMA WaitsReplace ==
  ASSUME TypeOK, PagingWaits, stack # <<>>, UNCHANGED program,
         NEW g \in FrameRecord, Quiet(g), Becomes(g)
  PROVE  PagingWaits' /\ Top' = g /\ stack' # <<>>
<1>1. /\ stack' = Append(Under, g)
      /\ Len(stack) \in Nat \ {0} /\ DOMAIN stack = 1..Len(stack)
  BY TopFrame DEF Becomes
<1>2. /\ Len(stack') = Len(stack) /\ stack' # <<>> /\ Last(stack') = g
      /\ DOMAIN stack' = 1..Len(stack) /\ stack'[Len(stack)] = g
      /\ \A k \in 1..(Len(stack) - 1) : stack'[k] = stack[k]
  BY <1>1, Replacing
<1>3. \A k \in 1..(Len(stack) - 1) :
        Quiet(stack[k]) /\ stack[k].at = "paging" /\ stack[k].strict
  BY <1>1 DEF PagingWaits
<1>4. ASSUME NEW k \in 1..Len(stack)
      PROVE  /\ Quiet(stack'[k])
             /\ k < Len(stack) => stack'[k].at = "paging" /\ stack'[k].strict
  <2>1. CASE k = Len(stack)
    <3>1. stack'[k] = g
      BY <1>2, <2>1, Zenon
    <3>2. ~(k < Len(stack))
      BY <1>1, <2>1
    <3> QED BY <3>1, <3>2
  <2>2. CASE k # Len(stack)
    <3>1. k \in 1..(Len(stack) - 1) /\ stack'[k] = stack[k]
      BY <1>1, <1>2, <2>2, LastOrBefore
    <3> QED BY <1>3, <3>1
  <2> QED BY <2>1, <2>2
<1> QED BY <1>2, <1>4 DEF PagingWaits, Quiet, Top

(* Those who wait for a visit are callbacks of paging, which return what   *)
(* it returns.                                                             *)
LEMMA WaitsCalling ==
  ASSUME TypeOK, PagingWaits, stack # <<>>, UNCHANGED program,
         NEW strict \in BOOLEAN
  PROVE  /\ stack' = Calling(strict) =>
              /\ PagingWaits' /\ stack' # <<>> /\ Top'.at = Top.at
              /\ Top'.strict = strict
         /\ \A g \in FrameRecord :
              (/\ stack' = Append(Calling(strict), g) /\ Quiet(g)
               /\ Top.at = "paging" /\ strict)
                => PagingWaits' /\ Top' = g /\ stack' # <<>>
<1> DEFINE t == [Top EXCEPT !.strict = strict]
<1>1. /\ Top \in FrameRecord /\ Top = stack[Len(stack)]
      /\ Len(stack) \in Nat \ {0} /\ DOMAIN stack = 1..Len(stack)
  BY TopFrame
<1>2. /\ t \in FrameRecord /\ t.at = Top.at /\ t.strict = strict
      /\ t.i = Top.i /\ t.run = Top.run
  BY <1>1 DEF FrameRecord
<1> HIDE DEF t
<1>3. Calling(strict) = Append(Under, t)
  BY DEF Calling, t
<1>4. Quiet(Top)
  BY <1>1 DEF PagingWaits
<1>5. Quiet(t)
  BY <1>2, <1>4 DEF Quiet
<1>6. ASSUME stack' = Calling(strict)
      PROVE  PagingWaits' /\ Top' = t /\ stack' # <<>>
  BY <1>2, <1>3, <1>5, <1>6, WaitsReplace DEF Becomes
<1>7. /\ Append(Under, t) \in Seq(FrameRecord)
      /\ Len(Append(Under, t)) = Len(stack)
      /\ Append(Under, t)[Len(stack)] = t
      /\ \A k \in 1..(Len(stack) - 1) : Append(Under, t)[k] = stack[k]
  BY <1>2, Replacing
<1>8. \A k \in 1..(Len(stack) - 1) :
        Quiet(stack[k]) /\ stack[k].at = "paging" /\ stack[k].strict
  BY <1>1 DEF PagingWaits
<1>9. ASSUME NEW g \in FrameRecord, stack' = Append(Calling(strict), g), Quiet(g),
             Top.at = "paging", strict
      PROVE  PagingWaits' /\ Top' = g /\ stack' # <<>>
  <2>1. stack' = Append(Append(Under, t), g)
    BY <1>3, <1>9
  <2>2. /\ Len(stack') = Len(stack) + 1 /\ stack' # <<>> /\ Last(stack') = g
        /\ DOMAIN stack' = 1..(Len(stack) + 1)
        /\ stack'[Len(stack) + 1] = g
        /\ \A k \in 1..Len(stack) : stack'[k] = Append(Under, t)[k]
    <3> DEFINE c == Append(Under, t)
    <3>1. c \in Seq(FrameRecord) /\ Len(c) = Len(stack)
      BY <1>7
    <3> HIDE DEF c
    <3>2. stack' = Append(c, g)
      BY <2>1 DEF c
    <3>3. /\ Len(stack') = Len(stack) + 1 /\ stack' # <<>> /\ Last(stack') = g
          /\ DOMAIN stack' = 1..(Len(stack) + 1)
          /\ stack'[Len(stack) + 1] = g
          /\ \A k \in 1..Len(stack) : stack'[k] = c[k]
      BY <3>1, <3>2, Pushing
    <3> QED BY <3>3 DEF c
  <2>3. ASSUME NEW k \in 1..Len(stack)
        PROVE  Quiet(stack'[k]) /\ stack'[k].at = "paging" /\ stack'[k].strict
    <3>1. CASE k = Len(stack)
      BY <1>1, <1>2, <1>5, <1>7, <1>9, <2>2, <3>1
    <3>2. CASE k # Len(stack)
      BY <1>1, <1>7, <1>8, <2>2, <3>2, LastOrBefore
    <3> QED BY <3>1, <3>2
  <2>4. \A k \in 1..(Len(stack) + 1) : k = Len(stack) + 1 \/ k \in 1..Len(stack)
    BY <1>1
  <2>5. \A k \in 1..(Len(stack) + 1) :
          /\ Quiet(stack'[k])
          /\ k < Len(stack) + 1 => stack'[k].at = "paging" /\ stack'[k].strict
    <3> SUFFICES ASSUME NEW k \in 1..(Len(stack) + 1)
                 PROVE  /\ Quiet(stack'[k])
                        /\ k < Len(stack) + 1 =>
                             stack'[k].at = "paging" /\ stack'[k].strict
      OBVIOUS
    <3>1. CASE k = Len(stack) + 1
      <4>1. stack'[k] = g
        BY <2>2, <3>1, Zenon
      <4>2. ~(k < Len(stack) + 1)
        BY <1>1, <3>1
      <4> QED BY <1>9, <4>1, <4>2
    <3>2. CASE k \in 1..Len(stack)
      BY <2>3, <3>2
    <3> QED BY <2>4, <3>1, <3>2
  <2>6. PagingWaits'
    BY <2>2, <2>5 DEF PagingWaits, Quiet
  <2> QED BY <2>2, <2>6 DEF Top
<1> QED BY <1>2, <1>6, <1>9

LEMMA WaitsPop ==
  ASSUME TypeOK, PagingWaits, stack # <<>>, UNCHANGED program,
         stack' = Under
  PROVE  PagingWaits' /\ (stack' # <<>> => Top'.at = "paging" /\ Top'.strict)
<1>1. /\ Len(stack) \in Nat \ {0} /\ DOMAIN stack = 1..Len(stack)
      /\ Under \in Seq(FrameRecord) /\ Len(Under) = Len(stack) - 1
      /\ DOMAIN Under = 1..(Len(stack) - 1)
      /\ \A k \in 1..(Len(stack) - 1) : Under[k] = stack[k]
  BY TopFrame
<1>2. \A k \in 1..(Len(stack) - 1) :
        Quiet(stack[k]) /\ stack[k].at = "paging" /\ stack[k].strict
  BY <1>1 DEF PagingWaits
<1>3. PagingWaits'
  BY <1>1, <1>2 DEF PagingWaits, Quiet
<1>4. ASSUME stack' # <<>> PROVE Top'.at = "paging" /\ Top'.strict
  <2>1. Len(stack) - 1 # 0
    BY <1>1, <1>4, EmptySeq
  <2>2. Len(stack) - 1 \in 1..(Len(stack) - 1)
    BY <1>1, <2>1
  <2>3. Top' = stack[Len(stack) - 1]
    BY <1>1, <2>2 DEF Top, Last
  <2> QED BY <1>2, <2>2, <2>3
<1> QED BY <1>3, <1>4

LEMMA PagingRuns ==
  ASSUME OnlyPagingVisits, NEW f, Quiet(f), f.i > 0, Visits(f.run)
  PROVE  /\ f.at = "paging" /\ f.run \in Range(program.on["paging"])
         /\ "visit" \notin f.run.does /\ "register" \notin f.run.does
BY DEF Quiet, OnlyPagingVisits, Range

Stages == {Late, Early \cup Late}

(* A fetch whose limit is not reached after all goes on from data.         *)
Revives ==
  stack # <<>> /\ Top.at = "data" /\ ~(EnoughResponses \/ handleMaxPageNum)

(* What each step keeps.                                                   *)
KeepsWaiting ==
  /\ QuietSlots' /\ PagingWaits'
  /\ \A S \in Stages : Leaving(S) /\ ~Revives => Leaving(S)'

SomebodyWaits == RangesInv /\ OnlyPagingVisits /\ QuietSlots /\ PagingWaits

LEMMA SlotsSame ==
  ASSUME QuietSlots, UNCHANGED arrays
  PROVE  QuietSlots'
BY DEF QuietSlots

LEMMA KeepsReplace ==
  ASSUME SomebodyWaits, UNCHANGED <<program, arrays>>, stack # <<>>,
         NEW g \in FrameRecord, Quiet(g), Becomes(g),
         \A S \in Stages : Leaving(S) /\ ~Revives => g.at \in S
  PROVE  KeepsWaiting
<1>1. PagingWaits' /\ Top' = g /\ stack' # <<>>
  BY WaitsReplace DEF SomebodyWaits, RangesInv
<1>2. QuietSlots'
  BY SlotsSame DEF SomebodyWaits
<1>3. ASSUME NEW S \in Stages, Leaving(S), ~Revives
      PROVE  Leaving(S)'
  BY <1>1, <1>3 DEF Leaving
<1> QED BY <1>1, <1>2, <1>3 DEF KeepsWaiting

LEMMA QuietTop ==
  ASSUME SomebodyWaits, stack # <<>>
  PROVE  Quiet(Top)
<1>1. Top = stack[Len(stack)] /\ Len(stack) \in DOMAIN stack
  BY TopFrame DEF SomebodyWaits, RangesInv
<1> QED BY <1>1 DEF SomebodyWaits, PagingWaits

LEMMA IdleIsQuiet ==
  ASSUME RangesInv, NEW f \in FrameRecord
  PROVE  Quiet(Advance(f)) /\ Quiet(Failing(f))
<1>1. Advance(f).i = 0 /\ Failing(f).i = 0
  BY FrameMoves
<1> QED BY <1>1 DEF Quiet

LEMMA LateStages ==
  ASSUME NEW S \in Stages
  PROVE  /\ Late \subseteq S
         /\ \A l : l \in {"paging", "scraped"} => l \notin S
         /\ "request" \in S => "get" \in S
BY DEF Stages, Early, Late

LEMMA VisitWaits ==
  ASSUME SomebodyWaits, Visit
  PROVE  KeepsWaiting
<1>1. /\ stack = <<>> /\ ret = "none" /\ Scrape(Start, 1, <<>>)
      /\ UNCHANGED <<program, arrays>>
  BY DEF Visit, registry
<1>2. \A S \in Stages : ~Leaving(S)
  BY <1>1 DEF Leaving
<1>3. QuietSlots'
  BY <1>1, SlotsSame DEF SomebodyWaits
<1>4. CASE stack' = <<>>
  <2>1. DOMAIN stack' = {}
    BY <1>4
  <2> QED BY <1>2, <1>3, <2>1 DEF KeepsWaiting, PagingWaits
<1>5. CASE stack' = Append(<<>>, Frame(Start, 1, Head(pool)))
  <2> DEFINE g == Frame(Start, 1, Head(pool))
  <2>1. Head(pool) \in Pages /\ Start \in Shown
    BY HeadTailProperties, CallbacksAssumption
       DEF SomebodyWaits, RangesInv, TypeOK, Shown
  <2>2. g \in FrameRecord /\ g.i = 0
    BY <2>1, Beginning DEF SomebodyWaits, RangesInv
  <2> HIDE DEF g
  <2>3. stack' = <<g>>
    BY <1>5 DEF g
  <2>4. DOMAIN stack' = {1} /\ Len(stack') = 1 /\ stack'[1] = g
    BY <2>3
  <2>5. PagingWaits'
    BY <2>2, <2>4 DEF PagingWaits, Quiet
  <2> QED BY <1>2, <1>3, <2>5 DEF KeepsWaiting
<1> QED BY <1>1, <1>4, <1>5 DEF Scrape

LEMMA MustGetWaits ==
  ASSUME SomebodyWaits, MustGet
  PROVE  KeepsWaiting
<1>1. stack # <<>> /\ Top.at = "get" /\ UNCHANGED <<program, arrays>>
  BY DEF MustGet, registry
<1>2. /\ RangesInv /\ TypeOK /\ SlicesFit /\ DetachedIsOut /\ Top \in FrameRecord
      /\ Top.page \in Pages
  BY <1>1, SteadyTop DEF SomebodyWaits
<1>3. [Top EXCEPT !.url = Showing(Top.page)] \in FrameRecord
  BY <1>2, PageTypes DEF FrameRecord
<1>4. \A S \in Stages : "error" \in S /\ "response" \in S
  BY LateStages DEF Late
<1>5. CASE Becomes(Failing(Top))
  <2>1. /\ Failing(Top) \in FrameRecord /\ Quiet(Failing(Top))
        /\ Failing(Top).at = "error"
    BY <1>2, FrameMoves, IdleIsQuiet
  <2> QED BY <1>1, <1>4, <1>5, <2>1, KeepsReplace
<1>6. ASSUME NEW f \in FrameRecord, Answered(f) PROVE KeepsWaiting
  <2>1. /\ Becomes(Enter(f, "response"))
        /\ Enter(f, "response") \in FrameRecord
        /\ Enter(f, "response").at = "response" /\ Enter(f, "response").i = 0
    BY <1>2, <1>6, Entering DEF Answered, Lists
  <2>2. Quiet(Enter(f, "response"))
    BY <2>1 DEF Quiet
  <2> QED BY <1>1, <1>4, <2>1, <2>2, KeepsReplace
<1> QED BY <1>2, <1>3, <1>5, <1>6 DEF MustGet

LEMMA NextCallbackWaits ==
  ASSUME SomebodyWaits, NextCallback
  PROVE  KeepsWaiting
<1> DEFINE cb == arrays[Top.at][Top.over.ver][Top.cb]
           f == [Top EXCEPT !.backs = Defer(Top, cb)]
           n == Len(Offered(f, cb.sel))
<1>1. /\ cb \in Container /\ f \in FrameRecord /\ n \in Nat /\ f.at = Top.at
      /\ RangesInv
  BY NextFacts DEF SomebodyWaits
<1>2. /\ stack # <<>> /\ ret = "none" /\ Top.at \in Lists
      /\ Top.cb <= Top.over.len
      /\ UNCHANGED <<program, arrays>>
      /\ \/ Becomes(Failing(f))
         \/ Becomes(Advance(f))
         \/ Becomes([f EXCEPT !.run = cb, !.i = 1, !.count = n])
  BY <1>1 DEF NextCallback, InRange, registry
<1>3. \A S \in Stages : "error" \in S /\ (Leaving(S) => Top.at \in S)
  BY <1>2, LateStages DEF Leaving, Late
<1>4. \/ ~Visits(cb)
      \/ Top.at = "paging" /\ cb \in Range(program.on["paging"])
  BY <1>2, NextIsQuiet DEF SomebodyWaits
<1> HIDE DEF f, cb, n
<1>5. CASE Becomes(Failing(f))
  <2>1. /\ Failing(f) \in FrameRecord /\ Quiet(Failing(f))
        /\ Failing(f).at = "error"
    BY <1>1, FrameMoves, IdleIsQuiet
  <2> QED BY <1>2, <1>3, <1>5, <2>1, KeepsReplace
<1>6. CASE Becomes(Advance(f))
  <2>1. /\ Advance(f) \in FrameRecord /\ Quiet(Advance(f))
        /\ Advance(f).at = Top.at
    BY <1>1, FrameMoves, IdleIsQuiet
  <2> QED BY <1>2, <1>3, <1>6, <2>1, KeepsReplace
<1>7. CASE Becomes([f EXCEPT !.run = cb, !.i = 1, !.count = n])
  <2> DEFINE g == [f EXCEPT !.run = cb, !.i = 1, !.count = n]
  <2>1. g \in FrameRecord /\ g.at = Top.at /\ g.run = cb
    BY <1>1 DEF FrameRecord
  <2>2. Becomes(g)
    BY <1>7
  <2> HIDE DEF g
  <2>3. Quiet(g)
    BY <1>4, <2>1 DEF Quiet
  <2> QED BY <1>2, <1>3, <2>1, <2>2, <2>3, KeepsReplace
<1> QED BY <1>2, <1>5, <1>6, <1>7

LEMMA RangeMovesWaits ==
  ASSUME SomebodyWaits, CallbackOver \/ ElementMissed
  PROVE  KeepsWaiting
<1>1. /\ stack # <<>> /\ ret = "none"
      /\ UNCHANGED <<program, arrays>>
      /\ \/ Becomes(Advance(Top))
         \/ Top.i > 0 /\ Becomes([Top EXCEPT !.i = @ + 1])
  <2>1. Top.i \in 1..Top.count => Top.i > 0
    OBVIOUS
  <2> QED BY <2>1 DEF CallbackOver, ElementMissed, InRange, registry
<1>2. Top \in FrameRecord /\ Quiet(Top) /\ RangesInv
  BY <1>1, SteadyTop, QuietTop DEF SomebodyWaits
<1>3. \A S \in Stages : Leaving(S) => Top.at \in S
  BY <1>1 DEF Leaving
<1>4. CASE Becomes(Advance(Top))
  <2>1. /\ Advance(Top) \in FrameRecord /\ Quiet(Advance(Top))
        /\ Advance(Top).at = Top.at
    BY <1>2, FrameMoves, IdleIsQuiet
  <2> QED BY <1>1, <1>3, <1>4, <2>1, KeepsReplace
<1>5. CASE Top.i > 0 /\ Becomes([Top EXCEPT !.i = @ + 1])
  <2> DEFINE g == [Top EXCEPT !.i = @ + 1]
  <2>1. g \in FrameRecord /\ g.at = Top.at /\ g.run = Top.run
    BY <1>2, FrameMoves
  <2>2. Becomes(g)
    BY <1>5
  <2> HIDE DEF g
  <2>3. Quiet(g)
    BY <1>2, <1>5, <2>1 DEF Quiet
  <2> QED BY <1>1, <1>3, <2>1, <2>2, <2>3, KeepsReplace
<1> QED BY <1>1, <1>4, <1>5

LEMMA JustReturnWaits ==
  ASSUME SomebodyWaits, JustReturn
  PROVE  KeepsWaiting
<1>1. /\ stack # <<>> /\ ret = "none" /\ stack' = Calling(TRUE)
      /\ UNCHANGED <<program, arrays>>
  BY ActingFacts DEF SomebodyWaits, JustReturn, registry
<1>2. PagingWaits' /\ stack' # <<>> /\ Top'.at = Top.at
  BY <1>1, WaitsCalling DEF SomebodyWaits, RangesInv
<1>3. QuietSlots'
  BY <1>1, SlotsSame DEF SomebodyWaits
<1>4. ASSUME NEW S \in Stages, Leaving(S) PROVE Leaving(S)'
  BY <1>1, <1>2, <1>4 DEF Leaving
<1> QED BY <1>2, <1>3, <1>4 DEF KeepsWaiting

(* Whoever visits is a callback of paging that returns what its visit      *)
(* returns, and not on its way out.                                        *)
LEMMA WhoVisits ==
  ASSUME SomebodyWaits, VisitLink \/ Click
  PROVE  \E act \in {"follow", "enter", "click", "step", "turn"},
            url \in Shown \cup {NoURL}, depth \in Nat :
           /\ Acting(act) /\ Scrape(url, depth, Calling(TRUE))
           /\ Visits(Top.run) /\ Quiet(Top)
           /\ stack # <<>> /\ ret = "none" /\ Top.i > 0 /\ Top.at = "paging"
           /\ Top.run \in Range(program.on["paging"])
           /\ \A S \in Stages : ~Leaving(S)
<1>1. PICK act \in {"visit", "follow", "enter", "click", "step", "turn"},
           url \in Shown \cup {NoURL}, depth \in {Top.depth, Top.depth + 1, 1},
           strict \in BOOLEAN :
        /\ Acting(act) /\ Scrape(url, depth, Calling(strict))
        /\ act # "visit" => strict
  <2>1. CASE VisitLink
    <3>1. \A act : Acting(act) => Target \in Shown \cup {NoURL}
      BY ActingFacts DEF SomebodyWaits
    <3> QED BY <2>1, <3>1 DEF VisitLink
  <2>2. CASE Click
    BY <2>2 DEF Click
  <2> QED BY <2>1, <2>2
<1>2. stack # <<>> /\ ret = "none" /\ Top.i > 0 /\ act \in Top.run.does
  BY <1>1, ActingFacts DEF SomebodyWaits
<1>3. Quiet(Top) /\ Visits(Top.run)
  BY <1>1, <1>2, QuietTop DEF Visits
<1>4. /\ Top.at = "paging" /\ Top.run \in Range(program.on["paging"])
      /\ "visit" \notin Top.run.does
  BY <1>2, <1>3, PagingRuns DEF SomebodyWaits
<1>5. act \in {"follow", "enter", "click", "step", "turn"} /\ strict = TRUE
  BY <1>1, <1>2, <1>4
<1>6. \A S \in Stages : ~Leaving(S)
  BY <1>2, <1>4, LateStages DEF Leaving
<1>7. depth \in Nat
  <2>1. Top.depth \in Nat /\ Top.depth + 1 \in Nat
    BY <1>2, SteadyTop DEF SomebodyWaits
  <2> QED BY <1>1, <2>1
<1> QED BY <1>1, <1>2, <1>3, <1>4, <1>5, <1>6, <1>7

LEMMA VisitingWaits ==
  ASSUME SomebodyWaits, VisitLink \/ Click
  PROVE  KeepsWaiting
<1>1. PICK act \in {"follow", "enter", "click", "step", "turn"},
           url \in Shown \cup {NoURL}, depth \in Nat :
        /\ Scrape(url, depth, Calling(TRUE))
        /\ stack # <<>> /\ Top.at = "paging"
        /\ \A S \in Stages : ~Leaving(S)
  BY WhoVisits
<1>2. UNCHANGED <<program, arrays>> /\ RangesInv /\ TypeOK /\ PagingWaits
  BY DEF VisitLink, Click, registry, SomebodyWaits, RangesInv
<1>3. QuietSlots'
  BY <1>2, SlotsSame DEF SomebodyWaits
<1>4. CASE stack' = Calling(TRUE)
  <2>1. PagingWaits'
    BY <1>1, <1>2, <1>4, WaitsCalling
  <2> QED BY <1>1, <1>3, <2>1 DEF KeepsWaiting
<1>5. CASE stack' = Append(Calling(TRUE), Frame(url, depth, Head(pool)))
  <2> DEFINE g == Frame(url, depth, Head(pool))
  <2>1. Head(pool) \in Pages
    BY <1>2, HeadTailProperties DEF TypeOK
  <2>2. g \in FrameRecord /\ g.i = 0
    BY <1>2, <2>1, Beginning DEF RangesInv
  <2>3. stack' = Append(Calling(TRUE), g)
    BY <1>5
  <2> HIDE DEF g
  <2>4. Quiet(g)
    BY <2>2 DEF Quiet
  <2>5. PagingWaits'
    BY <1>1, <1>2, <2>2, <2>3, <2>4, WaitsCalling
  <2> QED BY <1>1, <1>3, <2>5 DEF KeepsWaiting
<1> QED BY <1>1, <1>4, <1>5 DEF Scrape

LEMMA ReturnWaits ==
  ASSUME SomebodyWaits, Return
  PROVE  KeepsWaiting
<1>1. /\ stack # <<>> /\ UNCHANGED <<program, arrays>>
      /\ \/ Becomes(Failing(Top))
         \/ ~Leaves(Top) /\ Becomes([Top EXCEPT !.i = @ + 1])
  BY DEF Return, registry
<1>2. Top \in FrameRecord /\ Quiet(Top) /\ Top.i > 0 /\ RangesInv
  BY <1>1, SteadyTop, QuietTop DEF Return, SomebodyWaits
<1>3. CASE Becomes(Failing(Top))
  <2>1. /\ Failing(Top) \in FrameRecord /\ Quiet(Failing(Top))
        /\ Failing(Top).at = "error"
    BY <1>2, FrameMoves, IdleIsQuiet
  <2>2. \A S \in Stages : "error" \in S
    BY LateStages DEF Late
  <2> QED BY <1>1, <1>3, <2>1, <2>2, KeepsReplace
<1>4. CASE ~Leaves(Top) /\ Becomes([Top EXCEPT !.i = @ + 1])
  <2> DEFINE g == [Top EXCEPT !.i = @ + 1]
  <2>1. g \in FrameRecord /\ g.at = Top.at /\ g.run = Top.run
    BY <1>2, FrameMoves
  <2>2. Becomes(g)
    BY <1>4
  <2> HIDE DEF g
  <2>3. Quiet(g)
    BY <1>2, <2>1 DEF Quiet
  <2>4. \A S \in Stages : Leaving(S) => g.at \in S
    BY <1>1, <1>4, <2>1 DEF Leaving, Leaves, Serp
  <2> QED BY <1>1, <2>1, <2>2, <2>3, <2>4, KeepsReplace
<1> QED BY <1>1, <1>3, <1>4

LEMMA StageOverWaits ==
  ASSUME SomebodyWaits, StageOver
  PROVE  KeepsWaiting
<1>1. /\ stack # <<>> /\ ret = "none" /\ Top.at \in Lists
      /\ UNCHANGED <<program, arrays>>
  BY DEF StageOver, InRange, registry
<1>2. TypeOK /\ SlicesFit /\ DetachedIsOut /\ Top \in FrameRecord
  BY <1>1, SteadyTop DEF SomebodyWaits
<1>3. \A S \in Stages : Leaving(S) => Top.at \in S
  BY <1>1 DEF Leaving
<1>4. ASSUME NEW result \in {"ok", "err"}, Finish(result),
             Top.at # "scraped" => result = "err"
      PROVE  KeepsWaiting
  <2>1. stack' = Under /\ ret' = result
    BY <1>4 DEF Finish
  <2>2. PagingWaits' /\ (stack' # <<>> => Top'.at = "paging" /\ Top'.strict)
    BY <1>1, <1>2, <2>1, WaitsPop DEF SomebodyWaits
  <2>3. QuietSlots'
    BY <1>1, SlotsSame DEF SomebodyWaits
  <2>4. ASSUME NEW S \in Stages, Leaving(S) PROVE Leaving(S)'
    <3>1. Top.at # "scraped"
      BY <1>3, <2>4, LateStages
    <3>2. ret' = "err"
      BY <1>4, <2>1, <3>1
    <3> QED BY <2>2, <3>2 DEF Leaving
  <2> QED BY <2>2, <2>3, <2>4 DEF KeepsWaiting
<1>5. CASE /\ ~(Top.at = "data" /\ (EnoughResponses \/ handleMaxPageNum))
           /\ Top.at \notin {"error", "scraped"}
           /\ Becomes(Enter(Top, NextStage(Top.at)))
  <2> DEFINE l == NextStage(Top.at)
  <2>1. l \in Lists \cup {"get"}
    BY <1>1, <1>5 DEF NextStage, Lists, Serp
  <2>2. ASSUME NEW S \in Stages, Leaving(S), ~Revives PROVE l \in S
    <3>1. Top.at \in S
      BY <1>3, <2>2
    <3>2. Top.at # "data"
      BY <1>1, <1>5, <2>2 DEF Revives
    <3> QED BY <1>1, <1>5, <3>1, <3>2 DEF NextStage, Lists, Serp, Stages, Early, Late
  <2> HIDE DEF l
  <2>3. /\ Enter(Top, l) \in FrameRecord /\ Enter(Top, l).at = l
        /\ Enter(Top, l).i = 0
    BY <1>2, <2>1, Entering
  <2>4. Quiet(Enter(Top, l))
    BY <2>3 DEF Quiet
  <2>5. Becomes(Enter(Top, l))
    BY <1>5 DEF l
  <2> QED BY <1>1, <2>2, <2>3, <2>4, <2>5, KeepsReplace
<1> QED BY <1>4, <1>5 DEF StageOver

LEMMA RegisterWaits ==
  ASSUME SomebodyWaits, Register
  PROVE  KeepsWaiting
<1> DEFINE cb == [Top.run EXCEPT !.id = registered + 1]
           a == arrays["html"]
           b == arrays'["html"]
<1>1. /\ stack # <<>> /\ ret = "none" /\ Top.i > 0 /\ "register" \in Top.run.does
      /\ Appended("html", cb)
      /\ UNCHANGED <<program, stack>>
  BY ActingFacts DEF SomebodyWaits, Register, OnHTML
<1>2. /\ Top.run \in Container /\ registered \in Nat /\ Quiet(Top)
      /\ TypeOK /\ SlicesFit
  BY <1>1, SteadyTop, QuietTop DEF SomebodyWaits, TypeOK
<1>3. cb \in Container /\ ~Visits(cb)
  <2>1. cb \in Container /\ cb.does = Top.run.does
    BY <1>2 DEF Container
  <2> HIDE DEF cb
  <2>2. ~Visits(Top.run)
    BY <1>1, <1>2, PagingRuns DEF SomebodyWaits
  <2> QED BY <2>1, <2>2 DEF Visits
<1> HIDE DEF cb
<1>4. /\ Brings(a, b, cb) /\ b \in Seq(Seq(Container))
      /\ a \in Seq(Seq(Container))
  BY <1>1, <1>2, <1>3, Appending, HtmlSlots DEF Grown
<1> HIDE DEF a, b
<1>5. /\ DOMAIN b = 1..Len(b)
      /\ \A v \in 1..Len(b) : DOMAIN b[v] = 1..Len(b[v])
      /\ DOMAIN a = 1..Len(a)
      /\ \A v \in 1..Len(a) : DOMAIN a[v] = 1..Len(a[v])
  BY <1>4, ElementOfSeq, LenProperties
<1>6. ~Visits(Nobody)
  BY DEF Nobody, Visits
<1>7. \A u \in 1..Len(a) : \A j \in 1..Len(a[u]) : ~Visits(a[u][j])
  BY <1>5 DEF SomebodyWaits, QuietSlots, a
<1>8. \A v \in 1..Len(b) : \A i \in 1..Len(b[v]) : ~Visits(b[v][i])
  BY <1>3, <1>4, <1>6, <1>7 DEF Brings
<1>9. QuietSlots'
  BY <1>5, <1>8 DEF QuietSlots, b, Visits
<1>10. PagingWaits'
  BY <1>1 DEF SomebodyWaits, PagingWaits, Quiet
<1>11. ASSUME NEW S \in Stages, Leaving(S) PROVE Leaving(S)'
  BY <1>1, <1>11 DEF Leaving, Top
<1> QED BY <1>9, <1>10, <1>11 DEF KeepsWaiting

LEMMA DetachWaits ==
  ASSUME SomebodyWaits, Detach
  PROVE  KeepsWaiting
<1> DEFINE a == arrays["html"]
           b == arrays'["html"]
<1>1. /\ stack # <<>> /\ ret = "none" /\ UNCHANGED program
  BY DEF Detach, InRange
<1>2. /\ TypeOK /\ SlicesFit /\ Top = stack[Len(stack)]
      /\ Len(stack) \in DOMAIN stack /\ DOMAIN stack = 1..Len(stack)
  BY <1>1, TopFrame DEF SomebodyWaits, RangesInv
<1>3. PICK sel \in Top.run.drops : OnHTMLDetach(sel)
  BY DEF Detach
<1>4. \/ UNCHANGED <<arrays, stack>>
      \/ \E k \in 1..header["html"].len : InPlace(k) /\ stack' = Disturbing
  BY <1>2, <1>3, Selected DEF Disturbing
<1>5. CASE UNCHANGED <<arrays, stack>>
  <2>1. PagingWaits'
    BY <1>1, <1>5 DEF SomebodyWaits, PagingWaits, Quiet
  <2>2. ASSUME NEW S \in Stages, Leaving(S) PROVE Leaving(S)'
    BY <1>1, <1>5, <2>2 DEF Leaving, Top
  <2> QED BY <1>5, <2>1, <2>2, SlotsSame DEF KeepsWaiting, SomebodyWaits
<1>6. ASSUME NEW k \in 1..header["html"].len, InPlace(k), stack' = Disturbing
      PROVE  KeepsWaiting
  <2>1. /\ Len(b) = Len(a) /\ b \in Seq(Seq(Container)) /\ a \in Seq(Seq(Container))
        /\ \A v \in 1..Len(a) :
             /\ Len(b[v]) = Len(a[v])
             /\ \A i \in 1..Len(a[v]) : \E j \in 1..Len(a[v]) : b[v][i] = a[v][j]
    <3>1. arrays' \in [Lists -> Seq(Seq(Container))] /\ "html" \in Lists
      BY <1>2, <1>6, Detaching DEF Lists, Serp
    <3> QED BY <1>2, <1>6, <3>1, Detaching, HtmlSlots
  <2>2. /\ DOMAIN stack' = DOMAIN stack /\ Len(stack') = Len(stack)
        /\ \A j \in DOMAIN stack :
             /\ stack'[j].at = stack[j].at /\ stack'[j].i = stack[j].i
             /\ stack'[j].run = stack[j].run /\ stack'[j].strict = stack[j].strict
    BY <1>2, <1>6, DisturbedFrames
  <2> HIDE DEF a, b
  <2>3. /\ DOMAIN b = 1..Len(b)
        /\ \A v \in 1..Len(b) : DOMAIN b[v] = 1..Len(b[v])
        /\ DOMAIN a = 1..Len(a)
        /\ \A v \in 1..Len(a) : DOMAIN a[v] = 1..Len(a[v])
    BY <2>1, ElementOfSeq, LenProperties
  <2>4. \A v \in 1..Len(a) : \A i \in 1..Len(a[v]) : ~Visits(a[v][i])
    BY <2>3 DEF SomebodyWaits, QuietSlots, a
  <2>5. \A v \in 1..Len(b) : \A i \in 1..Len(b[v]) : ~Visits(b[v][i])
    BY <2>1, <2>4
  <2>6. QuietSlots'
    BY <2>3, <2>5 DEF QuietSlots, b, Visits
  <2>7. PagingWaits'
    BY <1>1, <2>2 DEF SomebodyWaits, PagingWaits, Quiet
  <2>8. stack' # <<>> /\ Top'.at = Top.at
    <3>1. stack' # <<>> /\ Top' = stack'[Len(stack)]
      <4>1. DOMAIN stack' # {}
        BY <1>2, <2>2
      <4>2. DOMAIN <<>> = {}
        OBVIOUS
      <4> QED BY <2>2, <4>1, <4>2 DEF Top, Last
    <3> QED BY <1>2, <2>2, <3>1
  <2>9. ASSUME NEW S \in Stages, Leaving(S) PROVE Leaving(S)'
    BY <1>1, <2>8, <2>9 DEF Leaving
  <2> QED BY <2>6, <2>7, <2>9 DEF KeepsWaiting
<1> QED BY <1>4, <1>5, <1>6

LEMMA InitWaits ==
  ASSUME Init, OnlyPagingVisits
  PROVE  QuietSlots /\ PagingWaits
<1> DEFINE p == program.on["html"]
<1>1. stack = <<>> /\ arrays["html"] = <<Padded(p, Capacity)>>
  BY DEF Init, Lists, Serp
<1>2. p \in Seq(Container) /\ Capacity \in Nat /\ Len(p) \in Nat
  BY InitInv, SettingTypes, CallbacksAssumption, LenProperties
     DEF RangesInv, Lists, Serp
<1>3. \A i \in DOMAIN p : ~Visits(p[i])
  BY DEF OnlyPagingVisits, Lists, Serp
<1>4. \A i \in DOMAIN Padded(p, Capacity) : ~Visits(Padded(p, Capacity)[i])
  <2> DEFINE t == Padded(p, Capacity)
  <2>1. /\ DOMAIN t = 1..Len(t) /\ DOMAIN p = 1..Len(p)
        /\ \A i \in 1..Len(p) : t[i] = p[i]
        /\ \A i \in DOMAIN t : i > Len(p) => t[i] = Nobody
    BY <1>2, Padding, LenProperties
  <2> HIDE DEF t, p
  <2>2. ~Visits(Nobody)
    BY DEF Nobody, Visits
  <2>3. ASSUME NEW i \in DOMAIN t PROVE ~Visits(t[i])
    <3>1. CASE i \in 1..Len(p)
      BY <1>3, <2>1, <3>1
    <3>2. CASE i \notin 1..Len(p)
      <4>1. i > Len(p)
        BY <1>2, <2>1, <3>2
      <4> QED BY <2>1, <2>2, <4>1
    <3> QED BY <3>1, <3>2
  <2> QED BY <2>3 DEF t
<1> QED BY <1>1, <1>4 DEF QuietSlots, PagingWaits

LEMMA NextWaits ==
  ASSUME SomebodyWaits, [Next]_vars
  PROVE  KeepsWaiting
<1>1. CASE UNCHANGED vars
  BY <1>1 DEF vars, registry, counts, SomebodyWaits, QuietSlots, PagingWaits,
     Leaving, Top, Quiet, settings, KeepsWaiting
<1> QED BY <1>1, VisitWaits, MustGetWaits, NextCallbackWaits, RangeMovesWaits,
           JustReturnWaits, VisitingWaits, RegisterWaits, DetachWaits, ReturnWaits,
           StageOverWaits DEF Next, Step

LEMMA ProgramStays ==
  ASSUME [Next]_vars
  PROVE  UNCHANGED <<program, site>>
BY DEF Next, Step, Visit, MustGet, NextCallback, CallbackOver, ElementMissed,
       JustReturn, VisitLink, Click, Register, Detach, Return, StageOver, vars

LEMMA WaitsAlways == Spec => []WaitsInv
<1>1. Init => WaitsInv
  BY InitWaits DEF WaitsInv
<1>2. RangesInv /\ WaitsInv /\ [Next]_vars => WaitsInv'
  <2> SUFFICES ASSUME RangesInv, WaitsInv, [Next]_vars, OnlyPagingVisits'
               PROVE  QuietSlots' /\ PagingWaits'
    BY DEF WaitsInv
  <2>1. OnlyPagingVisits
    BY ProgramStays DEF OnlyPagingVisits
  <2> QED BY <2>1, NextWaits DEF WaitsInv, SomebodyWaits, KeepsWaiting
<1> QED BY <1>1, <1>2, RangesInvariant, PTL DEF Spec

(* The limit on responses.                                                 *)
LEMMA NextWithin ==
  ASSUME RangesInv, WaitsInv, ResponsesInv, [Next]_vars
  PROVE  ResponsesInv'
<1> SUFFICES ASSUME Limiting' PROVE WithinLimit'
  BY DEF ResponsesInv
<1>1. settings' = settings /\ Limiting /\ WithinLimit
  BY ProgramStays DEF Limiting, OnlyPagingVisits, settings, ResponsesInv
<1>2. \A S \in Stages : Leaving(S) /\ ~Revives => Leaving(S)'
  BY <1>1, NextWaits DEF WaitsInv, SomebodyWaits, KeepsWaiting, Limiting
<1>3. responseCount \in Nat /\ settings.maxResponses \in Nat
      /\ settings.maxResponses > 0
  BY <1>1, SettingTypes DEF RangesInv, TypeOK, Limiting
<1>4. CASE responseCount' = responseCount
  <2>1. responseCount = settings.maxResponses => Leaving(Late) /\ ~Revives
    BY <1>1, <1>3 DEF WithinLimit, Revives, EnoughResponses
  <2> QED BY <1>1, <1>2, <1>4, <2>1 DEF WithinLimit, Stages
<1>5. CASE responseCount' # responseCount
  <2>1. MustGet
    BY <1>5 DEF Next, Step, Visit, NextCallback, CallbackOver, ElementMissed,
           JustReturn, VisitLink, Click, Register, Detach, Return, StageOver,
           vars, counts
  <2>2. stack # <<>> /\ Top.at = "get"
    BY <2>1 DEF MustGet
  <2>3. /\ TypeOK /\ SlicesFit /\ DetachedIsOut /\ Top \in FrameRecord
        /\ Top.page \in Pages
    BY <2>2, SteadyTop
  <2>4. [Top EXCEPT !.url = Showing(Top.page)] \in FrameRecord
    BY <2>3, PageTypes DEF FrameRecord
  <2>5. \E f \in FrameRecord : Answered(f)
    BY <1>5, <2>1, <2>3, <2>4 DEF MustGet
  <2>6. PICK f \in FrameRecord : Answered(f)
    BY <2>5
  <2>7. /\ Becomes(Enter(f, "response")) /\ responseCount' = responseCount + 1
        /\ Enter(f, "response") \in FrameRecord
        /\ Enter(f, "response").at = "response"
    BY <2>3, <2>6, Entering DEF Answered, Lists
  <2>8. stack' # <<>> /\ Top' = Enter(f, "response")
    BY <2>2, <2>3, <2>7, Replacing DEF Becomes, Top
  <2>9. Leaving(Late)'
    BY <2>7, <2>8 DEF Leaving, Late
  <2>10. ~Leaving(Late)
    BY <2>2 DEF Leaving, Late
  <2>11. responseCount # settings.maxResponses /\ responseCount <= settings.maxResponses
    BY <1>1, <2>10 DEF WithinLimit
  <2>12. responseCount + 1 <= settings.maxResponses
    BY <1>3, <2>11
  <2> QED BY <1>1, <2>7, <2>9, <2>12 DEF WithinLimit
<1> QED BY <1>4, <1>5

LEMMA WithinAlways == Spec => []ResponsesInv
<1>1. Init => ResponsesInv
  <2> SUFFICES ASSUME Init, Limiting PROVE WithinLimit
    BY DEF ResponsesInv
  <2>1. /\ responseCount = 0 /\ settings.maxResponses \in Nat
        /\ settings.maxResponses > 0
    BY InitInv, SettingTypes DEF RangesInv, Limiting, Init
  <2> QED BY <2>1 DEF WithinLimit
<1> QED BY <1>1, NextWithin, WaitsAlways, RangesInvariant, PTL DEF Spec

(* maxResponses (roddy.go:231) bounds the responses of one Visit where     *)
(* only paging callbacks visit, and return what their visits return.       *)
THEOREM ResponsesWithinLimit == Spec => []ResponsesBounded
<1>1. ResponsesInv => ResponsesBounded
  BY DEF ResponsesInv, ResponsesBounded, WithinLimit
<1> QED BY <1>1, WithinAlways, PTL

(* The limit on pages.  Going back leaves a beginning of what a page has   *)
(* shown.                                                                  *)
StartsOut(r, h) ==
  /\ r \in Seq(Shown) /\ Len(r) \in 1..Len(h)
  /\ \A i \in 1..Len(r) : r[i] = h[i]

LEMMA BackIsBeginning ==
  ASSUME NEW h \in Seq(Shown), h # <<>>, NEW n \in Nat
  PROVE  StartsOut(MustGoBack(h, n), h)
<1>1. Len(h) \in Nat /\ Len(h) > 0 /\ DOMAIN h = 1..Len(h)
  BY EmptySeq, LenProperties
<1>2. CASE settings.maxDepth = 0 \/ n = 0
  BY <1>1, <1>2 DEF MustGoBack, StartsOut
<1>3. CASE ~(settings.maxDepth = 0 \/ n = 0) /\ Len(h) > n
  <2> DEFINE r == SubSeq(h, 1, Len(h) - n)
  <2>1. /\ r \in Seq(Shown) /\ Len(r) = Len(h) - n
        /\ \A i \in 1..(Len(h) - n) : r[i] = h[i]
    <3>1. /\ Len(h) - n \in Int /\ 1 \in Int /\ 1 <= Len(h) - n
          /\ (Len(h) - n) - 1 + 1 = Len(h) - n
          /\ \A i \in 1..(Len(h) - n) : i \in 1..Len(h) /\ 1 + i - 1 = i
      BY <1>1, <1>3
    <3>2. \A i \in 1..(Len(h) - n) : h[i] \in Shown
      BY <3>1, ElementOfSeq
    <3>3. /\ r \in Seq(Shown)
          /\ Len(r) = IF 1 <= Len(h) - n THEN (Len(h) - n) - 1 + 1 ELSE 0
          /\ \A i \in 1..((Len(h) - n) - 1 + 1) : r[i] = h[1 + i - 1]
      BY <3>1, <3>2, SubSeqProperties
    <3> HIDE DEF r
    <3> QED BY <3>1, <3>3
  <2>2. MustGoBack(h, n) = r
    BY <1>3 DEF MustGoBack
  <2> HIDE DEF r
  <2>3. Len(h) - n \in 1..Len(h)
    BY <1>1, <1>3
  <2> QED BY <2>1, <2>2, <2>3 DEF StartsOut
<1>4. CASE ~(settings.maxDepth = 0 \/ n = 0) /\ ~(Len(h) > n)
  <2>1. MustGoBack(h, n) = <<h[1]>> /\ h[1] \in Shown
    BY <1>1, <1>4, HeadTailProperties, ElementOfSeq DEF MustGoBack
  <2>2. <<h[1]>> \in Seq(Shown) /\ Len(<<h[1]>>) = 1 /\ <<h[1]>>[1] = h[1]
    BY <2>1
  <2>3. 1 \in 1..Len(h)
    BY <1>1
  <2> QED BY <2>1, <2>2, <2>3 DEF StartsOut
<1> QED BY <1>2, <1>3, <1>4

LEMMA SameIsBeginning ==
  ASSUME TypeOK, NEW p \in Pages
  PROVE  StartsOut(history[p], history[p])
BY PageTypes DEF StartsOut

Shortened == \A p \in Pages : StartsOut(history'[p], history[p])

LEMMA ShortenedIsOneByOne ==
  ASSUME TypeOK, OneByOne, Shortened, UNCHANGED <<program, pageNum>>
  PROVE  OneByOne' /\ (Untouched => Untouched')
<1>1. Pages' = Pages /\ 1 \in Pages
  BY SettingTypes DEF Pages, settings
<1>2. \A p \in Pages : /\ Len(history[p]) \in Nat \ {0}
                       /\ DOMAIN history[p] = 1..Len(history[p])
  BY PageTypes, LenProperties
<1>3. \A p \in Pages : DOMAIN history'[p] = 1..Len(history'[p])
  BY LenProperties DEF Shortened, StartsOut
<1>4. ASSUME NEW p \in Pages
      PROVE  /\ \A i \in DOMAIN history'[p] : history'[p][i] = i - 1
             /\ p # 1 => Len(history'[p]) = 1
  <2>1. /\ Len(history'[p]) \in 1..Len(history[p])
        /\ \A i \in 1..Len(history'[p]) : history'[p][i] = history[p][i]
    BY DEF Shortened, StartsOut
  <2>2. \A i \in 1..Len(history'[p]) : i \in 1..Len(history[p])
    BY <1>2, <2>1
  <2>3. \A i \in DOMAIN history'[p] : history'[p][i] = i - 1
    BY <1>2, <1>3, <2>1, <2>2 DEF OneByOne
  <2>4. ASSUME p # 1 PROVE Len(history'[p]) = 1
    <3>1. Len(history[p]) = 1
      BY <2>4 DEF OneByOne
    <3> QED BY <2>1, <3>1
  <2> QED BY <2>3, <2>4
<1>5. Len(history'[1]) \in 1..Len(history[1])
  BY <1>1 DEF Shortened, StartsOut
<1>6. Len(history'[1]) <= pageNum' + 2
  BY <1>1, <1>2, <1>5 DEF OneByOne, TypeOK
<1>7. Untouched => Untouched'
  BY <1>1, <1>2, <1>5 DEF Untouched
<1> QED BY <1>1, <1>4, <1>6, <1>7 DEF OneByOne

LEMMA DeferredShortens ==
  ASSUME RangesInv, NEW f \in FrameRecord,
         history' \in {history, [history EXCEPT ![f.page] = Deferred(f)],
                       [history EXCEPT ![f.page] = MustGoBack(@, 1)]}
  PROVE  Shortened
<1>1. TypeOK /\ f.page \in Pages /\ f.backs \in Nat
  BY DEF RangesInv, FrameRecord
<1>2. SUFFICES ASSUME NEW p \in Pages
               PROVE  StartsOut(history'[p], history[p])
  BY DEF Shortened
<1>3. history[p] \in Seq(Shown) /\ history[p] # <<>> /\ history \in [Pages -> Seq(Shown) \ {<<>>}]
  BY <1>1, PageTypes DEF TypeOK
<1>4. \/ history'[p] = history[p]
      \/ history'[p] = MustGoBack(history[p], f.backs)
      \/ history'[p] = MustGoBack(history[p], 1)
  BY <1>1, <1>3 DEF Deferred
<1> QED BY <1>1, <1>3, <1>4, SameIsBeginning, BackIsBeginning

PagesWait == SomebodyWaits /\ Turning /\ WithinPages

(* A step that begins no visit and asks for no page.                       *)
LEMMA PagesSame ==
  ASSUME PagesWait, KeepsWaiting, Shortened,
         UNCHANGED <<program, site, pageNum>>,
         stack' # <<>> \/ ret' # "none",
         stack' # <<>> /\ Top'.at \in Early =>
           /\ stack # <<>> /\ Top.at \in Early
           /\ Top'.url = Top.url /\ Top'.page = Top.page
  PROVE  WithinPages'
<1>1. /\ TypeOK /\ OneByOne /\ settings' = settings
      /\ pageNum <= settings.maxPageNum
  BY DEF PagesWait, SomebodyWaits, RangesInv, WithinPages, settings
<1>2. OneByOne' /\ (Untouched => Untouched')
  BY <1>1, ShortenedIsOneByOne
<1>3. stack' # <<>> /\ Top'.at \in Early =>
        Top'.url = NoURL \/ (Top'.url = Start /\ Top'.page = 1 /\ Untouched')
  BY <1>2 DEF PagesWait, WithinPages
<1>4. ASSUME pageNum >= settings.maxPageNum PROVE Leaving(Early \cup Late)'
  <2>1. Leaving(Early \cup Late)
    BY <1>4 DEF PagesWait, WithinPages
  <2>2. ~Revives
    BY <1>4 DEF Revives, handleMaxPageNum, PagesWait, Turning
  <2> QED BY <2>1, <2>2 DEF KeepsWaiting, Stages
<1> QED BY <1>1, <1>2, <1>3, <1>4 DEF WithinPages

(* Most steps replace the top frame, and leave the stage of asking for a   *)
(* page as it is.                                                          *)
LEMMA PagesReplace ==
  ASSUME PagesWait, KeepsWaiting, stack # <<>>,
         UNCHANGED <<program, site, pageNum>>,
         Shortened,
         NEW g \in FrameRecord, Becomes(g),
         g.at \in Early =>
           Top.at \in Early /\ g.url = Top.url /\ g.page = Top.page
  PROVE  WithinPages'
<1>1. TypeOK /\ RangesInv /\ Top \in FrameRecord
  BY TopFrame DEF PagesWait, SomebodyWaits, RangesInv
<1>2. stack' # <<>> /\ Top' = g
  BY <1>1, Replacing DEF Becomes, Top
<1> QED BY <1>2, PagesSame

LEMMA SameFrames ==
  ASSUME NEW f \in FrameRecord
  PROVE  /\ Advance(f).at = f.at /\ Advance(f).url = f.url /\ Advance(f).page = f.page
         /\ LET g == [f EXCEPT !.i = @ + 1]
            IN  g.at = f.at /\ g.url = f.url /\ g.page = f.page
         /\ LET g == [f EXCEPT !.strict = TRUE]
              IN  /\ g \in FrameRecord
                  /\ g.at = f.at /\ g.url = f.url /\ g.page = f.page
BY DEF FrameRecord, Advance

LEMMA EnterSame ==
  ASSUME NEW f \in FrameRecord, NEW l
  PROVE  /\ Enter(f, l).at = l /\ Enter(f, l).url = f.url
         /\ Enter(f, l).page = f.page
BY DEF FrameRecord, Enter

LEMMA NextCallbackPages ==
  ASSUME PagesWait, NextCallback
  PROVE  WithinPages'
<1> DEFINE cb == arrays[Top.at][Top.over.ver][Top.cb]
           f == [Top EXCEPT !.backs = Defer(Top, cb)]
           n == Len(Offered(f, cb.sel))
<1>1. /\ cb \in Container /\ f \in FrameRecord /\ n \in Nat /\ f.at = Top.at
      /\ f.page = Top.page /\ RangesInv
  BY NextFacts DEF PagesWait, SomebodyWaits
<1>2. /\ stack # <<>>
      /\ UNCHANGED <<program, site, pageNum>>
      /\ \/ Becomes(Failing(f)) /\ RunDeferred(f)
         \/ Becomes(Advance(f)) /\ UNCHANGED history
         \/ Becomes([f EXCEPT !.run = cb, !.i = 1, !.count = n]) /\ UNCHANGED history
  BY <1>1 DEF NextCallback, InRange, counts
<1>3. KeepsWaiting
  BY NextCallbackWaits DEF PagesWait
<1>4. f.url = Top.url
  BY <1>2, SteadyTop, <1>1 DEF FrameRecord
<1> HIDE DEF f, cb, n
<1>5. Shortened
  BY <1>1, <1>2, DeferredShortens DEF RunDeferred
<1>6. CASE Becomes(Failing(f))
  <2>1. Failing(f) \in FrameRecord /\ Failing(f).at \notin Early
    BY <1>1, FrameMoves DEF Early
  <2> QED BY <1>2, <1>3, <1>5, <1>6, <2>1, PagesReplace
<1>7. CASE Becomes(Advance(f))
  <2>1. /\ Advance(f) \in FrameRecord /\ Advance(f).at = Top.at
        /\ Advance(f).url = Top.url /\ Advance(f).page = Top.page
    BY <1>1, <1>4, FrameMoves, SameFrames
  <2> QED BY <1>2, <1>3, <1>5, <1>7, <2>1, PagesReplace
<1>8. CASE Becomes([f EXCEPT !.run = cb, !.i = 1, !.count = n])
  <2> DEFINE g == [f EXCEPT !.run = cb, !.i = 1, !.count = n]
  <2>1. /\ g \in FrameRecord /\ g.at = Top.at /\ g.url = Top.url
        /\ g.page = Top.page
    BY <1>1, <1>4 DEF FrameRecord
  <2>2. Becomes(g)
    BY <1>8
  <2> HIDE DEF g
  <2> QED BY <1>2, <1>3, <1>5, <2>1, <2>2, PagesReplace
<1> QED BY <1>2, <1>6, <1>7, <1>8

LEMMA RangeMovesPages ==
  ASSUME PagesWait, CallbackOver \/ ElementMissed
  PROVE  WithinPages'
<1>1. /\ stack # <<>> /\ UNCHANGED <<program, site, pageNum>>
      /\ \/ Becomes(Advance(Top))
         \/ Becomes([Top EXCEPT !.i = @ + 1])
  BY DEF CallbackOver, ElementMissed, InRange, counts
<1>2. history' \in {history, [history EXCEPT ![Top.page] = MustGoBack(@, 1)]}
  <2>1. CASE CallbackOver
    BY <2>1 DEF CallbackOver, browser
  <2>2. CASE ElementMissed
    <3>1. /\ history \in [Pages -> Seq(Shown) \ {<<>>}] /\ Top.page \in Pages
      BY <1>1, SteadyTop DEF PagesWait, SomebodyWaits, TypeOK
    <3>2. \/ history' = [history EXCEPT ![Top.page] = MustGoBack(@, 1)]
          \/ history' = [history EXCEPT ![Top.page] = @]
      BY <2>2 DEF ElementMissed
    <3>3. [history EXCEPT ![Top.page] = @] = history
      BY <3>1
    <3> QED BY <3>2, <3>3
  <2> QED BY <2>1, <2>2
<1>3. KeepsWaiting /\ RangesInv
  BY RangeMovesWaits DEF PagesWait, SomebodyWaits
<1>4. Top \in FrameRecord
  BY <1>1, <1>3, SteadyTop
<1>5. Shortened
  BY <1>2, <1>3, <1>4, DeferredShortens
<1> DEFINE g == [Top EXCEPT !.i = @ + 1]
<1>6. /\ Advance(Top) \in FrameRecord /\ Advance(Top).at = Top.at
      /\ Advance(Top).url = Top.url /\ Advance(Top).page = Top.page
      /\ g \in FrameRecord /\ g.at = Top.at
      /\ g.url = Top.url /\ g.page = Top.page
  BY <1>3, <1>4, FrameMoves, SameFrames
<1>7. Becomes(Advance(Top)) \/ Becomes(g)
  BY <1>1
<1> HIDE DEF g
<1> QED BY <1>1, <1>3, <1>5, <1>6, <1>7, PagesReplace

LEMMA JustReturnPages ==
  ASSUME PagesWait, JustReturn
  PROVE  WithinPages'
<1>1. /\ stack # <<>> /\ stack' = Calling(TRUE) /\ RangesInv
      /\ UNCHANGED <<program, site, pageNum, history>>
  BY ActingFacts DEF JustReturn, counts, browser, PagesWait, SomebodyWaits
<1>2. Top \in FrameRecord
  BY <1>1, SteadyTop
<1> DEFINE g == [Top EXCEPT !.strict = TRUE]
<1>3. /\ g \in FrameRecord /\ g.at = Top.at /\ g.url = Top.url
      /\ g.page = Top.page
  BY <1>2, SameFrames
<1>4. Becomes(g)
  BY <1>1 DEF Becomes, Calling
<1>5. Shortened /\ KeepsWaiting
  BY <1>1, <1>2, DeferredShortens, JustReturnWaits DEF PagesWait
<1> HIDE DEF g
<1> QED BY <1>1, <1>3, <1>4, <1>5, PagesReplace

LEMMA RegistryPages ==
  ASSUME PagesWait, Register \/ Detach
  PROVE  WithinPages'
<1>1. /\ stack # <<>> /\ RangesInv /\ TypeOK
      /\ UNCHANGED <<program, site, pageNum, history>>
  BY ActingFacts DEF Register, Detach, InRange, counts, browser, PagesWait,
     SomebodyWaits, RangesInv
<1>2. Shortened /\ KeepsWaiting
  BY <1>1, SameIsBeginning, RegisterWaits, DetachWaits DEF PagesWait, Shortened
<1>3. stack' \in {stack, Disturbing}
  <2>1. CASE Register
    BY <2>1 DEF Register, OnHTML
  <2>2. CASE Detach
    <3>1. PICK sel \in Top.run.drops : OnHTMLDetach(sel)
      BY <2>2 DEF Detach
    <3> QED BY <1>1, <3>1, Selected DEF Disturbing, RangesInv
  <2> QED BY <2>1, <2>2
<1>4. stack' # <<>> /\ Top'.at = Top.at /\ Top'.url = Top.url /\ Top'.page = Top.page
  <2>1. CASE stack' = stack
    BY <1>1, <2>1 DEF Top
  <2>2. CASE stack' = Disturbing
    <3>1. /\ Len(Disturbing) = Len(stack) /\ DOMAIN Disturbing = DOMAIN stack
          /\ Len(stack) \in DOMAIN stack /\ Top = stack[Len(stack)]
          /\ Top \in FrameRecord
          /\ LET g == Disturbing[Len(stack)]
             IN  g = [Top EXCEPT !.disturbed = g.disturbed]
      BY <1>1, TopFrame, DisturbedFrames
    <3>2. Disturbing # <<>>
      <4>1. DOMAIN <<>> = {}
        OBVIOUS
      <4> QED BY <3>1, <4>1
    <3>3. Top' = Disturbing[Len(stack)]
      BY <2>2, <3>1 DEF Top, Last
    <3> QED BY <2>2, <3>1, <3>2, <3>3 DEF FrameRecord
  <2> QED BY <1>3, <2>1, <2>2
<1> QED BY <1>1, <1>2, <1>4, PagesSame

LEMMA ReturnPages ==
  ASSUME PagesWait, Return
  PROVE  WithinPages'
<1>1. /\ stack # <<>> /\ UNCHANGED <<program, site, pageNum>>
      /\ \/ Becomes(Failing(Top)) /\ RunDeferred(Top)
         \/ Becomes([Top EXCEPT !.i = @ + 1]) /\ UNCHANGED history
  BY DEF Return, counts
<1>2. KeepsWaiting /\ RangesInv
  BY ReturnWaits DEF PagesWait, SomebodyWaits
<1>3. Top \in FrameRecord
  BY <1>1, <1>2, SteadyTop
<1>4. Shortened
  BY <1>1, <1>2, <1>3, DeferredShortens DEF RunDeferred
<1> DEFINE g == [Top EXCEPT !.i = @ + 1]
<1>5. /\ Failing(Top) \in FrameRecord /\ Failing(Top).at \notin Early
      /\ g \in FrameRecord /\ g.at = Top.at
      /\ g.url = Top.url /\ g.page = Top.page
  BY <1>2, <1>3, FrameMoves, SameFrames DEF Early
<1>6. Becomes(Failing(Top)) \/ Becomes(g)
  BY <1>1
<1> HIDE DEF g
<1> QED BY <1>1, <1>2, <1>4, <1>5, <1>6, PagesReplace

LEMMA StageOverPages ==
  ASSUME PagesWait, StageOver
  PROVE  WithinPages'
<1>1. /\ stack # <<>> /\ Top.at \in Lists /\ RunDeferred(Top)
      /\ UNCHANGED <<program, site, pageNum>>
  BY DEF StageOver, InRange, counts
<1>2. /\ KeepsWaiting /\ RangesInv /\ TypeOK /\ SlicesFit /\ DetachedIsOut
      /\ Top \in FrameRecord
  BY <1>1, StageOverWaits, SteadyTop DEF PagesWait, SomebodyWaits
<1>3. Shortened
  BY <1>1, <1>2, DeferredShortens DEF RunDeferred
<1>4. ASSUME NEW result \in {"ok", "err"}, Finish(result) PROVE WithinPages'
  <2>1. stack' = Under /\ ret' # "none"
    BY <1>4 DEF Finish
  <2>2. stack' # <<>> => Top'.at = "paging"
    BY <1>1, <1>2, <2>1, WaitsPop DEF PagesWait, SomebodyWaits
  <2> QED BY <1>1, <1>2, <1>3, <2>1, <2>2, PagesSame DEF Early
<1>5. CASE /\ Top.at \notin {"error", "scraped"}
           /\ Becomes(Enter(Top, NextStage(Top.at)))
  <2> DEFINE l == NextStage(Top.at)
  <2>1. l \in Lists \cup {"get"} /\ (l \in Early => Top.at \in Early)
    BY <1>1, <1>5 DEF NextStage, Lists, Serp, Early
  <2>2. Becomes(Enter(Top, l))
    BY <1>5
  <2> HIDE DEF l
  <2>3. /\ Enter(Top, l) \in FrameRecord /\ Enter(Top, l).at = l
        /\ Enter(Top, l).url = Top.url /\ Enter(Top, l).page = Top.page
    BY <1>2, <2>1, Entering, EnterSame
  <2> QED BY <1>1, <1>2, <1>3, <2>1, <2>2, <2>3, PagesReplace
<1> QED BY <1>4, <1>5 DEF StageOver

LEMMA VisitPages ==
  ASSUME PagesWait, Visit
  PROVE  WithinPages'
<1>1. /\ stack = <<>> /\ ret = "none" /\ Scrape(Start, 1, <<>>)
      /\ UNCHANGED <<program, site, pageNum, history>>
      /\ Untouched /\ Head(pool) = 1
  BY DEF Visit, PagesWait, WithinPages
<1>2. /\ TypeOK /\ KeepsWaiting /\ settings' = settings /\ Pages' = Pages
      /\ pageNum \in Nat /\ settings.maxPageNum \in Nat
  BY <1>1, VisitWaits, SettingTypes
     DEF PagesWait, SomebodyWaits, RangesInv, TypeOK, settings, Pages
<1>3. ~(pageNum >= settings.maxPageNum)
  BY <1>1 DEF PagesWait, WithinPages, Leaving
<1>4. OneByOne' /\ Untouched' /\ pageNum' <= settings'.maxPageNum
  BY <1>1, <1>2 DEF PagesWait, WithinPages, OneByOne, Untouched
<1>5. CASE stack' = <<>> /\ ret' = "err"
  BY <1>1, <1>2, <1>3, <1>4, <1>5 DEF WithinPages
<1>6. CASE stack' = Append(<<>>, Frame(Start, 1, Head(pool)))
  <2> DEFINE g == Frame(Start, 1, Head(pool))
  <2>1. g.url = Start /\ g.page = 1
    BY <1>1 DEF Frame
  <2>2. stack' = <<g>>
    BY <1>6
  <2> HIDE DEF g
  <2>3. stack' # <<>> /\ Top' = g
    BY <2>2 DEF Top, Last
  <2> QED BY <1>1, <1>2, <1>3, <1>4, <2>1, <2>3 DEF WithinPages
<1> QED BY <1>1, <1>5, <1>6 DEF Scrape

LEMMA MustGetPages ==
  ASSUME PagesWait, MustGet
  PROVE  WithinPages'
<1>1. /\ stack # <<>> /\ Top.at = "get"
      /\ UNCHANGED <<program, site, pageNum>>
  BY DEF MustGet
<1>2. /\ RangesInv /\ TypeOK /\ SlicesFit /\ DetachedIsOut /\ Top \in FrameRecord
      /\ Top.page \in Pages /\ KeepsWaiting
  BY <1>1, SteadyTop, MustGetWaits DEF PagesWait, SomebodyWaits
<1>3. [Top EXCEPT !.url = Showing(Top.page)] \in FrameRecord
  BY <1>2, PageTypes DEF FrameRecord
<1>4. PICK g \in FrameRecord : Becomes(g) /\ g.at \in {"error", "response"}
  <2>1. CASE Becomes(Failing(Top))
    BY <1>2, <2>1, FrameMoves
  <2>2. ASSUME NEW f \in FrameRecord, Answered(f)
        PROVE  /\ Becomes(Enter(f, "response"))
               /\ Enter(f, "response") \in FrameRecord
               /\ Enter(f, "response").at = "response"
    BY <1>2, <2>2, Entering DEF Answered, Lists
  <2>3. Becomes(Failing(Top)) \/ \E f \in FrameRecord : Answered(f)
    BY <1>2, <1>3 DEF MustGet
  <2> QED BY <2>1, <2>2, <2>3
<1>5. CASE UNCHANGED history
  <2>1. Shortened
    BY <1>2, <1>5, DeferredShortens
  <2> QED BY <1>1, <1>2, <1>4, <2>1, PagesReplace DEF Early
<1>6. CASE Top.url # NoURL /\ history' = [history EXCEPT ![Top.page] = Append(@, Top.url)]
  <2>1. Top.url = 1 /\ Top.page = 1 /\ Len(history[1]) = 1
    BY <1>1, <1>6 DEF PagesWait, WithinPages, Untouched, Early, Turning, Listing
  <2>2. /\ history[1] \in Seq(Shown) /\ history \in [Pages -> Seq(Shown) \ {<<>>}]
        /\ 1 \in Shown /\ 1 \in Pages
    BY <1>2, <2>1, PageTypes, CallbacksAssumption DEF TypeOK, Turning, Listing, PagesWait, Shown
  <2> DEFINE h == Append(history[1], 1)
  <2>3. /\ Len(h) = 2 /\ DOMAIN h = 1..2 /\ h[1] = history[1][1] /\ h[2] = 1
    <3>1. /\ h \in Seq(Shown) /\ Len(h) = Len(history[1]) + 1
          /\ \A i \in 1..Len(history[1]) : h[i] = history[1][i]
          /\ h[Len(history[1]) + 1] = 1
      BY <2>2, AppendProperties
    <3> HIDE DEF h
    <3>2. Len(h) = 2 /\ h[1] = history[1][1] /\ h[2] = 1
      BY <2>1, <3>1
    <3> QED BY <3>1, <3>2, LenProperties
  <2>4. history'[1] = h /\ \A p \in Pages \ {1} : history'[p] = history[p]
    BY <1>6, <2>1, <2>2
  <2>5. history[1][1] = 0
    <3>1. 1 \in DOMAIN history[1]
      BY <2>1, <2>2, LenProperties
    <3> QED BY <2>2, <3>1 DEF PagesWait, WithinPages, OneByOne
  <2> HIDE DEF h
  <2>6. Pages' = Pages /\ settings' = settings /\ pageNum \in Nat
    BY <1>1, <1>2 DEF Pages, settings, TypeOK
  <2>7. \A p \in Pages : /\ \A i \in DOMAIN history'[p] : history'[p][i] = i - 1
                         /\ p # 1 => Len(history'[p]) = 1
    <3>1. \A i \in DOMAIN h : h[i] = i - 1
      BY <2>3, <2>5
    <3>2. \A p \in Pages \ {1} :
            /\ \A i \in DOMAIN history[p] : history[p][i] = i - 1
            /\ Len(history[p]) = 1
      BY DEF PagesWait, WithinPages, OneByOne
    <3> QED BY <2>4, <3>1, <3>2
  <2>8. OneByOne'
    <3>1. Len(history'[1]) <= pageNum' + 2
      <4>1. Len(history'[1]) = 2
        BY <2>3, <2>4
      <4>2. pageNum' \in Nat
        BY <1>1, <2>6
      <4>3. \A m \in Nat : 2 <= m + 2
        OBVIOUS
      <4> QED BY <4>1, <4>2, <4>3, Zenon
    <3> QED BY <2>6, <2>7, <3>1 DEF OneByOne
  <2>9. stack' # <<>> /\ Top' = g
    BY <1>1, <1>2, <1>4, Replacing DEF Becomes, Top
  <2>10. Leaving(Early \cup Late)'
    BY <1>4, <2>9 DEF Leaving, Late
  <2>11. pageNum' <= settings'.maxPageNum
    BY <1>1, <2>6 DEF PagesWait, WithinPages
  <2> QED BY <1>4, <2>8, <2>9, <2>10, <2>11 DEF WithinPages, Early
<1> QED BY <1>5, <1>6 DEF MustGet

(* What a click of a paging callback leads to.                             *)
LEMMA NextPage ==
  ASSUME PagesWait, stack # <<>>, Top.at = "paging", Top.run.sel = "next",
         Top.i \in 1..Len(Offered(Top, Top.run.sel))
  PROVE  /\ Top.page = 1
         /\ Showing(1) = Len(history[1]) - 1 /\ Len(history[1]) \in Nat
         /\ Target = Len(history[1]) /\ Target \in Docs
<1>1. /\ TypeOK /\ Top \in FrameRecord /\ Top.page \in Pages /\ Top.run \in Container
      /\ RangesInv
  BY SteadyTop DEF PagesWait, SomebodyWaits
<1> DEFINE p == Top.page
           h == history[p]
           d == Last(h)
           e == Elements(d, "next")
<1>2. h \in Seq(Shown) /\ Len(h) \in Nat \ {0} /\ DOMAIN h = 1..Len(h)
  BY <1>1, PageTypes, LenProperties
<1>3. d = Len(h) - 1
  <2>1. Len(h) \in DOMAIN h
    BY <1>2
  <2>2. \A i \in DOMAIN h : h[i] = i - 1
    BY <1>1 DEF PagesWait, WithinPages, OneByOne
  <2>3. h[Len(h)] = Len(h) - 1
    BY <2>1, <2>2
  <2> QED BY <2>3 DEF Last
<1>4. Offered(Top, Top.run.sel) = e
  BY DEF Offered, Serp, Showing
<1>5. Target = e[Top.i] /\ Top.i \in 1..Len(e)
  BY <1>4 DEF Target
<1>6. "next" \in Selectors
  BY <1>1 DEF Container
<1>7. /\ e \in Seq(Docs) /\ Len(e) \in Nat
  BY <1>1, <1>4, <1>6, OfferedTypes DEF Serp
<1> HIDE DEF e, d, h
<1>8. d \in Docs
  <2>1. e # <<>>
    BY <1>5
  <2> QED BY <2>1 DEF Elements, e
<1>9. Len(h) > 1
  BY <1>2, <1>3, <1>8, CallbacksAssumption DEF Docs
<1>10. p = 1
  <2>1. Len(h) # 1
    <3>1. \A m \in Nat \ {0} : m > 1 => m # 1
      OBVIOUS
    <3> QED BY <1>2, <1>9, <3>1, Zenon
  <2>2. p # 1 => Len(h) = 1
    BY <1>1 DEF PagesWait, WithinPages, OneByOne, h
  <2> QED BY <2>1, <2>2, Zenon
<1>11. e[Top.i] = d + 1
  <2>1. e = site.links[d]["next"]
    BY <1>5, <1>8 DEF Elements, e
  <2>2. Top.i \in DOMAIN e
    BY <1>5, <1>7, LenProperties
  <2>3. Range(e) \subseteq {d + 1}
    BY <1>8, <2>1 DEF PagesWait, Turning, Listing
  <2> QED BY <2>2, <2>3 DEF Range
<1>12. e[Top.i] \in Docs
  BY <1>5, <1>7, ElementOfSeq
<1>13. e[Top.i] = Len(h)
  BY <1>2, <1>3, <1>11
<1> QED BY <1>2, <1>3, <1>5, <1>10, <1>12, <1>13 DEF h, d, Showing

LEMMA VisitingPages ==
  ASSUME PagesWait, VisitLink \/ Click
  PROVE  WithinPages'
<1>1. PICK act \in {"follow", "enter", "click", "step", "turn"},
           url \in Shown \cup {NoURL}, depth \in Nat :
        /\ Acting(act) /\ Visits(Top.run) /\ Quiet(Top)
        /\ stack # <<>> /\ ret = "none" /\ Top.i > 0 /\ Top.at = "paging"
        /\ Top.run \in Range(program.on["paging"])
        /\ \A S \in Stages : ~Leaving(S)
  BY WhoVisits DEF PagesWait
<1>2. /\ TurnsPages(Top.run) /\ "visit" \notin Top.run.does
  <2>1. PICK i \in DOMAIN program.on["paging"] : Top.run = program.on["paging"][i]
    BY <1>1 DEF Range
  <2> QED BY <1>1, <2>1 DEF PagesWait, Turning, OnlyPagingVisits
<1>3. /\ ~Acting("visit") /\ ~Acting("follow") /\ ~Acting("enter")
      /\ ~Acting("click") /\ ~Acting("step")
  BY <1>2 DEF Acting, TurnsPages
<1>4. Click
  BY <1>3 DEF VisitLink
<1>5. /\ Acting("turn") /\ Scrape(NoURL, Top.depth, Calling(TRUE))
      /\ pageNum' = Showing(Top.page)
      /\ history' = [history EXCEPT ![Top.page] = Append(@, Target)]
      /\ UNCHANGED <<program, site>>
  BY <1>3, <1>4 DEF Click
<1>6. /\ TypeOK /\ Top \in FrameRecord /\ RangesInv /\ OneByOne
      /\ Top.i \in 1..Len(Offered(Top, Top.run.sel))
  BY <1>1, <1>5, SteadyTop, ActingFacts DEF PagesWait, SomebodyWaits, WithinPages
<1>7. Top.run.sel = "next"
  BY <1>2 DEF TurnsPages
<1> DEFINE n == Len(history[1]) - 1
           h == Append(history[1], Target)
<1>8. /\ Top.page = 1 /\ Showing(1) = n /\ Len(history[1]) \in Nat
      /\ Target = n + 1 /\ Target \in Docs
  <2>1. /\ Top.page = 1 /\ Showing(1) = n /\ Len(history[1]) \in Nat
        /\ Target = Len(history[1]) /\ Target \in Docs
    BY <1>1, <1>6, <1>7, NextPage
  <2> QED BY <2>1
<1>9. /\ pageNum \in Nat /\ settings.maxPageNum \in Nat /\ 1 \in Pages
      /\ history[1] \in Seq(Shown) /\ history \in [Pages -> Seq(Shown) \ {<<>>}]
      /\ settings' = settings /\ Pages' = Pages
      /\ Target \in Shown
  BY <1>5, <1>6, <1>8, SettingTypes, PageTypes DEF TypeOK, FrameRecord, settings, Pages, Shown
<1>10. ~(pageNum >= settings.maxPageNum)
  BY <1>1 DEF PagesWait, WithinPages, Stages
<1>11. n <= settings.maxPageNum
  BY <1>6, <1>8, <1>9, <1>10 DEF OneByOne
<1>12. /\ Len(h) = n + 2 /\ DOMAIN h = 1..(n + 2) /\ h[n + 2] = n + 1
       /\ \A i \in 1..(n + 1) : h[i] = history[1][i]
  <2>1. Len(history[1]) = n + 1
    BY <1>8
  <2> QED BY <1>8, <1>9, <2>1, AppendProperties
<1>13. \A i \in 1..(n + 1) : history[1][i] = i - 1
  <2>1. DOMAIN history[1] = 1..(n + 1)
    BY <1>8, <1>9, LenProperties
  <2> QED BY <1>6, <1>9, <2>1 DEF OneByOne
<1>14. history'[1] = h /\ \A p \in Pages \ {1} : history'[p] = history[p]
  BY <1>5, <1>8, <1>9
<1>15. pageNum' = n
  BY <1>5, <1>8
<1>16. \A i \in DOMAIN h : h[i] = i - 1
  <2>1. \A i \in 1..(n + 2) : i = n + 2 \/ i \in 1..(n + 1)
    BY <1>8
  <2>2. h[n + 2] = (n + 2) - 1
    BY <1>8, <1>12
  <2> HIDE DEF h, n
  <2>3. \A i \in 1..(n + 1) : h[i] = i - 1
    BY <1>12, <1>13
  <2> QED BY <1>12, <2>1, <2>2, <2>3
<1> HIDE DEF h, n
<1>17. OneByOne'
  <2>1. \A p \in Pages \ {1} :
          /\ \A i \in DOMAIN history[p] : history[p][i] = i - 1
          /\ Len(history[p]) = 1
    BY <1>6 DEF OneByOne
  <2>2. Len(history'[1]) <= pageNum' + 2
    BY <1>8, <1>9, <1>12, <1>14, <1>15 DEF n
  <2>3. \A p \in Pages : /\ \A i \in DOMAIN history'[p] : history'[p][i] = i - 1
                         /\ p # 1 => Len(history'[p]) = 1
    BY <1>14, <1>16, <2>1
  <2> QED BY <1>9, <2>2, <2>3 DEF OneByOne
<1>18. pageNum' <= settings'.maxPageNum
  BY <1>9, <1>11, <1>15
<1>19. /\ stack' # <<>> /\ Top'.at = "request" /\ Top'.url = NoURL
  <2> DEFINE g == Frame(NoURL, Top.depth, Head(pool))
             t == [Top EXCEPT !.strict = TRUE]
  <2>1. stack' = Append(Append(Under, t), g)
    BY <1>5 DEF Scrape, Calling
  <2>2. Head(pool) \in Pages /\ Top.depth \in Nat
    BY <1>6, HeadTailProperties DEF TypeOK, FrameRecord
  <2>3. g \in FrameRecord /\ g.at = "request" /\ g.url = NoURL
    <3>1. g \in FrameRecord /\ g.at = "request"
      BY <1>6, <2>2, Beginning DEF RangesInv
    <3> QED BY <3>1 DEF Frame
  <2>4. t \in FrameRecord
    BY <1>6, SameFrames
  <2> HIDE DEF g, t
  <2>5. Append(Under, t) \in Seq(FrameRecord)
    BY <1>1, <1>6, <2>4, Replacing
  <2>6. stack' # <<>> /\ Last(stack') = g
    BY <2>1, <2>3, <2>5, Pushing
  <2> QED BY <2>3, <2>6 DEF Top
<1>20. Leaving(Early \cup Late)'
  BY <1>19 DEF Leaving, Early
<1> QED BY <1>17, <1>18, <1>19, <1>20 DEF WithinPages

LEMMA InitPages ==
  ASSUME Init
  PROVE  PagesInv
<1> SUFFICES ASSUME Turning PROVE WithinPages
  BY DEF PagesInv
<1>1. /\ settings.parallelism \in Nat \ {0} /\ settings.maxPageNum \in Nat
      /\ settings.maxPageNum > 0
  BY InitInv, SettingTypes DEF RangesInv, Turning
<1>2. /\ stack = <<>> /\ pageNum = 0
      /\ pool = [i \in 1..settings.parallelism |-> i]
      /\ \A p \in Pages : history[p] = <<0>>
  BY DEF Init, Pages, Blank
<1>3. 1 \in Pages /\ Head(pool) = 1
  BY <1>1, <1>2 DEF Pages
<1>4. DOMAIN <<0>> = {1} /\ <<0>>[1] = 0 /\ Len(<<0>>) = 1
  OBVIOUS
<1>5. \A p \in Pages : \A i \in DOMAIN history[p] : history[p][i] = i - 1
  BY <1>2, <1>4
<1>6. /\ \A p \in Pages : Len(history[p]) = 1
      /\ Len(history[1]) <= pageNum + 2
  <2>1. \A p \in Pages : Len(history[p]) = 1
    BY <1>2, <1>4
  <2>2. Len(history[1]) = 1
    BY <1>3, <2>1
  <2> QED BY <1>2, <2>1, <2>2
<1>7. OneByOne /\ Untouched
  BY <1>3, <1>5, <1>6 DEF OneByOne, Untouched
<1> QED BY <1>1, <1>2, <1>3, <1>7 DEF WithinPages

LEMMA NextPages ==
  ASSUME RangesInv, WaitsInv, PagesInv, [Next]_vars
  PROVE  PagesInv'
<1> SUFFICES ASSUME Turning' PROVE WithinPages'
  BY DEF PagesInv
<1>1. Turning
  BY ProgramStays DEF Turning, OnlyPagingVisits, Listing, settings
<1>2. PagesWait
  BY <1>1 DEF PagesWait, SomebodyWaits, PagesInv, WaitsInv, Turning
<1>3. CASE UNCHANGED vars
  BY <1>2, <1>3 DEF vars, registry, browser, counts, PagesWait, WithinPages, OneByOne,
     Untouched, Leaving, Top, settings, Pages
<1> QED BY <1>2, <1>3, VisitPages, MustGetPages, NextCallbackPages, RangeMovesPages,
           JustReturnPages, VisitingPages, RegistryPages, ReturnPages, StageOverPages
           DEF Next, Step

LEMMA PagesAlways == Spec => []PagesInv
BY InitPages, NextPages, WaitsAlways, RangesInvariant, PTL DEF Spec

(* Each page of the one tab that is used is one further than the page      *)
(* before it, so what it shows is at most one more than the stored number. *)
LEMMA ShownPage ==
  ASSUME TypeOK, OneByOne, pageNum <= settings.maxPageNum, NEW p \in Pages
  PROVE  /\ Showing(p) <= settings.maxPageNum + 1
         /\ ~(pageNum >= settings.maxPageNum) => Showing(p) <= settings.maxPageNum
<1>1. /\ history[p] \in Seq(Shown) /\ history[p] # <<>>
      /\ pageNum \in Nat /\ settings.maxPageNum \in Nat
  BY SettingTypes DEF TypeOK
<1>2. /\ Len(history[p]) \in Nat \ {0} /\ Len(history[p]) \in DOMAIN history[p]
      /\ Showing(p) = history[p][Len(history[p])]
  BY <1>1, LenProperties DEF Showing, Last
<1>3. Showing(p) = Len(history[p]) - 1
  BY <1>2 DEF OneByOne
<1>4. Len(history[p]) <= pageNum + 2
  <2>1. CASE p = 1
    BY <2>1 DEF OneByOne
  <2>2. CASE p # 1
    <3>1. Len(history[p]) = 1
      BY <2>2 DEF OneByOne
    <3> QED BY <1>1, <3>1
  <2> QED BY <2>1, <2>2
<1> QED BY <1>1, <1>2, <1>3, <1>4

(* On a listing that is walked one page after the other, the callbacks of  *)
(* response, html and data are given at most one page beyond maxPageNum,   *)
(* those of paging and the scrape's end none (metric.go:19).               *)
THEOREM PagesWithinLimit == Spec => []PagesBounded
<1>1. RangesInv /\ PagesInv => PagesBounded
  <2> SUFFICES ASSUME RangesInv, WithinPages, InRange(BeforeLimit \cup BehindLimit)
               PROVE  /\ Showing(Top.page) <= settings.maxPageNum + 1
                      /\ InRange(BehindLimit) => Showing(Top.page) <= settings.maxPageNum
    BY DEF PagesInv, PagesBounded, InRange
  <2>1. stack # <<>> /\ ret = "none" /\ Top.page \in Pages
    <3>1. stack # <<>> /\ ret = "none"
      BY DEF InRange
    <3> QED BY <3>1, SteadyTop DEF FrameRecord
  <2>2. TypeOK /\ OneByOne /\ pageNum <= settings.maxPageNum
    BY DEF WithinPages, RangesInv
  <2>3. InRange(BehindLimit) => ~(pageNum >= settings.maxPageNum)
    BY <2>1 DEF InRange, BehindLimit, WithinPages, Leaving, Early, Late
  <2> QED BY <2>1, <2>2, <2>3, ShownPage
<1> QED BY <1>1, PagesAlways, RangesInvariant, PTL

-----------------------------------------------------------------------------
(* What a page has shown, as the fetches that have it spell it.            *)
LEMMA SpellSets ==
  ASSUME NEW n \in Nat, NEW S \in SUBSET (1..n)
  PROVE  /\ IsFiniteSet(S) /\ Cardinality(S) \in Nat
         /\ \A k \in S : /\ IsFiniteSet({j \in S : j <= k})
                         /\ Cardinality({j \in S : j <= k}) \in 1..Cardinality(S)
<1>1. IsFiniteSet(S)
  <2>1. IsFiniteSet(1..n)
    BY FS_Interval
  <2> QED BY <2>1, FS_Subset
<1>2. ASSUME NEW k \in S
      PROVE  /\ IsFiniteSet({j \in S : j <= k})
             /\ Cardinality({j \in S : j <= k}) \in 1..Cardinality(S)
  <2> DEFINE T == {j \in S : j <= k}
  <2>1. T \subseteq S /\ k \in T
    OBVIOUS
  <2> HIDE DEF T
  <2>2. IsFiniteSet(T) /\ Cardinality(T) <= Cardinality(S)
    BY <1>1, <2>1, FS_Subset
  <2>3. Cardinality(T) \in Nat /\ Cardinality(S) \in Nat /\ Cardinality(T) # 0
    BY <1>1, <2>1, <2>2, FS_CardinalityType, FS_EmptySet
  <2>4. IsFiniteSet(T) /\ Cardinality(T) \in 1..Cardinality(S)
    BY <2>2, <2>3
  <2> QED BY <2>4 DEF T
<1> QED BY <1>1, <1>2, FS_CardinalityType

LEMMA Loading ==
  ASSUME NEW n \in Nat \ {0}, NEW S \in SUBSET (1..(n - 1)),
         NEW h \in Seq(Shown), NEW s, NEW t, Spells(h, s, S),
         \A k \in S : t[k].url = s[k].url, NEW d \in Shown, t[n].url = d
  PROVE  Spells(Append(h, d), t, S \cup {n})
<1> DEFINE c == Cardinality(S)
           g == Append(h, d)
<1>1. /\ IsFiniteSet(S) /\ c \in Nat
      /\ \A k \in S : Cardinality({j \in S : j <= k}) \in 1..c
  <2>1. n - 1 \in Nat
    OBVIOUS
  <2> QED BY <2>1, SpellSets
<1>2. n \notin S /\ \A k \in S : k \in 1..n /\ k < n
  OBVIOUS
<1>3. Cardinality(S \cup {n}) = c + 1
  BY <1>1, <1>2, FS_AddElement
<1>4. /\ Len(g) = Len(h) + 1 /\ g[Len(h) + 1] = d
      /\ \A i \in 1..Len(h) : g[i] = h[i]
  <2> HIDE DEF Shown
  <2> QED BY AppendProperties
<1>5. Len(h) = 1 + c
  BY DEF Spells
<1> HIDE DEF g
<1>6. ASSUME NEW k \in S
      PROVE  g[1 + Cardinality({j \in S \cup {n} : j <= k})] = t[k].url
  <2>1. {j \in S \cup {n} : j <= k} = {j \in S : j <= k}
    BY <1>2
  <2> DEFINE m == Cardinality({j \in S : j <= k})
  <2>2. m \in 1..c /\ h[1 + m] = s[k].url
    BY <1>1 DEF Spells
  <2> HIDE DEF m, c
  <2>3. 1 + m \in 1..Len(h)
    BY <1>1, <1>5, <2>2
  <2>4. g[1 + m] = h[1 + m]
    BY <1>4, <2>3
  <2> QED BY <2>1, <2>2, <2>4 DEF m
<1>7. g[1 + Cardinality({j \in S \cup {n} : j <= n})] = d
  <2>1. {j \in S \cup {n} : j <= n} = S \cup {n}
    <3>1. \A j \in S \cup {n} : j <= n
      BY <1>2
    <3> QED BY <3>1, Zenon
  <2> HIDE DEF c
  <2>2. 1 + Cardinality(S \cup {n}) = Len(h) + 1
    BY <1>1, <1>3, <1>5
  <2> QED BY <1>4, <2>1, <2>2
<1>8. Len(g) = 1 + Cardinality(S \cup {n})
  <2> HIDE DEF c
  <2> QED BY <1>1, <1>3, <1>4, <1>5
<1>9. Spells(g, t, S \cup {n})
  BY <1>6, <1>7, <1>8 DEF Spells
<1> QED BY <1>9 DEF g

LEMMA Spelled ==
  ASSUME NEW n \in Nat \ {0}, NEW S \in SUBSET (1..n), n \in S,
         NEW h \in Seq(Shown), NEW s, Spells(h, s, S)
  PROVE  Last(h) = s[n].url /\ Len(h) > 1
<1>1. {j \in S : j <= n} = S
  <2>1. \A j \in S : j <= n
    OBVIOUS
  <2> QED BY <2>1, Zenon
<1>2. Len(h) = 1 + Cardinality(S) /\ h[1 + Cardinality(S)] = s[n].url
  BY <1>1 DEF Spells
<1>3. Cardinality(S) \in Nat /\ Cardinality({j \in S : j <= n}) \in 1..Cardinality(S)
  BY SpellSets
<1> QED BY <1>2, <1>3 DEF Last

LEMMA Unloading ==
  ASSUME NEW n \in Nat \ {0}, NEW S \in SUBSET (1..n), n \in S,
         NEW h \in Seq(Shown), NEW s, NEW t, Spells(h, s, S),
         \A k \in S \ {n} : t[k].url = s[k].url
  PROVE  Spells(SubSeq(h, 1, Len(h) - 1), t, S \ {n})
<1> DEFINE c == Cardinality(S)
           T == S \ {n}
           g == SubSeq(h, 1, Len(h) - 1)
<1>1. IsFiniteSet(S) /\ c \in Nat /\ Len(h) = 1 + c /\ Len(h) > 1
  <2>1. IsFiniteSet(S) /\ c \in Nat
    BY SpellSets
  <2>2. Len(h) = 1 + c
    BY DEF Spells
  <2>3. Len(h) > 1
    BY Spelled
  <2> QED BY <2>1, <2>2, <2>3
<1>2. Cardinality(T) = c - 1
  BY <1>1, FS_RemoveElement
<1>3. /\ T \in SUBSET (1..n) /\ T \subseteq S
      /\ \A k \in T : k < n /\ k \in S
  OBVIOUS
<1> HIDE DEF T, c
<1>4. /\ Len(g) = c /\ \A i \in 1..c : g[i] = h[i]
  <2>1. \A i \in 1..c : h[i] \in Shown
    BY <1>1, ElementOfSeq
  <2>2. Len(h) - 1 = c
    BY <1>1
  <2> HIDE DEF Shown
  <2> QED BY <1>1, <2>1, <2>2, SubSeqProperties
<1> HIDE DEF g
<1>5. ASSUME NEW k \in T
      PROVE  g[1 + Cardinality({j \in T : j <= k})] = t[k].url
  <2>1. {j \in T : j <= k} = {j \in S : j <= k}
    BY <1>3 DEF T
  <2> DEFINE m == Cardinality({j \in T : j <= k})
  <2>2. m \in 1..Cardinality(T)
    BY <1>3, SpellSets
  <2>3. h[1 + m] = s[k].url
    BY <1>3, <2>1 DEF Spells
  <2> HIDE DEF m
  <2>4. 1 + m \in 1..c
    BY <1>1, <1>2, <2>2
  <2>5. g[1 + m] = h[1 + m]
    BY <1>4, <2>4
  <2> QED BY <2>3, <2>5 DEF m, T
<1>6. Len(g) = 1 + Cardinality(T)
  BY <1>1, <1>2, <1>4
<1>7. Spells(g, t, T)
  BY <1>5, <1>6 DEF Spells
<1> QED BY <1>7 DEF g, T

LEMMA SameSpelling ==
  ASSUME NEW S, NEW h, NEW s, NEW t, Spells(h, s, S),
         \A k \in S : t[k].url = s[k].url
  PROVE  Spells(h, t, S)
BY DEF Spells

-----------------------------------------------------------------------------
(* Tidy programs: what their frames and pages look like after a step.      *)
TidyShape == OneHtmlCallback /\ TidyStack /\ Histories

LEMMA TidyFrames ==
  ASSUME UNCHANGED <<program, site, arrays, header, history>>,
         OneHtmlCallback, Histories,
         \A k \in DOMAIN stack' :
           /\ TidyFrame(stack'[k])
           /\ k < Len(stack') => stack'[k].at = "html",
         \A p : OnPage(p)' = OnPage(p),
         \A k \in DOMAIN stack : Loaded(stack[k]) => stack'[k].url = stack[k].url
  PROVE  TidyShape'
<1>1. OneHtmlCallback' /\ Pages' = Pages
  BY DEF OneHtmlCallback, Pages, settings
<1>2. TidyStack'
  BY DEF TidyStack, TidyFrame, HtmlCallback, Harmless, Elements
<1>3. ASSUME NEW p \in Pages PROVE Spells(history[p], stack, OnPage(p))'
  <2>1. Spells(history[p], stack, OnPage(p))
    BY DEF Histories
  <2>2. \A k \in OnPage(p) : stack'[k].url = stack[k].url
    BY DEF OnPage
  <2>3. Spells(history[p], stack', OnPage(p))
    BY <2>1, <2>2, SameSpelling
  <2> QED BY <2>3 DEF Spells
<1> QED BY <1>1, <1>2, <1>3 DEF TidyShape, Histories

(* The top frame is replaced by another one on the same page.              *)
LEMMA TidyTop ==
  ASSUME RangesInv, TidyShape, stack # <<>>, NEW g \in FrameRecord,
         TidyFrame(g), Becomes(g)
  PROVE  /\ Top' = g /\ stack' # <<>> /\ Len(stack) \in Nat \ {0}
         /\ DOMAIN stack = 1..Len(stack)
         /\ \A k \in DOMAIN stack' :
              /\ TidyFrame(stack'[k])
              /\ k < Len(stack') => stack'[k].at = "html"
         /\ stack'[Len(stack)] = g
         /\ \A k \in 1..(Len(stack) - 1) : stack'[k] = stack[k]
         /\ \A p : /\ OnPage(p) \subseteq 1..Len(stack)
                   /\ Len(stack) \in OnPage(p) <=> Loaded(Top) /\ Top.page = p
                   /\ OnPage(p)' = (OnPage(p) \ {Len(stack)})
                        \cup {k \in {Len(stack)} : Loaded(g) /\ g.page = p}
<1>1. /\ TypeOK /\ stack' = Append(Under, g) /\ Top = stack[Len(stack)]
      /\ Len(stack) \in Nat \ {0} /\ DOMAIN stack = 1..Len(stack)
  BY TopFrame DEF RangesInv, Becomes
<1>2. /\ Len(stack') = Len(stack) /\ stack' # <<>> /\ Last(stack') = g
      /\ DOMAIN stack' = 1..Len(stack) /\ stack'[Len(stack)] = g
      /\ \A k \in 1..(Len(stack) - 1) : stack'[k] = stack[k]
  BY <1>1, Replacing
<1>3. \A k \in 1..(Len(stack) - 1) : TidyFrame(stack[k]) /\ stack[k].at = "html"
  BY <1>1 DEF TidyShape, TidyStack
<1>4. ASSUME NEW k \in 1..Len(stack)
      PROVE  /\ TidyFrame(stack'[k])
             /\ k < Len(stack) => stack'[k].at = "html"
  <2>1. CASE k = Len(stack)
    <3>1. stack'[k] = g
      BY <1>2, <2>1, Zenon
    <3>2. ~(k < Len(stack))
      BY <1>1, <2>1
    <3> QED BY <3>1, <3>2
  <2>2. CASE k # Len(stack)
    <3>1. k \in 1..(Len(stack) - 1) /\ stack'[k] = stack[k]
      BY <1>1, <1>2, <2>2, LastOrBefore
    <3> QED BY <1>3, <3>1
  <2> QED BY <2>1, <2>2
<1>5. ASSUME NEW p
      PROVE  /\ OnPage(p) \subseteq 1..Len(stack)
             /\ Len(stack) \in OnPage(p) <=> Loaded(Top) /\ Top.page = p
             /\ OnPage(p)' = (OnPage(p) \ {Len(stack)})
                  \cup {k \in {Len(stack)} : Loaded(g) /\ g.page = p}
  <2>1. OnPage(p) \subseteq 1..Len(stack)
    BY <1>1 DEF OnPage
  <2>2. Len(stack) \in OnPage(p) <=> Loaded(Top) /\ Top.page = p
    BY <1>1 DEF OnPage
  <2>3. OnPage(p)' = {k \in 1..Len(stack) : Loaded(stack'[k]) /\ stack'[k].page = p}
    BY <1>2 DEF OnPage, Loaded
  <2>4. OnPage(p) = {k \in 1..Len(stack) : Loaded(stack[k]) /\ stack[k].page = p}
    BY <1>1 DEF OnPage
  <2>5. \A k \in 1..Len(stack) :
          k \in OnPage(p)' <=>
            k \in (OnPage(p) \ {Len(stack)})
              \cup {m \in {Len(stack)} : Loaded(g) /\ g.page = p}
    <3> SUFFICES ASSUME NEW k \in 1..Len(stack)
                 PROVE  k \in OnPage(p)' <=>
                          k \in (OnPage(p) \ {Len(stack)})
                            \cup {m \in {Len(stack)} : Loaded(g) /\ g.page = p}
      OBVIOUS
    <3>1. CASE k = Len(stack)
      <4>1. stack'[k] = g
        BY <1>2, <3>1, Zenon
      <4> QED BY <2>3, <3>1, <4>1
    <3>2. CASE k # Len(stack)
      <4>1. stack'[k] = stack[k]
        BY <1>1, <1>2, <3>2, LastOrBefore
      <4> QED BY <2>3, <2>4, <3>2, <4>1
    <3> QED BY <3>1, <3>2
  <2>6. OnPage(p)' \subseteq 1..Len(stack) /\ Len(stack) \in 1..Len(stack)
    BY <1>1, <2>3
  <2>7. OnPage(p)' = (OnPage(p) \ {Len(stack)})
                       \cup {k \in {Len(stack)} : Loaded(g) /\ g.page = p}
    BY <2>1, <2>5, <2>6
  <2> QED BY <2>1, <2>2, <2>7
<1> QED BY <1>1, <1>2, <1>4, <1>5 DEF Top

LEMMA TidyReplace ==
  ASSUME RangesInv, TidyShape, UNCHANGED <<program, site, arrays, header, history>>,
         stack # <<>>, NEW g \in FrameRecord, TidyFrame(g), Becomes(g),
         g.page = Top.page, g.url = Top.url, Loaded(g) <=> Loaded(Top)
  PROVE  TidyShape' /\ Top' = g
<1> DEFINE n == Len(stack)
<1>1. /\ Top' = g /\ n \in Nat \ {0} /\ DOMAIN stack = 1..n
      /\ \A k \in DOMAIN stack' :
           /\ TidyFrame(stack'[k])
           /\ k < Len(stack') => stack'[k].at = "html"
      /\ stack'[n] = g /\ \A k \in 1..(n - 1) : stack'[k] = stack[k]
      /\ \A p : /\ OnPage(p) \subseteq 1..n
                /\ n \in OnPage(p) <=> Loaded(Top) /\ Top.page = p
                /\ OnPage(p)' = (OnPage(p) \ {n})
                     \cup {k \in {n} : Loaded(g) /\ g.page = p}
  BY TidyTop
<1>2. Top = stack[n]
  BY TopFrame DEF RangesInv
<1> HIDE DEF n
<1>3. ASSUME NEW p PROVE OnPage(p)' = OnPage(p)
  <2>1. CASE n \in OnPage(p)
    BY <1>1, <2>1
  <2>2. CASE n \notin OnPage(p)
    BY <1>1, <2>2
  <2> QED BY <2>1, <2>2
<1>4. ASSUME NEW k \in DOMAIN stack PROVE stack'[k].url = stack[k].url
  <2>1. CASE k = n
    BY <1>1, <1>2, <2>1, Zenon
  <2>2. CASE k # n
    BY <1>1, <2>2, LastOrBefore
  <2> QED BY <2>1, <2>2
<1>5. TidyShape'
  BY <1>1, <1>3, <1>4, TidyFrames DEF TidyShape
<1> QED BY <1>1, <1>5

(* The top frame loads its document: its page shows one more.              *)
LEMMA TidyLoad ==
  ASSUME RangesInv, TidyShape, UNCHANGED <<program, site, arrays, header>>,
         stack # <<>>, NEW g \in FrameRecord, TidyFrame(g), Becomes(g),
         g.page = Top.page, ~Loaded(Top), Loaded(g),
         history' = [history EXCEPT ![Top.page] = Append(@, g.url)]
  PROVE  TidyShape' /\ Top' = g
<1> DEFINE n == Len(stack)
           q == Top.page
<1>1. /\ Top' = g /\ n \in Nat \ {0} /\ DOMAIN stack = 1..n
      /\ \A k \in DOMAIN stack' :
           /\ TidyFrame(stack'[k])
           /\ k < Len(stack') => stack'[k].at = "html"
      /\ stack'[n] = g /\ \A k \in 1..(n - 1) : stack'[k] = stack[k]
      /\ \A p : /\ OnPage(p) \subseteq 1..n
                /\ n \in OnPage(p) <=> Loaded(Top) /\ Top.page = p
                /\ OnPage(p)' = (OnPage(p) \ {n})
                     \cup {k \in {n} : Loaded(g) /\ g.page = p}
  BY TidyTop
<1>2. /\ TypeOK /\ q \in Pages /\ g.url \in Shown
      /\ history \in [Pages -> Seq(Shown) \ {<<>>}]
  <2>1. TypeOK /\ q \in Pages
    BY SteadyTop
  <2>2. g.url \in Shown
    BY DEF TidyFrame, Shown
  <2> QED BY <2>1, <2>2 DEF TypeOK
<1>3. Pages' = Pages /\ OneHtmlCallback' /\ TidyStack'
  <2>1. Pages' = Pages /\ OneHtmlCallback'
    BY DEF TidyShape, OneHtmlCallback, Pages, settings
  <2> QED BY <1>1, <2>1 DEF TidyStack, TidyFrame, HtmlCallback, Harmless, Elements
<1> HIDE DEF n, q
<1>4. ASSUME NEW p \in Pages PROVE Spells(history'[p], stack', OnPage(p)')
  <2>1. Spells(history[p], stack, OnPage(p)) /\ history[p] \in Seq(Shown)
    BY <1>2 DEF TidyShape, Histories
  <2>2. n \notin OnPage(p)
    BY <1>1
  <2>3. OnPage(p) \in SUBSET (1..(n - 1))
    BY <1>1, <2>2, LastOrBefore
  <2>4. \A k \in OnPage(p) : stack'[k].url = stack[k].url
    BY <1>1, <2>3
  <2>5. CASE p = q
    <3>1. OnPage(p)' = OnPage(p) \cup {n}
      BY <1>1, <2>2, <2>5 DEF q
    <3>2. history'[p] = Append(history[p], g.url)
      BY <1>2, <2>5 DEF q
    <3>3. stack'[n].url = g.url
      BY <1>1
    <3>4. Spells(Append(history[p], g.url), stack', OnPage(p) \cup {n})
      BY <1>1, <1>2, <2>1, <2>3, <2>4, <3>3, Loading
    <3> QED BY <3>1, <3>2, <3>4
  <2>6. CASE p # q
    <3>1. OnPage(p)' = OnPage(p)
      BY <1>1, <2>2, <2>6 DEF q
    <3>2. history'[p] = history[p]
      BY <1>2, <2>6 DEF q
    <3> QED BY <2>1, <2>4, <3>1, <3>2, SameSpelling
  <2> QED BY <2>5, <2>6
<1>5. Histories'
  BY <1>3, <1>4 DEF Histories, Spells
<1> QED BY <1>1, <1>3, <1>5 DEF TidyShape

(* The top frame goes back: its page shows what it showed before.          *)
LEMMA TidyUnload ==
  ASSUME RangesInv, TidyShape, UNCHANGED <<program, site, arrays, header>>,
         stack # <<>>, NEW g \in FrameRecord, TidyFrame(g), Becomes(g),
         g.page = Top.page, Loaded(Top), ~Loaded(g),
         history' = [history EXCEPT ![Top.page] = SubSeq(@, 1, Len(@) - 1)]
  PROVE  TidyShape' /\ Top' = g
<1> DEFINE n == Len(stack)
           q == Top.page
<1>1. /\ Top' = g /\ n \in Nat \ {0} /\ DOMAIN stack = 1..n
      /\ \A k \in DOMAIN stack' :
           /\ TidyFrame(stack'[k])
           /\ k < Len(stack') => stack'[k].at = "html"
      /\ stack'[n] = g /\ \A k \in 1..(n - 1) : stack'[k] = stack[k]
      /\ \A p : /\ OnPage(p) \subseteq 1..n
                /\ n \in OnPage(p) <=> Loaded(Top) /\ Top.page = p
                /\ OnPage(p)' = (OnPage(p) \ {n})
                     \cup {k \in {n} : Loaded(g) /\ g.page = p}
  BY TidyTop
<1>2. /\ TypeOK /\ q \in Pages
      /\ history \in [Pages -> Seq(Shown) \ {<<>>}]
  BY SteadyTop DEF TypeOK
<1>3. Pages' = Pages /\ OneHtmlCallback' /\ TidyStack'
  <2>1. Pages' = Pages /\ OneHtmlCallback'
    BY DEF TidyShape, OneHtmlCallback, Pages, settings
  <2> QED BY <1>1, <2>1 DEF TidyStack, TidyFrame, HtmlCallback, Harmless, Elements
<1> HIDE DEF n, q
<1>4. ASSUME NEW p \in Pages PROVE Spells(history'[p], stack', OnPage(p)')
  <2>1. Spells(history[p], stack, OnPage(p)) /\ history[p] \in Seq(Shown)
    BY <1>2 DEF TidyShape, Histories
  <2>2. OnPage(p)' = OnPage(p) \ {n}
    BY <1>1
  <2>3. \A k \in OnPage(p) \ {n} : stack'[k].url = stack[k].url
    <3>1. \A k \in OnPage(p) \ {n} : k \in 1..(n - 1)
      BY <1>1, LastOrBefore
    <3> QED BY <1>1, <3>1
  <2>4. OnPage(p) \in SUBSET (1..n)
    BY <1>1
  <2>5. CASE p = q
    <3>1. n \in OnPage(p)
      BY <1>1, <2>5 DEF q
    <3>2. history'[p] = SubSeq(history[p], 1, Len(history[p]) - 1)
      BY <1>2, <2>5 DEF q
    <3>3. Spells(SubSeq(history[p], 1, Len(history[p]) - 1), stack', OnPage(p) \ {n})
      BY <1>1, <2>1, <2>3, <2>4, <3>1, Unloading
    <3> QED BY <2>2, <3>2, <3>3
  <2>6. CASE p # q
    <3>1. n \notin OnPage(p)
      BY <1>1, <2>6 DEF q
    <3>2. history'[p] = history[p] /\ OnPage(p)' = OnPage(p)
      BY <1>2, <2>2, <2>6, <3>1 DEF q
    <3>3. \A k \in OnPage(p) : stack'[k].url = stack[k].url
      BY <2>3, <3>1
    <3> QED BY <2>1, <3>2, <3>3, SameSpelling
  <2> QED BY <2>5, <2>6
<1>5. Histories'
  BY <1>3, <1>4 DEF Histories, Spells
<1> QED BY <1>1, <1>3, <1>5 DEF TidyShape

(* The loop's fetch shows its own document.                                *)
LEMMA TidyShows ==
  ASSUME RangesInv, TidyShape, stack # <<>>, Loaded(Top)
  PROVE  Showing(Top.page) = Top.url /\ Len(history[Top.page]) > 1
<1>1. /\ TypeOK /\ Top = stack[Len(stack)] /\ Len(stack) \in Nat \ {0}
      /\ DOMAIN stack = 1..Len(stack) /\ Top.page \in Pages
  BY SteadyTop, TopFrame
<1>2. /\ OnPage(Top.page) \in SUBSET (1..Len(stack))
      /\ Len(stack) \in OnPage(Top.page)
  BY <1>1 DEF OnPage
<1>3. history[Top.page] \in Seq(Shown)
  BY <1>1, PageTypes
<1>4. Spells(history[Top.page], stack, OnPage(Top.page))
  BY <1>1 DEF TidyShape, Histories
<1> QED BY <1>1, <1>2, <1>3, <1>4, Spelled DEF Showing

LEMMA TidyPop ==
  ASSUME RangesInv, TidyShape, UNCHANGED <<program, site, arrays, header, history>>,
         stack # <<>>, ~Loaded(Top), stack' = Under
  PROVE  TidyShape'
<1>1. /\ Len(stack) \in Nat \ {0} /\ DOMAIN stack = 1..Len(stack)
      /\ Top = stack[Len(stack)]
      /\ Len(stack') = Len(stack) - 1
      /\ DOMAIN stack' = 1..(Len(stack) - 1)
      /\ \A k \in 1..(Len(stack) - 1) : stack'[k] = stack[k]
  BY TopFrame DEF RangesInv
<1>2. \A k \in DOMAIN stack' :
        /\ TidyFrame(stack'[k])
        /\ k < Len(stack') => stack'[k].at = "html"
  BY <1>1 DEF TidyShape, TidyStack
<1>3. ASSUME NEW p PROVE OnPage(p)' = OnPage(p)
  <2>1. OnPage(p) = {k \in 1..Len(stack) : Loaded(stack[k]) /\ stack[k].page = p}
    BY <1>1 DEF OnPage
  <2>2. OnPage(p)' = {k \in 1..(Len(stack) - 1) :
                        Loaded(stack'[k]) /\ stack'[k].page = p}
    BY <1>1 DEF OnPage, Loaded
  <2>3. \A k \in OnPage(p) : k # Len(stack)
    BY <1>1, <2>1
  <2>4. \A k \in OnPage(p) : k \in 1..(Len(stack) - 1)
    BY <1>1, <2>1, <2>3, LastOrBefore
  <2>5. \A k \in 1..(Len(stack) - 1) : k \in 1..Len(stack)
    BY <1>1
  <2> QED BY <1>1, <2>1, <2>2, <2>4, <2>5
<1>4. \A k \in DOMAIN stack : Loaded(stack[k]) => stack'[k].url = stack[k].url
  <2>1. \A k \in DOMAIN stack : Loaded(stack[k]) => k # Len(stack)
    BY <1>1
  <2>2. \A k \in DOMAIN stack : k # Len(stack) => k \in 1..(Len(stack) - 1)
    BY <1>1, LastOrBefore
  <2> QED BY <1>1, <2>1, <2>2
<1> QED BY <1>2, <1>3, <1>4, TidyFrames DEF TidyShape

(* A visit puts a frame on the stack of those who wait for it.             *)
LEMMA TidyPush ==
  ASSUME TidyShape, UNCHANGED <<program, site, arrays, header, history>>,
         stack \in Seq(FrameRecord), NEW callers \in Seq(FrameRecord),
         Len(callers) = Len(stack),
         \A k \in 1..Len(stack) :
           /\ TidyFrame(callers[k]) /\ callers[k].at = "html"
           /\ callers[k].url = stack[k].url /\ callers[k].page = stack[k].page
           /\ stack[k].at = "html",
         NEW g \in FrameRecord, TidyFrame(g), ~Loaded(g),
         stack' = Append(callers, g)
  PROVE  TidyShape' /\ Top' = g
<1> DEFINE n == Len(stack)
<1>1. /\ n \in Nat /\ DOMAIN stack = 1..n
      /\ Len(stack') = n + 1 /\ DOMAIN stack' = 1..(n + 1)
      /\ stack'[n + 1] = g /\ Last(stack') = g
      /\ \A k \in 1..n : stack'[k] = callers[k]
  BY Pushing, LenProperties
<1> HIDE DEF n
<1>2. \A k \in 1..(n + 1) : k = n + 1 \/ k \in 1..n
  BY <1>1
<1>3. \A k \in 1..n : /\ TidyFrame(stack'[k]) /\ stack'[k].at = "html"
                      /\ stack'[k].url = stack[k].url
                      /\ stack'[k].page = stack[k].page
                      /\ stack[k].at = "html"
  BY <1>1 DEF n
<1>4. ASSUME NEW k \in DOMAIN stack'
      PROVE  TidyFrame(stack'[k]) /\ (k < Len(stack') => stack'[k].at = "html")
  <2>1. CASE k = n + 1
    <3>1. stack'[k] = g
      BY <1>1, <2>1, Zenon
    <3>2. ~(k < Len(stack'))
      BY <1>1, <2>1
    <3> QED BY <3>1, <3>2
  <2>2. CASE k \in 1..n
    BY <1>3, <2>2
  <2> QED BY <1>1, <1>2, <2>1, <2>2
<1>5. ASSUME NEW p PROVE OnPage(p)' = OnPage(p)
  <2>1. OnPage(p) = {k \in 1..n : Loaded(stack[k]) /\ stack[k].page = p}
    BY <1>1 DEF OnPage
  <2>2. OnPage(p)' = {k \in 1..(n + 1) : Loaded(stack'[k]) /\ stack'[k].page = p}
    BY <1>1 DEF OnPage, Loaded
  <2>3. \A k \in OnPage(p)' : k \in 1..n
    BY <1>1, <1>2, <2>2
  <2>4. \A k \in 1..n : Loaded(stack'[k]) <=> Loaded(stack[k])
    BY <1>3 DEF Loaded
  <2>5. \A k \in 1..n : k \in 1..(n + 1)
    BY <1>1
  <2>6. \A k \in 1..n : k \in OnPage(p)' <=> k \in OnPage(p)
    BY <1>3, <2>1, <2>2, <2>4, <2>5
  <2> QED BY <2>1, <2>3, <2>6
<1>6. TidyShape'
  BY <1>1, <1>3, <1>4, <1>5, TidyFrames DEF TidyShape
<1> QED BY <1>1, <1>6 DEF Top

-----------------------------------------------------------------------------
(* Tidy programs, step by step.                                            *)
LEMMA EnterFields ==
  ASSUME NEW f \in FrameRecord, NEW l \in Lists \cup {"get"}
  PROVE  LET g == Enter(f, l)
         IN  /\ g.page = f.page /\ g.url = f.url /\ g.depth = f.depth
             /\ g.at = l /\ g.cb = 1 /\ g.i = 0 /\ g.backs = 0
             /\ g.strict = f.strict
             /\ l \in Lists => g.over = header[l]
BY DEF Enter, FrameRecord

LEMMA FailingFields ==
  ASSUME NEW f \in FrameRecord
  PROVE  LET g == Failing(f)
         IN  /\ g.page = f.page /\ g.url = f.url /\ g.depth = f.depth
             /\ g.at = "error" /\ g.cb = 1 /\ g.i = 0 /\ g.backs = 0
BY DEF Failing, Enter, FrameRecord

LEMMA TidyEnter ==
  ASSUME RangesInv, OneHtmlCallback, NEW f \in FrameRecord, f.url \in Docs
  PROVE  /\ \A l \in Lists \cup {"get"} :
              /\ Enter(f, l) \in FrameRecord /\ TidyFrame(Enter(f, l))
              /\ Enter(f, l).page = f.page /\ Enter(f, l).url = f.url
              /\ Enter(f, l).at = l /\ Enter(f, l).i = 0
         /\ Failing(f) \in FrameRecord /\ TidyFrame(Failing(f))
         /\ Failing(f).page = f.page /\ Failing(f).url = f.url
         /\ Failing(f).at = "error" /\ ~Loaded(Failing(f)) /\ Failing(f).i = 0
<1>1. ASSUME NEW l \in Lists \cup {"get"}
      PROVE  /\ Enter(f, l) \in FrameRecord /\ TidyFrame(Enter(f, l))
             /\ Enter(f, l).page = f.page /\ Enter(f, l).url = f.url
             /\ Enter(f, l).at = l /\ Enter(f, l).i = 0
  <2> DEFINE g == Enter(f, l)
  <2>1. /\ g.page = f.page /\ g.url = f.url
        /\ g.at = l /\ g.cb = 1 /\ g.i = 0 /\ g.backs = 0
        /\ l \in Lists => g.over = header[l]
    BY EnterFields
  <2>2. g \in FrameRecord
    BY Entering DEF RangesInv
  <2> HIDE DEF g
  <2>3. TidyFrame(g)
    BY <2>1 DEF TidyFrame, OneHtmlCallback, Lists, Serp
  <2> QED BY <2>1, <2>2, <2>3 DEF g
<1>2. /\ Failing(f) \in FrameRecord /\ TidyFrame(Failing(f))
      /\ Failing(f).page = f.page /\ Failing(f).url = f.url
      /\ Failing(f).at = "error" /\ ~Loaded(Failing(f)) /\ Failing(f).i = 0
  <2> DEFINE g == Failing(f)
  <2>1. /\ g.page = f.page /\ g.url = f.url
        /\ g.at = "error" /\ g.i = 0 /\ g.backs = 0
    BY FailingFields
  <2>2. g \in FrameRecord
    BY FrameMoves
  <2> HIDE DEF g
  <2>3. TidyFrame(g) /\ ~Loaded(g)
    BY <2>1 DEF TidyFrame, Loaded
  <2> QED BY <2>1, <2>2, <2>3 DEF g
<1> QED BY <1>1, <1>2

LEMMA TidyFacts ==
  ASSUME RangesInv, Tidy, TidyState, stack # <<>>
  PROVE  /\ Top \in FrameRecord /\ TidyFrame(Top) /\ Top.url \in Docs
         /\ Top.page \in Pages /\ TidyShape
         /\ Top.i \in Nat /\ Top.cb \in Nat /\ Top.count \in Nat
         /\ history \in [Pages -> Seq(Shown) \ {<<>>}]
         /\ settings.maxDepth \in Nat /\ settings.maxDepth >= 2
<1>1. /\ Top \in FrameRecord /\ Top = stack[Len(stack)]
      /\ Len(stack) \in DOMAIN stack /\ Top.page \in Pages
      /\ Top.i \in Nat /\ Top.cb \in Nat /\ Top.count \in Nat
  BY SteadyTop, TopFrame DEF RangesInv
<1>2. TidyFrame(Top)
  BY <1>1 DEF TidyState, TidyStack
<1>3. history \in [Pages -> Seq(Shown) \ {<<>>}]
  BY DEF RangesInv, TypeOK
<1>4. settings.maxDepth \in Nat /\ settings.maxDepth >= 2
  BY SettingTypes DEF RangesInv, Tidy
<1> QED BY <1>1, <1>2, <1>3, <1>4 DEF TidyFrame, TidyState, TidyShape

(* The deferred go-backs: one from html, none elsewhere.                   *)
LEMMA TidyDeferred ==
  ASSUME RangesInv, Tidy, TidyState, stack # <<>>, NEW f \in FrameRecord,
         f.page = Top.page, RunDeferred(f)
  PROVE  /\ f.backs = 0 => history' = history
         /\ f.backs = 1 /\ Loaded(Top) =>
              history' = [history EXCEPT ![Top.page] = SubSeq(@, 1, Len(@) - 1)]
<1>1. /\ history \in [Pages -> Seq(Shown) \ {<<>>}] /\ Top.page \in Pages
      /\ settings.maxDepth \in Nat /\ settings.maxDepth >= 2 /\ TidyShape
  BY TidyFacts
<1>2. history' = [history EXCEPT ![Top.page] = MustGoBack(history[Top.page], f.backs)]
  BY DEF RunDeferred, Deferred
<1>3. ASSUME f.backs = 0 PROVE history' = history
  <2>1. MustGoBack(history[Top.page], f.backs) = history[Top.page]
    BY <1>3 DEF MustGoBack
  <2> QED BY <1>1, <1>2, <2>1
<1>4. ASSUME f.backs = 1, Loaded(Top)
      PROVE  history' = [history EXCEPT ![Top.page] = SubSeq(@, 1, Len(@) - 1)]
  <2>1. Len(history[Top.page]) > 1
    BY <1>1, <1>4, TidyShows
  <2>2. settings.maxDepth # 0
    BY <1>1
  <2>3. MustGoBack(history[Top.page], 1)
          = SubSeq(history[Top.page], 1, Len(history[Top.page]) - 1)
    BY <2>1, <2>2 DEF MustGoBack
  <2> QED BY <1>2, <1>4, <2>3
<1> QED BY <1>3, <1>4

(* The top frame goes on with its range as it is.                          *)
LEMMA TidyStays ==
  ASSUME RangesInv, Tidy, TidyState, stack # <<>>,
         UNCHANGED <<program, site, arrays, header, history>>,
         NEW g \in FrameRecord, Becomes(g), g.at = Top.at, g.page = Top.page,
         g.url = Top.url, g.over = Top.over, g.cb = Top.cb, g.run = Top.run,
         g.count = Top.count, g.backs = Top.backs, g.i = 0 <=> Top.i = 0
  PROVE  TidyState' /\ Top' = g
<1>1. TidyFrame(Top) /\ TidyShape /\ Top.i \in Nat
  BY TidyFacts
<1>2. g.i \in Nat
  BY DEF FrameRecord
<1>3. g.i > 0 <=> Top.i > 0
  BY <1>1, <1>2
<1>4. TidyFrame(g) /\ (Loaded(g) <=> Loaded(Top))
  BY <1>1, <1>3 DEF TidyFrame, Loaded
<1>5. TidyShape' /\ Top' = g
  BY <1>1, <1>4, TidyReplace
<1>6. PagingLooks'
  <2>1. Top'.at = "paging" /\ Top'.i > 0
          => Top'.count = Len(Elements(Showing(Top.page), Top.run.sel))
    BY <1>3, <1>5 DEF TidyState, PagingLooks
  <2> QED BY <1>5, <2>1 DEF PagingLooks, Showing, Elements
<1> QED BY <1>5, <1>6 DEF TidyState, TidyShape

(* It leaves its range, with its deferred go-back or without one.          *)
LEMMA TidyMoves ==
  ASSUME RangesInv, Tidy, TidyState, stack # <<>>,
         UNCHANGED <<program, site, arrays, header>>,
         NEW f \in FrameRecord, f.page = Top.page, RunDeferred(f),
         NEW g \in FrameRecord, TidyFrame(g), Becomes(g), g.page = Top.page,
         g.url = Top.url, g.i = 0,
         \/ f.backs = 0 /\ (Loaded(g) <=> Loaded(Top))
         \/ f.backs = 1 /\ Loaded(Top) /\ ~Loaded(g)
  PROVE  TidyState'
<1>1. TidyShape
  BY TidyFacts
<1>2. TidyShape' /\ Top' = g
  <2>1. CASE f.backs = 0 /\ (Loaded(g) <=> Loaded(Top))
    <3>1. history' = history
      BY <2>1, TidyDeferred
    <3> QED BY <1>1, <2>1, <3>1, TidyReplace
  <2>2. CASE f.backs = 1 /\ Loaded(Top) /\ ~Loaded(g)
    <3>1. history' = [history EXCEPT ![Top.page] = SubSeq(@, 1, Len(@) - 1)]
      BY <2>2, TidyDeferred
    <3> QED BY <1>1, <2>2, <3>1, TidyUnload
  <2> QED BY <2>1, <2>2
<1> QED BY <1>2 DEF TidyState, TidyShape, PagingLooks

LEMMA TidyNext ==
  ASSUME RangesInv, Tidy, TidyState, stack # <<>>, Top.at \in Lists,
         Top.i = 0, Top.cb <= Top.over.len
  PROVE  LET cb == arrays[Top.at][Top.over.ver][Top.cb]
         IN  IF Top.at = "html" THEN Top.cb = 1 /\ cb = HtmlCallback
                                ELSE Harmless(cb)
<1> DEFINE cb == arrays[Top.at][Top.over.ver][Top.cb]
<1>1. TidyFrame(Top) /\ Top.cb \in Nat /\ OneHtmlCallback
  BY TidyFacts DEF TidyState
<1>2. /\ Top.at # "html" => cb \in Range(program.on[Top.at]) \cup {Nobody}
      /\ Top.cb \in 1..Len(arrays[Top.at][Top.over.ver])
  BY NextIsContainer
<1>3. ASSUME Top.at = "html" PROVE Top.cb = 1 /\ cb = HtmlCallback
  <2> DEFINE p == program.on["html"]
  <2>1. Top.over = [ver |-> 1, len |-> 1]
    BY <1>1, <1>3 DEF TidyFrame
  <2>2. Top.cb > 0
    <3>1. Top.cb \in 1..Len(arrays[Top.at][Top.over.ver]) => Top.cb > 0
      OBVIOUS
    <3> QED BY <1>2, <3>1
  <2>3. Top.cb = 1
    BY <1>1, <2>1, <2>2
  <2>4. p \in Seq(Container) /\ Len(p) = 1 /\ Capacity \in Nat
    BY SettingTypes, CallbacksAssumption DEF RangesInv, Tidy, Lists, Serp
  <2>5. cb = Padded(p, Capacity)[1]
    BY <1>1, <1>3, <2>1, <2>3 DEF OneHtmlCallback
  <2> HIDE DEF p, cb
  <2>6. Padded(p, Capacity)[1] = p[1]
    <3>1. \A i \in 1..Len(p) : Padded(p, Capacity)[i] = p[i]
      BY <2>4, Padding
    <3> QED BY <2>4, <3>1
  <2> QED BY <2>3, <2>5, <2>6 DEF HtmlCallback, p
<1>4. ASSUME Top.at # "html" PROVE Harmless(cb)
  <2> HIDE DEF cb
  <2>1. Harmless(Nobody)
    BY DEF Harmless, Nobody
  <2> QED BY <1>2, <1>4, <2>1 DEF Tidy
<1> QED BY <1>3, <1>4

LEMMA TidyVisit ==
  ASSUME RangesInv, Tidy, TidyState, Visit
  PROVE  TidyState'
<1>1. /\ stack = <<>> /\ Scrape(Start, 1, <<>>) /\ TidyShape
      /\ UNCHANGED <<program, site, arrays, header, history>>
  BY DEF Visit, registry, TidyState, TidyShape
<1>2. CASE stack' = <<>>
  <2>1. DOMAIN stack' = {} /\ DOMAIN stack = {}
    BY <1>1, <1>2
  <2>2. \A p : OnPage(p)' = OnPage(p)
    BY <2>1 DEF OnPage
  <2>3. TidyShape'
    BY <1>1, <2>1, <2>2, TidyFrames DEF TidyShape
  <2> QED BY <1>2, <2>3 DEF TidyState, TidyShape, PagingLooks
<1>3. CASE stack' = Append(<<>>, Frame(Start, 1, Head(pool)))
  <2> DEFINE g == Frame(Start, 1, Head(pool))
  <2>1. Head(pool) \in Pages /\ Start \in Docs
    BY HeadTailProperties, CallbacksAssumption DEF RangesInv, TypeOK
  <2>2. g \in FrameRecord
    BY <2>1, Beginning DEF RangesInv, Shown
  <2>3. g.url = Start /\ g.at = "request" /\ g.i = 0 /\ g.backs = 0
    BY DEF Frame
  <2>4. stack' = Append(<<>>, g)
    BY <1>3
  <2> HIDE DEF g
  <2>5. TidyFrame(g) /\ ~Loaded(g)
    BY <2>1, <2>3 DEF TidyFrame, Loaded
  <2>6. /\ stack \in Seq(FrameRecord) /\ Len(stack) = 0
        /\ stack' = Append(stack, g)
    <3>1. stack \in Seq(FrameRecord)
      BY DEF RangesInv, TypeOK
    <3>2. Len(stack) = 0
      BY <1>1
    <3> QED BY <1>1, <2>4, <3>1, <3>2
  <2>7. \A k \in 1..Len(stack) : FALSE
    BY <2>6
  <2>8. TidyShape' /\ Top' = g
    BY <1>1, <2>2, <2>5, <2>6, <2>7, TidyPush
  <2> QED BY <2>3, <2>8 DEF TidyState, TidyShape, PagingLooks
<1> QED BY <1>1, <1>2, <1>3 DEF Scrape

LEMMA TidyMustGet ==
  ASSUME RangesInv, Tidy, TidyState, MustGet
  PROVE  TidyState'
<1>1. /\ stack # <<>> /\ Top.at = "get"
      /\ UNCHANGED <<program, site, arrays, header>>
  BY DEF MustGet, registry
<1>2. Top \in FrameRecord /\ Top.url \in Docs /\ TidyShape
  BY <1>1, TidyFacts
<1>3. Top.url # NoURL
  BY <1>2, CallbacksAssumption DEF Docs, NoURL
<1>4. /\ history' = [history EXCEPT ![Top.page] = Append(@, Top.url)]
      /\ Becomes(Enter(Top, "response"))
  BY <1>3 DEF MustGet, Answered, Tidy
<1> DEFINE g == Enter(Top, "response")
<1>5. /\ g \in FrameRecord /\ TidyFrame(g) /\ g.page = Top.page
      /\ g.url = Top.url /\ g.at = "response" /\ Becomes(g)
  <2>1. "response" \in Lists
    BY DEF Lists
  <2> QED BY <1>2, <1>4, <2>1, TidyEnter DEF TidyState
<1> HIDE DEF g
<1>6. Loaded(g) /\ ~Loaded(Top)
  BY <1>1, <1>5 DEF Loaded
<1>7. TidyShape' /\ Top' = g
  BY <1>1, <1>2, <1>4, <1>5, <1>6, TidyLoad
<1> QED BY <1>5, <1>7 DEF TidyState, TidyShape, PagingLooks

LEMMA OfferedHere ==
  ASSUME NEW f, NEW sel, f.at \in Serp
  PROVE  Offered(f, sel) = Elements(Showing(f.page), sel)
BY DEF Offered, Serp

LEMMA TidyNextCallback ==
  ASSUME RangesInv, Tidy, TidyState, NextCallback
  PROVE  TidyState'
<1> DEFINE cb == arrays[Top.at][Top.over.ver][Top.cb]
           f == [Top EXCEPT !.backs = Defer(Top, cb)]
           n == Len(Offered(f, cb.sel))
<1>1. /\ cb \in Container /\ f \in FrameRecord /\ n \in Nat
      /\ f.at = Top.at /\ f.over = Top.over /\ f.page = Top.page
      /\ Top.at \notin Serp \/ Offered(f, cb.sel) = Elements(Showing(Top.page), cb.sel)
  <2>1. /\ cb \in Container /\ f \in FrameRecord /\ n \in Nat
        /\ f.at = Top.at /\ f.over = Top.over /\ f.page = Top.page
    BY NextFacts
  <2> HIDE DEF f, cb
  <2>2. f.at \in Serp => Offered(f, cb.sel) = Elements(Showing(f.page), cb.sel)
    BY OfferedHere
  <2> QED BY <2>1, <2>2
<1>2. /\ stack # <<>> /\ ret = "none" /\ Top.at \in Lists
      /\ Top.i = 0 /\ Top.cb <= Top.over.len
      /\ UNCHANGED <<program, site, arrays, header>>
      /\ \/ Top.at \in Serp /\ RunDeferred(f) /\ Becomes(Failing(f))
         \/ /\ Becomes([f EXCEPT !.run = cb, !.i = 1, !.count = n])
            /\ UNCHANGED history
  BY <1>1 DEF NextCallback, InRange, registry, Tidy
<1>3. /\ Top \in FrameRecord /\ TidyFrame(Top) /\ TidyShape /\ Top.url \in Docs
  BY <1>2, TidyFacts
<1>4. IF Top.at = "html" THEN Top.cb = 1 /\ cb = HtmlCallback ELSE Harmless(cb)
  BY <1>2, TidyNext
<1>5. f.url = Top.url /\ f.cb = Top.cb /\ f.backs = Defer(Top, cb)
  <2>1. Defer(Top, cb) = f.backs
    BY <1>3 DEF FrameRecord
  <2> HIDE DEF cb
  <2> QED BY <1>3, <2>1 DEF FrameRecord
<1> HIDE DEF cb
<1>6. f.backs = IF Top.at = "html" THEN 1 ELSE 0
  <2>1. Top.backs = 0
    BY <1>2, <1>3, <1>4 DEF TidyFrame
  <2>2. Top.at = "html" => cb.back
    BY <1>4 DEF Tidy
  <2>3. Top.at # "html" => ~cb.back
    BY <1>4 DEF Harmless
  <2> QED BY <1>5, <2>1, <2>2, <2>3 DEF Defer
<1> HIDE DEF f, n
<1>7. CASE Top.at \in Serp /\ RunDeferred(f) /\ Becomes(Failing(f))
  <2> DEFINE g == Failing(f)
  <2>1. /\ g \in FrameRecord /\ TidyFrame(g) /\ g.page = Top.page /\ g.url = Top.url
        /\ g.at = "error" /\ ~Loaded(g) /\ Becomes(g)
    BY <1>1, <1>3, <1>5, <1>7, TidyEnter DEF TidyState
  <2> HIDE DEF g
  <2>2. \/ f.backs = 0 /\ (Loaded(g) <=> Loaded(Top))
        \/ f.backs = 1 /\ Loaded(Top) /\ ~Loaded(g)
    BY <1>6, <1>7, <2>1 DEF Loaded, Serp
  <2>3. g.i = 0
    BY <1>1, <1>3, <1>5, TidyEnter DEF TidyState, g
  <2> QED BY <1>1, <1>2, <1>7, <2>1, <2>2, <2>3, TidyMoves
<1>8. CASE /\ Becomes([f EXCEPT !.run = cb, !.i = 1, !.count = n])
           /\ UNCHANGED history
  <2> DEFINE g == [f EXCEPT !.run = cb, !.i = 1, !.count = n]
  <2>1. /\ g \in FrameRecord /\ g.at = Top.at /\ g.page = Top.page /\ g.url = Top.url
        /\ g.over = Top.over /\ g.cb = Top.cb /\ g.backs = f.backs
        /\ g.run = cb /\ g.i = 1 /\ g.count = n
    BY <1>1, <1>5 DEF FrameRecord
  <2>2. Becomes(g)
    BY <1>8
  <2> HIDE DEF g
  <2>3. Top.at \in Serp => n = Len(Elements(Showing(Top.page), cb.sel))
    BY <1>1 DEF n
  <2>4. TidyFrame(g)
    <3>1. CASE Top.at = "html"
      <4>1. Showing(Top.page) = Top.url
        BY <1>2, <1>3, <3>1, TidyShows DEF Loaded
      <4>2. n = Len(Elements(g.url, g.run.sel))
        BY <2>1, <2>3, <3>1, <4>1 DEF Serp
      <4>3. g.over = [ver |-> 1, len |-> 1]
        BY <1>3, <2>1, <3>1 DEF TidyFrame
      <4>4. g.cb = 1 /\ g.cb <= 2 /\ g.run = HtmlCallback /\ g.backs = 1 /\ g.i # 0
        BY <1>4, <1>6, <2>1, <3>1
      <4> QED BY <1>3, <2>1, <3>1, <4>2, <4>3, <4>4 DEF TidyFrame
    <3>2. CASE Top.at # "html"
      BY <1>3, <1>4, <1>6, <2>1, <3>2 DEF TidyFrame
    <3> QED BY <3>1, <3>2
  <2>5. TidyShape' /\ Top' = g
    BY <1>2, <1>3, <1>8, <2>1, <2>2, <2>4, TidyReplace DEF Loaded
  <2>6. PagingLooks'
    <3>1. Top'.at = "paging" =>
            Top'.count = Len(Elements(Showing(Top'.page), Top'.run.sel))
      BY <2>1, <2>3, <2>5 DEF Serp
    <3> QED BY <1>2, <1>8, <2>5, <3>1 DEF PagingLooks, Showing, Elements
  <2> QED BY <2>5, <2>6 DEF TidyState, TidyShape
<1> QED BY <1>2, <1>7, <1>8

LEMMA TidyCallbackOver ==
  ASSUME RangesInv, Tidy, TidyState, CallbackOver
  PROVE  TidyState'
<1> DEFINE g == Advance(Top)
<1>1. /\ stack # <<>> /\ Top.i > Top.count /\ Becomes(g)
      /\ UNCHANGED <<program, site, arrays, header, history>>
  BY DEF CallbackOver, InRange, registry, browser
<1>2. /\ TidyFrame(Top) /\ TidyShape /\ Top \in FrameRecord
      /\ Top.i > 0
  BY <1>1, TidyFacts
<1>3. /\ g \in FrameRecord /\ g.at = Top.at /\ g.page = Top.page
      /\ g.url = Top.url /\ g.over = Top.over /\ g.cb = Top.cb + 1
      /\ g.backs = Top.backs /\ g.i = 0
  <2>1. g \in FrameRecord
    BY <1>2, FrameMoves
  <2> QED BY <1>2, <2>1 DEF Advance, FrameRecord
<1> HIDE DEF g
<1>4. Top.at = "html" => Top.cb = 1 /\ Top.backs = 1
  BY <1>2 DEF TidyFrame
<1>5. TidyFrame(g)
  <2>1. g.at = "html" => g.cb = 2
    BY <1>3, <1>4
  <2> QED BY <1>2, <1>3, <1>4, <2>1 DEF TidyFrame
<1>6. TidyShape' /\ Top' = g
  BY <1>1, <1>2, <1>3, <1>5, TidyReplace DEF Loaded
<1> QED BY <1>3, <1>6 DEF TidyState, TidyShape, PagingLooks

(* The page has the elements that were counted, whatever was visited.      *)
LEMMA TidyElementMissed ==
  ASSUME RangesInv, Tidy, TidyState, ElementMissed
  PROVE  FALSE
<1> DEFINE now == Offered(Top, Top.run.sel)
<1>1. /\ stack # <<>> /\ Top.at \in Serp /\ Top.i \in 1..Top.count
      /\ Top.i > Len(now)
  BY DEF ElementMissed, InRange
<1>2. TidyFrame(Top) /\ TidyShape /\ Top.i \in Nat /\ Top.count \in Nat
  BY <1>1, TidyFacts
<1>3. now = Elements(Showing(Top.page), Top.run.sel)
  BY <1>1, OfferedHere
<1> HIDE DEF now
<1>4. Top.i > 0 /\ Top.i <= Top.count
  BY <1>1, <1>2
<1>5. CASE Top.at = "html"
  <2>1. Showing(Top.page) = Top.url
    BY <1>1, <1>2, <1>5, TidyShows DEF Loaded
  <2>2. Top.count = Len(Elements(Top.url, Top.run.sel))
    BY <1>2, <1>4, <1>5 DEF TidyFrame
  <2> QED BY <1>1, <1>2, <1>3, <1>4, <2>1, <2>2
<1>6. CASE Top.at = "paging"
  <2>1. Top.count = Len(now)
    BY <1>1, <1>3, <1>4, <1>6 DEF TidyState, PagingLooks
  <2> QED BY <1>1, <1>2, <1>4, <2>1
<1> QED BY <1>1, <1>5, <1>6 DEF Serp

LEMMA TidyCalling ==
  ASSUME RangesInv, Tidy, TidyState, stack # <<>>, NEW strict \in BOOLEAN
  PROVE  /\ (stack' = Calling(strict)
              /\ UNCHANGED <<program, site, arrays, header, history>>) => TidyState'
         /\ Calling(strict) \in Seq(FrameRecord)
         /\ Len(Calling(strict)) = Len(stack)
         /\ Top.at = "html" =>
              \A k \in 1..Len(stack) :
                /\ TidyFrame(Calling(strict)[k]) /\ Calling(strict)[k].at = "html"
                /\ Calling(strict)[k].url = stack[k].url
                /\ Calling(strict)[k].page = stack[k].page
                /\ stack[k].at = "html"
<1> DEFINE g == [Top EXCEPT !.strict = strict]
           s == Calling(strict)
           n == Len(stack)
<1>1. /\ TypeOK /\ Top \in FrameRecord /\ TidyFrame(Top)
  BY TidyFacts DEF RangesInv
<1>2. /\ g \in FrameRecord /\ g.at = Top.at /\ g.page = Top.page
      /\ g.url = Top.url /\ g.over = Top.over /\ g.cb = Top.cb
      /\ g.run = Top.run /\ g.count = Top.count /\ g.backs = Top.backs
      /\ g.i = Top.i
  BY <1>1 DEF FrameRecord
<1>3. s = Append(Under, g)
  BY DEF Calling
<1> HIDE DEF g, s
<1>4. /\ s \in Seq(FrameRecord) /\ Len(s) = n /\ s[n] = g
      /\ \A k \in 1..(n - 1) : s[k] = stack[k]
  BY <1>1, <1>2, <1>3, Replacing
<1>5. /\ n \in Nat \ {0} /\ Top = stack[n] /\ DOMAIN stack = 1..n
  BY <1>1, TopFrame
<1>6. ASSUME stack' = s, UNCHANGED <<program, site, arrays, header, history>>
      PROVE  TidyState'
  <2>1. Becomes(g)
    BY <1>3, <1>6 DEF Becomes
  <2> QED BY <1>2, <1>6, <2>1, TidyStays
<1>7. TidyFrame(g)
  BY <1>1, <1>2 DEF TidyFrame
<1>8. ASSUME Top.at = "html", NEW k \in 1..n
      PROVE  /\ TidyFrame(s[k]) /\ s[k].at = "html"
             /\ s[k].url = stack[k].url /\ s[k].page = stack[k].page
             /\ stack[k].at = "html"
  <2>1. CASE k = n
    <3>1. s[k] = g /\ stack[k] = Top
      BY <1>4, <1>5, <2>1, Zenon
    <3> QED BY <1>2, <1>7, <1>8, <3>1
  <2>2. CASE k # n
    <3> HIDE DEF n
    <3>1. k \in 1..(n - 1) /\ k < n /\ k \in DOMAIN stack
      BY <1>5, <1>8, <2>2
    <3>2. TidyFrame(stack[k]) /\ stack[k].at = "html"
      BY <3>1 DEF TidyState, TidyStack, n
    <3> QED BY <1>4, <3>1, <3>2
  <2> QED BY <2>1, <2>2
<1> QED BY <1>4, <1>6, <1>8 DEF s

LEMMA TidyJustReturn ==
  ASSUME RangesInv, Tidy, TidyState, JustReturn
  PROVE  TidyState'
<1>1. /\ stack # <<>> /\ stack' = Calling(TRUE)
      /\ UNCHANGED <<program, site, arrays, header, history>>
  BY ActingFacts DEF JustReturn, registry, browser
<1> QED BY <1>1, TidyCalling

(* Only the callback of html visits.                                       *)
LEMMA TidyActing ==
  ASSUME RangesInv, Tidy, TidyState, NEW act, Acting(act), act # "return"
  PROVE  /\ stack # <<>> /\ ret = "none" /\ Top.at = "html" /\ Top.i > 0
         /\ act \in HtmlCallback.does /\ act \in {"visit", "follow"}
         /\ Target \in Docs
<1>1. /\ stack # <<>> /\ ret = "none" /\ Top.i > 0 /\ act \in Top.run.does
      /\ Top.at \in Serp => Target \in Docs
  BY ActingFacts
<1>2. TidyFrame(Top)
  BY <1>1, TidyFacts
<1>3. Top.at = "html" /\ Top.run = HtmlCallback
  BY <1>1, <1>2 DEF TidyFrame, Harmless
<1> QED BY <1>1, <1>3 DEF Tidy, Serp

LEMMA TidyVisitLink ==
  ASSUME RangesInv, Tidy, TidyState, VisitLink
  PROVE  TidyState'
<1>1. PICK strict \in BOOLEAN :
        /\ Scrape(Target, Top.depth + 1, Calling(strict))
        /\ stack # <<>> /\ Top.at = "html" /\ Target \in Docs
  <2>1. ~Acting("enter")
    BY TidyActing
  <2>2. Acting("visit") \/ Acting("follow") =>
          stack # <<>> /\ Top.at = "html" /\ Target \in Docs
    BY TidyActing
  <2> QED BY <2>1, <2>2 DEF VisitLink
<1>2. UNCHANGED <<program, site, arrays, header, history>>
  BY DEF VisitLink, registry
<1>3. CASE stack' = Calling(strict)
  BY <1>1, <1>2, <1>3, TidyCalling
<1>4. CASE stack' = Append(Calling(strict), Frame(Target, Top.depth + 1, Head(pool)))
  <2> DEFINE g == Frame(Target, Top.depth + 1, Head(pool))
  <2>1. /\ Head(pool) \in Pages /\ Target \in Shown \cup {NoURL}
        /\ Top.depth + 1 \in Nat
    BY <1>1, SteadyTop, HeadTailProperties DEF RangesInv, TypeOK, Shown
  <2>2. g \in FrameRecord
    BY <2>1, Beginning DEF RangesInv
  <2>3. g.url = Target /\ g.at = "request" /\ g.i = 0 /\ g.backs = 0
    BY DEF Frame
  <2>4. stack' = Append(Calling(strict), g)
    BY <1>4
  <2> HIDE DEF g
  <2>5. TidyFrame(g) /\ ~Loaded(g)
    BY <1>1, <2>3 DEF TidyFrame, Loaded
  <2>6. stack \in Seq(FrameRecord) /\ TidyShape
    BY DEF RangesInv, TypeOK, TidyState, TidyShape
  <2>7. TidyShape' /\ Top' = g
    BY <1>1, <1>2, <2>2, <2>4, <2>5, <2>6, TidyCalling, TidyPush
  <2> QED BY <2>3, <2>7 DEF TidyState, TidyShape, PagingLooks
<1> QED BY <1>1, <1>3, <1>4 DEF Scrape

(* It does not click, register or detach anything.                         *)
LEMMA TidyNever ==
  ASSUME RangesInv, Tidy, TidyState
  PROVE  ~Click /\ ~Register /\ ~Detach
<1>1. ~Click /\ ~Register
  <2>1. /\ ~Acting("click") /\ ~Acting("step") /\ ~Acting("turn")
        /\ ~Acting("register")
    BY TidyActing
  <2> QED BY <2>1 DEF Click, Register
<1>2. ASSUME Detach PROVE FALSE
  <2>1. PICK k \in 1..Len(Offered(Top, Top.run.sel)) : k = Top.i
    BY <1>2 DEF Detach
  <2>2. stack # <<>> /\ Top.i > 0
    BY <1>2, <2>1 DEF Detach, InRange
  <2>3. TidyFrame(Top)
    BY <2>2, TidyFacts
  <2>4. Top.run.drops = {}
    BY <2>2, <2>3 DEF TidyFrame, Tidy, Harmless
  <2> QED BY <1>2, <2>4 DEF Detach
<1> QED BY <1>1, <1>2

(* Whoever is called back waits in html.                                   *)
LEMMA TidyUnder ==
  ASSUME RangesInv, TidyState, stack # <<>>, stack' = Under, stack' # <<>>
  PROVE  Top'.at = "html" /\ Len(stack) > 1 /\ Top' = stack[Len(stack) - 1]
<1>1. /\ Len(stack) \in Nat \ {0} /\ DOMAIN stack = 1..Len(stack)
      /\ stack' \in Seq(FrameRecord) /\ Len(stack') = Len(stack) - 1
      /\ \A k \in 1..(Len(stack) - 1) : stack'[k] = stack[k]
  BY TopFrame DEF RangesInv
<1>2. Len(stack') > 0 /\ Top' = stack'[Len(stack')]
  BY <1>1, EmptySeq, LenProperties DEF Top, Last
<1>3. /\ Len(stack) > 1 /\ Len(stack) - 1 \in 1..(Len(stack) - 1)
      /\ Len(stack) - 1 \in DOMAIN stack /\ Len(stack) - 1 < Len(stack)
  BY <1>1, <1>2
<1>4. Top' = stack[Len(stack) - 1]
  BY <1>1, <1>2, <1>3
<1> QED BY <1>3, <1>4 DEF TidyState, TidyStack

LEMMA TidyReturn ==
  ASSUME RangesInv, Tidy, TidyState, Return
  PROVE  TidyState'
<1>1. /\ stack # <<>> /\ UNCHANGED <<program, site, arrays, header>>
      /\ \/ Leaves(Top) /\ RunDeferred(Top) /\ Becomes(Failing(Top))
         \/ Becomes([Top EXCEPT !.i = @ + 1]) /\ UNCHANGED history
  BY DEF Return, registry
<1>2. /\ Top \in FrameRecord /\ TidyFrame(Top) /\ Top.url \in Docs /\ Top.i > 0
  BY <1>1, TidyFacts, SteadyTop DEF Return
<1>3. CASE Leaves(Top) /\ RunDeferred(Top) /\ Becomes(Failing(Top))
  <2> DEFINE g == Failing(Top)
  <2>1. /\ g \in FrameRecord /\ TidyFrame(g) /\ g.page = Top.page /\ g.url = Top.url
        /\ ~Loaded(g) /\ g.i = 0 /\ Becomes(g)
    BY <1>2, <1>3, TidyEnter DEF TidyState
  <2> HIDE DEF g
  <2>2. \/ Top.backs = 0 /\ (Loaded(g) <=> Loaded(Top))
        \/ Top.backs = 1 /\ Loaded(Top) /\ ~Loaded(g)
    <3>1. Top.at = "html" => Top.backs = 1
      BY <1>2 DEF TidyFrame
    <3>2. Top.at # "html" => Top.backs = 0
      BY <1>2 DEF TidyFrame
    <3> QED BY <1>3, <2>1, <3>1, <3>2 DEF Leaves, Loaded, Serp
  <2> QED BY <1>1, <1>2, <1>3, <2>1, <2>2, TidyMoves
<1>4. CASE Becomes([Top EXCEPT !.i = @ + 1]) /\ UNCHANGED history
  <2> DEFINE g == [Top EXCEPT !.i = @ + 1]
  <2>1. /\ g \in FrameRecord /\ g.i = Top.i + 1
    BY <1>2, FrameMoves
  <2>2. /\ g.at = Top.at /\ g.page = Top.page /\ g.url = Top.url
        /\ g.over = Top.over /\ g.cb = Top.cb /\ g.run = Top.run
        /\ g.count = Top.count /\ g.backs = Top.backs
    BY <1>2 DEF FrameRecord
  <2>3. Becomes(g)
    BY <1>4
  <2> HIDE DEF g
  <2>4. g.i = 0 <=> Top.i = 0
    <3>1. Top.i \in Nat
      BY <1>1, SteadyTop
    <3> QED BY <1>2, <2>1, <3>1
  <2> QED BY <1>1, <1>4, <2>1, <2>2, <2>3, <2>4, TidyStays
<1> QED BY <1>1, <1>3, <1>4

LEMMA TidyStageOver ==
  ASSUME RangesInv, Tidy, TidyState, StageOver
  PROVE  TidyState'
<1>1. /\ stack # <<>> /\ Top.at \in Lists /\ Top.i = 0 /\ Top.cb > Top.over.len
      /\ RunDeferred(Top)
      /\ UNCHANGED <<program, site, arrays, header>>
  BY DEF StageOver, InRange, registry
<1>2. /\ Top \in FrameRecord /\ TidyFrame(Top) /\ Top.url \in Docs /\ TidyShape
  BY <1>1, TidyFacts
<1>3. Top.backs = IF Top.at = "html" THEN 1 ELSE 0
  <2>1. Top.at = "html" => Top.over = [ver |-> 1, len |-> 1]
    BY <1>2 DEF TidyFrame
  <2>2. Top.at = "html" => Top.cb # 1
    BY <1>1, <2>1
  <2> QED BY <1>2, <2>2 DEF TidyFrame
<1>4. CASE stack' = Under /\ Top.at \in {"data", "error", "scraped"}
  <2>1. ~Loaded(Top)
    BY <1>4 DEF Loaded
  <2>2. history' = history
    BY <1>1, <1>2, <1>3, <1>4, TidyDeferred
  <2>3. TidyShape'
    BY <1>1, <1>2, <1>4, <2>1, <2>2, TidyPop
  <2>4. stack' # <<>> => Top'.at = "html"
    BY <1>1, <1>4, TidyUnder
  <2> QED BY <2>3, <2>4 DEF TidyState, TidyShape, PagingLooks
<1>5. CASE /\ Top.at \notin {"error", "scraped"}
           /\ Becomes(Enter(Top, NextStage(Top.at)))
  <2> DEFINE l == NextStage(Top.at)
             g == Enter(Top, l)
  <2>1. l \in Lists \cup {"get"}
    BY <1>1, <1>5 DEF NextStage, Lists, Serp
  <2>2. /\ Top.at = "response" => l = "html"
        /\ Top.at # "response" => l \notin {"response", "html"}
    BY <1>1, <1>5 DEF NextStage, Lists, Serp
  <2> HIDE DEF l
  <2>3. /\ g \in FrameRecord /\ TidyFrame(g) /\ g.page = Top.page /\ g.url = Top.url
        /\ g.i = 0 /\ g.at = l
    BY <1>2, <2>1, TidyEnter DEF TidyState
  <2>4. Becomes(g)
    BY <1>5 DEF l
  <2> HIDE DEF g
  <2>5. \/ Top.backs = 0 /\ (Loaded(g) <=> Loaded(Top))
        \/ Top.backs = 1 /\ Loaded(Top) /\ ~Loaded(g)
    BY <1>3, <2>2, <2>3 DEF Loaded
  <2> QED BY <1>1, <1>2, <2>3, <2>4, <2>5, TidyMoves
<1> QED BY <1>4, <1>5 DEF StageOver, Finish

LEMMA InitTidy ==
  ASSUME Init
  PROVE  TidyInv
<1> SUFFICES ASSUME Tidy PROVE TidyState
  BY DEF TidyInv
<1>1. /\ stack = <<>> /\ history = [p \in Pages |-> <<Blank>>]
      /\ arrays["html"] = <<Padded(program.on["html"], Capacity)>>
      /\ header["html"] = [ver |-> 1, len |-> Len(program.on["html"])]
  BY DEF Init, Lists, Serp, Pages
<1>2. OneHtmlCallback
  BY <1>1 DEF OneHtmlCallback, Tidy
<1>3. TidyStack /\ PagingLooks
  BY <1>1 DEF TidyStack, PagingLooks
<1>4. ASSUME NEW p \in Pages PROVE Spells(history[p], stack, OnPage(p))
  <2>1. OnPage(p) = {}
    BY <1>1 DEF OnPage
  <2>2. Len(history[p]) = 1
    BY <1>1
  <2> QED BY <2>1, <2>2, FS_EmptySet DEF Spells
<1> QED BY <1>2, <1>3, <1>4 DEF TidyState, Histories

LEMMA NextTidy ==
  ASSUME RangesInv, TidyInv, [Next]_vars
  PROVE  TidyInv'
<1> SUFFICES ASSUME Tidy' PROVE TidyState'
  BY DEF TidyInv
<1>1. Tidy
  BY ProgramStays DEF Tidy, HtmlCallback, Harmless, settings
<1>2. TidyState
  BY <1>1 DEF TidyInv
<1>3. CASE UNCHANGED vars
  <2>1. UNCHANGED <<program, site, arrays, header, stack, history>>
    BY <1>3 DEF vars, registry, browser
  <2>2. \A p : OnPage(p)' = OnPage(p)
    BY <2>1 DEF OnPage, Loaded
  <2>3. \A k \in DOMAIN stack' :
          /\ TidyFrame(stack'[k])
          /\ k < Len(stack') => stack'[k].at = "html"
    BY <1>2, <2>1 DEF TidyState, TidyStack
  <2>4. TidyShape'
    BY <1>2, <2>1, <2>2, <2>3, TidyFrames DEF TidyState
  <2>5. PagingLooks'
    BY <1>2, <2>1 DEF TidyState, PagingLooks, Top, Showing, Elements
  <2> QED BY <2>4, <2>5 DEF TidyState, TidyShape
<1> QED BY <1>1, <1>2, <1>3, TidyVisit, TidyMustGet, TidyNextCallback,
           TidyCallbackOver, TidyElementMissed, TidyJustReturn, TidyVisitLink,
           TidyNever, TidyReturn, TidyStageOver DEF Next, Step

LEMMA TidyAlways == Spec => []TidyInv
BY InitTidy, NextTidy, RangesInvariant, PTL DEF Spec

(* element.go:15: whatever the callback of html visits, the page shows the *)
(* document of the element's request when the loop of handleOnSerp         *)
(* (roddy.go:541) looks for the next one.                                  *)
THEOREM ElementsAreOwn == Spec => []ElementsOwn
<1>1. RangesInv /\ TidyInv => ElementsOwn
  <2> SUFFICES ASSUME RangesInv, TidyInv, Tidy, InRange({"html"})
               PROVE  Showing(Top.page) = Top.url
    BY DEF ElementsOwn
  <2>1. stack # <<>> /\ Loaded(Top) /\ TidyShape
    BY DEF InRange, Loaded, TidyInv, TidyState, TidyShape
  <2> QED BY <2>1, TidyShows
<1> QED BY <1>1, TidyAlways, RangesInvariant, PTL

-----------------------------------------------------------------------------
(* The links of the start page.                                            *)
Visiting == RangesInv /\ OnlyVisits /\ TidyState /\ LinksInv

LEMMA LinksFacts ==
  ASSUME RangesInv, OnlyVisits
  PROVE  /\ HtmlCallback.does = {"visit"} /\ Start \in Docs /\ Tidy
         /\ StartLinks \in Seq(Docs) /\ Len(StartLinks) \in Nat
         /\ DOMAIN StartLinks = 1..Len(StartLinks)
         /\ Elements(Start, HtmlCallback.sel) = StartLinks
         /\ LinksOf(Start) = {StartLinks[j] : j \in DOMAIN StartLinks}
<1>1. /\ HtmlCallback.does = {"visit"} /\ Tidy /\ site.dead = {}
      /\ Start \in Docs /\ site \in Site
  BY CallbacksAssumption DEF OnlyVisits, Tidy, RangesInv, TypeOK
<1>2. HtmlCallback.sel \in Selectors
  <2> DEFINE p == program.on["html"]
  <2>1. p \in Seq(Container) /\ Len(p) = 1
    BY SettingTypes DEF RangesInv, OnlyVisits, Tidy, Lists, Serp
  <2> HIDE DEF p
  <2>2. p[1] \in Container
    BY <2>1, ElementOfSeq
  <2> QED BY <2>2 DEF HtmlCallback, p, Container
<1>3. StartLinks \in Seq(Docs)
  BY <1>1, <1>2 DEF StartLinks, Site
<1>4. Elements(Start, HtmlCallback.sel) = StartLinks
  BY <1>1 DEF Elements, StartLinks
<1>5. LinksOf(Start) = {StartLinks[j] : j \in DOMAIN StartLinks}
  BY DEF LinksOf, StartLinks, Range
<1> QED BY <1>1, <1>3, <1>4, <1>5, LenProperties

LEMMA LinksTop ==
  ASSUME Visiting, stack # <<>>
  PROVE  /\ Top \in FrameRecord /\ TidyFrame(Top) /\ Top.url \in Docs
         /\ Len(stack) \in Nat \ {0}
         /\ Len(stack) = 1 => LinksSoFar(Top, ret # "none")
<1>1. /\ Len(stack) \in Nat \ {0} /\ Top = stack[Len(stack)]
  BY TopFrame DEF Visiting, RangesInv
<1>2. /\ Top \in FrameRecord /\ TidyFrame(Top) /\ Top.url \in Docs
  BY TidyFacts, LinksFacts DEF Visiting
<1>3. ASSUME Len(stack) = 1 PROVE LinksSoFar(Top, ret # "none")
  <2>1. LinksSoFar(stack[1], Len(stack) > 1 \/ ret # "none")
    BY DEF Visiting, LinksInv
  <2>2. Top = stack[1]
    BY <1>1, <1>3
  <2>3. ~(Len(stack) > 1)
    BY <1>3
  <2> QED BY <2>1, <2>2, <2>3 DEF LinksSoFar
<1> QED BY <1>1, <1>2, <1>3

(* While it waits for a visit the first fetch stays as it is.              *)
LEMMA LinksDeep ==
  ASSUME Visiting, UNCHANGED <<program, site>>, Len(stack) > 1,
         stack' # <<>>, stack'[1] = stack[1],
         Len(stack') > 1 \/ ret' # "none", visited \subseteq visited'
  PROVE  LinksInv'
<1>1. stack # <<>>
  OBVIOUS
<1>2. LinksSoFar(stack[1], TRUE)
  <2>1. LinksSoFar(stack[1], Len(stack) > 1 \/ ret # "none")
    BY <1>1 DEF Visiting, LinksInv
  <2>2. (Len(stack) > 1 \/ ret # "none") = TRUE
    OBVIOUS
  <2> QED BY <2>1, <2>2, Zenon
<1>3. LinksSoFar(stack[1], TRUE)'
  <2>1. LinksOf(Start)' = LinksOf(Start) /\ StartLinks' = StartLinks
    BY DEF LinksOf, StartLinks, HtmlCallback
  <2> QED BY <1>2, <2>1, Zenon DEF LinksSoFar
<1>4. LinksSoFar(stack[1], Len(stack) > 1 \/ ret # "none")'
  <2>1. (Len(stack) > 1 \/ ret # "none")' = TRUE
    OBVIOUS
  <2> QED BY <1>3, <2>1, Zenon DEF LinksSoFar
<1> QED BY <1>4 DEF LinksInv

LEMMA LinksReplace ==
  ASSUME Visiting, UNCHANGED <<program, site, visited>>, stack # <<>>,
         NEW g \in FrameRecord, Becomes(g),
         Len(stack) = 1 => LinksSoFar(g, ret' # "none")
  PROVE  LinksInv'
<1>1. /\ Len(stack) \in Nat \ {0} /\ stack' # <<>> /\ Len(stack') = Len(stack)
      /\ stack'[Len(stack)] = g
      /\ \A k \in 1..(Len(stack) - 1) : stack'[k] = stack[k]
  BY Replacing, TopFrame DEF Visiting, RangesInv, Becomes
<1>2. CASE Len(stack) = 1
  <2>1. stack'[1] = g /\ ~(Len(stack') > 1)
    BY <1>1, <1>2
  <2>2. LinksSoFar(stack'[1], ret' # "none")
    BY <1>2, <2>1
  <2>3. LinksSoFar(stack[1], Len(stack) > 1 \/ ret # "none")'
    BY <2>1, <2>2 DEF LinksSoFar, LinksOf, StartLinks, HtmlCallback
  <2> QED BY <1>1, <2>3 DEF LinksInv
<1>3. CASE Len(stack) # 1
  <2>1. Len(stack) > 1 /\ Len(stack') > 1 /\ 1 \in 1..(Len(stack) - 1)
    BY <1>1, <1>3
  <2> QED BY <1>1, <2>1, LinksDeep
<1> QED BY <1>2, <1>3

LEMMA LinksVisit ==
  ASSUME Visiting, Visit
  PROVE  LinksInv'
<1>1. /\ stack = <<>> /\ ret = "none" /\ Scrape(Start, 1, <<>>)
      /\ UNCHANGED <<program, site>>
  BY DEF Visit
<1>2. visited = {}
  BY <1>1 DEF Visiting, LinksInv
<1>3. ~Refused(Start, 1)
  <2>1. settings.maxDepth \in Nat /\ settings.maxDepth >= 2
    BY SettingTypes DEF Visiting, RangesInv, OnlyVisits, Tidy
  <2> QED BY <1>2, <2>1 DEF Refused, TooDeep
<1> DEFINE g == Frame(Start, 1, Head(pool))
<1>4. stack' = Append(<<>>, g)
  BY <1>1, <1>3 DEF Scrape
<1>5. /\ g.url = Start /\ g.depth = 1 /\ g.at = "request"
  BY DEF Frame
<1> HIDE DEF g
<1>6. stack' # <<>> /\ stack'[1] = g
  BY <1>4
<1>7. LinksSoFar(stack[1], Len(stack) > 1 \/ ret # "none")'
  BY <1>5, <1>6 DEF LinksSoFar
<1> QED BY <1>6, <1>7 DEF LinksInv

LEMMA LinksMustGet ==
  ASSUME Visiting, MustGet
  PROVE  LinksInv'
<1>1. /\ stack # <<>> /\ UNCHANGED <<program, site>>
  BY DEF MustGet
<1>2. /\ Top \in FrameRecord /\ Top.url \in Docs
      /\ Len(stack) = 1 => LinksSoFar(Top, ret # "none")
  BY <1>1, LinksTop
<1>3. Top.url # NoURL
  BY <1>2, CallbacksAssumption DEF Docs, NoURL
<1> DEFINE g == Enter(Top, "response")
<1>4. Becomes(g) /\ visited' = visited
  BY <1>3, LinksFacts DEF MustGet, Answered, Tidy, Visiting
<1>5. "response" \in Lists
  BY DEF Lists
<1>6. /\ g \in FrameRecord /\ g.url = Top.url /\ g.depth = Top.depth
      /\ g.at = "response"
  BY <1>2, <1>5, EnterFields, Entering DEF Visiting, RangesInv
<1> HIDE DEF g
<1>7. Len(stack) = 1 => LinksSoFar(g, ret' # "none")
  BY <1>2, <1>6 DEF LinksSoFar
<1> QED BY <1>1, <1>4, <1>6, <1>7, LinksReplace

LEMMA LinksNextCallback ==
  ASSUME Visiting, NextCallback
  PROVE  LinksInv'
<1> DEFINE cb == arrays[Top.at][Top.over.ver][Top.cb]
           f == [Top EXCEPT !.backs = Defer(Top, cb)]
           found == Offered(f, cb.sel)
           n == Len(found)
<1>1. /\ cb \in Container /\ f \in FrameRecord /\ n \in Nat
      /\ f.at = Top.at /\ f.page = Top.page
  BY NextFacts DEF Visiting
<1>2. /\ stack # <<>> /\ ret = "none" /\ ret' = "none" /\ Top.at \in Lists
      /\ Top.i = 0 /\ Top.cb <= Top.over.len
      /\ UNCHANGED <<program, site, visited>>
      /\ \/ Top.at \in Serp /\ found = <<>> /\ Becomes(Failing(f))
         \/ Becomes([f EXCEPT !.run = cb, !.i = 1, !.count = n])
  BY <1>1, LinksFacts DEF NextCallback, InRange, counts, Tidy, Visiting
<1>3. /\ Top \in FrameRecord /\ TidyFrame(Top)
      /\ Len(stack) = 1 => LinksSoFar(Top, FALSE)
  BY <1>2, LinksTop DEF LinksSoFar
<1>4. Top.at = "html" => Top.cb = 1 /\ cb = HtmlCallback
  BY <1>2, LinksFacts, TidyNext DEF Visiting
<1>5. f.url = Top.url /\ f.depth = Top.depth /\ f.cb = Top.cb
  BY <1>3 DEF FrameRecord
<1> HIDE DEF cb, f
<1>6. CASE Top.at \in Serp /\ found = <<>> /\ Becomes(Failing(f))
  <2> DEFINE g == Failing(f)
  <2>1. /\ g \in FrameRecord /\ g.url = Top.url /\ g.depth = Top.depth
        /\ g.at = "error" /\ Becomes(g)
    BY <1>1, <1>5, <1>6, FailingFields, FrameMoves DEF Visiting
  <2> HIDE DEF g
  <2>2. ASSUME Len(stack) = 1 PROVE LinksOf(Start) \subseteq visited
    <3>1. CASE Top.at = "html"
      <4>1. Showing(Top.page) = Top.url /\ Top.url = Start
        BY <1>2, <1>3, <2>2, <3>1, TidyShows, TidyFacts, LinksFacts
           DEF Visiting, Loaded, LinksSoFar
      <4>2. f.at \in Serp
        BY <1>1, <1>6
      <4>3. found = Elements(Showing(f.page), cb.sel)
        BY <4>2, OfferedHere
      <4>4. Elements(Start, HtmlCallback.sel) = <<>>
        BY <1>1, <1>4, <1>6, <3>1, <4>1, <4>3
      <4>5. StartLinks = <<>>
        BY <4>4, LinksFacts DEF Visiting
      <4> QED BY <4>5, LinksFacts DEF Visiting
    <3>2. CASE Top.at = "paging"
      BY <1>3, <2>2, <3>2 DEF LinksSoFar
    <3> QED BY <1>6, <3>1, <3>2 DEF Serp
  <2>3. Len(stack) = 1 => LinksSoFar(g, ret' # "none")
    BY <1>3, <2>1, <2>2 DEF LinksSoFar
  <2> QED BY <1>2, <2>1, <2>3, LinksReplace
<1> HIDE DEF found, n
<1>7. CASE Becomes([f EXCEPT !.run = cb, !.i = 1, !.count = n])
  <2> DEFINE g == [f EXCEPT !.run = cb, !.i = 1, !.count = n]
  <2>1. /\ g \in FrameRecord /\ g.at = Top.at /\ g.url = Top.url
        /\ g.depth = Top.depth /\ g.cb = Top.cb /\ g.i = 1
    BY <1>1, <1>5 DEF FrameRecord
  <2>2. Becomes(g)
    BY <1>7
  <2> HIDE DEF g
  <2>3. \A j \in DOMAIN StartLinks : ~(j < g.i)
    BY <2>1, LinksFacts DEF Visiting
  <2>4. Len(stack) = 1 => LinksSoFar(g, FALSE)
    BY <1>3, <2>1, <2>3 DEF LinksSoFar
  <2>5. Len(stack) = 1 => LinksSoFar(g, ret' # "none")
    BY <1>2, <2>4 DEF LinksSoFar
  <2> QED BY <1>2, <2>1, <2>2, <2>5, LinksReplace
<1> QED BY <1>2, <1>6, <1>7

LEMMA LinksCallbackOver ==
  ASSUME Visiting, CallbackOver
  PROVE  LinksInv'
<1> DEFINE g == Advance(Top)
<1>1. /\ stack # <<>> /\ Top.i > Top.count /\ Becomes(g)
      /\ ret = "none" /\ ret' = "none"
      /\ UNCHANGED <<program, site, visited>>
  BY DEF CallbackOver, InRange, counts
<1>2. /\ Top \in FrameRecord /\ TidyFrame(Top)
      /\ Len(stack) = 1 => LinksSoFar(Top, FALSE)
  BY <1>1, LinksTop DEF LinksSoFar
<1>3. /\ g \in FrameRecord /\ g.at = Top.at /\ g.url = Top.url
      /\ g.depth = Top.depth /\ g.i = 0
  <2>1. g \in FrameRecord
    BY <1>2, FrameMoves DEF Visiting
  <2> QED BY <1>2, <2>1 DEF Advance, FrameRecord
<1>4. Top.i \in Nat /\ Top.count \in Nat /\ Top.i > 0
  BY <1>1, SteadyTop DEF Visiting
<1> HIDE DEF g
<1>5. ASSUME Len(stack) = 1, Top.at = "html" PROVE LinksOf(Start) \subseteq visited
  <2>1. Top.count = Len(StartLinks)
    BY <1>2, <1>4, <1>5, LinksFacts DEF TidyFrame, LinksSoFar, Visiting
  <2>2. \A j \in DOMAIN StartLinks : j < Top.i
    BY <1>1, <1>4, <2>1, LinksFacts DEF Visiting
  <2>3. \A j \in DOMAIN StartLinks : StartLinks[j] \in visited
    BY <1>2, <1>4, <1>5, <2>2 DEF LinksSoFar
  <2> QED BY <2>3, LinksFacts DEF Visiting
<1>6. ASSUME Len(stack) = 1 PROVE LinksSoFar(g, FALSE)
  BY <1>2, <1>3, <1>5, <1>6, ~(0 > 0) DEF LinksSoFar
<1>7. (ret' # "none") = FALSE
  BY <1>1
<1> QED BY <1>1, <1>3, <1>6, <1>7, LinksReplace

LEMMA LinksJustReturn ==
  ASSUME Visiting, JustReturn
  PROVE  LinksInv'
<1> DEFINE g == [Top EXCEPT !.strict = TRUE]
<1>1. /\ stack # <<>> /\ Becomes(g) /\ UNCHANGED <<program, site, visited>>
      /\ Top.i > 0 /\ Top.run.does \cap {"return", "fail"} # {}
  BY ActingFacts DEF JustReturn, Calling, Becomes, counts, Visiting
<1>2. /\ Top \in FrameRecord /\ TidyFrame(Top)
      /\ Len(stack) = 1 => LinksSoFar(Top, ret # "none")
  BY <1>1, LinksTop
<1>3. /\ g \in FrameRecord /\ g.at = Top.at /\ g.url = Top.url
      /\ g.depth = Top.depth
  BY <1>2 DEF FrameRecord
<1> HIDE DEF g
<1>4. Top.at # "html"
  BY <1>1, <1>2, LinksFacts DEF TidyFrame, Visiting
<1>5. Len(stack) = 1 => LinksSoFar(g, ret' # "none")
  BY <1>2, <1>3, <1>4 DEF LinksSoFar
<1> QED BY <1>1, <1>3, <1>5, LinksReplace

(* A link that is refused has been visited, for it is not too deep.        *)
LEMMA LinksVisitLink ==
  ASSUME Visiting, VisitLink
  PROVE  LinksInv'
<1> DEFINE g == [Top EXCEPT !.strict = FALSE]
           n == Len(stack)
<1>1. /\ Acting("visit") /\ Scrape(Target, Top.depth + 1, Calling(FALSE))
      /\ stack # <<>> /\ ret = "none" /\ Top.at = "html" /\ Top.i > 0
      /\ Target \in Docs
  <2>1. ~Acting("enter") /\ ~Acting("follow")
    BY TidyActing, LinksFacts DEF Visiting
  <2>2. Acting("visit") => /\ stack # <<>> /\ ret = "none" /\ Top.at = "html"
                           /\ Top.i > 0 /\ Target \in Docs
    BY TidyActing, LinksFacts DEF Visiting
  <2> QED BY <2>1, <2>2 DEF VisitLink
<1>2. UNCHANGED <<program, site>> /\ Target # NoURL
  BY <1>1, CallbacksAssumption DEF VisitLink, Docs, NoURL
<1>3. /\ Top \in FrameRecord /\ TidyFrame(Top) /\ n \in Nat \ {0}
      /\ n = 1 => LinksSoFar(Top, FALSE)
  BY <1>1, LinksTop DEF LinksSoFar
<1>4. /\ g \in FrameRecord /\ g.at = Top.at /\ g.url = Top.url
      /\ g.depth = Top.depth /\ g.i = Top.i /\ g.cb = Top.cb /\ g.strict = FALSE
  BY <1>3 DEF FrameRecord
<1>5. Calling(FALSE) = Append(Under, g)
  BY DEF Calling
<1> HIDE DEF g
<1>6. /\ Calling(FALSE) \in Seq(FrameRecord) /\ Len(Calling(FALSE)) = n
      /\ Calling(FALSE) # <<>>
      /\ n = 1 => Calling(FALSE)[1] = g
      /\ n > 1 => Calling(FALSE)[1] = stack[1]
  <2>1. /\ Calling(FALSE) \in Seq(FrameRecord) /\ Len(Calling(FALSE)) = n
        /\ Calling(FALSE) # <<>>
        /\ Calling(FALSE)[n] = g
        /\ \A k \in 1..(n - 1) : Calling(FALSE)[k] = stack[k]
    BY <1>1, <1>4, <1>5, Replacing DEF Visiting, RangesInv
  <2>2. n > 1 => 1 \in 1..(n - 1)
    BY <1>3
  <2> QED BY <2>1, <2>2
<1>7. /\ visited \subseteq visited' /\ (n = 1 => Target \in visited')
      /\ \/ stack' = Calling(FALSE) /\ ret' # "none"
         \/ \E h \in FrameRecord : stack' = Append(Calling(FALSE), h)
  <2>1. CASE /\ Refused(Target, Top.depth + 1) /\ stack' = Calling(FALSE)
             /\ ret' = "err" /\ UNCHANGED visited
    <3>1. ASSUME n = 1 PROVE Target \in visited
      <4>1. Top.depth = 1
        BY <1>3, <3>1 DEF LinksSoFar
      <4>2. settings.maxDepth \in Nat /\ settings.maxDepth >= 2
        BY SettingTypes DEF Visiting, RangesInv, OnlyVisits, Tidy
      <4>3. ~TooDeep(Top.depth + 1)
        BY <4>1, <4>2 DEF TooDeep
      <4> QED BY <2>1, <4>3 DEF Refused
    <3> QED BY <2>1, <3>1
  <2>2. CASE /\ visited' = visited \cup {Target}
             /\ stack' = Append(Calling(FALSE), Frame(Target, Top.depth + 1, Head(pool)))
    <3>1. /\ Head(pool) \in Pages /\ Target \in Shown \cup {NoURL}
          /\ Top.depth + 1 \in Nat
      BY <1>1, SteadyTop, HeadTailProperties DEF Visiting, RangesInv, TypeOK, Shown
    <3>2. Frame(Target, Top.depth + 1, Head(pool)) \in FrameRecord
      BY <3>1, Beginning DEF Visiting, RangesInv
    <3> QED BY <2>2, <3>2
  <2> QED BY <1>1, <1>2, <2>1, <2>2 DEF Scrape
<1>8. /\ stack' # <<>> /\ stack'[1] = Calling(FALSE)[1]
      /\ Len(stack') >= n /\ Len(stack') \in Nat
      /\ Len(stack') > 1 \/ ret' # "none"
  <2> HIDE DEF n
  <2>1. CASE stack' = Calling(FALSE) /\ ret' # "none"
    <3>1. stack' # <<>> /\ stack'[1] = Calling(FALSE)[1] /\ Len(stack') = n
      BY <1>6, <2>1
    <3>2. n \in Nat
      BY <1>3
    <3>3. Len(stack') >= n /\ Len(stack') \in Nat
      BY <3>1, <3>2
    <3> QED BY <2>1, <3>1, <3>3
  <2>2. ASSUME NEW h \in FrameRecord, stack' = Append(Calling(FALSE), h)
        PROVE  /\ stack' # <<>> /\ stack'[1] = Calling(FALSE)[1]
               /\ Len(stack') = n + 1
    <3>1. 1 \in 1..n
      BY <1>3
    <3> DEFINE s == Calling(FALSE)
    <3>2. s \in Seq(FrameRecord) /\ Len(s) = n /\ stack' = Append(s, h)
      BY <1>6, <2>2
    <3> HIDE DEF s
    <3>3. /\ Append(s, h) # <<>> /\ Len(Append(s, h)) = n + 1
          /\ \A k \in 1..n : Append(s, h)[k] = s[k]
      BY <3>2, Pushing
    <3>4. stack' # <<>> /\ stack'[1] = s[1] /\ Len(stack') = n + 1
      BY <3>1, <3>2, <3>3
    <3> QED BY <3>4 DEF s
  <2>3. ASSUME NEW h \in FrameRecord, stack' = Append(Calling(FALSE), h)
        PROVE  Len(stack') >= n /\ Len(stack') \in Nat /\ Len(stack') > 1
    <3>1. Len(stack') = n + 1
      BY <2>2, <2>3
    <3> QED BY <1>3, <3>1
  <2> QED BY <1>7, <2>1, <2>2, <2>3
<1>9. CASE n = 1
  <2>1. LinksSoFar(Top, FALSE) /\ TidyShape
    BY <1>3, <1>9 DEF Visiting, TidyState, TidyShape
  <2>2. Target = StartLinks[Top.i]
    <3>1. Showing(Top.page) = Start
      BY <1>1, <2>1, TidyShows DEF Visiting, Loaded, LinksSoFar
    <3>2. Top.run = HtmlCallback
      BY <1>1, <1>3 DEF TidyFrame
    <3>3. Offered(Top, Top.run.sel) = Elements(Showing(Top.page), Top.run.sel)
      BY <1>1, OfferedHere DEF Serp
    <3> QED BY <3>1, <3>2, <3>3, LinksFacts DEF Target, Visiting
  <2>3. stack'[1] = g /\ g.i \in Nat
    BY <1>4, <1>6, <1>8, <1>9 DEF FrameRecord
  <2>4. \A j \in DOMAIN StartLinks : j < g.i => StartLinks[j] \in visited'
    BY <1>1, <1>4, <1>7, <2>1 DEF LinksSoFar
  <2>5. \A j \in DOMAIN StartLinks : j = g.i => StartLinks[j] \in visited'
    BY <1>4, <1>7, <1>9, <2>2
  <2>6. StartLinks' = StartLinks /\ LinksOf(Start)' = LinksOf(Start)
    BY <1>2 DEF StartLinks, LinksOf, HtmlCallback
  <2>7. /\ g.url = Start /\ g.depth = 1 /\ g.at = "html"
        /\ g.cb > 1 => LinksOf(Start) \subseteq visited'
    BY <1>1, <1>4, <1>7, <2>1 DEF LinksSoFar
  <2>8. LinksSoFar(stack[1], Len(stack) > 1 \/ ret # "none")'
    BY <1>4, <2>3, <2>4, <2>5, <2>6, <2>7 DEF LinksSoFar
  <2> QED BY <1>8, <2>8 DEF LinksInv
<1>10. CASE n # 1
  <2> HIDE DEF n
  <2>1. n > 1
    BY <1>3, <1>10
  <2>2. Len(stack) > 1
    BY <2>1 DEF n
  <2>3. stack'[1] = stack[1]
    BY <1>6, <1>8, <2>1
  <2> QED BY <1>2, <1>7, <1>8, <2>2, <2>3, LinksDeep
<1> QED BY <1>9, <1>10

LEMMA LinksReturn ==
  ASSUME Visiting, Return
  PROVE  LinksInv'
<1>1. /\ stack # <<>> /\ ret # "none" /\ ret' = "none"
      /\ UNCHANGED <<program, site, visited>>
      /\ \/ Leaves(Top) /\ Becomes(Failing(Top))
         \/ Becomes([Top EXCEPT !.i = @ + 1])
  BY DEF Return, counts
<1>2. /\ Top \in FrameRecord /\ TidyFrame(Top) /\ Top.i \in Nat /\ Top.i > 0
      /\ Len(stack) = 1 => LinksSoFar(Top, TRUE)
  BY <1>1, LinksTop, SteadyTop DEF Visiting, LinksSoFar
<1>3. CASE Leaves(Top) /\ Becomes(Failing(Top))
  <2> DEFINE g == Failing(Top)
  <2>1. /\ g \in FrameRecord /\ g.url = Top.url /\ g.depth = Top.depth
        /\ g.at = "error"
    BY <1>2, FailingFields, FrameMoves DEF Visiting
  <2>2. Becomes(g)
    BY <1>3
  <2> HIDE DEF g
  <2>3. ASSUME Len(stack) = 1 PROVE Top.at = "paging"
    <3>1. Top.at # "html"
      BY <1>2, <1>3, <2>3 DEF Leaves, LinksSoFar
    <3> QED BY <1>3, <3>1 DEF Leaves, Serp
  <2>4. ASSUME Len(stack) = 1 PROVE LinksSoFar(g, FALSE)
    BY <1>2, <2>1, <2>3, <2>4 DEF LinksSoFar
  <2>5. (ret' # "none") = FALSE
    BY <1>1
  <2> QED BY <1>1, <2>1, <2>2, <2>4, <2>5, LinksReplace
<1>4. CASE Becomes([Top EXCEPT !.i = @ + 1])
  <2> DEFINE g == [Top EXCEPT !.i = @ + 1]
  <2>1. /\ g \in FrameRecord /\ g.i = Top.i + 1
    BY <1>2, FrameMoves DEF Visiting
  <2>2. /\ g.at = Top.at /\ g.url = Top.url /\ g.depth = Top.depth
        /\ g.cb = Top.cb
    BY <1>2 DEF FrameRecord
  <2>3. Becomes(g)
    BY <1>4
  <2> HIDE DEF g
  <2>4. \A j \in DOMAIN StartLinks : j < g.i => j < Top.i \/ j = Top.i
    BY <1>2, <2>1, LinksFacts DEF Visiting
  <2>5. ASSUME Len(stack) = 1 PROVE LinksSoFar(g, FALSE)
    <3>1. LinksSoFar(Top, TRUE)
      BY <1>2, <2>5
    <3>2. Top.at = "html" =>
            \A j \in DOMAIN StartLinks : j < g.i => StartLinks[j] \in visited
      BY <1>2, <2>4, <3>1 DEF LinksSoFar
    <3> QED BY <2>2, <3>1, <3>2 DEF LinksSoFar
  <2>6. (ret' # "none") = FALSE
    BY <1>1
  <2> QED BY <1>1, <2>1, <2>3, <2>5, <2>6, LinksReplace
<1> QED BY <1>1, <1>3, <1>4

LEMMA LinksStageOver ==
  ASSUME Visiting, StageOver
  PROVE  LinksInv'
<1>1. /\ stack # <<>> /\ ret = "none" /\ Top.at \in Lists /\ Top.i = 0
      /\ Top.cb > Top.over.len /\ UNCHANGED <<program, site, visited>>
  BY DEF StageOver, InRange, counts
<1>2. /\ Top \in FrameRecord /\ TidyFrame(Top) /\ Len(stack) \in Nat \ {0}
      /\ Len(stack) = 1 => LinksSoFar(Top, FALSE)
  BY <1>1, LinksTop DEF LinksSoFar
<1>3. Top.at = "html" => Top.cb > 1
  BY <1>1, <1>2 DEF TidyFrame
<1>4. CASE stack' = Under /\ ret' # "none" /\ Top.at \in {"data", "error", "scraped"}
  <2>1. /\ Len(stack') = Len(stack) - 1
        /\ stack' \in Seq(FrameRecord)
        /\ \A k \in 1..(Len(stack) - 1) : stack'[k] = stack[k]
    BY <1>1, <1>4, TopFrame DEF Visiting, RangesInv
  <2>2. CASE Len(stack) = 1
    <3>1. stack' = <<>>
      <4>1. Len(stack') = 0
        BY <2>1, <2>2
      <4> QED BY <2>1, <4>1, EmptySeq
    <3>2. LinksOf(Start) \subseteq visited
      BY <1>2, <1>4, <2>2 DEF LinksSoFar
    <3>3. LinksOf(Start)' = LinksOf(Start) /\ visited' = visited
      BY <1>1 DEF LinksOf, HtmlCallback
    <3> QED BY <1>4, <3>1, <3>2, <3>3 DEF LinksInv
  <2>3. CASE Len(stack) # 1
    <3>1. Len(stack) > 1 /\ 1 \in 1..(Len(stack) - 1) /\ Len(stack') > 0
      BY <1>2, <2>1, <2>3
    <3>2. stack' # <<>> /\ stack'[1] = stack[1]
      BY <2>1, <3>1
    <3> QED BY <1>1, <1>4, <3>1, <3>2, LinksDeep
  <2> QED BY <2>2, <2>3
<1>5. CASE /\ Top.at \notin {"error", "scraped"}
           /\ Becomes(Enter(Top, NextStage(Top.at)))
           /\ ret' = ret
  <2> DEFINE l == NextStage(Top.at)
             g == Enter(Top, l)
  <2>1. /\ l \in Lists \cup {"get"} /\ l # "error"
        /\ l \in {"data", "paging", "scraped"} => Top.at \in {"html", "data", "paging"}
    BY <1>1, <1>5 DEF NextStage, Lists, Serp
  <2>2. Becomes(g)
    BY <1>5
  <2> HIDE DEF l
  <2>3. /\ g \in FrameRecord /\ g.url = Top.url /\ g.depth = Top.depth
        /\ g.at = l /\ g.i = 0 /\ g.cb = 1
    BY <1>2, <2>1, EnterFields, Entering DEF Visiting, RangesInv
  <2> HIDE DEF g
  <2>4. ASSUME Len(stack) = 1, l \in {"data", "paging", "scraped"}
        PROVE  LinksOf(Start) \subseteq visited
    BY <1>2, <1>3, <2>1, <2>4 DEF LinksSoFar
  <2>5. ASSUME Len(stack) = 1 PROVE LinksSoFar(g, FALSE)
    <3>1. g.url = Start /\ g.depth = 1
      BY <1>2, <2>3, <2>5 DEF LinksSoFar
    <3>2. ~(g.i > 0) /\ ~(g.cb > 1)
      BY <2>3
    <3> QED BY <2>1, <2>3, <2>4, <2>5, <3>1, <3>2 DEF LinksSoFar
  <2>6. (ret' # "none") = FALSE
    BY <1>1, <1>5
  <2> QED BY <1>1, <2>2, <2>3, <2>5, <2>6, LinksReplace
<1>6. \/ stack' = Under /\ ret' # "none" /\ Top.at \in {"data", "error", "scraped"}
      \/ /\ Top.at \notin {"error", "scraped"}
         /\ Becomes(Enter(Top, NextStage(Top.at)))
         /\ ret' = ret
  BY DEF StageOver, Finish
<1> QED BY <1>4, <1>5, <1>6

LEMMA InitLinks ==
  ASSUME Init
  PROVE  LinksInv
BY DEF Init, LinksInv

LEMMA NextLinks ==
  ASSUME RangesInv, TidyInv, LinksInv, [Next]_vars
  PROVE  LinksInv'
<1> SUFFICES ASSUME OnlyVisits' PROVE LinksInv'
  BY DEF LinksInv
<1>1. OnlyVisits
  BY ProgramStays DEF OnlyVisits, Tidy, HtmlCallback, Harmless, settings
<1>2. Visiting /\ Tidy
  BY <1>1 DEF TidyInv, Visiting, OnlyVisits
<1>3. CASE UNCHANGED vars
  <2>1. UNCHANGED <<program, site, stack, ret, visited>>
    BY <1>3 DEF vars, counts
  <2> QED BY <2>1 DEF LinksInv, OnlyVisits, Tidy, HtmlCallback, Harmless, settings,
         LinksSoFar, LinksOf, StartLinks
<1> QED BY <1>2, <1>3, LinksVisit, LinksMustGet, LinksNextCallback,
           LinksCallbackOver, TidyElementMissed, LinksJustReturn, LinksVisitLink,
           TidyNever, LinksReturn, LinksStageOver DEF Next, Step, Visiting

LEMMA LinksAlways == Spec => []LinksInv
BY InitLinks, NextLinks, TidyAlways, RangesInvariant, PTL DEF Spec

(* README.md:9, "Find and visit all links": when the client's Visit        *)
(* returns, every link of the start page has been visited.                 *)
THEOREM LinksAreVisited == Spec => []AllLinksVisited
<1>1. LinksInv => AllLinksVisited
  BY DEF LinksInv, AllLinksVisited, Returned
<1> QED BY <1>1, LinksAlways, PTL

(* All that the theorems above rest on holds in every reachable state of   *)
(* fetch and its handleOn... stages (roddy.go:185).                        *)
THEOREM CallbacksInvariant == Spec => []CallbacksInv
BY RangesInvariant, WaitsAlways, WithinAlways, PagesAlways, TidyAlways, LinksAlways,
   PTL DEF CallbacksInv

=============================================================================
