------------------------------ MODULE ShellProofs ------------------------------
(***************************************************************************)
(* Proofs about Shell: families stay linked in both directions, focused    *)
(* surfaces stay watched, the focus bookkeeping stays sound and a lost     *)
(* focus is replaced, for any number of windows and seats and any cap on   *)
(* the walks.                                                              *)
(*                                                                         *)
(* The first part is about the recursive functions of Shell: induction     *)
(* over an interval is had from the well-foundedness of the naturals.      *)
(***************************************************************************)
EXTENDS Shell, FiniteSetTheorems, SequenceTheorems, TLAPS

LEMMA NaturalsAreWellOrdered ==
  ASSUME NEW T \in SUBSET Nat, T # {}
  PROVE  \E n \in T : \A m \in T : n <= m
<1> DEFINE R == {p \in Nat \X Nat : p[1] < p[2]}
<1>1. R = OpToRel(<, Nat)
  BY Zenon DEF OpToRel
<1>2. IsWellFoundedOn(R, Nat)
  BY <1>1, NatLessThanWellFounded
<1>3. PICK x \in T : \A y \in T : ~ (<<y, x>> \in R)
  <2> HIDE DEF R
  <2> QED BY <1>2, WFMin
<1>4. \A y \in T : ~ (y < x)
  BY <1>3
<1> QED BY <1>4

LEMMA IntervalInduction ==
  ASSUME NEW M \in Nat, NEW P, 0 \in P,
         \A n \in 0 .. M - 1 : n \in P => n + 1 \in P
  PROVE  \A n \in 0 .. M : n \in P
<1> DEFINE T == {n \in 0 .. M : n \notin P}
<1> SUFFICES ASSUME T # {} PROVE FALSE
  OBVIOUS
<1>1. T \in SUBSET Nat
  OBVIOUS
<1>2. PICK n \in T : \A m \in T : n <= m
  <2> HIDE DEF T
  <2> QED BY <1>1, NaturalsAreWellOrdered
<1>3. n - 1 \in 0 .. M - 1 /\ n - 1 \in P
  BY <1>2
<1> QED BY <1>2, <1>3

Extended(g, n, v) == [m \in 0 .. n + 1 |-> IF m = n + 1 THEN v ELSE g[m]]

\* A function defined along an interval exists.
Iterates(g, n, X, x0, step) ==
  /\ g \in [0 .. n -> X]
  /\ g[0] = x0
  /\ \A m \in 1 .. n : g[m] = step[<<m, g[m - 1]>>]

LEMMA IterationExists ==
  ASSUME NEW M \in Nat, NEW X, NEW x0 \in X, NEW step \in [(1 .. M) \X X -> X]
  PROVE  \E g : Iterates(g, M, X, x0, step)
<1> DEFINE P == {n \in 0 .. M : \E g : Iterates(g, n, X, x0, step)}
<1>1. 0 \in P
  <2>1. Iterates([m \in 0 .. 0 |-> x0], 0, X, x0, step)
    BY DEF Iterates
  <2> QED BY <2>1
<1>2. ASSUME NEW n \in 0 .. M - 1, n \in P PROVE n + 1 \in P
  <2>1. PICK g : Iterates(g, n, X, x0, step)
    BY <1>2
  <2> DEFINE v == step[<<n + 1, g[n]>>]
             h == Extended(g, n, v)
  <2>2. n \in Nat /\ g \in [0 .. n -> X] /\ v \in X
    BY <2>1 DEF Iterates
  <2>3. h \in [0 .. n + 1 -> X] /\ \A m \in 0 .. n : h[m] = g[m]
    <3> HIDE DEF v
    <3> QED BY <2>2 DEF Extended
  <2>4. h[n + 1] = v
    <3>1. n + 1 \in 0 .. n + 1
      OBVIOUS
    <3> HIDE DEF v
    <3> QED BY <3>1 DEF Extended
  <2>5. Iterates(h, n + 1, X, x0, step)
    <3> HIDE DEF h
    <3>1. h[0] = x0
      BY <2>1, <2>3 DEF Iterates
    <3>2. ASSUME NEW m \in 1 .. n + 1 PROVE h[m] = step[<<m, h[m - 1]>>]
      <4>1. CASE m \in 1 .. n
        BY <4>1, <2>1, <2>3 DEF Iterates
      <4>2. CASE m = n + 1
        <5>1. m - 1 = n /\ n \in 0 .. n
          BY <4>2
        <5> QED BY <5>1, <4>2, <2>3, <2>4
      <4> QED BY <4>1, <4>2
    <3> QED BY <3>1, <3>2, <2>3 DEF Iterates
  <2>6. n + 1 \in 0 .. M
    OBVIOUS
  <2> QED BY <2>5, <2>6
<1>3. M \in P
  <2> HIDE DEF P
  <2> QED BY <1>1, <1>2, IntervalInduction
<1> QED BY <1>3

LEMMA OnlyUnfolds ==
  ASSUME NEW W, NEW seq \in Seq(W), NEW S
  PROVE  \E f : /\ f[0] = <<>>
                /\ \A n \in 1 .. Len(seq) :
                     f[n] = f[n - 1] \o (IF seq[n] \in S THEN <<seq[n]>> ELSE <<>>)
                /\ Only(seq, S) = f[Len(seq)]
<1> DEFINE M == Len(seq)
           X == Seq(W)
           step == [p \in (1 .. M) \X X |->
                      p[2] \o (IF seq[p[1]] \in S THEN <<seq[p[1]]>> ELSE <<>>)]
           Eq(g) == g = [n \in 0 .. M |->
                     IF n = 0 THEN <<>>
                     ELSE g[n - 1] \o (IF seq[n] \in S THEN <<seq[n]>> ELSE <<>>)]
           f == CHOOSE g : Eq(g)
<1>0. M \in Nat /\ \A n \in 1 .. M : seq[n] \in W
  OBVIOUS
<1>1. step \in [(1 .. M) \X X -> X]
  <2> HIDE DEF M
  <2> QED BY <1>0
<1>2. <<>> \in X
  OBVIOUS
<1>3. PICK g : Iterates(g, M, X, <<>>, step)
  <2> HIDE DEF step, M, X
  <2> QED BY <1>0, <1>1, <1>2, IterationExists
<1>4. ASSUME NEW m \in 1 .. M
      PROVE  g[m] = g[m - 1] \o (IF seq[m] \in S THEN <<seq[m]>> ELSE <<>>)
  <2>1. <<m, g[m - 1]>> \in (1 .. M) \X X /\ g[m] = step[<<m, g[m - 1]>>]
    <3> HIDE DEF M, X, step
    <3> QED BY <1>0, <1>3 DEF Iterates
  <2> HIDE DEF M, X
  <2> QED BY <2>1
<1>5. g \in [0 .. M -> X] /\ g[0] = <<>>
  <2> HIDE DEF M, X, step
  <2> QED BY <1>3 DEF Iterates
<1>6. Eq(g)
  <2>1. \A n \in 0 .. M : n # 0 => n \in 1 .. M
    BY <1>0
  <2>2. \A n \in 0 .. M : g[n] = IF n = 0 THEN <<>>
                     ELSE g[n - 1] \o (IF seq[n] \in S THEN <<seq[n]>> ELSE <<>>)
    <3> HIDE DEF M, X
    <3> QED BY <1>4, <1>5, <2>1
  <2>3. g = [n \in 0 .. M |-> g[n]]
    <3> HIDE DEF M, X
    <3> QED BY <1>5
  <2> HIDE DEF M, X
  <2> QED BY <2>2, <2>3
<1>7. Eq(f)
  <2> HIDE DEF Eq
  <2> QED BY <1>6
<1>8. f[0] = <<>> /\ \A n \in 1 .. M : 
        f[n] = f[n - 1] \o (IF seq[n] \in S THEN <<seq[n]>> ELSE <<>>)
  <2> HIDE DEF f, M
  <2>1. 0 \in 0 .. M /\ \A n \in 1 .. M : n \in 0 .. M /\ n # 0
    BY <1>0
  <2> QED BY <2>1, <1>7
<1>9. Only(seq, S) = f[M]
  BY DEF Only
<1> HIDE DEF f
<1> QED BY <1>8, <1>9

\* v occurs at most once in the first n elements of s.
Once(s, n, v) == \A i, j \in 1 .. n : s[i] = v /\ s[j] = v => i = j

LEMMA AppendedOnce ==
  ASSUME NEW W, NEW s \in Seq(W), NEW x \in W, NEW v, Once(s, Len(s), v),
         v = x => \A i \in 1 .. Len(s) : s[i] # x
  PROVE  Once(Append(s, x), Len(Append(s, x)), v)
BY DEF Once

LEMMA AppendedRange ==
  ASSUME NEW W, NEW s \in Seq(W), NEW x \in W
  PROVE  Range(Append(s, x)) = Range(s) \cup {x}
<1>1. \A i \in 1 .. Len(s) : Append(s, x)[i] = s[i] /\ i \in 1 .. Len(s) + 1
  OBVIOUS
<1>2. Append(s, x)[Len(s) + 1] = x /\ Len(s) + 1 \in 1 .. Len(s) + 1
  OBVIOUS
<1>3. DOMAIN Append(s, x) = 1 .. Len(s) + 1 /\ DOMAIN s = 1 .. Len(s)
  OBVIOUS
<1>4. \A i \in 1 .. Len(s) + 1 : i = Len(s) + 1 \/ i \in 1 .. Len(s)
  OBVIOUS
<1> QED BY <1>1, <1>2, <1>3, <1>4 DEF Range

LEMMA OnlyProperties ==
  ASSUME NEW W, NEW seq \in Seq(W), NEW S
  PROVE  /\ Only(seq, S) \in Seq(W)
         /\ Range(Only(seq, S)) = Range(seq) \cap S
         /\ \A v : Once(seq, Len(seq), v) => Once(Only(seq, S), Len(Only(seq, S)), v)
<1> DEFINE M == Len(seq)
           In(n) == {seq[i] : i \in 1 .. n} \cap S
<1>1. PICK f : /\ f[0] = <<>>
               /\ \A n \in 1 .. M :
                    f[n] = f[n - 1] \o (IF seq[n] \in S THEN <<seq[n]>> ELSE <<>>)
               /\ Only(seq, S) = f[M]
  BY OnlyUnfolds
<1>2. M \in Nat /\ DOMAIN seq = 1 .. M /\ \A n \in 1 .. M : seq[n] \in W
  OBVIOUS
<1> DEFINE Good(n) == /\ f[n] \in Seq(W)
                      /\ Range(f[n]) = In(n)
                      /\ \A v : Once(seq, n, v) => Once(f[n], Len(f[n]), v)
           P == {n \in 0 .. M : Good(n)}
<1>3. 0 \in P
  <2>1. <<>> \in Seq(W) /\ Range(<<>>) = {} /\ In(0) = {} /\ \A v : Once(<<>>, Len(<<>>), v)
    BY DEF Range, Once
  <2>2. Good(0)
    <3> HIDE DEF In, M
    <3> QED BY <1>1, <2>1
  <2> HIDE DEF Good
  <2> QED BY <1>2, <2>2
<1>4. ASSUME NEW n \in 0 .. M - 1, n \in P PROVE n + 1 \in P
  <2> DEFINE x == seq[n + 1]
  <2>1. Good(n)
    BY <1>4
  <2>2. x \in W /\ f[n + 1] = IF x \in S THEN Append(f[n], x) ELSE f[n]
    <3>1. n + 1 \in 1 .. M /\ n + 1 - 1 = n
      BY <1>2
    <3>2. x \in W /\ f[n + 1] = f[n] \o (IF x \in S THEN <<x>> ELSE <<>>)
      <4> HIDE DEF M, Good, P
      <4>1. PICK m \in 1 .. M : m = n + 1
        BY <3>1
      <4>2. m - 1 = n
        BY <4>1
      <4> QED BY <4>1, <4>2, <1>1, <1>2
    <3>3. f[n] \in Seq(W)
      BY <2>1
    <3> HIDE DEF x, M, P, Good
    <3>4. f[n] \o <<x>> = Append(f[n], x) /\ f[n] \o <<>> = f[n]
      BY <3>2, <3>3
    <3> QED BY <3>2, <3>4
  <2>3. \A v : Once(seq, n + 1, v) => Once(seq, n, v)
    BY <1>2 DEF Once
  <2>4. In(n + 1) = IF x \in S THEN In(n) \cup {x} ELSE In(n)
    <3>1. \A i \in 1 .. n + 1 : i \in 1 .. n \/ i = n + 1
      BY <1>2
    <3>2. n + 1 \in 1 .. n + 1 /\ \A i \in 1 .. n : i \in 1 .. n + 1
      BY <1>2
    <3> QED BY <3>1, <3>2
  <2>5. CASE x \notin S
    <3> HIDE DEF x, M, In
    <3>1. Good(n + 1)
      BY <2>1, <2>2, <2>3, <2>4, <2>5
    <3> HIDE DEF Good
    <3> QED BY <3>1, <1>2
  <2>6. CASE x \in S
    <3>1. Range(f[n + 1]) = In(n + 1)
      <4>1. f[n + 1] = Append(f[n], x) /\ x \in W /\ In(n + 1) = In(n) \cup {x}
        <5> HIDE DEF x, In, M
        <5> QED BY <2>2, <2>4, <2>6
      <4>2. f[n] \in Seq(W) /\ Range(f[n]) = In(n)
        BY <2>1
      <4> HIDE DEF x, In, M, Good, P
      <4>3. Range(Append(f[n], x)) = Range(f[n]) \cup {x}
        BY <4>1, <4>2, AppendedRange
      <4> QED BY <4>1, <4>2, <4>3
    <3>2. ASSUME NEW v, Once(seq, n + 1, v) PROVE Once(f[n + 1], Len(f[n + 1]), v)
      <4>1. v = x => \A i \in 1 .. n : seq[i] # v
        BY <3>2, <1>2 DEF Once
      <4>2. v = x => v \notin Range(f[n])
        BY <4>1, <2>1
      <4>3. Once(f[n], Len(f[n]), v) /\ f[n + 1] = Append(f[n], x) /\ f[n] \in Seq(W)
        <5> HIDE DEF x, M
        <5> QED BY <2>1, <2>2, <2>3, <2>6, <3>2
      <4>4. v = x => \A i \in 1 .. Len(f[n]) : f[n][i] # v
        BY <4>2, <4>3, RangeEquality
      <4> HIDE DEF x, M
      <4> QED BY <4>3, <4>4, <2>2, AppendedOnce
    <3>3. Good(n + 1)
      <4>1. f[n + 1] \in Seq(W)
        <5> HIDE DEF x, M
        <5> QED BY <2>1, <2>2, <2>6
      <4> QED BY <3>1, <3>2, <4>1
    <3> HIDE DEF Good
    <3> QED BY <3>3, <1>2
  <2> QED BY <2>5, <2>6
<1>5. M \in P
  <2> HIDE DEF P, M
  <2> QED BY <1>2, <1>3, <1>4, IntervalInduction
<1>6. In(M) = Range(seq) \cap S
  BY <1>2 DEF Range
<1> HIDE DEF In, M
<1> QED BY <1>1, <1>5, <1>6 DEF M

LEMMA WalkStays ==
  ASSUME NEW link, NEW T, NEW w \in T, \A x \in T : link[x] \in T
  PROVE  Walk(link, w) \in T
<1> DEFINE M == MaxHops + 1
           step == [p \in (1 .. M) \X T |-> link[p[2]]]
           Eq(g) == g = [n \in 0 .. M |-> IF n = 0 THEN w ELSE link[g[n - 1]]]
           at == CHOOSE g : Eq(g)
<1>1. M \in Nat
  BY ShellAssumption
<1>2. PICK g : Iterates(g, M, T, w, step)
  <2>1. step \in [(1 .. M) \X T -> T]
    OBVIOUS
  <2> HIDE DEF step, M
  <2> QED BY <1>1, <2>1, IterationExists
<1>3. g \in [0 .. M -> T] /\ g[0] = w
  <2> HIDE DEF step, M
  <2> QED BY <1>2 DEF Iterates
<1>4. ASSUME NEW m \in 1 .. M PROVE m - 1 \in 0 .. M /\ g[m] = link[g[m - 1]]
  <2>1. m - 1 \in 0 .. M /\ <<m, g[m - 1]>> \in (1 .. M) \X T
    <3> HIDE DEF step, M
    <3> QED BY <1>1, <1>3
  <2>2. g[m] = step[<<m, g[m - 1]>>]
    <3> HIDE DEF step, M
    <3> QED BY <1>2 DEF Iterates
  <2> HIDE DEF M
  <2> QED BY <2>1, <2>2
<1>5. Eq(g)
  <2>1. \A n \in 0 .. M : n # 0 => n \in 1 .. M
    BY <1>1
  <2>2. g = [n \in 0 .. M |-> g[n]]
    <3> HIDE DEF M
    <3> QED BY <1>3
  <2>3. \A n \in 0 .. M : g[n] = IF n = 0 THEN w ELSE link[g[n - 1]]
    <3> HIDE DEF M
    <3> QED BY <1>3, <1>4, <2>1
  <2> HIDE DEF M
  <2> QED BY <2>2, <2>3
<1>6. Eq(at)
  <2> HIDE DEF Eq
  <2> QED BY <1>5
<1> DEFINE P == {n \in 0 .. M : at[n] \in T}
<1>7. 0 \in P
  <2>1. 0 \in 0 .. M
    BY <1>1
  <2> HIDE DEF at, M
  <2> QED BY <1>6, <2>1
<1>8. ASSUME NEW n \in 0 .. M - 1, n \in P PROVE n + 1 \in P
  <2>1. n + 1 \in 0 .. M /\ n + 1 # 0 /\ n + 1 - 1 = n
    BY <1>1
  <2> HIDE DEF at, M
  <2>2. \A m \in 0 .. M : m # 0 => at[m] = link[at[m - 1]]
    BY <1>6
  <2>3. \A m \in 0 .. M : m - 1 = n /\ m # 0 => at[m] = link[at[n]]
    BY <2>2
  <2> QED BY <1>8, <2>1, <2>3
<1>9. M \in P
  <2> HIDE DEF P, M
  <2> QED BY <1>1, <1>7, <1>8, IntervalInduction
<1>10. Walk(link, w) = at[M]
  BY DEF Walk
<1> HIDE DEF at, M
<1> QED BY <1>9, <1>10

-------------------------------------------------------------------------------
(***************************************************************************)
(* The inductive invariant.                                                *)
(***************************************************************************)

\* FamilyLinked without cardinalities.
Linked == \A w, p \in Window :
  /\ parent[w] = p <=> w \in Range(children[p])
  /\ Once(children[p], Len(children[p]), w)
  /\ w \in Range(children[p]) => {w, p} \subseteq surfaces

\* A surface that is gone for good.
Ended(es) == es \in Surface /\ ~Alive(es) /\ window[es.of] # "unborn"

\* The deferred events that may be pending.
Pending ==
  {SessionActivated} \cup {SeatGone(s) : s \in {r \in Seat : seat[r] = "gone"}}
    \cup {SurfaceGone(es, main) : es \in {x \in Surface : Ended(x)},
                                  main \in Window \cup {None}}

WorldSound ==
  /\ ~down => surfaces = {w \in Window : window[w] = "live"}
  /\ \A w \in Window : window[w] = "unborn" => w \notin subs
  /\ Visible \subseteq surfaces
  /\ down => todo = {} /\ queue = <<>> /\ ~open
  /\ IsFiniteSet(known)
  /\ IsFiniteSet({s \in Seat : focus[s] # None})

QueueSound == queue \in Seq(Pending)

\* What the running handler counts on: nothing else runs until it is done.
JobSound ==
  /\ todo = {} <=> job = Idle
  /\ todo # {} =>
       \/ job \in {MapJob(w) : w \in Window}
       \/ job = SessionJob /\ \A s \in todo : focused[s] # None
       \/ /\ job \in [op : {"hunt"}, surface : Surface, main : Window \cup {None}]
          /\ Ended(job.surface)
          /\ \A s \in todo : focus[s] = job.surface

IInv ==
  TypeOK /\ Linked /\ WorldSound /\ QueueSound /\ JobSound
    /\ FocusWatched /\ FocusKept

-------------------------------------------------------------------------------
(***************************************************************************)
(* Lists and walks of the shell.                                           *)
(***************************************************************************)

LEMMA WithoutProperties ==
  ASSUME NEW seq \in Seq(Window), NEW w
  PROVE  /\ Without(seq, w) \in Seq(Window)
         /\ Range(Without(seq, w)) = Range(seq) \ {w}
         /\ \A v : Once(seq, Len(seq), v)
                     => Once(Without(seq, w), Len(Without(seq, w)), v)
<1>1. Range(seq) \subseteq Window
  BY RangeEquality
<1>2. /\ Only(seq, Window \ {w}) \in Seq(Window)
      /\ Range(Only(seq, Window \ {w})) = Range(seq) \cap (Window \ {w})
      /\ \A v : Once(seq, Len(seq), v)
                  => Once(Only(seq, Window \ {w}), Len(Only(seq, Window \ {w})), v)
  BY OnlyProperties
<1> QED BY <1>1, <1>2 DEF Without

LEMMA RaisedProperties ==
  ASSUME views \in Seq(Window), NEW w \in Window
  PROVE  Raised(w) \in Seq(Window) /\ Range(Raised(w)) = {w} \cup Visible
<1> DEFINE rest == Without(views, w)
           top == <<w>>
<1>1. rest \in Seq(Window) /\ Range(rest) = Range(views) \ {w}
  BY WithoutProperties
<1>2. top \in Seq(Window) /\ Range(top) = {w}
  BY DEF Range
<1> HIDE DEF rest, top
<1>3. Range(top \o rest) = Range(top) \cup Range(rest)
  BY <1>1, <1>2, RangeConcatenation
<1>4. top \o rest \in Seq(Window) /\ Range(top \o rest) = {w} \cup Visible
  BY <1>1, <1>2, <1>3 DEF Visible
<1> QED BY <1>4 DEF Raised, rest, top

LEMMA ListedIsManaged ==
  ASSUME TypeOK, Linked, NEW w \in Window, NEW c \in Range(children[w])
  PROVE  c \in surfaces
<1>1. children[w] \in Seq(Window)
  BY DEF TypeOK
<1>2. c \in Window
  BY <1>1, RangeEquality
<1> QED BY <1>2 DEF Linked

LEMMA DescendIsManaged ==
  ASSUME TypeOK, Linked, NEW w \in surfaces
  PROVE  Descend(w) \in surfaces
<1> DEFINE link == [x \in Window |-> LastChildOf(x)]
<1>1. ASSUME NEW x \in surfaces PROVE LastChildOf(x) \in surfaces
  <2> DEFINE visible == Only(children[x], Visible)
  <2>1. x \in Window /\ children[x] \in Seq(Window)
    BY DEF TypeOK
  <2>2. visible \in Seq(Window) /\ Range(visible) \subseteq Range(children[x])
    BY <2>1, OnlyProperties
  <2> HIDE DEF visible
  <2>3. ASSUME visible # <<>> PROVE visible[Len(visible)] \in Range(visible)
    BY <2>2, <2>3, RangeEquality
  <2> QED BY <2>1, <2>2, <2>3, ListedIsManaged DEF LastChildOf, visible
<1>2. surfaces \subseteq Window
  BY DEF TypeOK
<1>3. \A x \in surfaces : link[x] \in surfaces
  BY <1>1, <1>2
<1> HIDE DEF link
<1>4. Walk(link, w) \in surfaces
  BY <1>3, WalkStays
<1> QED BY <1>4 DEF Descend, link

\* FamilyLinked in terms of Linked.
LEMMA LinkedIsFamily ==
  ASSUME TypeOK, Linked
  PROVE  FamilyLinked
<1> SUFFICES ASSUME NEW w \in Window, NEW p \in Window
             PROVE  LET at == {i \in DOMAIN children[p] : children[p][i] = w} IN
                      /\ parent[w] = p <=> at # {}
                      /\ at # {} => Cardinality(at) = 1 /\ {w, p} \subseteq surfaces
  BY DEF FamilyLinked
<1> DEFINE at == {i \in DOMAIN children[p] : children[p][i] = w}
<1>1. children[p] \in Seq(Window) /\ DOMAIN children[p] = 1 .. Len(children[p])
  BY DEF TypeOK
<1>2. at # {} <=> w \in Range(children[p])
  BY DEF Range
<1>3. ASSUME at # {} PROVE Cardinality(at) = 1
  <2>1. PICK i \in at : TRUE
    BY <1>3
  <2>2. at = {i}
    BY <1>1, <2>1 DEF Linked, Once
  <2> HIDE DEF at
  <2> QED BY <2>2, FS_Singleton
<1> HIDE DEF at
<1>4. /\ parent[w] = p <=> at # {}
      /\ at # {} => Cardinality(at) = 1 /\ {w, p} \subseteq surfaces
  BY <1>2, <1>3 DEF Linked
<1> QED BY <1>4 DEF at

-------------------------------------------------------------------------------
(***************************************************************************)
(* Activation.                                                             *)
(***************************************************************************)

Holding(held, es) == {s \in Seat : held[s] = es}

LEMMA NoneIsNothing == None \notin Window /\ None \notin Surface
BY ShellAssumption DEF Surface, Main, Sub

LEMMA SyncActivatedTyped ==
  ASSUME NEW act \in [Window -> BOOLEAN], NEW count, NEW w
  PROVE  SyncActivated(act, count, w) \in [Window -> BOOLEAN]
<1> DEFINE root == Root(w)
           some == \E d \in Descendants(root) \cap surfaces : count[d] > 0
<1> HIDE DEF root
<1>1. some \in BOOLEAN
  OBVIOUS
<1> HIDE DEF some
<1>2. [act EXCEPT ![root] = some] \in [Window -> BOOLEAN]
  BY <1>1
<1> QED BY <1>2 DEF SyncActivated, root, some

LEMMA ActivatedAfterTyped ==
  ASSUME TypeOK, NEW s, NEW w
  PROVE  ActivatedAfter(s, w) \in [Window -> BOOLEAN]
<1> DEFINE counts == CountsAfter(s, w)
           first == IF Crossed(focusCount, counts[1], focused[s])
                    THEN SyncActivated(activated, counts[1], focused[s]) ELSE activated
           last == IF Crossed(counts[1], counts[2], w)
                   THEN SyncActivated(first, counts[2], w) ELSE first
<1> HIDE DEF counts
<1>1. first \in [Window -> BOOLEAN]
  BY SyncActivatedTyped DEF TypeOK
<1> HIDE DEF first
<1>2. last \in [Window -> BOOLEAN]
  BY <1>1, SyncActivatedTyped
<1> QED BY <1>2 DEF ActivatedAfter, counts, first

\* The counts still cover the focus when seat s moves its focus to w.
LEMMA CountsAfterCover ==
  ASSUME TypeOK, FocusKept, IsFiniteSet(known), NEW s \in Seat, NEW w \in surfaces
  PROVE  LET moved == IF s \in known THEN [focused EXCEPT ![s] = w] ELSE focused
             count == CountsAfter(s, w)[2]
         IN /\ count \in [Window -> Int]
            /\ \A v \in Window : count[v] >= Cardinality({r \in known : moved[r] = v})
<1> DEFINE moved == IF s \in known THEN [focused EXCEPT ![s] = w] ELSE focused
           count == CountsAfter(s, w)[2]
           old == focused[s]
           Of(f, v) == {r \in known : f[r] = v}
<1>0. /\ focusCount \in [Window -> Int] /\ w \in Window /\ surfaces \subseteq Window
      /\ focused \in [Seat -> Window \cup {None}] /\ known \subseteq Seat
      /\ None \notin Window
  BY NoneIsNothing DEF TypeOK
<1>1. \A v \in Window : focusCount[v] >= Cardinality(Of(focused, v))
  BY DEF FocusKept, CountCoversFocus
<1>2. s \in known /\ old # None => old \in surfaces
  BY DEF FocusKept, FocusedIsManaged
<1>3. ASSUME NEW v, NEW f PROVE IsFiniteSet(Of(f, v)) /\ Cardinality(Of(f, v)) \in Nat
  <2>1. IsFiniteSet(Of(f, v))
    BY FS_Subset
  <2> HIDE DEF Of
  <2> QED BY <2>1, FS_CardinalityType
<1>4. CASE s \notin known \/ old = w
  <2>1. count = focusCount
    BY <1>4 DEF CountsAfter
  <2>2. moved = focused
    BY <1>0, <1>4
  <2> HIDE DEF Of, moved, count
  <2>3. \A v \in Window : count[v] >= Cardinality(Of(moved, v))
    BY <1>1, <2>1, <2>2
  <2> QED BY <1>0, <2>1, <2>3 DEF Of, moved, count
<1>5. CASE s \in known /\ old # w
  <2> DEFINE lost == IF old \in surfaces THEN [focusCount EXCEPT ![old] = @ - 1]
                     ELSE focusCount
  <2>1. count = [lost EXCEPT ![w] = @ + 1]
    BY <1>5 DEF CountsAfter
  <2>2. lost \in [Window -> Int]
    BY <1>0
  <2>3. count \in [Window -> Int]
    <3> HIDE DEF count, lost
    <3> QED BY <1>0, <2>1, <2>2
  <2>4. ASSUME NEW v \in Window PROVE count[v] >= Cardinality(Of(moved, v))
    <3>1. CASE v = w
      <4>1. Of(moved, v) = Of(focused, v) \cup {s} /\ s \notin Of(focused, v)
        BY <1>0, <1>5, <3>1
      <4>2. count[v] = focusCount[v] + 1
        BY <1>0, <1>5, <2>1, <2>2, <3>1
      <4>3. Cardinality(Of(moved, v)) = Cardinality(Of(focused, v)) + 1
        <5> HIDE DEF Of, moved
        <5> QED BY <1>3, <4>1, FS_AddElement
      <4> HIDE DEF Of, moved, count
      <4> QED BY <1>0, <1>1, <1>3, <4>2, <4>3
    <3>2. CASE v = old
      <4>1. Of(moved, v) = Of(focused, v) \ {s} /\ s \in Of(focused, v)
        BY <1>0, <1>5, <3>2
      <4>2. count[v] = focusCount[v] - 1
        <5>1. old \in surfaces
          BY <1>0, <1>2, <1>5, <3>2
        <5> QED BY <1>0, <1>5, <2>1, <3>2, <5>1
      <4>3. Cardinality(Of(moved, v)) = Cardinality(Of(focused, v)) - 1
        <5> HIDE DEF Of, moved
        <5> QED BY <1>3, <4>1, FS_RemoveElement
      <4> HIDE DEF Of, moved, count
      <4> QED BY <1>0, <1>1, <1>3, <4>2, <4>3
    <3>3. CASE v # w /\ v # old
      <4>1. Of(moved, v) = Of(focused, v)
        BY <1>0, <1>5, <3>3
      <4>2. count[v] = focusCount[v]
        BY <1>0, <1>5, <2>1, <2>2, <3>3
      <4> HIDE DEF Of, moved, count
      <4> QED BY <1>1, <4>1, <4>2
    <3> QED BY <3>1, <3>2, <3>3
  <2> HIDE DEF count, moved
  <2> QED BY <2>3, <2>4 DEF count, moved
<1> QED BY <1>4, <1>5

\* Shell.focus as a handler may leave it before it activates: unchanged, or
\* without a surface that died.
HeldBy(s, held) ==
  \/ held = focus
  \/ held = [focus EXCEPT ![s] = None] /\ focus[s] \in Surface /\ ~Alive(focus[s])

\* References and focus agree on the living, and only s leaves a dead surface.
Balanced(s, counts, held) ==
  /\ counts \in [Surface -> Nat]
  /\ held \in [Seat -> Surface \cup {None}]
  /\ IsFiniteSet({r \in Seat : held[r] # None})
  /\ \A es \in Surface :
       IF Alive(es) THEN counts[es] = Cardinality(Holding(held, es))
       ELSE counts[es] = 0 /\ Holding(held, es) \subseteq Holding(focus, es)

LEMMA HeldBalanced ==
  ASSUME TypeOK, WorldSound, FocusWatched, ~down, NEW s \in Seat, NEW held, HeldBy(s, held)
  PROVE  Balanced(s, tracked, held)
<1>0. /\ tracked \in [Surface -> Nat] /\ focus \in [Seat -> Surface \cup {None}]
      /\ None \notin Surface /\ IsFiniteSet({r \in Seat : focus[r] # None})
  BY NoneIsNothing DEF TypeOK, WorldSound
<1>1. ASSUME NEW es \in Surface
      PROVE  IF Alive(es) THEN tracked[es] = Cardinality(Holding(focus, es))
             ELSE tracked[es] = 0
  BY DEF FocusWatched, Holding
<1>2. CASE held = focus
  BY <1>0, <1>1, <1>2 DEF Balanced
<1>3. CASE held = [focus EXCEPT ![s] = None] /\ focus[s] \in Surface /\ ~Alive(focus[s])
  <2>1. {r \in Seat : held[r] # None} \subseteq {r \in Seat : focus[r] # None}
    BY <1>0, <1>3
  <2>2. IsFiniteSet({r \in Seat : held[r] # None})
    BY <1>0, <2>1, FS_Subset
  <2>3. ASSUME NEW es \in Surface
        PROVE  IF Alive(es) THEN Holding(held, es) = Holding(focus, es)
               ELSE Holding(held, es) \subseteq Holding(focus, es)
    BY <1>0, <1>3 DEF Holding
  <2>4. held \in [Seat -> Surface \cup {None}]
    BY <1>0, <1>3
  <2> QED BY <1>0, <1>1, <2>2, <2>3, <2>4 DEF Balanced
<1> QED BY <1>2, <1>3 DEF HeldBy

\* A seat that takes a living surface passes its reference on.
LEMMA TakingIsBalanced ==
  ASSUME TypeOK, NEW s \in Seat, NEW held, Balanced(s, tracked, held),
         NEW es \in Surface, Alive(es)
  PROVE  LET taken == [held EXCEPT ![s] = es]
             counts == Release(Track(tracked, es), held[s])
         IN /\ Balanced(s, counts, taken)
            /\ \A x \in Surface : ~Alive(x) =>
                 Holding(taken, x) \subseteq Holding(held, x)
<1> DEFINE taken == [held EXCEPT ![s] = es]
           more == Track(tracked, es)
           counts == Release(more, held[s])
<1>0. /\ tracked \in [Surface -> Nat] /\ held \in [Seat -> Surface \cup {None}]
      /\ None \notin Surface /\ IsFiniteSet({r \in Seat : held[r] # None})
      /\ \A x \in Surface :
           IF Alive(x) THEN tracked[x] = Cardinality(Holding(held, x))
           ELSE tracked[x] = 0 /\ Holding(held, x) \subseteq Holding(focus, x)
  BY NoneIsNothing DEF Balanced
<1>1. /\ more \in [Surface -> Nat] /\ more[es] = tracked[es] + 1
      /\ \A x \in Surface : x # es => more[x] = tracked[x]
  BY <1>0 DEF Track
<1>2. ASSUME NEW x \in Surface
      PROVE  IsFiniteSet(Holding(held, x)) /\ Cardinality(Holding(held, x)) \in Nat
  <2>1. Holding(held, x) \subseteq {r \in Seat : held[r] # None}
    BY <1>0 DEF Holding
  <2> QED BY <1>0, <2>1, FS_Subset, FS_CardinalityType
<1>3. counts \in [Surface -> Nat]
  <2> HIDE DEF more
  <2> QED BY <1>0, <1>1 DEF Release
<1>4. taken \in [Seat -> Surface \cup {None}] /\ taken[s] = es
  BY <1>0
<1>5. IsFiniteSet({r \in Seat : taken[r] # None})
  <2>1. {r \in Seat : taken[r] # None} \subseteq {r \in Seat : held[r] # None} \cup {s}
    BY <1>0
  <2> HIDE DEF taken
  <2>2. IsFiniteSet({r \in Seat : held[r] # None} \cup {s})
    BY <1>0, FS_AddElement
  <2> QED BY <2>1, <2>2, FS_Subset
<1>6. ASSUME NEW x \in Surface, ~Alive(x)
      PROVE  counts[x] = 0 /\ Holding(taken, x) \subseteq Holding(held, x)
  <2>1. more[x] = 0 /\ x # es
    BY <1>0, <1>1, <1>6
  <2>2. Holding(taken, x) \subseteq Holding(held, x)
    BY <1>0, <2>1 DEF Holding
  <2>3. counts[x] = 0
    <3> HIDE DEF more
    <3> QED BY <1>0, <1>1, <2>1 DEF Release
  <2> QED BY <2>2, <2>3
<1>7. ASSUME NEW x \in Surface, Alive(x)
      PROVE  counts[x] = Cardinality(Holding(taken, x))
  <2>1. CASE x = es /\ held[s] = es
    <3>1. Holding(taken, x) = Holding(held, x)
      BY <1>0, <2>1 DEF Holding
    <3>2. counts[x] = more[x] - 1
      <4> HIDE DEF more
      <4> QED BY <1>0, <1>1, <2>1 DEF Release
    <3> HIDE DEF counts, taken, more
    <3> QED BY <1>0, <1>1, <1>7, <2>1, <3>1, <3>2
  <2>2. CASE x = es /\ held[s] # es
    <3>1. Holding(taken, x) = Holding(held, x) \cup {s} /\ s \notin Holding(held, x)
      BY <1>0, <2>2 DEF Holding
    <3>2. counts[x] = more[x]
      <4> HIDE DEF more
      <4> QED BY <1>0, <1>1, <2>2 DEF Release
    <3> HIDE DEF counts, taken, more
    <3>3. Cardinality(Holding(taken, x)) = Cardinality(Holding(held, x)) + 1
      BY <1>2, <3>1, FS_AddElement
    <3> QED BY <1>0, <1>1, <1>7, <2>2, <3>2, <3>3
  <2>3. CASE x # es /\ held[s] = x
    <3>1. Holding(taken, x) = Holding(held, x) \ {s} /\ s \in Holding(held, x)
      BY <1>0, <2>3 DEF Holding
    <3>2. Cardinality(Holding(taken, x)) = Cardinality(Holding(held, x)) - 1
      <4> HIDE DEF counts, taken, more
      <4> QED BY <1>2, <3>1, FS_RemoveElement
    <3>3. Cardinality(Holding(held, x)) # 0
      <4> HIDE DEF counts, taken, more
      <4> QED BY <1>2, <3>1, FS_EmptySet
    <3>4. more[x] = Cardinality(Holding(held, x))
      <4> HIDE DEF counts, taken, more
      <4> QED BY <1>0, <1>1, <1>7, <2>3
    <3>5. counts[x] = more[x] - 1
      <4> HIDE DEF more, taken
      <4> QED BY <1>0, <1>1, <2>3, <3>3, <3>4 DEF Release
    <3> HIDE DEF counts, taken, more
    <3> QED BY <3>2, <3>4, <3>5
  <2>4. CASE x # es /\ held[s] # x
    <3>1. Holding(taken, x) = Holding(held, x)
      BY <1>0, <2>4 DEF Holding
    <3>2. counts[x] = more[x]
      <4> HIDE DEF more
      <4> QED BY <1>0, <1>1, <2>4 DEF Release
    <3> HIDE DEF counts, taken, more
    <3> QED BY <1>0, <1>1, <1>7, <2>4, <3>1, <3>2
  <2> QED BY <2>1, <2>2, <2>3, <2>4
<1>8. Balanced(s, counts, taken)
  <2>1. ASSUME NEW x \in Surface
        PROVE  IF Alive(x) THEN counts[x] = Cardinality(Holding(taken, x))
               ELSE counts[x] = 0 /\ Holding(taken, x) \subseteq Holding(focus, x)
    <3> HIDE DEF counts, taken
    <3> QED BY <1>0, <1>6, <1>7
  <2> HIDE DEF counts, taken
  <2> QED BY <1>3, <1>4, <1>5, <2>1 DEF Balanced
<1> HIDE DEF counts, taken
<1> QED BY <1>6, <1>8 DEF counts, taken, more

\* What a step may do that activates, or re-focuses, windows on seat s.
Moved(s, held) ==
  /\ views' \in Seq(Window) /\ Range(views') \subseteq surfaces
  /\ activated' \in [Window -> BOOLEAN]
  /\ focusCount' \in [Window -> Int]
  /\ focused' \in [Seat -> Window \cup {None}]
  /\ \A r \in Seat : focused'[r] # None => focused'[r] \in surfaces /\ r \in known
  /\ \A v \in Window : focusCount'[v] >= Cardinality({r \in known : focused'[r] = v})
  /\ Balanced(s, tracked', focus')
  /\ \A x \in Surface : ~Alive(x) => Holding(focus', x) \subseteq Holding(held, x)
  /\ \A r \in Seat \ {s} : focus'[r] = focus[r]

LEMMA ActivateOnSound ==
  ASSUME TypeOK, Linked, WorldSound, FocusWatched, FocusKept, ~down,
         NEW s \in Seat, NEW w, NEW es, NEW held, HeldBy(s, held),
         w \in surfaces => es \in Surface /\ Alive(es),
         ActivateOn(s, w, es, held)
  PROVE  /\ Moved(s, held)
         /\ w \in surfaces /\ seat[s] = "live" => focus'[s] # None
<1>0. /\ views \in Seq(Window) /\ Range(views) \subseteq surfaces /\ surfaces \subseteq Window
      /\ activated \in [Window -> BOOLEAN] /\ focusCount \in [Window -> Int]
      /\ focused \in [Seat -> Window \cup {None}] /\ known \subseteq Seat /\ IsFiniteSet(known)
      /\ focus \in [Seat -> Surface \cup {None}]
      /\ \A r \in Seat : focused[r] # None => focused[r] \in surfaces /\ r \in known
      /\ \A v \in Window : focusCount[v] >= Cardinality({r \in known : focused[r] = v})
  BY DEF TypeOK, WorldSound, Visible, FocusKept, FocusedIsManaged, CountCoversFocus
<1>1. Balanced(s, tracked, held) /\ \A r \in Seat \ {s} : held[r] = focus[r]
  BY <1>0, HeldBalanced DEF HeldBy
<1>2. CASE w \notin surfaces
  BY <1>0, <1>1, <1>2 DEF ActivateOn, Moved
<1>3. CASE w \in surfaces
  <2> DEFINE t == Descend(w)
             x == IF t = w THEN es ELSE Main(t)
  <2>1. t \in surfaces /\ t \in Window /\ window[t] = "live"
    <3>1. t \in surfaces
      BY <1>3, DescendIsManaged
    <3> HIDE DEF t
    <3> QED BY <1>0, <3>1 DEF WorldSound
  <2>2. x \in Surface /\ Alive(x)
    <3> HIDE DEF t
    <3> QED BY <1>3, <2>1 DEF Surface, Alive, Main
  <2>3. /\ TakeFocus(s, t, x, held)
        /\ focusCount' = CountsAfter(s, t)[2]
        /\ activated' = ActivatedAfter(s, t)
        /\ focused' = IF s \in known THEN [focused EXCEPT ![s] = t] ELSE focused
        /\ views' = IF window[t] = "live" THEN Raised(t) ELSE views
    <3> HIDE DEF t
    <3> QED BY <1>3 DEF ActivateOn, t
  <2> HIDE DEF t, x
  <2>4. views' \in Seq(Window) /\ Range(views') \subseteq surfaces
    BY <1>0, <2>1, <2>3, RaisedProperties DEF Visible
  <2>5. activated' \in [Window -> BOOLEAN]
    BY <2>3, ActivatedAfterTyped
  <2>6. /\ focusCount' \in [Window -> Int]
        /\ \A v \in Window : focusCount'[v] >= Cardinality({r \in known : focused'[r] = v})
    BY <1>0, <2>1, <2>3, CountsAfterCover
  <2>7. /\ focused' \in [Seat -> Window \cup {None}]
        /\ \A r \in Seat : focused'[r] # None => focused'[r] \in surfaces /\ r \in known
    BY <1>0, <2>1, <2>3
  <2>8. CASE seat[s] = "live"
    <3>1. focus' = [held EXCEPT ![s] = x] /\ tracked' = Release(Track(tracked, x), held[s])
      BY <2>1, <2>3, <2>8 DEF TakeFocus, TakesInput
    <3>2. /\ Balanced(s, tracked', focus')
          /\ \A y \in Surface : ~Alive(y) => Holding(focus', y) \subseteq Holding(held, y)
      BY <1>1, <2>2, <3>1, TakingIsBalanced
    <3>3. held \in [Seat -> Surface \cup {None}] /\ x # None
      BY <1>1, <2>2, NoneIsNothing DEF Balanced
    <3>4. focus'[s] # None /\ \A r \in Seat \ {s} : focus'[r] = focus[r]
      BY <1>1, <3>1, <3>3
    <3> QED BY <2>4, <2>5, <2>6, <2>7, <3>2, <3>4 DEF Moved
  <2>9. CASE seat[s] # "live"
    <3>1. focus' = held /\ tracked' = tracked
      BY <2>3, <2>9 DEF TakeFocus, TakesInput
    <3> QED BY <1>1, <2>4, <2>5, <2>6, <2>7, <2>9, <3>1 DEF Moved
  <2> QED BY <2>8, <2>9
<1> QED BY <1>2, <1>3

LEMMA MovedKeeps ==
  ASSUME IInv, ~down, NEW s \in Seat, NEW held, Moved(s, held),
         UNCHANGED <<libweston, family, queue, known, down>>,
         open' \in BOOLEAN, todo' \subseteq Seat, JobSound',
         \A es \in Surface : ~Alive(es) =>
           \/ Holding(held, es) \subseteq
                IF job'.op = "hunt" /\ job'.surface = es THEN todo' ELSE {}
           \/ \E i \in DOMAIN queue : queue[i].type = "gone" /\ queue[i].surface = es
  PROVE  IInv'
<1>1. UNCHANGED <<window, subs, seat, mapped, surfaces, parent, children>>
  BY DEF libweston, family
<1>2. \A es : Alive(es)' <=> Alive(es)
  BY <1>1 DEF Alive
<1>3. TypeOK'
  BY <1>1 DEF IInv, TypeOK, Moved, Balanced
<1>4. Linked'
  BY <1>1 DEF IInv, Linked
<1>5. WorldSound'
  BY <1>1 DEF IInv, WorldSound, Moved, Balanced, Visible
<1>6. QueueSound'
  <2>1. Pending' = Pending
    BY <1>1, <1>2 DEF Pending, Ended
  <2> QED BY <2>1 DEF IInv, QueueSound
<1>7. FocusWatched'
  <2> SUFFICES ASSUME NEW es \in Surface
               PROVE  (LET holders == {r \in Seat : focus[r] = es} IN
                         IF Alive(es) THEN tracked[es] = Cardinality(holders)
                         ELSE /\ tracked[es] = 0
                              /\ \/ holders \subseteq IF job.op = "hunt" /\ job.surface = es
                                                      THEN todo ELSE {}
                                 \/ \E i \in DOMAIN queue :
                                      queue[i].type = "gone" /\ queue[i].surface = es)'
    BY DEF FocusWatched
  <2>1. /\ Alive(es) => tracked'[es] = Cardinality(Holding(focus', es))
        /\ ~Alive(es) => tracked'[es] = 0 /\ Holding(focus', es) \subseteq Holding(held, es)
    BY DEF Moved, Balanced
  <2>2. {r \in Seat : focus'[r] = es} = Holding(focus', es)
    BY DEF Holding
  <2>3. CASE Alive(es)
    BY <1>2, <2>1, <2>2, <2>3
  <2>4. CASE ~Alive(es)
    BY <1>2, <2>1, <2>2, <2>4
  <2> QED BY <2>3, <2>4
<1>8. FocusKept'
  BY <1>1 DEF FocusKept, FocusedIsManaged, CountCoversFocus, Moved
<1> QED BY <1>3, <1>4, <1>5, <1>6, <1>7, <1>8 DEF IInv

LEMMA ActivateKeeps ==
  ASSUME IInv, NEW s \in Seat, NEW es \in Surface, Activate(s, es)
  PROVE  IInv'
<1>1. /\ ~down /\ todo = {} /\ open' = TRUE /\ UNCHANGED <<down, job, todo>>
      /\ Alive(es) /\ ActivateOn(s, es.of, es, focus)
      /\ UNCHANGED <<libweston, family, queue, known>>
  BY DEF Activate, Called
<1>2. HeldBy(s, focus)
  BY DEF HeldBy
<1>3. Moved(s, focus)
  BY <1>1, <1>2, ActivateOnSound DEF IInv
<1>4. JobSound'
  BY <1>1 DEF IInv, JobSound
<1>5. ASSUME NEW x \in Surface, ~Alive(x)
      PROVE  \/ Holding(focus, x) \subseteq
                  IF job'.op = "hunt" /\ job'.surface = x THEN todo' ELSE {}
             \/ \E i \in DOMAIN queue : queue[i].type = "gone" /\ queue[i].surface = x
  BY <1>1, <1>5 DEF IInv, FocusWatched, Holding
<1>6. todo' \subseteq Seat
  BY <1>1 DEF IInv, TypeOK
<1> QED BY <1>1, <1>3, <1>4, <1>5, <1>6, MovedKeeps

LEMMA VisitFrame ==
  ASSUME IInv, NEW s \in Seat, Visit(s)
  PROVE  /\ ~down /\ s \in todo /\ todo' = todo \ {s} /\ todo' \subseteq Seat
         /\ job' = (IF todo' = {} THEN Idle ELSE job) /\ job # Idle
         /\ open' \in BOOLEAN
         /\ UNCHANGED <<libweston, family, queue, known, down>>
  BY DEF Visit, IInv, TypeOK, WorldSound, JobSound

\* Outside a hunt, nobody waits for the running handler.
LEMMA WatchedOutsideHunt ==
  ASSUME IInv, ~down, job.op # "hunt", NEW x \in Surface, ~Alive(x)
  PROVE  \/ Holding(focus, x) = {}
         \/ \E i \in DOMAIN queue : queue[i].type = "gone" /\ queue[i].surface = x
BY DEF IInv, FocusWatched, Holding

LEMMA VisitMapKeeps ==
  ASSUME IInv, NEW s \in Seat, VisitMap(s)
  PROVE  IInv'
<1>1. Visit(s) /\ job.op = "map" /\ ActivateOn(s, job.surface, Main(job.surface), focus)
  BY DEF VisitMap
<1>2. /\ ~down /\ s \in todo /\ todo' = todo \ {s} /\ todo' \subseteq Seat
      /\ job' = (IF todo' = {} THEN Idle ELSE job) /\ job # Idle
      /\ open' \in BOOLEAN
      /\ UNCHANGED <<libweston, family, queue, known, down>>
  BY <1>1, VisitFrame
<1>3. PICK w \in Window : job = MapJob(w)
  BY <1>1, <1>2 DEF IInv, JobSound, SessionJob
<1>4. job.surface = w
  BY <1>3 DEF MapJob
<1>5. w \in surfaces => Main(w) \in Surface /\ Alive(Main(w))
  BY <1>2 DEF IInv, WorldSound, Surface, Main, Alive
<1>6. HeldBy(s, focus)
  BY DEF HeldBy
<1>7. Moved(s, focus)
  BY <1>1, <1>2, <1>4, <1>5, <1>6, ActivateOnSound DEF IInv
<1>8. JobSound'
  BY <1>2, <1>3 DEF JobSound
<1>9. ASSUME NEW x \in Surface, ~Alive(x)
      PROVE  \/ Holding(focus, x) \subseteq
                  IF job'.op = "hunt" /\ job'.surface = x THEN todo' ELSE {}
             \/ \E i \in DOMAIN queue : queue[i].type = "gone" /\ queue[i].surface = x
  BY <1>1, <1>2, <1>9, WatchedOutsideHunt
<1> QED BY <1>2, <1>7, <1>8, <1>9, MovedKeeps

LEMMA VisitSessionKeeps ==
  ASSUME IInv, NEW s \in Seat, VisitSession(s)
  PROVE  IInv'
<1> DEFINE w == focused[s]
<1>1. /\ Visit(s) /\ job.op = "session" /\ TakeFocus(s, w, Main(w), focus)
      /\ UNCHANGED <<views, activated, focusCount, focused>>
  BY DEF VisitSession
<1>2. /\ ~down /\ s \in todo /\ todo' = todo \ {s} /\ todo' \subseteq Seat
      /\ job' = (IF todo' = {} THEN Idle ELSE job) /\ job # Idle
      /\ open' \in BOOLEAN
      /\ UNCHANGED <<libweston, family, queue, known, down>>
  BY <1>1, VisitFrame
<1>3. job = SessionJob /\ \A r \in todo : focused[r] # None
  BY <1>1, <1>2 DEF IInv, JobSound, MapJob
<1>4. w \in Window /\ w \in surfaces /\ window[w] = "live"
  BY <1>2, <1>3 DEF IInv, TypeOK, WorldSound, FocusKept, FocusedIsManaged
<1>5. Main(w) \in Surface /\ Alive(Main(w))
  <2> HIDE DEF w
  <2> QED BY <1>4 DEF Surface, Main, Alive
<1>6. HeldBy(s, focus)
  BY DEF HeldBy
<1>7. Balanced(s, tracked, focus)
  BY <1>2, <1>6, HeldBalanced DEF IInv
<1>8. /\ Balanced(s, tracked', focus')
      /\ \A x \in Surface : ~Alive(x) => Holding(focus', x) \subseteq Holding(focus, x)
      /\ \A r \in Seat \ {s} : focus'[r] = focus[r]
  <2> HIDE DEF w
  <2>1. CASE TakesInput(s, w)
    <3>1. /\ focus' = [focus EXCEPT ![s] = Main(w)]
          /\ tracked' = Release(Track(tracked, Main(w)), focus[s])
      BY <1>1, <2>1 DEF TakeFocus
    <3>2. /\ Balanced(s, tracked', focus')
          /\ \A x \in Surface : ~Alive(x) => Holding(focus', x) \subseteq Holding(focus, x)
      BY <1>5, <1>7, <3>1, TakingIsBalanced DEF IInv
    <3>3. focus \in [Seat -> Surface \cup {None}]
      BY DEF IInv, TypeOK
    <3> QED BY <3>1, <3>2, <3>3
  <2>2. CASE ~TakesInput(s, w)
    BY <1>1, <1>7, <2>2 DEF TakeFocus
  <2> QED BY <2>1, <2>2
<1>9. Moved(s, focus)
  <2>1. /\ views' \in Seq(Window) /\ Range(views') \subseteq surfaces
        /\ activated' \in [Window -> BOOLEAN] /\ focusCount' \in [Window -> Int]
        /\ focused' \in [Seat -> Window \cup {None}]
        /\ \A r \in Seat : focused'[r] # None => focused'[r] \in surfaces /\ r \in known
        /\ \A v \in Window : focusCount'[v] >= Cardinality({r \in known : focused'[r] = v})
    BY <1>1 DEF IInv, TypeOK, WorldSound, Visible, FocusKept, FocusedIsManaged,
                CountCoversFocus
  <2> QED BY <1>8, <2>1 DEF Moved
<1>10. JobSound'
  BY <1>1, <1>2, <1>3 DEF JobSound
<1>11. ASSUME NEW x \in Surface, ~Alive(x)
       PROVE  \/ Holding(focus, x) \subseteq
                   IF job'.op = "hunt" /\ job'.surface = x THEN todo' ELSE {}
              \/ \E i \in DOMAIN queue : queue[i].type = "gone" /\ queue[i].surface = x
  BY <1>1, <1>2, <1>11, WatchedOutsideHunt
<1> HIDE DEF w
<1> QED BY <1>2, <1>9, <1>10, <1>11, MovedKeeps

\* A hunt finds a window of the shell whenever the workspace shows one.
LEMMA NextFocusFound ==
  ASSUME IInv
  PROVE  /\ NextFocus = None \/ NextFocus \in surfaces
         /\ NextFocus = None => Visible = {}
<1> DEFINE managed == Only(views, surfaces)
<1>1. managed \in Seq(Window) /\ Range(managed) = Visible \cap surfaces
  BY OnlyProperties DEF IInv, TypeOK, Visible
<1> HIDE DEF managed
<1>2. Visible \subseteq surfaces /\ None \notin surfaces
  BY NoneIsNothing DEF IInv, TypeOK, WorldSound
<1>3. Range(managed) = {managed[i] : i \in 1 .. Len(managed)}
  BY <1>1, RangeEquality
<1>4. managed # <<>> => Head(managed) \in surfaces
  BY <1>1, <1>3
<1>5. managed = <<>> => Visible = {}
  BY <1>1, <1>2, <1>3
<1> QED BY <1>2, <1>4, <1>5 DEF NextFocus, managed

LEMMA VisitHuntKeeps ==
  ASSUME IInv, NEW s \in Seat, VisitHunt(s)
  PROVE  /\ IInv'
         /\ focus'[s] = None /\ seat[s] = "live" => Visible = {}
         /\ \A r \in Seat \ {s} : focus'[r] = focus[r]
<1> DEFINE held == [focus EXCEPT ![s] = None]
           w == NextFocus
<1>1. /\ Visit(s) /\ job.op = "hunt"
      /\ IF w = None
         THEN focus' = held /\ UNCHANGED <<views, activated, tracked, focusCount, focused>>
         ELSE ActivateOn(s, w, Main(w), held)
  BY DEF VisitHunt
<1>2. /\ ~down /\ s \in todo /\ todo' = todo \ {s} /\ todo' \subseteq Seat
      /\ job' = (IF todo' = {} THEN Idle ELSE job) /\ job # Idle
      /\ open' \in BOOLEAN
      /\ UNCHANGED <<libweston, family, queue, known, down>>
  BY <1>1, VisitFrame
<1>3. /\ job \in [op : {"hunt"}, surface : Surface, main : Window \cup {None}]
      /\ Ended(job.surface) /\ \A r \in todo : focus[r] = job.surface
  BY <1>1, <1>2 DEF IInv, JobSound, MapJob, SessionJob
<1>4. HeldBy(s, held)
  BY <1>2, <1>3 DEF HeldBy, Ended
<1>5. (w = None \/ w \in surfaces) /\ (w = None => Visible = {})
  BY NextFocusFound
<1>6. focus \in [Seat -> Surface \cup {None}] /\ None \notin Surface
  BY NoneIsNothing DEF IInv, TypeOK
<1> HIDE DEF w
<1>7. Moved(s, held) /\ (focus'[s] = None /\ seat[s] = "live" => Visible = {})
  <2>1. CASE w = None
    <3>1. Balanced(s, tracked, held)
      BY <1>2, <1>4, HeldBalanced DEF IInv
    <3>2. /\ views' \in Seq(Window) /\ Range(views') \subseteq surfaces
          /\ activated' \in [Window -> BOOLEAN] /\ focusCount' \in [Window -> Int]
          /\ focused' \in [Seat -> Window \cup {None}]
          /\ \A r \in Seat : focused'[r] # None => focused'[r] \in surfaces /\ r \in known
          /\ \A v \in Window :
               focusCount'[v] >= Cardinality({r \in known : focused'[r] = v})
      <4>1. UNCHANGED <<views, activated, focusCount, focused>>
        BY <1>1, <2>1
      <4> QED BY <4>1 DEF IInv, TypeOK, WorldSound, Visible, FocusKept,
                          FocusedIsManaged, CountCoversFocus
    <3>3. \A r \in Seat \ {s} : held[r] = focus[r]
      BY <1>6
    <3> HIDE DEF held
    <3> QED BY <1>1, <1>5, <2>1, <3>1, <3>2, <3>3 DEF Moved
  <2>2. CASE w # None
    <3>1. w \in surfaces
      BY <1>5, <2>2
    <3>2. Main(w) \in Surface /\ Alive(Main(w))
      BY <1>2, <3>1 DEF IInv, TypeOK, WorldSound, Surface, Main, Alive
    <3> HIDE DEF held
    <3> QED BY <1>1, <1>2, <1>4, <2>2, <3>1, <3>2, ActivateOnSound DEF IInv
  <2> QED BY <2>1, <2>2
<1>8. \A r \in Seat \ {s} : focus'[r] = focus[r]
  BY <1>7 DEF Moved
<1>9. JobSound'
  <2>1. \A es : Ended(es)' <=> Ended(es)
    BY <1>2 DEF Ended, Alive, libweston
  <2> QED BY <1>2, <1>3, <1>8, <2>1 DEF JobSound
<1>10. ASSUME NEW x \in Surface, ~Alive(x)
       PROVE  \/ Holding(held, x) \subseteq
                   IF job'.op = "hunt" /\ job'.surface = x THEN todo' ELSE {}
              \/ \E i \in DOMAIN queue : queue[i].type = "gone" /\ queue[i].surface = x
  <2>1. Holding(held, x) = Holding(focus, x) \ {s}
    BY <1>6 DEF Holding
  <2>2. \/ Holding(focus, x) \subseteq IF job.surface = x THEN todo ELSE {}
        \/ \E i \in DOMAIN queue : queue[i].type = "gone" /\ queue[i].surface = x
    BY <1>1, <1>2, <1>10 DEF IInv, FocusWatched, Holding
  <2> HIDE DEF held
  <2>3. CASE job.surface = x /\ todo' # {}
    BY <1>1, <1>2, <2>1, <2>2, <2>3
  <2>4. CASE job.surface = x /\ todo' = {}
    BY <1>1, <1>2, <2>1, <2>2, <2>4
  <2>5. CASE job.surface # x
    BY <2>1, <2>2, <2>5
  <2> QED BY <2>3, <2>4, <2>5
<1>11. IInv'
  <2> HIDE DEF held
  <2> QED BY <1>2, <1>7, <1>9, <1>10, MovedKeeps
<1> QED BY <1>7, <1>8, <1>11

-------------------------------------------------------------------------------
(***************************************************************************)
(* What C reports.                                                         *)
(***************************************************************************)

LEMMA SurfaceParts ==
  ASSUME NEW es \in Surface
  PROVE  /\ es.of \in Window
         /\ es = Main(es.of) \/ (es.of \in WithSub /\ es = Sub(es.of))
<1>1. CASE \E w \in Window : es = Main(w)
  BY <1>1 DEF Main
<1>2. CASE \E w \in WithSub : es = Sub(w)
  BY <1>2, ShellAssumption DEF Sub
<1> QED BY <1>1, <1>2 DEF Surface

LEMMA CalledFrame ==
  ASSUME IInv, Called
  PROVE  /\ ~down /\ ~down' /\ todo = {} /\ todo' = {} /\ job = Idle /\ job' = Idle
         /\ open' = TRUE /\ down' = down
         /\ JobSound'
BY DEF Called, IInv, JobSound

LEMMA SeqMonotone ==
  ASSUME NEW S, NEW T, S \subseteq T, NEW q \in Seq(S)
  PROVE  q \in Seq(T)
OBVIOUS

LEMMA GoneIsEnded ==
  ASSUME IInv, NEW i \in DOMAIN queue, queue[i].type = "gone"
  PROVE  queue[i].surface \in Surface /\ Ended(queue[i].surface)
<1>1. queue[i] \in Pending
  BY DEF IInv, QueueSound
<1>2. PICK es \in {x \in Surface : Ended(x)}, main \in Window \cup {None} :
         queue[i] = SurfaceGone(es, main)
  BY <1>1 DEF Pending, SessionActivated, SeatGone
<1> QED BY <1>2 DEF SurfaceGone

\* The pending events stay possible: seats and surfaces that are gone stay so.
LEMMA PendingGrows ==
  ASSUME \A s \in Seat : seat[s] = "gone" => seat'[s] = "gone",
         \A es \in Surface : Ended(es) => Ended(es)'
  PROVE  Pending \subseteq Pending'
BY DEF Pending

LEMMA QueueStays ==
  ASSUME IInv, Pending \subseteq Pending', queue' = queue
  PROVE  QueueSound'
BY SeqMonotone DEF IInv, QueueSound

LEMMA QueueAppended ==
  ASSUME IInv, Pending \subseteq Pending', NEW e \in Pending', queue' = Append(queue, e)
  PROVE  QueueSound'
BY SeqMonotone DEF IInv, QueueSound

LEMMA QueuePopped ==
  ASSUME IInv, Pending \subseteq Pending', queue # <<>>, queue' = Tail(queue)
  PROVE  QueueSound'
BY SeqMonotone DEF IInv, QueueSound

\* Nothing is known of a surface that is not born yet.
LEMMA UnbornIsUnwatched ==
  ASSUME IInv, ~down, job.op # "hunt", NEW es \in Surface, ~Alive(es),
         window[es.of] = "unborn"
  PROVE  tracked[es] = 0 /\ Holding(focus, es) = {}
<1>1. ~ \E i \in DOMAIN queue : queue[i].type = "gone" /\ queue[i].surface = es
  BY GoneIsEnded DEF Ended
<1>2. tracked[es] = 0
  BY DEF IInv, FocusWatched
<1> QED BY <1>1, <1>2, WatchedOutsideHunt

\* What happens to windows and seats leaves the watch as it is, if nothing
\* that is focused dies and nothing that is born was focused.
LEMMA WatchStays ==
  ASSUME IInv, ~down, todo = {}, job = Idle, UNCHANGED <<tracked, focus, queue, todo, job>>,
         \A es \in Surface : Alive(es)' <=>
           Alive(es) \/ (tracked[es] = 0 /\ Holding(focus, es) = {} /\ Alive(es)')
  PROVE  FocusWatched'
<1> SUFFICES ASSUME NEW es \in Surface
             PROVE  (LET holders == {r \in Seat : focus[r] = es} IN
                       IF Alive(es) THEN tracked[es] = Cardinality(holders)
                       ELSE /\ tracked[es] = 0
                            /\ \/ holders \subseteq IF job.op = "hunt" /\ job.surface = es
                                                    THEN todo ELSE {}
                               \/ \E i \in DOMAIN queue :
                                    queue[i].type = "gone" /\ queue[i].surface = es)'
  BY DEF FocusWatched
<1>1. CASE Alive(es)
  BY <1>1 DEF IInv, FocusWatched
<1>2. CASE ~Alive(es) /\ Alive(es)'
  BY <1>2, FS_EmptySet DEF Holding
<1>3. CASE ~Alive(es) /\ ~Alive(es)'
  BY <1>3 DEF IInv, FocusWatched
<1> QED BY <1>1, <1>2, <1>3

LEMMA SurfaceAddedKeeps ==
  ASSUME IInv, NEW w \in Window, SurfaceAdded(w)
  PROVE  IInv'
<1>1. /\ ~down /\ ~down' /\ todo = {} /\ todo' = {} /\ job = Idle /\ job' = Idle
      /\ open' = TRUE /\ down' = down /\ JobSound'
  BY CalledFrame DEF SurfaceAdded
<1>2. /\ window[w] = "unborn" /\ window' = [window EXCEPT ![w] = "live"]
      /\ subs' = (IF w \in WithSub THEN subs \cup {w} ELSE subs)
      /\ surfaces' = surfaces \cup {w}
      /\ UNCHANGED <<seat, mapped, parent, children, views, activated, tracked,
                     focusCount, focused, focus, queue, known>>
  BY DEF SurfaceAdded, activation
<1>3. TypeOK /\ WorldSound
  BY DEF IInv
<1>4. TypeOK'
  BY <1>1, <1>2, <1>3 DEF TypeOK
<1>5. Linked'
  BY <1>2 DEF IInv, Linked
<1>6. WorldSound'
  BY <1>1, <1>2, <1>3 DEF WorldSound, TypeOK, Visible
<1>7. ASSUME NEW es \in Surface
      PROVE  es.of \in Window /\ (es.of # w => (Alive(es)' <=> Alive(es)))
  BY <1>2, <1>3, SurfaceParts DEF Alive, TypeOK
<1>8. ASSUME NEW es \in Surface, es.of = w
      PROVE  ~Alive(es) /\ tracked[es] = 0 /\ Holding(focus, es) = {}
  <2>1. ~Alive(es)
    BY <1>2, <1>3, <1>8 DEF Alive, WorldSound
  <2> QED BY <1>1, <1>2, <1>8, <2>1, UnbornIsUnwatched DEF Idle
<1>9. QueueSound'
  <2>1. \A es \in Surface : Ended(es) => Ended(es)'
    BY <1>2, <1>3, <1>7 DEF Ended, TypeOK
  <2> QED BY <1>2, <2>1, PendingGrows, QueueStays
<1>10. FocusWatched'
  BY <1>1, <1>2, <1>7, <1>8, WatchStays
<1>11. FocusKept'
  BY <1>2 DEF IInv, FocusKept, FocusedIsManaged, CountCoversFocus
<1> QED BY <1>1, <1>4, <1>5, <1>6, <1>9, <1>10, <1>11 DEF IInv

LEMMA SurfaceRemovedKeeps ==
  ASSUME IInv, NEW w \in Window, SurfaceRemoved(w)
  PROVE  IInv'
<1>1. /\ ~down /\ ~down' /\ todo = {} /\ todo' = {} /\ job = Idle /\ job' = Idle
      /\ open' = TRUE /\ down' = down /\ JobSound'
  BY CalledFrame DEF SurfaceRemoved
<1>2. /\ window[w] = "live" /\ window' = [window EXCEPT ![w] = "removed"]
      /\ mapped' = mapped \ {w} /\ views' = Without(views, w)
      /\ focused' = FocusedWithout(w)
      /\ surfaces' = surfaces \ {w}
      /\ parent' = [c \in Window |-> IF c = w \/ c \in Range(children[w]) THEN None
                                     ELSE parent[c]]
      /\ children' = [p \in Window |->
                        IF p = w THEN <<>>
                        ELSE IF p = parent[w] THEN Without(children[p], w) ELSE children[p]]
      /\ focusCount' = [focusCount EXCEPT ![w] = 0]
      /\ UNCHANGED <<subs, seat, activated, tracked, focus, queue, known>>
  BY DEF SurfaceRemoved
<1>3. TypeOK /\ WorldSound /\ Linked /\ None \notin Window
  BY NoneIsNothing DEF IInv
<1>4. views' \in Seq(Window) /\ Range(views') = Visible \ {w}
  BY <1>2, <1>3, WithoutProperties DEF TypeOK, Visible
<1>5. ASSUME NEW p \in Window
      PROVE  /\ children'[p] \in Seq(Window)
             /\ p = w => children'[p] = <<>>
             /\ p # w => Range(children'[p]) = Range(children[p]) \ {w}
             /\ \A v : Once(children[p], Len(children[p]), v)
                         => Once(children'[p], Len(children'[p]), v)
  <2>0. children[p] \in Seq(Window)
    BY <1>3 DEF TypeOK
  <2>1. CASE p = w
    BY <1>2, <2>1 DEF Once
  <2>2. CASE p # w /\ p = parent[w]
    <3>1. children'[p] = Without(children[p], w)
      BY <1>2, <2>2
    <3> QED BY <2>0, <2>2, <3>1, WithoutProperties
  <2>3. CASE p # w /\ p # parent[w]
    <3>1. children'[p] = children[p]
      BY <1>2, <2>3
    <3>2. w \notin Range(children[p])
      BY <1>3, <2>3 DEF Linked
    <3> QED BY <2>0, <2>3, <3>1, <3>2
  <2> QED BY <2>1, <2>2, <2>3
<1>6. TypeOK'
  <2>1. children' \in [Window -> Seq(Window)]
    BY <1>2, <1>5
  <2>2. parent' \in [Window -> Window \cup {None}]
    BY <1>2, <1>3 DEF TypeOK
  <2>3. focused' \in [Seat -> Window \cup {None}] /\ focusCount' \in [Window -> Int]
    BY <1>2, <1>3 DEF TypeOK, FocusedWithout
  <2> QED BY <1>1, <1>2, <1>3, <1>4, <2>1, <2>2, <2>3 DEF TypeOK
<1>7. Linked'
  <2> SUFFICES ASSUME NEW c \in Window, NEW p \in Window
               PROVE  /\ parent'[c] = p <=> c \in Range(children'[p])
                      /\ Once(children'[p], Len(children'[p]), c)
                      /\ c \in Range(children'[p]) => {c, p} \subseteq surfaces'
    BY DEF Linked
  <2>1. /\ parent[c] = p <=> c \in Range(children[p])
        /\ parent[c] = w <=> c \in Range(children[w])
        /\ Once(children[p], Len(children[p]), c)
        /\ c \in Range(children[p]) => {c, p} \subseteq surfaces
    BY <1>3 DEF Linked
  <2>2. parent'[c] = IF c = w \/ c \in Range(children[w]) THEN None ELSE parent[c]
    BY <1>2
  <2>3. CASE p = w
    <3>1. c \notin Range(children'[p])
      BY <1>5, <2>3 DEF Range
    <3> QED BY <1>3, <1>5, <2>1, <2>2, <2>3, <3>1
  <2>4. CASE p # w
    <3>1. c \in Range(children'[p]) <=> c \in Range(children[p]) /\ c # w
      BY <1>5, <2>4
    <3> QED BY <1>2, <1>3, <1>5, <2>1, <2>2, <2>4, <3>1
  <2> QED BY <2>3, <2>4
<1>8. WorldSound'
  BY <1>1, <1>2, <1>3, <1>4 DEF WorldSound, TypeOK, Visible
<1>9. ASSUME NEW es \in Surface PROVE Alive(es)' <=> Alive(es)
  BY <1>2, <1>3, <1>9, SurfaceParts DEF Alive, TypeOK
<1>10. QueueSound'
  <2>1. \A es \in Surface : Ended(es) => Ended(es)'
    BY <1>2, <1>3, <1>9, SurfaceParts DEF Ended, TypeOK
  <2> QED BY <1>2, <2>1, PendingGrows, QueueStays
<1>11. FocusWatched'
  BY <1>1, <1>2, <1>9, WatchStays
<1>12. FocusKept'
  <2>1. /\ \A s \in Seat : focused[s] # None => focused[s] \in surfaces /\ s \in known
        /\ \A v \in Window : focusCount[v] >= Cardinality({s \in known : focused[s] = v})
    BY DEF IInv, FocusKept, FocusedIsManaged, CountCoversFocus
  <2>2. \A s \in Seat : focused'[s] = IF focused[s] = w THEN None ELSE focused[s]
    BY <1>2 DEF FocusedWithout
  <2>3. FocusedIsManaged'
    BY <1>2, <2>1, <2>2 DEF FocusedIsManaged
  <2>4. ASSUME NEW v \in Window
        PROVE  focusCount'[v] >= Cardinality({s \in known : focused'[s] = v})
    <3>0. known \subseteq Seat /\ focusCount \in [Window -> Int]
      BY <1>3 DEF TypeOK
    <3>1. CASE v = w
      <4>1. {s \in known : focused'[s] = v} = {}
        BY <1>3, <2>2, <3>0, <3>1
      <4>2. Cardinality({s \in known : focused'[s] = v}) = 0
        BY <4>1, FS_EmptySet
      <4>3. focusCount'[v] = 0
        BY <1>2, <3>0, <3>1
      <4> QED BY <4>2, <4>3
    <3>2. CASE v # w
      <4>1. {s \in known : focused'[s] = v} = {s \in known : focused[s] = v}
        BY <1>3, <2>2, <3>0, <3>2
      <4> QED BY <1>2, <2>1, <3>0, <3>2, <4>1
    <3> QED BY <3>1, <3>2
  <2> QED BY <1>2, <2>3, <2>4 DEF FocusKept, CountCoversFocus
<1> QED BY <1>1, <1>6, <1>7, <1>8, <1>10, <1>11, <1>12 DEF IInv

\* A step that maps or unmaps a window, and may start the loop of `map`.
LEMMA MappingKeeps ==
  ASSUME IInv, ~down, todo = {},
         views' \in Seq(Window), Range(views') \subseteq surfaces,
         mapped' \subseteq Window, open' = TRUE, todo' \subseteq Seat, JobSound',
         job'.op # "hunt",
         UNCHANGED <<window, subs, seat, family, activated, tracked, focusCount, focused,
                     focus, queue, down, known>>
  PROVE  IInv'
<1>1. UNCHANGED <<surfaces, parent, children>>
  BY DEF family
<1>2. \A es : Alive(es)' <=> Alive(es)
  BY DEF Alive
<1>3. TypeOK'
  BY <1>1 DEF IInv, TypeOK
<1>4. Linked'
  BY <1>1 DEF IInv, Linked
<1>5. WorldSound'
  BY <1>1 DEF IInv, WorldSound, Visible
<1>6. QueueSound'
  BY <1>2, PendingGrows, QueueStays DEF Ended
<1>7. FocusWatched'
  <2> SUFFICES ASSUME NEW es \in Surface
               PROVE  (LET holders == {r \in Seat : focus[r] = es} IN
                         IF Alive(es) THEN tracked[es] = Cardinality(holders)
                         ELSE /\ tracked[es] = 0
                              /\ \/ holders \subseteq IF job.op = "hunt" /\ job.surface = es
                                                      THEN todo ELSE {}
                                 \/ \E i \in DOMAIN queue :
                                      queue[i].type = "gone" /\ queue[i].surface = es)'
    BY DEF FocusWatched
  <2>1. IF Alive(es) THEN tracked[es] = Cardinality({r \in Seat : focus[r] = es})
        ELSE /\ tracked[es] = 0
             /\ \/ {r \in Seat : focus[r] = es} = {}
                \/ \E i \in DOMAIN queue : queue[i].type = "gone" /\ queue[i].surface = es
    BY DEF IInv, FocusWatched
  <2> QED BY <1>2, <2>1
<1>8. FocusKept'
  BY <1>1 DEF IInv, FocusKept, FocusedIsManaged, CountCoversFocus
<1> QED BY <1>3, <1>4, <1>5, <1>6, <1>7, <1>8 DEF IInv

LEMMA CommittedKeeps ==
  ASSUME IInv, NEW w \in Window, Committed(w)
  PROVE  IInv'
<1>1. /\ ~down /\ todo = {} /\ window[w] = "live"
      /\ mapped' = mapped \cup {w} /\ views' = Raised(w) /\ open' = TRUE
      /\ todo' = {s \in Seat : seat[s] = "live"}
      /\ job' = IF todo' = {} THEN Idle ELSE MapJob(w)
      /\ UNCHANGED <<window, subs, seat, family, activated, tracked, focusCount, focused,
                     focus, queue, down, known>>
  BY DEF Committed
<1>2. views' \in Seq(Window) /\ Range(views') \subseteq surfaces
  BY <1>1, RaisedProperties DEF IInv, TypeOK, WorldSound, Visible
<1>3. JobSound' /\ job'.op # "hunt"
  BY <1>1 DEF JobSound, Idle, MapJob
<1>4. mapped' \subseteq Window /\ todo' \subseteq Seat
  BY <1>1 DEF IInv, TypeOK
<1> QED BY <1>1, <1>2, <1>3, <1>4, MappingKeeps

LEMMA UnmappedKeeps ==
  ASSUME IInv, NEW w \in Window, Unmapped(w)
  PROVE  IInv'
<1>1. /\ ~down /\ ~down' /\ todo = {} /\ todo' = {} /\ job = Idle /\ job' = Idle
      /\ open' = TRUE /\ down' = down /\ JobSound'
  BY CalledFrame DEF Unmapped
<1>2. /\ mapped' = mapped \ {w} /\ views' = Without(views, w)
      /\ UNCHANGED <<window, subs, seat, family, activated, tracked, focusCount, focused,
                     focus, queue, known>>
  BY DEF Unmapped
<1>3. views' \in Seq(Window) /\ Range(views') \subseteq surfaces
  BY <1>2, WithoutProperties DEF IInv, TypeOK, WorldSound, Visible
<1>4. mapped' \subseteq Window /\ job'.op # "hunt"
  BY <1>1, <1>2 DEF IInv, TypeOK, Idle
<1> QED BY <1>1, <1>2, <1>3, <1>4, MappingKeeps

\* The lists after w left its parent and joined p.
LEMMA AdoptedProperties ==
  ASSUME TypeOK, Linked, NEW w \in Window, NEW p \in Window \cup {None}, NEW q \in Window
  PROVE  /\ Adopted(w, p)[q] \in Seq(Window)
         /\ Range(Adopted(w, p)[q]) =
              IF q = p THEN Range(children[q]) \cup {w} ELSE Range(children[q]) \ {w}
         /\ \A v \in Window : Once(Adopted(w, p)[q], Len(Adopted(w, p)[q]), v)
<1> DEFINE left == IF parent[w] = None THEN children
                   ELSE [children EXCEPT ![parent[w]] = Without(@, w)]
           list == left[q]
<1>0. /\ children \in [Window -> Seq(Window)] /\ parent \in [Window -> Window \cup {None}]
      /\ None \notin Window /\ children[q] \in Seq(Window)
      /\ \A v \in Window : Once(children[q], Len(children[q]), v)
      /\ parent[w] = q <=> w \in Range(children[q])
  BY NoneIsNothing DEF TypeOK, Linked
<1>1. /\ list \in Seq(Window) /\ Range(list) = Range(children[q]) \ {w}
      /\ \A v \in Window : Once(list, Len(list), v)
  <2>1. CASE parent[w] = q
    <3>1. list = Without(children[q], w)
      BY <1>0, <2>1
    <3> QED BY <1>0, <3>1, WithoutProperties
  <2>2. CASE parent[w] # q
    <3>1. list = children[q]
      BY <1>0, <2>2
    <3> QED BY <1>0, <2>2, <3>1
  <2> QED BY <2>1, <2>2
<1>2. DOMAIN left = Window
  BY <1>0
<1>3. Adopted(w, p)[q] = IF q = p THEN Append(list, w) ELSE list
  <2>1. Adopted(w, p) = IF p = None THEN left ELSE [left EXCEPT ![p] = Append(@, w)]
    BY DEF Adopted
  <2> HIDE DEF left
  <2> QED BY <1>0, <1>2, <2>1
<1> HIDE DEF left, list
<1>4. CASE q = p
  <2>1. \A i \in 1 .. Len(list) : list[i] # w
    BY <1>1, RangeEquality
  <2>2. \A v \in Window : Once(Append(list, w), Len(Append(list, w)), v)
    BY <1>1, <2>1, AppendedOnce
  <2>3. Range(Append(list, w)) = Range(list) \cup {w}
    BY <1>1, AppendedRange
  <2> QED BY <1>1, <1>3, <1>4, <2>2, <2>3
<1>5. CASE q # p
  BY <1>1, <1>3, <1>5
<1> QED BY <1>4, <1>5

LEMMA ParentSetKeeps ==
  ASSUME IInv, NEW w \in Window, NEW p \in Window \cup {None}, ParentSet(w, p)
  PROVE  IInv'
<1>1. /\ ~down /\ ~down' /\ todo = {} /\ todo' = {} /\ job = Idle /\ job' = Idle
      /\ open' = TRUE /\ down' = down /\ JobSound'
  BY CalledFrame DEF ParentSet
<1>2. /\ window[w] = "live" /\ (p # None => window[p] = "live")
      /\ parent' = [parent EXCEPT ![w] = p] /\ children' = Adopted(w, p)
      /\ UNCHANGED <<window, subs, seat, mapped, surfaces, views, activated, tracked,
                     focusCount, focused, focus, queue, known>>
  BY DEF ParentSet, libweston, activation
<1>3. TypeOK /\ WorldSound /\ Linked /\ None \notin Window
  BY NoneIsNothing DEF IInv
<1>4. ASSUME NEW q \in Window
      PROVE  /\ children'[q] \in Seq(Window)
             /\ Range(children'[q]) =
                  IF q = p THEN Range(children[q]) \cup {w} ELSE Range(children[q]) \ {w}
             /\ \A v \in Window : Once(children'[q], Len(children'[q]), v)
  BY <1>2, <1>3, AdoptedProperties
<1>5. TypeOK'
  <2>1. children' = [q \in Window |-> children'[q]]
    BY <1>2, <1>3 DEF Adopted, TypeOK
  <2>2. children' \in [Window -> Seq(Window)]
    BY <1>4, <2>1
  <2>3. parent' \in [Window -> Window \cup {None}]
    BY <1>2, <1>3 DEF TypeOK
  <2> QED BY <1>1, <1>2, <1>3, <2>2, <2>3 DEF TypeOK
<1>6. Linked'
  <2> SUFFICES ASSUME NEW c \in Window, NEW q \in Window
               PROVE  /\ parent'[c] = q <=> c \in Range(children'[q])
                      /\ Once(children'[q], Len(children'[q]), c)
                      /\ c \in Range(children'[q]) => {c, q} \subseteq surfaces'
    BY DEF Linked
  <2>1. /\ parent[c] = q <=> c \in Range(children[q])
        /\ c \in Range(children[q]) => {c, q} \subseteq surfaces
    BY <1>3 DEF Linked
  <2>2. w \in surfaces /\ (p # None => p \in surfaces)
    BY <1>1, <1>2, <1>3 DEF WorldSound
  <2>3. parent'[c] = IF c = w THEN p ELSE parent[c]
    BY <1>2, <1>3 DEF TypeOK
  <2> QED BY <1>2, <1>3, <1>4, <2>1, <2>2, <2>3
<1>7. WorldSound'
  BY <1>1, <1>2, <1>3 DEF WorldSound, Visible
<1>8. ASSUME NEW es \in Surface PROVE Alive(es)' <=> Alive(es)
  BY <1>2 DEF Alive
<1>9. QueueSound'
  BY <1>2, <1>8, PendingGrows, QueueStays DEF Ended
<1>10. FocusWatched'
  BY <1>1, <1>2, <1>8, WatchStays
<1>11. FocusKept'
  BY <1>2 DEF IInv, FocusKept, FocusedIsManaged, CountCoversFocus
<1> QED BY <1>1, <1>5, <1>6, <1>7, <1>9, <1>10, <1>11 DEF IInv

\* A surface that dies is reported when a seat focuses it.
LEMMA DeathIsWatched ==
  ASSUME IInv, ~down, todo = {}, todo' = {}, NEW es \in Surface, NEW main \in Window \cup {None},
         Alive(es), SurfaceDies(es, main), UNCHANGED <<seat, focus>>,
         window'[es.of] # "unborn",
         \A x \in Surface : Alive(x)' <=> Alive(x) /\ x # es,
         \A x \in Surface : Ended(x) => Ended(x)'
  PROVE  FocusWatched' /\ QueueSound' /\ tracked' \in [Surface -> Nat]
<1>1. /\ tracked' = [tracked EXCEPT ![es] = 0]
      /\ queue' = IF tracked[es] > 0 THEN Append(queue, SurfaceGone(es, main)) ELSE queue
      /\ tracked \in [Surface -> Nat] /\ queue \in Seq(Pending)
  BY DEF SurfaceDies, IInv, TypeOK, QueueSound
<1>2. Pending \subseteq Pending'
  BY PendingGrows
<1>3. SurfaceGone(es, main) \in Pending'
  BY DEF Pending, Ended
<1>4. QueueSound'
  BY <1>1, <1>2, <1>3, QueueStays, QueueAppended
<1>5. tracked' \in [Surface -> Nat]
  BY <1>1
<1>6. ASSUME NEW x \in Surface
      PROVE  (LET holders == {r \in Seat : focus[r] = x} IN
                IF Alive(x) THEN tracked[x] = Cardinality(holders)
                ELSE /\ tracked[x] = 0
                     /\ \/ holders \subseteq IF job.op = "hunt" /\ job.surface = x
                                             THEN todo ELSE {}
                        \/ \E i \in DOMAIN queue :
                             queue[i].type = "gone" /\ queue[i].surface = x)'
  <2> DEFINE holders == {r \in Seat : focus[r] = x}
             Reported == \E i \in DOMAIN queue :
                           queue[i].type = "gone" /\ queue[i].surface = x
  <2>1. IF Alive(x) THEN tracked[x] = Cardinality(holders)
        ELSE tracked[x] = 0 /\ (holders = {} \/ Reported)
    BY DEF IInv, FocusWatched
  <2>2. Reported => Reported'
    <3>1. CASE queue' = queue
      BY <3>1
    <3>2. CASE queue' = Append(queue, SurfaceGone(es, main))
      <4>1. \A i \in DOMAIN queue : i \in DOMAIN queue' /\ queue'[i] = queue[i]
        BY <1>1, <3>2
      <4> QED BY <4>1
    <3> QED BY <1>1, <3>1, <3>2
  <2>3. CASE x # es
    <3>1. tracked'[x] = tracked[x]
      BY <1>1, <2>3
    <3> HIDE DEF Reported
    <3>2. /\ Alive(x)' <=> Alive(x)
          /\ holders' = holders
      BY <2>3
    <3>3. IF Alive(x)' THEN tracked'[x] = Cardinality(holders)
          ELSE tracked'[x] = 0 /\ (holders = {} \/ Reported')
      BY <2>1, <2>2, <3>1, <3>2
    <3> QED BY <3>2, <3>3 DEF Reported
  <2>4. CASE x = es /\ tracked[es] = 0
    <3>1. holders = {}
      <4>1. IsFiniteSet({r \in Seat : focus[r] # None}) /\ None \notin Surface
        BY NoneIsNothing DEF IInv, WorldSound
      <4>2. holders \subseteq {r \in Seat : focus[r] # None}
        BY <4>1
      <4>3. IsFiniteSet(holders) /\ Cardinality(holders) = 0
        BY <2>1, <2>4, <4>1, <4>2, FS_Subset
      <4> HIDE DEF holders
      <4> QED BY <4>3, FS_EmptySet
    <3> QED BY <1>1, <2>4, <3>1
  <2>5. CASE x = es /\ tracked[es] # 0
    <3>1. queue' = Append(queue, SurfaceGone(es, main))
      BY <1>1, <2>5
    <3>2. Len(queue) + 1 \in DOMAIN queue' /\ queue'[Len(queue) + 1] = SurfaceGone(es, main)
      BY <1>1, <3>1
    <3>3. \E i \in DOMAIN queue' : queue'[i].type = "gone" /\ queue'[i].surface = es
      BY <3>2 DEF SurfaceGone
    <3> QED BY <1>1, <2>5, <3>3
  <2> QED BY <2>3, <2>4, <2>5
<1>7. FocusWatched'
  BY <1>6 DEF FocusWatched
<1> QED BY <1>4, <1>5, <1>7

LEMMA SubDiesKeeps ==
  ASSUME IInv, NEW w \in Window, SubDies(w)
  PROVE  IInv'
<1> DEFINE main == IF window[w] = "live" THEN w ELSE None
<1>1. /\ ~down /\ ~down' /\ todo = {} /\ todo' = {} /\ job = Idle /\ job' = Idle
      /\ open' = TRUE /\ down' = down /\ JobSound'
  BY CalledFrame DEF SubDies
<1>2. /\ w \in subs /\ subs' = subs \ {w} /\ SurfaceDies(Sub(w), main)
      /\ UNCHANGED <<window, seat, mapped, views, activated, focusCount, focused, focus,
                     surfaces, parent, children, known>>
  BY DEF SubDies, family
<1>3. TypeOK /\ WorldSound /\ Linked
  BY DEF IInv
<1>4. Sub(w) \in Surface /\ Sub(w).of = w /\ Alive(Sub(w)) /\ window'[w] # "unborn"
  BY <1>2, <1>3 DEF Surface, Sub, Alive, TypeOK, WorldSound
<1>5. ASSUME NEW x \in Surface PROVE Alive(x)' <=> Alive(x) /\ x # Sub(w)
  BY <1>2, SurfaceParts DEF Alive, Main, Sub
<1>6. FocusWatched' /\ QueueSound' /\ tracked' \in [Surface -> Nat]
  BY <1>1, <1>2, <1>4, <1>5, DeathIsWatched DEF Ended
<1>7. TypeOK'
  BY <1>1, <1>2, <1>3, <1>6 DEF TypeOK
<1>8. Linked' /\ WorldSound'
  BY <1>1, <1>2, <1>3 DEF Linked, WorldSound, Visible
<1>9. FocusKept'
  BY <1>2 DEF IInv, FocusKept, FocusedIsManaged, CountCoversFocus
<1> QED BY <1>1, <1>6, <1>7, <1>8, <1>9 DEF IInv

LEMMA MainDiesKeeps ==
  ASSUME IInv, NEW w \in Window, MainDies(w)
  PROVE  IInv'
<1>1. /\ ~down /\ ~down' /\ todo = {} /\ todo' = {} /\ job = Idle /\ job' = Idle
      /\ open' = TRUE /\ down' = down /\ JobSound'
  BY CalledFrame DEF MainDies
<1>2. /\ window[w] = "removed" /\ window' = [window EXCEPT ![w] = "dead"]
      /\ SurfaceDies(Main(w), None)
      /\ UNCHANGED <<subs, seat, mapped, views, activated, focusCount, focused, focus,
                     surfaces, parent, children, known>>
  BY DEF MainDies, family
<1>3. TypeOK /\ WorldSound /\ Linked
  BY DEF IInv
<1>4. Main(w) \in Surface /\ Main(w).of = w /\ Alive(Main(w)) /\ window'[w] # "unborn"
  BY <1>2, <1>3 DEF Surface, Main, Alive, TypeOK
<1>5. ASSUME NEW x \in Surface PROVE Alive(x)' <=> Alive(x) /\ x # Main(w)
  BY <1>2, <1>3, SurfaceParts DEF Alive, Main, Sub, TypeOK
<1>6. ASSUME NEW x \in Surface, Ended(x) PROVE Ended(x)'
  BY <1>2, <1>3, <1>5, <1>6, SurfaceParts DEF Ended, TypeOK
<1>7. FocusWatched' /\ QueueSound' /\ tracked' \in [Surface -> Nat]
  BY <1>1, <1>2, <1>4, <1>5, <1>6, DeathIsWatched
<1>8. TypeOK'
  BY <1>1, <1>2, <1>3, <1>7 DEF TypeOK
<1>9. Linked' /\ WorldSound'
  BY <1>1, <1>2, <1>3 DEF Linked, WorldSound, Visible, TypeOK
<1>10. FocusKept'
  BY <1>2 DEF IInv, FocusKept, FocusedIsManaged, CountCoversFocus
<1> QED BY <1>1, <1>7, <1>8, <1>9, <1>10 DEF IInv

-------------------------------------------------------------------------------
(***************************************************************************)
(* Seats, and the deferred events.                                         *)
(***************************************************************************)

\* Every report that is pending, but of surface es, still is.
StillReported(es) ==
  \A i \in DOMAIN queue :
    queue[i].type = "gone" /\ queue[i].surface # es =>
      \E j \in DOMAIN queue' : queue'[j].type = "gone" /\ queue'[j].surface = queue[i].surface

LEMMA AppendedStillReported ==
  ASSUME IInv, NEW e, queue' = Append(queue, e), NEW es
  PROVE  StillReported(es)
<1>1. queue \in Seq(Pending)
  BY DEF IInv, QueueSound
<1>2. \A i \in DOMAIN queue : i \in DOMAIN queue' /\ queue'[i] = queue[i]
  BY <1>1
<1> QED BY <1>2 DEF StillReported

LEMMA PoppedStillReported ==
  ASSUME IInv, queue # <<>>, queue' = Tail(queue), NEW es,
         Head(queue).type = "gone" => Head(queue).surface = es
  PROVE  StillReported(es)
<1>1. queue \in Seq(Pending)
  BY DEF IInv, QueueSound
<1> SUFFICES ASSUME NEW i \in DOMAIN queue, queue[i].type = "gone", queue[i].surface # es
             PROVE  \E j \in DOMAIN queue' : queue'[j].type = "gone"
                                             /\ queue'[j].surface = queue[i].surface
  BY DEF StillReported
<1>2. i \in 1 .. Len(queue) /\ i # 1
  BY <1>1
<1>3. i - 1 \in DOMAIN queue' /\ queue'[i - 1] = queue[i]
  BY <1>1, <1>2
<1> QED BY <1>3

\* The watch while no handler runs: a seat may leave a surface it focused.
LEMMA WatchMoves ==
  ASSUME IInv, ~down, todo = {}, todo' = {}, NEW gone, StillReported(gone),
         gone \in Surface => ~Alive(gone) /\ Holding(focus, gone) = {},
         UNCHANGED <<window, subs>>,
         \A es \in Surface :
           /\ Holding(focus', es) \subseteq Holding(focus, es)
           /\ IF Alive(es) THEN tracked'[es] = Cardinality(Holding(focus', es))
              ELSE tracked'[es] = tracked[es]
  PROVE  FocusWatched'
<1> SUFFICES ASSUME NEW es \in Surface
             PROVE  (LET holders == {r \in Seat : focus[r] = es} IN
                       IF Alive(es) THEN tracked[es] = Cardinality(holders)
                       ELSE /\ tracked[es] = 0
                            /\ \/ holders \subseteq IF job.op = "hunt" /\ job.surface = es
                                                    THEN todo ELSE {}
                               \/ \E i \in DOMAIN queue :
                                    queue[i].type = "gone" /\ queue[i].surface = es)'
  BY DEF FocusWatched
<1>1. /\ {r \in Seat : focus[r] = es} = Holding(focus, es)
      /\ {r \in Seat : focus'[r] = es} = Holding(focus', es)
  BY DEF Holding
<1>2. Alive(es)' <=> Alive(es)
  BY DEF Alive
<1>3. CASE Alive(es)
  BY <1>1, <1>2, <1>3
<1>4. CASE ~Alive(es)
  <2>1. /\ tracked[es] = 0
        /\ \/ Holding(focus, es) = {}
           \/ \E i \in DOMAIN queue : queue[i].type = "gone" /\ queue[i].surface = es
    BY <1>1, <1>4 DEF IInv, FocusWatched
  <2>2. CASE Holding(focus, es) = {}
    BY <1>1, <1>2, <1>4, <2>1, <2>2
  <2>3. CASE Holding(focus, es) # {}
    <3>1. PICK i \in DOMAIN queue : queue[i].type = "gone" /\ queue[i].surface = es
      BY <2>1, <2>3
    <3>2. es # gone
      BY <2>3
    <3>3. \E j \in DOMAIN queue' : queue'[j].type = "gone" /\ queue'[j].surface = es
      BY <3>1, <3>2 DEF StillReported
    <3> QED BY <1>2, <1>4, <2>1, <3>3
  <2> QED BY <2>2, <2>3
<1> QED BY <1>3, <1>4

LEMMA SeatCreatedKeeps ==
  ASSUME IInv, NEW s \in Seat, SeatCreated(s)
  PROVE  IInv'
<1>1. /\ ~down /\ ~down' /\ todo = {} /\ todo' = {} /\ job = Idle /\ job' = Idle
      /\ open' = TRUE /\ down' = down /\ JobSound'
  BY CalledFrame DEF SeatCreated
<1>2. /\ seat[s] = "unborn" /\ seat' = [seat EXCEPT ![s] = "live"] /\ known' = known \cup {s}
      /\ UNCHANGED <<window, subs, mapped, surfaces, parent, children, views, activated,
                     tracked, focusCount, focused, focus, queue>>
  BY DEF SeatCreated, family, activation
<1>3. TypeOK /\ WorldSound /\ Linked /\ None \notin Window
  BY NoneIsNothing DEF IInv
<1>4. TypeOK'
  BY <1>1, <1>2, <1>3 DEF TypeOK
<1>5. Linked'
  BY <1>2, <1>3 DEF Linked
<1>6. WorldSound'
  BY <1>1, <1>2, <1>3, FS_AddElement DEF WorldSound, Visible
<1>7. \A es \in Surface : Alive(es)' <=> Alive(es)
  BY <1>2 DEF Alive
<1>8. QueueSound'
  BY <1>2, <1>3, <1>7, PendingGrows, QueueStays DEF Ended, TypeOK
<1>9. FocusWatched'
  BY <1>1, <1>2, <1>7, WatchStays
<1>10. FocusKept'
  <2>1. /\ \A r \in Seat : focused[r] # None => focused[r] \in surfaces /\ r \in known
        /\ \A v \in Window : focusCount[v] >= Cardinality({r \in known : focused[r] = v})
    BY DEF IInv, FocusKept, FocusedIsManaged, CountCoversFocus
  <2>2. \A v \in Window : {r \in known' : focused[r] = v} = {r \in known : focused[r] = v}
    BY <1>2, <1>3, <2>1
  <2> QED BY <1>2, <2>1, <2>2 DEF FocusKept, FocusedIsManaged, CountCoversFocus
<1> QED BY <1>1, <1>4, <1>5, <1>6, <1>8, <1>9, <1>10 DEF IInv

\* A step that only appends to the queue, or stops a seat or the open frame.
LEMMA AppendingKeeps ==
  ASSUME IInv, ~down, todo = {}, UNCHANGED <<down, job, todo>>, open' \in BOOLEAN,
         seat' \in [Seat -> {"unborn", "live", "gone"}],
         \A s \in Seat : seat[s] = "gone" => seat'[s] = "gone",
         queue' = queue \/ \E e \in Pending' : queue' = Append(queue, e),
         UNCHANGED <<window, subs, mapped, family, activation, known>>
  PROVE  IInv'
<1>1. UNCHANGED <<surfaces, parent, children, views, activated, tracked, focusCount,
                  focused, focus>>
  BY DEF family, activation
<1>2. \A es \in Surface : Alive(es)' <=> Alive(es)
  BY DEF Alive
<1>3. TypeOK' /\ Linked' /\ JobSound'
  BY <1>1 DEF IInv, TypeOK, Linked, JobSound, Ended, Alive
<1>4. WorldSound' /\ FocusKept'
  BY <1>1 DEF IInv, WorldSound, Visible, FocusKept, FocusedIsManaged, CountCoversFocus
<1>5. QueueSound'
  <2>1. Pending \subseteq Pending'
    BY <1>2, PendingGrows DEF Ended
  <2> QED BY <2>1, QueueStays, QueueAppended
<1>6. FocusWatched'
  <2>1. StillReported(None)
    BY AppendedStillReported DEF StillReported
  <2>2. ASSUME NEW es \in Surface
        PROVE  /\ Holding(focus', es) \subseteq Holding(focus, es)
               /\ IF Alive(es) THEN tracked'[es] = Cardinality(Holding(focus', es))
                  ELSE tracked'[es] = tracked[es]
    BY <1>1 DEF IInv, FocusWatched, Holding
  <2> QED BY <2>1, <2>2, WatchMoves, NoneIsNothing
<1> QED BY <1>3, <1>4, <1>5, <1>6 DEF IInv

LEMMA SeatDestroyedKeeps ==
  ASSUME IInv, NEW s \in Seat, SeatDestroyed(s)
  PROVE  IInv'
<1>1. /\ ~down /\ todo = {} /\ UNCHANGED <<down, job, todo>> /\ open' = TRUE
      /\ seat' = [seat EXCEPT ![s] = "gone"] /\ queue' = Append(queue, SeatGone(s))
      /\ UNCHANGED <<window, subs, mapped, family, activation, known>>
  BY DEF SeatDestroyed, Called
<1>2. /\ seat' \in [Seat -> {"unborn", "live", "gone"}] /\ seat'[s] = "gone"
      /\ \A r \in Seat : seat[r] = "gone" => seat'[r] = "gone"
  BY <1>1 DEF IInv, TypeOK
<1>3. SeatGone(s) \in Pending'
  BY <1>2 DEF Pending
<1> QED BY <1>1, <1>2, <1>3, AppendingKeeps

LEMMA SessionSignalKeeps ==
  ASSUME IInv, SessionSignal
  PROVE  IInv'
<1>1. /\ ~down /\ todo = {} /\ UNCHANGED <<down, job, todo>> /\ open' = TRUE
      /\ queue' = Append(queue, SessionActivated)
      /\ UNCHANGED <<window, subs, seat, mapped, family, activation, known>>
  BY DEF SessionSignal, Called, libweston
<1>2. seat' \in [Seat -> {"unborn", "live", "gone"}] /\ SessionActivated \in Pending'
  BY <1>1 DEF IInv, TypeOK, Pending
<1> QED BY <1>1, <1>2, AppendingKeeps

LEMMA ReturnKeeps ==
  ASSUME IInv, Return
  PROVE  IInv'
<1>1. /\ todo = {} /\ open' = FALSE /\ open
      /\ UNCHANGED <<window, subs, seat, mapped, family, activation, queue, down, known,
                     job, todo>>
  BY DEF Return, libweston
<1>2. ~down /\ seat' \in [Seat -> {"unborn", "live", "gone"}]
  BY <1>1 DEF IInv, WorldSound, TypeOK
<1> QED BY <1>1, <1>2, AppendingKeeps

LEMMA DrainingFrame ==
  ASSUME IInv, Draining
  PROVE  ~down /\ todo = {} /\ job = Idle /\ queue # <<>> /\ Head(queue) \in Pending
<1>1. queue \in Seq(Pending)
  BY DEF IInv, QueueSound
<1> QED BY <1>1 DEF Draining, IInv, WorldSound, JobSound

LEMMA HandleSeatGoneKeeps ==
  ASSUME IInv, NEW s \in Seat, HandleSeatGone(s)
  PROVE  IInv' /\ seat[s] = "gone"
<1>1. /\ Head(queue) = SeatGone(s) /\ queue' = Tail(queue)
      /\ tracked' = Release(tracked, focus[s]) /\ focus' = [focus EXCEPT ![s] = None]
      /\ known' = known \ {s} /\ focused' = [focused EXCEPT ![s] = None]
      /\ UNCHANGED <<window, subs, seat, mapped, surfaces, parent, children, views,
                     activated, focusCount, open, down, job, todo>>
  BY DEF HandleSeatGone, libweston, family
<1>2. ~down /\ todo = {} /\ job = Idle /\ queue # <<>> /\ Head(queue) \in Pending
  BY DrainingFrame DEF HandleSeatGone
<1>3. seat[s] = "gone"
  BY <1>1, <1>2 DEF Pending, SeatGone, SessionActivated, SurfaceGone
<1>4. TypeOK /\ WorldSound /\ Linked /\ None \notin Window /\ None \notin Surface
  BY NoneIsNothing DEF IInv
<1>5. TypeOK'
  <2>1. tracked' \in [Surface -> Nat]
    BY <1>1, <1>4 DEF TypeOK, Release
  <2> QED BY <1>1, <1>4, <2>1 DEF TypeOK
<1>6. Linked' /\ JobSound'
  BY <1>1, <1>2, <1>4 DEF Linked, JobSound
<1>7. WorldSound'
  <2>1. IsFiniteSet(known')
    BY <1>1, <1>4, FS_Subset DEF WorldSound
  <2>2. IsFiniteSet({r \in Seat : focus'[r] # None})
    <3>1. {r \in Seat : focus'[r] # None} \subseteq {r \in Seat : focus[r] # None}
      BY <1>1, <1>4 DEF TypeOK
    <3> QED BY <1>4, <3>1, FS_Subset DEF WorldSound
  <2> QED BY <1>1, <1>2, <1>4, <2>1, <2>2 DEF WorldSound, Visible
<1>8. QueueSound'
  <2>1. Pending \subseteq Pending'
    BY <1>1, PendingGrows DEF Ended, Alive
  <2> QED BY <1>1, <1>2, <2>1, QueuePopped
<1>9. FocusWatched'
  <2>1. StillReported(None)
    <3>1. Head(queue).type # "gone"
      BY <1>1 DEF SeatGone
    <3> QED BY <1>1, <1>2, <3>1, PoppedStillReported
  <2>2. ASSUME NEW es \in Surface
        PROVE  /\ Holding(focus', es) \subseteq Holding(focus, es)
               /\ IF Alive(es) THEN tracked'[es] = Cardinality(Holding(focus', es))
                  ELSE tracked'[es] = tracked[es]
    <3>0. /\ tracked \in [Surface -> Nat] /\ focus \in [Seat -> Surface \cup {None}]
          /\ IF Alive(es) THEN tracked[es] = Cardinality(Holding(focus, es))
             ELSE tracked[es] = 0
      BY <1>2, <1>4 DEF IInv, FocusWatched, Holding, TypeOK
    <3>1. CASE focus[s] = es
      <4>1. Holding(focus', es) = Holding(focus, es) \ {s} /\ s \in Holding(focus, es)
        BY <1>1, <1>4, <3>0, <3>1 DEF Holding
      <4>2. IsFiniteSet(Holding(focus, es))
        <5>1. Holding(focus, es) \subseteq {r \in Seat : focus[r] # None}
          BY <1>4 DEF Holding
        <5> QED BY <1>4, <5>1, FS_Subset DEF WorldSound
      <4>3. /\ Cardinality(Holding(focus', es)) = Cardinality(Holding(focus, es)) - 1
            /\ Cardinality(Holding(focus, es)) # 0
        BY <4>1, <4>2, FS_RemoveElement, FS_EmptySet
      <4>4. tracked'[es] = IF tracked[es] = 0 THEN 0 ELSE tracked[es] - 1
        BY <1>1, <1>4, <3>0, <3>1 DEF Release
      <4> QED BY <3>0, <4>1, <4>3, <4>4
    <3>2. CASE focus[s] # es
      <4>1. Holding(focus', es) = Holding(focus, es)
        BY <1>1, <1>4, <3>0, <3>2 DEF Holding
      <4>2. tracked'[es] = tracked[es]
        BY <1>1, <3>0, <3>2 DEF Release
      <4> QED BY <3>0, <4>1, <4>2
    <3> QED BY <3>1, <3>2
  <2> QED BY <1>1, <1>2, <1>4, <2>1, <2>2, WatchMoves
<1>10. FocusKept'
  <2>1. /\ \A r \in Seat : focused[r] # None => focused[r] \in surfaces /\ r \in known
        /\ \A v \in Window : focusCount[v] >= Cardinality({r \in known : focused[r] = v})
    BY DEF IInv, FocusKept, FocusedIsManaged, CountCoversFocus
  <2>2. \A r \in Seat : focused'[r] = IF r = s THEN None ELSE focused[r]
    BY <1>1, <1>4 DEF TypeOK
  <2>3. FocusedIsManaged'
    BY <1>1, <2>1, <2>2 DEF FocusedIsManaged
  <2>4. ASSUME NEW v \in Window
        PROVE  focusCount'[v] >= Cardinality({r \in known' : focused'[r] = v})
    <3> DEFINE before == {r \in known : focused[r] = v}
               after == {r \in known' : focused'[r] = v}
    <3>1. after \subseteq before /\ before \subseteq known
      BY <1>1, <1>4, <2>2 DEF TypeOK
    <3>2. focusCount[v] >= Cardinality(before) /\ focusCount[v] \in Int
      BY <1>4, <2>1 DEF TypeOK
    <3>3. IsFiniteSet(before)
      BY <1>4, <3>1, FS_Subset DEF WorldSound
    <3> HIDE DEF before, after
    <3>4. Cardinality(after) <= Cardinality(before) /\ Cardinality(before) \in Nat
          /\ Cardinality(after) \in Nat
      BY <3>1, <3>3, FS_Subset, FS_CardinalityType
    <3>5. focusCount'[v] >= Cardinality(after)
      BY <1>1, <3>2, <3>4
    <3> QED BY <3>5 DEF after
  <2> QED BY <1>1, <2>3, <2>4 DEF FocusKept, CountCoversFocus
<1> QED BY <1>3, <1>5, <1>6, <1>7, <1>8, <1>9, <1>10 DEF IInv

\* A handler with a loop starts.
LEMMA LoopKeeps ==
  ASSUME IInv, Draining, queue' = Tail(queue), todo' \subseteq Seat, JobSound',
         NEW gone, StillReported(gone),
         gone \in Surface => \/ Alive(gone)
                             \/ Holding(focus, gone) \subseteq
                                  IF job'.op = "hunt" /\ job'.surface = gone
                                  THEN todo' ELSE {},
         UNCHANGED <<libweston, family, activation, open, down, known>>
  PROVE  IInv'
<1>1. UNCHANGED <<window, subs, seat, mapped, surfaces, parent, children, views, activated,
                  tracked, focusCount, focused, focus>>
  BY DEF libweston, family, activation
<1>2. ~down /\ todo = {} /\ job = Idle /\ queue # <<>> /\ Head(queue) \in Pending
  BY DrainingFrame
<1>3. TypeOK' /\ Linked'
  BY <1>1 DEF IInv, TypeOK, Linked
<1>4. WorldSound' /\ FocusKept'
  BY <1>1, <1>2 DEF IInv, WorldSound, Visible, FocusKept, FocusedIsManaged, CountCoversFocus
<1>5. QueueSound'
  <2>1. Pending \subseteq Pending'
    BY <1>1, PendingGrows DEF Ended, Alive
  <2> QED BY <1>2, <2>1, QueuePopped
<1>6. FocusWatched'
  <2> SUFFICES ASSUME NEW es \in Surface
               PROVE  (LET holders == {r \in Seat : focus[r] = es} IN
                         IF Alive(es) THEN tracked[es] = Cardinality(holders)
                         ELSE /\ tracked[es] = 0
                              /\ \/ holders \subseteq IF job.op = "hunt" /\ job.surface = es
                                                      THEN todo ELSE {}
                                 \/ \E i \in DOMAIN queue :
                                      queue[i].type = "gone" /\ queue[i].surface = es)'
    BY DEF FocusWatched
  <2>1. Alive(es)' <=> Alive(es)
    BY <1>1 DEF Alive
  <2>2. IF Alive(es) THEN tracked[es] = Cardinality(Holding(focus, es))
        ELSE /\ tracked[es] = 0
             /\ \/ Holding(focus, es) = {}
                \/ \E i \in DOMAIN queue : queue[i].type = "gone" /\ queue[i].surface = es
    BY <1>2 DEF IInv, FocusWatched, Holding
  <2>3. {r \in Seat : focus'[r] = es} = Holding(focus, es)
    BY <1>1 DEF Holding
  <2>4. CASE Alive(es) \/ es = gone \/ Holding(focus, es) = {}
    BY <1>1, <2>1, <2>2, <2>3, <2>4
  <2>5. CASE ~Alive(es) /\ es # gone /\ Holding(focus, es) # {}
    <3>1. \E j \in DOMAIN queue' : queue'[j].type = "gone" /\ queue'[j].surface = es
      BY <2>2, <2>5 DEF StillReported
    <3> QED BY <1>1, <2>1, <2>2, <2>5, <3>1
  <2> QED BY <2>4, <2>5
<1> QED BY <1>3, <1>4, <1>5, <1>6 DEF IInv

LEMMA HandleSessionKeeps ==
  ASSUME IInv, HandleSession
  PROVE  IInv'
<1>1. /\ Draining /\ Head(queue) = SessionActivated /\ queue' = Tail(queue)
      /\ todo' = {s \in known : focused[s] # None}
      /\ job' = IF todo' = {} THEN Idle ELSE SessionJob
      /\ UNCHANGED <<libweston, family, activation, open, down, known>>
  BY DEF HandleSession
<1>2. todo' \subseteq Seat /\ JobSound'
  BY <1>1 DEF IInv, TypeOK, JobSound, Idle, SessionJob, activation
<1>3. StillReported(None)
  BY <1>1, DrainingFrame, PoppedStillReported DEF SessionActivated
<1> QED BY <1>1, <1>2, <1>3, LoopKeeps, NoneIsNothing

LEMMA HandleSurfaceGoneKeeps ==
  ASSUME IInv, HandleSurfaceGone
  PROVE  IInv'
<1>1. /\ Draining /\ Head(queue).type = "gone" /\ queue' = Tail(queue)
      /\ todo' = {s \in Seat : focus[s] = Head(queue).surface}
      /\ job' = IF todo' = {} THEN Idle
                ELSE [op |-> "hunt", surface |-> Head(queue).surface, main |-> Head(queue).main]
      /\ UNCHANGED <<libweston, family, activation, open, down, known>>
  BY DEF HandleSurfaceGone
<1>2. PICK es \in {y \in Surface : Ended(y)}, main \in Window \cup {None} :
         Head(queue) = SurfaceGone(es, main)
  BY <1>1, DrainingFrame DEF Pending, SessionActivated, SeatGone
<1>3. /\ todo' = {s \in Seat : focus[s] = es} /\ Head(queue).surface = es
      /\ job' = IF todo' = {} THEN Idle
                ELSE [op |-> "hunt", surface |-> es, main |-> main]
  BY <1>1, <1>2 DEF SurfaceGone
<1>4. todo' \subseteq Seat
  BY <1>3
<1>5. JobSound'
  <2>1. Ended(es)'
    BY <1>1, <1>2 DEF Ended, Alive, libweston
  <2>2. \A s \in todo' : focus'[s] = es
    BY <1>1, <1>3 DEF activation
  <2>3. CASE todo' = {}
    BY <1>3, <2>3 DEF JobSound
  <2>4. CASE todo' # {}
    <3>1. job' = [op |-> "hunt", surface |-> es, main |-> main] /\ job' # Idle
      BY <1>3, <2>4 DEF Idle
    <3>2. /\ job' \in [op : {"hunt"}, surface : Surface, main : Window \cup {None}]
          /\ job'.surface = es
      BY <3>1
    <3> QED BY <2>1, <2>2, <2>4, <3>1, <3>2 DEF JobSound
  <2> QED BY <2>3, <2>4
<1>6. StillReported(es)
  BY <1>1, <1>3, DrainingFrame, PoppedStillReported
<1>7. Holding(focus, es) \subseteq IF job'.op = "hunt" /\ job'.surface = es THEN todo' ELSE {}
  BY <1>3 DEF Holding
<1> QED BY <1>1, <1>4, <1>5, <1>6, <1>7, LoopKeeps

LEMMA ShutdownKeeps ==
  ASSUME IInv, Shutdown
  PROVE  IInv' /\ down'
<1>1. /\ ~down /\ todo = {} /\ down' = TRUE /\ queue' = <<>> /\ open' = FALSE
      /\ views' = <<>> /\ surfaces' = {} /\ known' = {}
      /\ parent' = [w \in Window |-> None] /\ children' = [w \in Window |-> <<>>]
      /\ focusCount' = [w \in Window |-> 0]
      /\ focused' = [s \in Seat |-> None] /\ focus' = [s \in Seat |-> None]
      /\ UNCHANGED <<window, subs, seat, mapped, activated, tracked, job, todo>>
  BY DEF Shutdown, libweston
<1>2. TypeOK /\ WorldSound /\ JobSound /\ None \notin Window
  BY NoneIsNothing DEF IInv
<1>3. TypeOK'
  <2>1. children' \in [Window -> Seq(Window)] /\ views' \in Seq(Window)
    BY <1>1
  <2>2. parent' \in [Window -> Window \cup {None}] /\ focusCount' \in [Window -> Int]
    BY <1>1
  <2>3. focused' \in [Seat -> Window \cup {None}] /\ focus' \in [Seat -> Surface \cup {None}]
    BY <1>1
  <2> QED BY <1>1, <1>2, <2>1, <2>2, <2>3 DEF TypeOK
<1>4. Linked'
  BY <1>1, <1>2 DEF Linked, Range, Once
<1>5. WorldSound'
  <2>1. {s \in Seat : focus'[s] # None} = {}
    BY <1>1
  <2>2. Visible' = {}
    BY <1>1 DEF Visible, Range
  <2> QED BY <1>1, <1>2, <2>1, <2>2, FS_EmptySet DEF WorldSound
<1>6. QueueSound' /\ JobSound' /\ FocusWatched'
  BY <1>1, <1>2 DEF QueueSound, JobSound, FocusWatched
<1>7. FocusKept'
  <2>1. ASSUME NEW w \in Window
        PROVE  focusCount'[w] >= Cardinality({s \in known' : focused'[s] = w})
    <3>1. {s \in known' : focused'[s] = w} = {} /\ focusCount'[w] = 0
      BY <1>1
    <3>2. Cardinality({s \in known' : focused'[s] = w}) = 0
      BY <3>1, FS_EmptySet
    <3> QED BY <3>1, <3>2
  <2> QED BY <1>1, <2>1 DEF FocusKept, FocusedIsManaged, CountCoversFocus
<1> QED BY <1>1, <1>3, <1>4, <1>5, <1>6, <1>7 DEF IInv

-------------------------------------------------------------------------------
(***************************************************************************)
(* The theorems.                                                           *)
(***************************************************************************)

LEMMA InitIsSound ==
  ASSUME Init
  PROVE  IInv
<1>1. /\ window = [w \in Window |-> "unborn"] /\ subs = {} /\ mapped = {}
      /\ seat = [s \in Seat |-> "unborn"] /\ views = <<>>
      /\ activated = [w \in Window |-> FALSE] /\ tracked = [es \in Surface |-> 0]
      /\ queue = <<>> /\ open = FALSE /\ down = FALSE /\ surfaces = {}
      /\ parent = [w \in Window |-> None] /\ children = [w \in Window |-> <<>>]
      /\ focusCount = [w \in Window |-> 0] /\ known = {}
      /\ focused = [s \in Seat |-> None] /\ focus = [s \in Seat |-> None]
      /\ job = Idle /\ todo = {}
  BY DEF Init
<1>2. None \notin Window /\ None \notin Surface
  BY NoneIsNothing
<1>3. TypeOK
  <2>1. children \in [Window -> Seq(Window)] /\ views \in Seq(Window)
    BY <1>1
  <2>2. parent \in [Window -> Window \cup {None}] /\ focusCount \in [Window -> Int]
    BY <1>1
  <2>3. focused \in [Seat -> Window \cup {None}] /\ focus \in [Seat -> Surface \cup {None}]
    BY <1>1
  <2>4. /\ window \in [Window -> {"unborn", "live", "removed", "dead"}]
        /\ seat \in [Seat -> {"unborn", "live", "gone"}]
        /\ activated \in [Window -> BOOLEAN] /\ tracked \in [Surface -> Nat]
    BY <1>1
  <2> QED BY <1>1, <2>1, <2>2, <2>3, <2>4 DEF TypeOK
<1>4. Linked
  BY <1>1, <1>2 DEF Linked, Range, Once
<1>5. WorldSound
  <2>1. {s \in Seat : focus[s] # None} = {} /\ Visible = {}
    BY <1>1 DEF Visible, Range
  <2> QED BY <1>1, <2>1, FS_EmptySet DEF WorldSound
<1>6. QueueSound /\ JobSound
  BY <1>1 DEF QueueSound, JobSound
<1>7. FocusWatched
  <2> SUFFICES ASSUME NEW es \in Surface
               PROVE  ~Alive(es) /\ tracked[es] = 0 /\ {s \in Seat : focus[s] = es} = {}
    BY DEF FocusWatched
  <2> QED BY <1>1, <1>2, SurfaceParts DEF Alive
<1>8. FocusKept
  <2>1. ASSUME NEW w \in Window
        PROVE  focusCount[w] >= Cardinality({s \in known : focused[s] = w})
    <3>1. {s \in known : focused[s] = w} = {} /\ focusCount[w] = 0
      BY <1>1
    <3>2. Cardinality({s \in known : focused[s] = w}) = 0
      BY <3>1, FS_EmptySet
    <3> QED BY <3>1, <3>2
  <2> QED BY <1>1, <2>1 DEF FocusKept, FocusedIsManaged, CountCoversFocus
<1> QED BY <1>3, <1>4, <1>5, <1>6, <1>7, <1>8 DEF IInv

LEMMA StepsAreSound ==
  ASSUME IInv, [Next]_vars
  PROVE  IInv'
<1>1. ASSUME NEW w \in Window,
             \/ SurfaceAdded(w) \/ SurfaceRemoved(w) \/ Committed(w) \/ Unmapped(w)
             \/ SubDies(w) \/ MainDies(w)
             \/ \E p \in Window \cup {None} : ParentSet(w, p)
      PROVE  IInv'
  BY <1>1, SurfaceAddedKeeps, SurfaceRemovedKeeps, CommittedKeeps, UnmappedKeeps,
     SubDiesKeeps, MainDiesKeeps, ParentSetKeeps
<1>2. ASSUME NEW s \in Seat,
             \/ SeatCreated(s) \/ SeatDestroyed(s) \/ HandleSeatGone(s)
             \/ VisitMap(s) \/ VisitSession(s) \/ VisitHunt(s)
             \/ \E es \in Surface : Activate(s, es)
      PROVE  IInv'
  BY <1>2, SeatCreatedKeeps, SeatDestroyedKeeps, HandleSeatGoneKeeps, VisitMapKeeps,
     VisitSessionKeeps, VisitHuntKeeps, ActivateKeeps
<1>3. CASE SessionSignal \/ Return \/ HandleSession \/ HandleSurfaceGone \/ Shutdown
  BY <1>3, SessionSignalKeeps, ReturnKeeps, HandleSessionKeeps, HandleSurfaceGoneKeeps,
     ShutdownKeeps
<1>4. CASE UNCHANGED vars
  <2>1. UNCHANGED <<window, subs, seat, mapped, surfaces, parent, children, views, activated,
                    tracked, focusCount, focused, focus, queue, open, down, known, job, todo>>
    BY <1>4 DEF vars, libweston, family, activation
  <2>2. \A es : Alive(es)' <=> Alive(es)
    BY <2>1 DEF Alive
  <2>3. TypeOK' /\ Linked' /\ WorldSound'
    BY <2>1 DEF IInv, TypeOK, Linked, WorldSound, Visible
  <2>4. QueueSound' /\ JobSound'
    BY <2>1, <2>2, PendingGrows, QueueStays DEF Ended, IInv, JobSound
  <2>5. FocusWatched'
    BY <2>1, <2>2 DEF IInv, FocusWatched
  <2>6. FocusKept'
    BY <2>1 DEF IInv, FocusKept, FocusedIsManaged, CountCoversFocus
  <2> QED BY <2>3, <2>4, <2>5, <2>6 DEF IInv
<1> QED BY <1>1, <1>2, <1>3, <1>4 DEF Next

\* The invariant holds in every state of the shell.
THEOREM ShellSound == Spec => []IInv
BY InitIsSound, StepsAreSound, PTL DEF Spec

\* Every variable keeps its type, whatever windows, seats and clients do.
THEOREM ShellTyped == Spec => []TypeOK
<1>1. IInv => TypeOK
  BY DEF IInv
<1> QED BY <1>1, ShellSound, PTL

\* Parents and lists of children are inverse to each other, each child is
\* listed once, and only live windows are related, for families of any size
\* (set_parent, surface_removed).
THEOREM FamiliesAreLinked == Spec => []FamilyLinked
<1>1. IInv => FamilyLinked
  BY LinkedIsFamily DEF IInv
<1> QED BY <1>1, ShellSound, PTL

\* References on focused surfaces are exact, and the death of a focused
\* surface reaches every seat that focused it (track_surface,
\* untrack_surface, focus_surface_gone).
THEOREM FocusIsWatched == Spec => []FocusWatched
<1>1. IInv => FocusWatched
  BY DEF IInv
<1> QED BY <1>1, ShellSound, PTL

\* No seat names a window that is gone, and no window that is focused is
\* counted as unfocused (activate, change_focus_count).
THEOREM FocusIsKept == Spec => []FocusKept
<1>1. IInv => FocusKept
  BY DEF IInv
<1> QED BY <1>1, ShellSound, PTL

LEMMA FocusReplacedByStep ==
  ASSUME IInv, [Next]_vars, NEW s \in Seat,
         focus[s] # None, focus'[s] = None, seat[s] = "live", ~down'
  PROVE  Visible = {}
<1>0. focus \in [Seat -> Surface \cup {None}]
  BY DEF IInv, TypeOK
<1>1. CASE focus' = focus
  BY <1>1
<1>2. ASSUME NEW r \in Seat, HandleSeatGone(r) PROVE FALSE
  <2>1. focus' = [focus EXCEPT ![r] = None] /\ seat[r] = "gone"
    BY <1>2, HandleSeatGoneKeeps DEF HandleSeatGone
  <2> QED BY <1>0, <2>1
<1>3. ASSUME NEW r \in Seat, VisitHunt(r) PROVE Visible = {}
  BY <1>3, VisitHuntKeeps
<1>4. ASSUME NEW r \in Seat, NEW x \in Surface, TakeFocus(r, x.of, x, focus) PROVE FALSE
  BY <1>0, <1>4, NoneIsNothing DEF TakeFocus
<1>5. ASSUME NEW r \in Seat, NEW w, NEW x \in Surface, ActivateOn(r, w, x, focus) PROVE FALSE
  <2>1. CASE w \notin surfaces
    BY <1>5, <2>1 DEF ActivateOn
  <2>2. CASE w \in surfaces
    <3>1. Descend(w) \in surfaces /\ surfaces \subseteq Window
      BY <2>2, DescendIsManaged DEF IInv, TypeOK
    <3>2. PICK y \in Surface : TakeFocus(r, Descend(w), y, focus)
      BY <1>5, <2>2, <3>1 DEF ActivateOn, Surface
    <3> QED BY <1>0, <3>2, NoneIsNothing DEF TakeFocus
  <2> QED BY <2>1, <2>2
<1>6. ASSUME NEW r \in Seat, NEW x \in Surface, Activate(r, x) PROVE FALSE
  BY <1>5, <1>6 DEF Activate
<1>7. ASSUME NEW r \in Seat, VisitMap(r) PROVE FALSE
  <2>1. PICK w \in Window : job = MapJob(w)
    BY <1>7, VisitFrame DEF VisitMap, IInv, JobSound, SessionJob
  <2>2. Main(job.surface) \in Surface
    BY <2>1 DEF MapJob, Surface
  <2> QED BY <1>5, <1>7, <2>2 DEF VisitMap
<1>8. ASSUME NEW r \in Seat, VisitSession(r) PROVE FALSE
  <2>1. focused[r] \in Window
    BY <1>8, VisitFrame DEF VisitSession, IInv, TypeOK, JobSound, MapJob
  <2>2. Main(focused[r]) \in Surface
    BY <2>1 DEF Surface
  <2> QED BY <1>0, <1>8, <2>2, NoneIsNothing DEF VisitSession, TakeFocus
<1>9. ASSUME Shutdown PROVE FALSE
  BY <1>9, ShutdownKeeps
<1>10. CASE UNCHANGED vars
  BY <1>1, <1>10 DEF vars, activation
<1>11. ASSUME NEW w \in Window,
              \/ SurfaceAdded(w) \/ SurfaceRemoved(w) \/ Committed(w) \/ Unmapped(w)
              \/ SubDies(w) \/ MainDies(w)
              \/ \E p \in Window \cup {None} : ParentSet(w, p)
       PROVE  focus' = focus
  BY <1>11 DEF SurfaceAdded, SurfaceRemoved, Committed, Unmapped, SubDies, MainDies,
               ParentSet, activation
<1>12. ASSUME NEW r \in Seat, SeatCreated(r) \/ SeatDestroyed(r) PROVE focus' = focus
  BY <1>12 DEF SeatCreated, SeatDestroyed, activation
<1>13. CASE SessionSignal \/ Return \/ HandleSession \/ HandleSurfaceGone
  BY <1>1, <1>13 DEF SessionSignal, Return, HandleSession, HandleSurfaceGone, activation
<1> QED BY <1>1, <1>2, <1>3, <1>6, <1>7, <1>8, <1>9, <1>10, <1>11, <1>12, <1>13 DEF Next

\* A live seat loses its focus only when the workspace shows no window
\* (focus_surface_gone).
THEOREM FocusIsAlwaysReplaced == Spec => FocusIsReplaced
<1>1. IInv /\ [Next]_vars =>
        [\A s \in Seat :
           focus[s] # None /\ focus'[s] = None /\ seat[s] = "live" /\ ~down'
             => Visible = {}]_vars
  BY FocusReplacedByStep
<1> QED BY <1>1, ShellSound, PTL DEF Spec, FocusIsReplaced

===============================================================================
