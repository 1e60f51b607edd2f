------------------------- MODULE GuardedCallsProofs -------------------------
(***************************************************************************)
(* What the guards do to the code of any functions, called with anything:  *)
(* if each guard gets a place where it has what it reads (GuardsPlaced),   *)
(* then the code is sound on all its paths each time that it is patched    *)
(* (CodeFits), and every instruction that any call ever runs finds what it *)
(* needs (RunFits), also in the frames that still run the code of before.  *)
(*                                                                         *)
(* The argument has two halves.  One is about code: a typing of it is one  *)
(* of the code with a guard, as a block that does what the instruction did *)
(* in whose place it comes leaves the types of all the others as they were *)
(* (RewrittenFits), and each block that Build makes is one (BuildFits).    *)
(* The other is about the frames of a call: Stands is the invariant of one *)
(* frame, some typing of its code gives its place the variables it has and *)
(* the depth of its stack, one more than that in a frame that waits for    *)
(* the result of a getter.                                                 *)
(***************************************************************************)
EXTENDS GuardedCalls, SequenceTheorems, FiniteSetTheorems, TLAPS

IsSeq(s) == \E S : s \in Seq(S)
IsFrame(f) == f = [fn |-> f.fn, code |-> f.code, pc |-> f.pc, stack |-> f.stack, locals |-> f.locals]

ReturnDepths == IF Neat THEN {1} ELSE Nat

Fits(c, bound, rets, ty) ==
  /\ IsTyping(c, bound, ty)
  /\ \A n \in DOMAIN ty : Op(c[n]) = "RETURN_VALUE" => ty[n].depth \in rets

(* Code as the compiler or an earlier guard leaves it: it begins with       *)
(* RESUME, and the labels of a guard for code of this length are new in it. *)
Numbered(c) == \A j \in 1 .. Len(c) :
                 Op(c[j]) = "LABEL" => Arg(c[j])[2][1] \in Nat /\ Arg(c[j])[2][1] < Len(c)
Ready(c) == IsSeq(c) /\ Len(c) # 0 /\ Op(c[1]) = "RESUME" /\ Numbered(c)
(* Such code that is sound on all its paths. *)
Fitting(c, params, rets) == Ready(c) /\ \E ty : Fits(c, params, rets, ty)

(* w values are still to come. *)
Stands(f, w, params, presumed, rets) ==
  /\ Ready(f.code)
  /\ \E ty : /\ Fits(f.code, params \cup presumed, rets, ty)
             /\ f.pc \in DOMAIN ty /\ ty[f.pc].bound \subseteq DOMAIN f.locals \cup presumed
             /\ IsSeq(f.stack) /\ Len(f.stack) + w = ty[f.pc].depth

ParamsOf(s, fn) ==
  IF fn = "getter" THEN {"self"}
  ELSE {v \in Locals(Sources[s].code) : \A a \in Sources[s].inputs : v \in DOMAIN a}

FramesFit ==
  /\ IsSeq(frames)
  /\ \A i \in 1 .. Len(frames) :
       /\ IsFrame(frames[i])
       /\ frames[i].fn = IF i = 1 THEN "function" ELSE "getter"
       /\ Stands(frames[i], IF i = Len(frames) THEN 0 ELSE 1, ParamsOf(source, frames[i].fn),
                 Presumed, ReturnDepths)

IsEngine(c) == c = [fn \in {"function", "getter"} |-> c[fn]]
FitsAt(fn) == Fitting(code[fn], ParamsOf(source, fn) \cup Presumed, ReturnDepths)
CodeStands == IsEngine(code) /\ \A fn \in {"function", "getter"} : FitsAt(fn)

Shape ==
  /\ source \in DOMAIN Sources
  /\ phase \in {"idle", "run", "raised", "unwind"}
  /\ (phase = "idle") = (frames = <<>>)
  /\ calls \in 0 .. MaxCalls /\ IsSeq(patches) /\ Len(patches) <= MaxPatches

Inv == Shape /\ FramesFit /\ CodeStands

----------------------------------------------------------------------------
(* Sequences of anything.                                                   *)

LEMMA SeqFacts ==
  ASSUME NEW s, IsSeq(s)
  PROVE  /\ Len(s) \in Nat /\ DOMAIN s = 1 .. Len(s)
         /\ Len(s) = 0 <=> s = <<>>
<1>1. PICK S : s \in Seq(S)
  BY DEF IsSeq
<1> QED BY <1>1, EmptySeq, LenProperties

LEMMA EmptyIsSeq == IsSeq(<<>>) /\ Len(<<>>) = 0
<1>1. <<>> \in Seq({})
  OBVIOUS
<1> QED BY <1>1 DEF IsSeq

LEMMA AloneIsSeq ==
  ASSUME NEW x PROVE IsSeq(<<x>>) /\ Len(<<x>>) = 1 /\ <<x>>[1] = x
<1>1. <<x>> \in Seq({x})
  OBVIOUS
<1> QED BY <1>1 DEF IsSeq

LEMMA FrontIsSeq ==
  ASSUME NEW s, IsSeq(s), NEW n \in 0 .. Len(s)
  PROVE  /\ IsSeq(SubSeq(s, 1, n)) /\ Len(SubSeq(s, 1, n)) = n
         /\ \A i \in 1 .. n : SubSeq(s, 1, n)[i] = s[i]
<1>1. PICK S : s \in Seq(S)
  BY DEF IsSeq
<1>2. Len(s) \in Nat
  BY SeqFacts
<1>3. SubSeq(s, 1, n) \in Seq(S)
  BY <1>1, <1>2
<1> QED BY <1>1, <1>2, <1>3 DEF IsSeq

LEMMA AppendIsSeq ==
  ASSUME NEW s, IsSeq(s), NEW x
  PROVE  /\ IsSeq(Append(s, x)) /\ Len(Append(s, x)) = Len(s) + 1
         /\ \A i \in 1 .. Len(s) : Append(s, x)[i] = s[i]
         /\ Append(s, x)[Len(s) + 1] = x
<1>1. PICK S : s \in Seq(S)
  BY DEF IsSeq
<1>2. s \in Seq(S \cup {x})
  BY <1>1, SeqMonotonic
<1>3. Append(s, x) \in Seq(S \cup {x})
  BY <1>2
<1> QED BY <1>2, <1>3, AppendProperties DEF IsSeq

Replaced(s, n, x) == [s EXCEPT ![n] = x]

LEMMA ExceptIsSeq ==
  ASSUME NEW s, IsSeq(s), NEW n \in 1 .. Len(s), NEW x
  PROVE  /\ IsSeq(Replaced(s, n, x)) /\ Len(Replaced(s, n, x)) = Len(s)
         /\ \A i \in 1 .. Len(s) : Replaced(s, n, x)[i] = IF i = n THEN x ELSE s[i]
<1>1. PICK S : s \in Seq(S)
  BY DEF IsSeq
<1>2. s \in Seq(S \cup {x}) /\ Len(s) \in Nat /\ DOMAIN s = 1 .. Len(s)
  BY <1>1, SeqMonotonic
<1>3. [s EXCEPT ![n] = x] \in Seq(S \cup {x})
  BY <1>2, ExceptSeq
<1>4. Len([s EXCEPT ![n] = x]) = Len(s)
  BY <1>2, ExceptSeq
<1> QED BY <1>2, <1>3, <1>4 DEF IsSeq, Replaced

(* One element changed, and one more. *)
Nested(s, n, x, y) == Append(Replaced(s, n, x), y)

LEMMA NestedIsSeq ==
  ASSUME NEW s, IsSeq(s), NEW n \in 1 .. Len(s), NEW x, NEW y
  PROVE  /\ IsSeq(Nested(s, n, x, y)) /\ Len(Nested(s, n, x, y)) = Len(s) + 1
         /\ Nested(s, n, x, y)[Len(s) + 1] = y
         /\ \A i \in 1 .. Len(s) : Nested(s, n, x, y)[i] = IF i = n THEN x ELSE s[i]
<1> DEFINE u == Replaced(s, n, x)
<1>1. /\ IsSeq(u) /\ Len(u) = Len(s)
      /\ \A i \in 1 .. Len(s) : u[i] = IF i = n THEN x ELSE s[i]
  BY ExceptIsSeq
<1> HIDE DEF u
<1>2. /\ IsSeq(Append(u, y)) /\ Len(Append(u, y)) = Len(u) + 1 /\ Append(u, y)[Len(u) + 1] = y
      /\ \A i \in 1 .. Len(u) : Append(u, y)[i] = u[i]
  BY <1>1, AppendIsSeq
<1> QED BY <1>1, <1>2 DEF u, Nested

(* One element fewer, and the last one that remains changed. *)
Dropped(s, x) == Replaced(SubSeq(s, 1, Len(s) - 1), Len(s) - 1, x)

LEMMA DroppedIsSeq ==
  ASSUME NEW s, IsSeq(s), Len(s) > 1, NEW x
  PROVE  /\ IsSeq(Dropped(s, x)) /\ Len(Dropped(s, x)) = Len(s) - 1
         /\ \A i \in 1 .. Len(s) - 1 : Dropped(s, x)[i] = IF i = Len(s) - 1 THEN x ELSE s[i]
<1> DEFINE n == Len(s) - 1
           u == SubSeq(s, 1, n)
<1>1. n \in 0 .. Len(s) /\ n \in 1 .. n
  BY SeqFacts
<1>2. IsSeq(u) /\ Len(u) = n /\ \A i \in 1 .. n : u[i] = s[i]
  BY <1>1, FrontIsSeq
<1> HIDE DEF u, n
<1>3. /\ IsSeq(Replaced(u, n, x)) /\ Len(Replaced(u, n, x)) = n
      /\ \A i \in 1 .. n : Replaced(u, n, x)[i] = IF i = n THEN x ELSE u[i]
  BY <1>1, <1>2, ExceptIsSeq
<1> QED BY <1>2, <1>3 DEF u, n, Dropped

(* A value in the place of the top n. *)
LEMMA PushIsSeq ==
  ASSUME NEW s, IsSeq(s), NEW n \in 0 .. Len(s), NEW x
  PROVE  /\ IsSeq(SubSeq(s, 1, Len(s) - n)) /\ Len(SubSeq(s, 1, Len(s) - n)) = Len(s) - n
         /\ IsSeq(Append(SubSeq(s, 1, Len(s) - n), x))
         /\ Len(Append(SubSeq(s, 1, Len(s) - n), x)) = Len(s) - n + 1
<1>1. Len(s) - n \in 0 .. Len(s)
  BY SeqFacts
<1> QED BY <1>1, FrontIsSeq, AppendIsSeq

LEMMA ConcatIsSeq ==
  ASSUME NEW s, IsSeq(s), NEW t, IsSeq(t)
  PROVE  IsSeq(s \o t) /\ Len(s \o t) = Len(s) + Len(t)
<1>1. PICK S : s \in Seq(S)
  BY DEF IsSeq
<1>2. PICK T : t \in Seq(T)
  BY DEF IsSeq
<1>3. s \in Seq(S \cup T) /\ t \in Seq(S \cup T)
  BY <1>1, <1>2, SeqMonotonic
<1> QED BY <1>3, ConcatProperties DEF IsSeq

(* What concatenation and SubSeq give, for sequences of anything. *)
IsConcat(u, s, t) ==
  /\ IsSeq(u) /\ Len(u) = Len(s) + Len(t)
  /\ \A i \in 1 .. Len(s) : u[i] = s[i]
  /\ \A i \in 1 .. Len(t) : u[Len(s) + i] = t[i]
IsPart(u, s, m, n) ==
  /\ IsSeq(u) /\ Len(u) = n - m + 1
  /\ \A i \in m .. n : u[i - m + 1] = s[i]

LEMMA ConcatAt ==
  ASSUME NEW s, IsSeq(s), NEW t, IsSeq(t) PROVE IsConcat(s \o t, s, t)
<1> DEFINE u == s \o t
           m == Len(s)
           n == Len(t)
<1>1. PICK S : s \in Seq(S)
  BY DEF IsSeq
<1>2. PICK T : t \in Seq(T)
  BY DEF IsSeq
<1>3. s \in Seq(S \cup T) /\ t \in Seq(S \cup T) /\ m \in Nat /\ n \in Nat
  BY <1>1, <1>2, SeqMonotonic, SeqFacts
<1>4. /\ u \in Seq(S \cup T) /\ Len(u) = m + n
      /\ \A i \in 1 .. m + n : u[i] = IF i <= m THEN s[i] ELSE t[i - m]
  BY <1>3, ConcatProperties
<1> HIDE DEF u
<1>5. \A i \in 1 .. m : u[i] = s[i]
  BY <1>3, <1>4
<1>6. ASSUME NEW i \in 1 .. n PROVE u[m + i] = t[i]
  <2>1. m + i \in 1 .. m + n /\ ~(m + i <= m) /\ (m + i) - m = i
    BY <1>3
  <2> QED BY <1>4, <2>1
<1> QED BY <1>4, <1>5, <1>6 DEF IsConcat, IsSeq, u

LEMMA SubAt ==
  ASSUME NEW s, IsSeq(s), NEW m \in 1 .. Len(s) + 1, NEW n \in m - 1 .. Len(s)
  PROVE  IsPart(SubSeq(s, m, n), s, m, n)
<1> DEFINE u == SubSeq(s, m, n)
<1>1. PICK S : s \in Seq(S)
  BY DEF IsSeq
<1>2. Len(s) \in Nat /\ m \in Int /\ n \in Int /\ \A i \in m .. n : s[i] \in S
  BY <1>1, SeqFacts, ElementOfSeq
<1>3. /\ u \in Seq(S) /\ Len(u) = (IF m <= n THEN n - m + 1 ELSE 0)
      /\ \A i \in 1 .. n - m + 1 : u[i] = s[m + i - 1]
  BY <1>2, SubSeqProperties
<1> HIDE DEF u
<1>4. ASSUME NEW i \in m .. n PROVE u[i - m + 1] = s[i]
  <2>1. i - m + 1 \in 1 .. n - m + 1 /\ m + (i - m + 1) - 1 = i
    BY <1>2
  <2> QED BY <1>3, <2>1
<1>5. Len(u) = n - m + 1
  BY <1>2, <1>3
<1> QED BY <1>3, <1>4, <1>5 DEF IsPart, IsSeq, u

(* Code c with block b in the place of the instructions behind m and before n. *)
Between(c, m, b, n) == SubSeq(c, 1, m) \o b \o SubSeq(c, n, Len(c))
IsBetween(d, c, m, b, n) ==
  /\ IsSeq(d) /\ Len(d) = m + Len(b) + (Len(c) - n + 1)
  /\ \A j \in 1 .. m : d[j] = c[j]
  /\ \A k \in 1 .. Len(b) : d[m + k] = b[k]
  /\ \A j \in n .. Len(c) : d[m + Len(b) + (j - n + 1)] = c[j]

LEMMA BetweenAt ==
  ASSUME NEW c, IsSeq(c), NEW b, IsSeq(b), NEW m \in 0 .. Len(c), NEW n \in m + 1 .. Len(c) + 1
  PROVE  IsBetween(Between(c, m, b, n), c, m, b, n)
<1> DEFINE N == Len(c)
           B == Len(b)
           f == SubSeq(c, 1, m)
           g == SubSeq(c, n, N)
           h == f \o b
           d == h \o g
<1>1. N \in Nat /\ B \in Nat /\ m \in 0 .. N /\ n \in m + 1 .. N + 1
  BY SeqFacts
<1>2. IsPart(f, c, 1, m) /\ IsPart(g, c, n, N)
  BY <1>1, SubAt
<1> HIDE DEF f, g
<1>3. /\ IsSeq(f) /\ Len(f) = m /\ \A j \in 1 .. m : f[j] = c[j]
      /\ IsSeq(g) /\ Len(g) = N - n + 1 /\ \A j \in n .. N : g[j - n + 1] = c[j]
  <2>1. Len(f) = m /\ IsSeq(f)
    BY <1>1, <1>2 DEF IsPart
  <2>2. ASSUME NEW j \in 1 .. m PROVE f[j] = c[j]
    <3>1. f[j - 1 + 1] = c[j] /\ j - 1 + 1 = j
      BY <1>2 DEF IsPart
    <3> QED BY <3>1
  <2> QED BY <1>2, <2>1, <2>2 DEF IsPart
<1>4. IsConcat(h, f, b)
  BY <1>3, ConcatAt
<1> HIDE DEF h
<1>5. /\ IsSeq(h) /\ Len(h) = m + B
      /\ \A j \in 1 .. m : h[j] = c[j]
      /\ \A k \in 1 .. B : h[m + k] = b[k]
  BY <1>3, <1>4 DEF IsConcat
<1>6. IsConcat(d, h, g)
  BY <1>3, <1>5, ConcatAt
<1> HIDE DEF d
<1> DEFINE H == m + B
           G == N - n + 1
<1>7. /\ IsSeq(d) /\ Len(d) = H + G
      /\ \A j \in 1 .. H : d[j] = h[j]
      /\ \A k \in 1 .. G : d[H + k] = g[k]
  <2>1. Len(h) = H /\ Len(g) = G
    BY <1>3, <1>5
  <2> HIDE DEF H, G
  <2> QED BY <1>6, <2>1 DEF IsConcat
<1>8. \A j \in 1 .. m : d[j] = c[j]
  BY <1>1, <1>5, <1>7
<1>9. ASSUME NEW k \in 1 .. B PROVE d[m + k] = b[k]
  <2>1. m + k \in 1 .. H
    BY <1>1
  <2> QED BY <1>5, <1>7, <2>1
<1>10. ASSUME NEW j \in n .. N PROVE d[m + B + (j - n + 1)] = c[j]
  <2>1. j - n + 1 \in 1 .. G
    BY <1>1
  <2> QED BY <1>3, <1>7, <2>1
<1>11. Between(c, m, b, n) = d
  BY DEF Between, f, g, h, d
<1> QED BY <1>7, <1>8, <1>9, <1>10, <1>11 DEF IsBetween

----------------------------------------------------------------------------
(* Least and greatest elements; sequences put together.                     *)

(* What holds of every natural number is proved by its least counterexample. *)
LEMMA LeastOf ==
  ASSUME NEW S \in SUBSET Nat, S # {}
  PROVE  \E x \in S : \A y \in S : x <= y
<1> DEFINE R == StrictSubsetOrdering(Nat)
           T == {0 .. x : x \in S}
<1>1. IsWellFoundedOn(R, FiniteSubsetsOf(Nat))
  BY FS_StrictSubsetOrderingWellFounded
<1>2. T \subseteq FiniteSubsetsOf(Nat) /\ T # {}
  <2>1. ASSUME NEW x \in S PROVE 0 .. x \in FiniteSubsetsOf(Nat)
    <3>1. IsFiniteSet(0 .. x) /\ 0 .. x \subseteq Nat
      BY FS_Interval
    <3> QED BY <3>1 DEF FiniteSubsetsOf
  <2> QED BY <2>1
<1> HIDE DEF R, T
<1>3. PICK t \in T : \A u \in T : ~(<<u, t>> \in R)
  BY <1>1, <1>2, WFMin, Zenon
<1>4. PICK x \in S : t = 0 .. x
  BY DEF T
<1>5. ASSUME NEW y \in S, y < x PROVE FALSE
  <2>1. 0 .. y \in T
    BY DEF T
  <2>2. 0 .. y \subseteq 0 .. x /\ 0 .. y # 0 .. x
    <3>1. x \in 0 .. x /\ ~(x \in 0 .. y)
      BY <1>5
    <3> QED BY <1>5, <3>1
  <2>3. <<0 .. y, t>> \in R
    BY <1>4, <2>2 DEF R, StrictSubsetOrdering
  <2> QED BY <1>3, <2>1, <2>3
<1> QED BY <1>5

LEMMA MinOf ==
  ASSUME NEW S \in SUBSET Nat, S # {}
  PROVE  Min(S) \in S /\ \A y \in S : Min(S) <= y
BY LeastOf DEF Min

LEMMA MaxOf ==
  ASSUME NEW n \in Nat, NEW S \in SUBSET (0 .. n), S # {}
  PROVE  Max(S) \in S /\ \A y \in S : Max(S) >= y
<1> DEFINE T == {n - x : x \in S}
<1>1. T \in SUBSET Nat /\ T # {}
  <2>1. ASSUME NEW x \in S PROVE n - x \in Nat
    BY SMT
  <2> QED BY <2>1
<1>2. PICK z \in T : \A y \in T : z <= y
  BY <1>1, LeastOf
<1>3. PICK m \in S : z = n - m
  BY <1>2
<1>4. ASSUME NEW y \in S PROVE m >= y
  <2>1. n - y \in T
    OBVIOUS
  <2>2. z <= n - y
    BY <1>2, <2>1
  <2> QED BY <1>3, <2>2
<1> HIDE DEF T
<1> QED BY <1>3, <1>4 DEF Max

Sequences(s) == IsSeq(s) /\ Len(s) # 0 /\ \A i \in 1 .. Len(s) : IsSeq(s[i])
(* How FlattenSeq comes about. *)
Accumulates(f, s, n) == f = [i \in 1 .. n |-> IF i = 1 THEN s[i] ELSE f[i - 1] \o s[i]]

LEMMA AccumulatesAt ==
  ASSUME NEW s, NEW n \in Nat
  PROVE  \E f : Accumulates(f, s, n)
<1> SUFFICES ASSUME ~\E f : Accumulates(f, s, n) PROVE FALSE
  OBVIOUS
<1> DEFINE S == {m \in Nat : ~\E f : Accumulates(f, s, m)}
<1>1. PICK m \in S : \A y \in S : m <= y
  <2>1. S \in SUBSET Nat /\ S # {}
    OBVIOUS
  <2> HIDE DEF S
  <2> QED BY <2>1, LeastOf
<1>2. m \in Nat /\ ~\E f : Accumulates(f, s, m)
  OBVIOUS
<1>3. CASE m = 0
  <2>1. Accumulates([i \in 1 .. 0 |-> 0], s, 0)
    BY DEF Accumulates
  <2> QED BY <1>2, <1>3, <2>1
<1>4. CASE m # 0
  <2> DEFINE k == m - 1
  <2>1. k \in Nat /\ k < m
    BY <1>2, <1>4
  <2>2. PICK f : Accumulates(f, s, k)
    BY <1>1, <2>1
  <2> DEFINE g == [i \in 1 .. m |-> IF i = 1 THEN s[i] ELSE f[i - 1] \o s[i]]
  <2>3. ASSUME NEW i \in 1 .. m, i # 1 PROVE g[i - 1] = f[i - 1]
    <3>1. i - 1 \in 1 .. k /\ i - 1 \in 1 .. m
      BY <1>2, <2>3
    <3>2. f[i - 1] = IF i - 1 = 1 THEN s[i - 1] ELSE f[(i - 1) - 1] \o s[i - 1]
      BY <2>2, <3>1 DEF Accumulates
    <3>3. g[i - 1] = IF i - 1 = 1 THEN s[i - 1] ELSE f[(i - 1) - 1] \o s[i - 1]
      BY <3>1
    <3> QED BY <3>2, <3>3
  <2>4. g = [i \in 1 .. m |-> IF i = 1 THEN s[i] ELSE g[i - 1] \o s[i]]
    <3>1. ASSUME NEW i \in 1 .. m
          PROVE  (IF i = 1 THEN s[i] ELSE f[i - 1] \o s[i]) = IF i = 1 THEN s[i] ELSE g[i - 1] \o s[i]
      BY <2>3
    <3> HIDE DEF g
    <3>2. g = [i \in 1 .. m |-> IF i = 1 THEN s[i] ELSE f[i - 1] \o s[i]]
      BY DEF g
    <3> QED BY <3>1, <3>2
  <2>5. Accumulates(g, s, m)
    <3> HIDE DEF g
    <3> QED BY <2>4 DEF Accumulates
  <2> QED BY <1>2, <2>5
<1> QED BY <1>3, <1>4

LEMMA FlattenAccumulates ==
  ASSUME NEW s, Len(s) \in Nat \ {0}
  PROVE  \E f : Accumulates(f, s, Len(s)) /\ FlattenSeq(s) = f[Len(s)]
<1> DEFINE F == CHOOSE f : Accumulates(f, s, Len(s))
<1>1. Accumulates(F, s, Len(s))
  BY AccumulatesAt
<1>2. FlattenSeq(s) = F[Len(s)]
  BY DEF FlattenSeq, Accumulates
<1> QED BY <1>1, <1>2

(* The first m sequences of s are in d, sequence i behind position start[i]. *)
Laid(d, s, m, start) ==
  /\ IsSeq(d) /\ Len(d) = start[m] + Len(s[m])
  /\ \A i \in 1 .. m : /\ start[i] \in Nat /\ start[i] + Len(s[i]) <= Len(d)
                       /\ \A k \in 1 .. Len(s[i]) : d[start[i] + k] = s[i][k]
  /\ \A n \in 1 .. Len(d) : \E i \in 1 .. m : n - start[i] \in 1 .. Len(s[i])

LEMMA LaidNext ==
  ASSUME NEW s, Sequences(s), NEW m \in 1 .. Len(s), m + 1 \in 1 .. Len(s), NEW d, NEW start,
         Laid(d, s, m, start), start[m + 1] = Len(d), NEW e, IsConcat(e, d, s[m + 1])
  PROVE  Laid(e, s, m + 1, start)
<1> DEFINE t == s[m + 1]
           D == Len(d)
           T == Len(t)
<1>1. m \in Nat /\ D \in Nat /\ T \in Nat /\ IsSeq(e) /\ Len(e) = D + T
  BY SeqFacts DEF Sequences, Laid, IsConcat
<1>2. (\A i \in 1 .. D : e[i] = d[i]) /\ \A k \in 1 .. T : e[D + k] = t[k]
  BY DEF IsConcat
<1>3. ASSUME NEW i \in 1 .. m + 1
      PROVE  /\ start[i] \in Nat /\ start[i] + Len(s[i]) <= Len(e)
             /\ \A k \in 1 .. Len(s[i]) : e[start[i] + k] = s[i][k]
  <2>1. CASE i = m + 1
    BY <1>1, <1>2, <2>1
  <2>2. CASE i # m + 1
    <3>1. i \in 1 .. m /\ Len(s[i]) \in Nat
      BY <1>1, <2>2, SeqFacts DEF Sequences
    <3>2. start[i] \in Nat /\ start[i] + Len(s[i]) <= D /\ \A k \in 1 .. Len(s[i]) : d[start[i] + k] = s[i][k]
      BY <3>1 DEF Laid
    <3>3. ASSUME NEW k \in 1 .. Len(s[i]) PROVE start[i] + k \in 1 .. D
      BY <1>1, <3>1, <3>2
    <3> QED BY <1>1, <1>2, <3>1, <3>2, <3>3
  <2> QED BY <2>1, <2>2
<1>4. ASSUME NEW n \in 1 .. Len(e) PROVE \E i \in 1 .. m + 1 : n - start[i] \in 1 .. Len(s[i])
  <2>1. CASE n <= D
    <3>1. n \in 1 .. D
      BY <1>1, <2>1
    <3>2. PICK i \in 1 .. m : n - start[i] \in 1 .. Len(s[i])
      BY <3>1 DEF Laid
    <3>3. i \in 1 .. m + 1
      BY <1>1
    <3> QED BY <3>2, <3>3
  <2>2. CASE ~(n <= D)
    <3>1. n - start[m + 1] \in 1 .. Len(s[m + 1])
      BY <1>1, <2>2
    <3>2. m + 1 \in 1 .. m + 1
      BY <1>1
    <3> QED BY <3>1, <3>2
  <2> QED BY <2>1, <2>2
<1> QED BY <1>1, <1>3, <1>4 DEF Laid

LEMMA AllLaid ==
  ASSUME NEW s, Sequences(s), NEW f, Accumulates(f, s, Len(s)), NEW m \in 1 .. Len(s)
  PROVE  Laid(f[m], s, m, [i \in 1 .. Len(s) |-> Len(f[i]) - Len(s[i])])
<1> DEFINE N == Len(s)
           start == [i \in 1 .. N |-> Len(f[i]) - Len(s[i])]
           S == {i \in 1 .. N : ~Laid(f[i], s, i, start)}
<1>1. N \in Nat \ {0}
  BY SeqFacts DEF Sequences
<1>2. ASSUME NEW i \in 1 .. N PROVE f[i] = (IF i = 1 THEN s[i] ELSE f[i - 1] \o s[i]) /\ start[i] = Len(f[i]) - Len(s[i])
  BY DEF Accumulates
<1> HIDE DEF start
<1>3. Laid(f[1], s, 1, start)
  <2>1. f[1] = s[1] /\ start[1] = Len(f[1]) - Len(s[1]) /\ IsSeq(s[1])
    <3>1. 1 \in 1 .. N
      BY <1>1
    <3> QED BY <1>2, <3>1 DEF Sequences
  <2>2. Len(s[1]) \in Nat
    BY <2>1, SeqFacts
  <2>3. start[1] = 0
    BY <2>1, <2>2
  <2>4. \A i \in 1 .. 1 : i = 1
    OBVIOUS
  <2>5. ASSUME NEW n \in 1 .. Len(s[1]) PROVE \E i \in 1 .. 1 : n - start[i] \in 1 .. Len(s[i])
    <3>1. 1 \in 1 .. 1 /\ n - start[1] \in 1 .. Len(s[1])
      BY <2>2, <2>3
    <3> QED BY <3>1
  <2> QED BY <2>1, <2>2, <2>3, <2>4, <2>5 DEF Laid
<1>4. ASSUME S # {} PROVE FALSE
  <2>1. PICK x \in S : \A y \in S : x <= y
    <3>1. S \in SUBSET Nat
      BY <1>1
    <3> HIDE DEF S
    <3> QED BY <1>4, <3>1, LeastOf
  <2>2. x \in 1 .. N /\ ~Laid(f[x], s, x, start)
    OBVIOUS
  <2>3. x # 1
    BY <1>3, <2>2
  <2> DEFINE k == x - 1
  <2>4. k \in 1 .. N /\ k + 1 = x /\ k < x /\ k \in 1 .. Len(s) /\ k + 1 \in 1 .. Len(s)
    BY <1>1, <2>2, <2>3
  <2>5. Laid(f[k], s, k, start)
    BY <2>1, <2>4
  <2> HIDE DEF S, k
  <2>6. f[x] = f[k] \o s[x] /\ start[x] = Len(f[x]) - Len(s[x])
    BY <1>2, <2>2, <2>3 DEF k
  <2>7. IsSeq(f[k]) /\ IsSeq(s[x])
    BY <2>2, <2>5 DEF Laid, Sequences
  <2>8. IsConcat(f[x], f[k], s[x])
    BY <2>6, <2>7, ConcatAt
  <2>9. Len(f[x]) = Len(f[k]) + Len(s[x]) /\ Len(f[k]) \in Nat /\ Len(s[x]) \in Nat
    BY <2>7, <2>8, SeqFacts DEF IsConcat
  <2>10. start[k + 1] = Len(f[k]) /\ IsConcat(f[x], f[k], s[k + 1])
    BY <2>4, <2>6, <2>8, <2>9
  <2>11. Laid(f[x], s, k + 1, start)
    BY <2>4, <2>5, <2>10, LaidNext
  <2> QED BY <2>2, <2>4, <2>11
<1> QED BY <1>4 DEF start

(* How FlattenSeq lays the blocks out. *)
Flattened(d, s, start, of) ==
  /\ IsSeq(d) /\ start[1] = 0
  /\ \A i \in 1 .. Len(s) :
       /\ start[i] \in Nat
       /\ i + 1 \in 1 .. Len(s) => start[i + 1] = start[i] + Len(s[i])
       /\ \A j \in 1 .. Len(s) : i < j => start[i] + Len(s[i]) <= start[j]
       /\ \A k \in 1 .. Len(s[i]) : start[i] + k \in 1 .. Len(d) /\ d[start[i] + k] = s[i][k]
  /\ \A n \in 1 .. Len(d) : of[n] \in 1 .. Len(s) /\ n - start[of[n]] \in 1 .. Len(s[of[n]])
  /\ Len(d) = start[Len(s)] + Len(s[Len(s)])

LEMMA FlattenLays ==
  ASSUME NEW s, Sequences(s)
  PROVE  \E start, of : Flattened(FlattenSeq(s), s, start, of)
<1> DEFINE N == Len(s)
<1>1. N \in Nat \ {0}
  BY SeqFacts DEF Sequences
<1>2. PICK f : Accumulates(f, s, N) /\ FlattenSeq(s) = f[N]
  BY <1>1, FlattenAccumulates
<1> DEFINE start == [i \in 1 .. N |-> Len(f[i]) - Len(s[i])]
           d == f[N]
           of == [n \in 1 .. Len(d) |-> CHOOSE i \in 1 .. N : n - start[i] \in 1 .. Len(s[i])]
<1>3. ASSUME NEW i \in 1 .. N
      PROVE  /\ Laid(f[i], s, i, start) /\ start[i] = Len(f[i]) - Len(s[i])
             /\ i # 1 => f[i] = f[i - 1] \o s[i]
             /\ i = 1 => f[i] = s[i]
  BY <1>2, AllLaid DEF Accumulates
<1>4. \A n \in 1 .. Len(d) : of[n] = CHOOSE i \in 1 .. N : n - start[i] \in 1 .. Len(s[i])
  OBVIOUS
<1> HIDE DEF start, of
<1>5. ASSUME NEW i \in 1 .. N
      PROVE  Len(s[i]) \in Nat /\ start[i] \in Nat /\ Len(f[i]) = start[i] + Len(s[i]) /\ IsSeq(f[i])
  <2>1. Len(s[i]) \in Nat /\ i \in 1 .. i
    BY <1>1, SeqFacts DEF Sequences
  <2> QED BY <1>3, <2>1 DEF Laid
<1>6. start[1] = 0
  <2>1. 1 \in 1 .. N
    BY <1>1
  <2>2. f[1] = s[1] /\ start[1] = Len(f[1]) - Len(s[1])
    BY <1>3, <2>1
  <2>3. Len(s[1]) \in Nat
    BY <1>5, <2>1
  <2> QED BY <2>2, <2>3
<1>7. ASSUME NEW i \in 1 .. N, i + 1 \in 1 .. N PROVE start[i + 1] = Len(f[i])
  <2> DEFINE j == i + 1
  <2>1. j \in 1 .. N /\ j # 1 /\ j - 1 = i
    BY <1>1, <1>7
  <2> HIDE DEF j
  <2>2. f[j] = f[i] \o s[j] /\ IsSeq(f[i]) /\ IsSeq(s[j])
    BY <1>3, <1>5, <2>1 DEF Sequences
  <2>3. IsConcat(f[j], f[i], s[j])
    BY <2>2, ConcatAt
  <2>4. Len(f[j]) = Len(f[i]) + Len(s[j])
    BY <2>3 DEF IsConcat
  <2>5. start[j] = Len(f[j]) - Len(s[j]) /\ Len(s[j]) \in Nat /\ Len(f[i]) \in Nat
    <3>1. start[j] = Len(f[j]) - Len(s[j])
      BY <1>3, <2>1
    <3>2. Len(s[j]) \in Nat /\ Len(f[i]) \in Nat
      BY <2>1, <2>2, SeqFacts
    <3> QED BY <3>1, <3>2
  <2>6. start[j] = Len(f[i])
    BY <2>4, <2>5
  <2> QED BY <2>6 DEF j
<1>8. ASSUME NEW i \in 1 .. N, NEW j \in 1 .. N, i < j PROVE start[i] + Len(s[i]) <= start[j]
  <2> DEFINE k == j - 1
  <2>1. k \in 1 .. N /\ k + 1 \in 1 .. N /\ k + 1 = j /\ i \in 1 .. k
    BY <1>1, <1>8
  <2>2. start[k + 1] = Len(f[k])
    BY <1>7, <2>1
  <2>3. start[i] + Len(s[i]) <= Len(f[k])
    BY <1>3, <2>1 DEF Laid
  <2> QED BY <2>1, <2>2, <2>3
<1>9. N \in 1 .. N
  BY <1>1
<1>10. ASSUME NEW i \in 1 .. N, NEW k \in 1 .. Len(s[i])
       PROVE  start[i] + k \in 1 .. Len(d) /\ d[start[i] + k] = s[i][k]
  <2>1. d[start[i] + k] = s[i][k] /\ start[i] + Len(s[i]) <= Len(d)
    BY <1>3, <1>9 DEF Laid
  <2>2. Len(d) \in Nat /\ start[i] \in Nat /\ Len(s[i]) \in Nat
    BY <1>5, <1>9
  <2> QED BY <2>1, <2>2
<1>11. ASSUME NEW n \in 1 .. Len(d) PROVE of[n] \in 1 .. N /\ n - start[of[n]] \in 1 .. Len(s[of[n]])
  <2>1. \E i \in 1 .. N : n - start[i] \in 1 .. Len(s[i])
    BY <1>3, <1>9 DEF Laid
  <2> QED BY <1>4, <2>1
<1>12. IsSeq(d) /\ Len(d) = start[N] + Len(s[N])
  BY <1>5, <1>9
<1>13. ASSUME NEW i \in 1 .. N, i + 1 \in 1 .. N PROVE start[i + 1] = start[i] + Len(s[i])
  BY <1>5, <1>7, <1>13
<1>14. Flattened(d, s, start, of)
  BY <1>5, <1>6, <1>8, <1>10, <1>11, <1>12, <1>13 DEF Flattened
<1> QED BY <1>2, <1>14

----------------------------------------------------------------------------
(* Code with blocks in the place of its instructions.                       *)

(* Code d is code c with the block blocks[i] in the place of instruction i,  *)
(* which begins behind position start[i]; instruction of[n] was replaced    *)
(* by the one at n.                                                        *)
Kept(c, blocks, i) == blocks[i] = <<c[i]>>
Placed(c, blocks, d, start, of) ==
  \A i \in 1 .. Len(c) :
    /\ IsSeq(blocks[i]) /\ Len(blocks[i]) \in Nat \ {0} /\ start[i] \in Nat
    /\ \A k \in 1 .. Len(blocks[i]) :
         start[i] + k \in 1 .. Len(d) /\ of[start[i] + k] = i /\ d[start[i] + k] = blocks[i][k]
Ordered(c, blocks, start) ==
  /\ 1 \in 1 .. Len(c) => start[1] = 0
  /\ \A i \in 1 .. Len(c) :
       /\ \A j \in 1 .. Len(c) : i < j => start[i] + Len(blocks[i]) <= start[j]
       /\ i + 1 \in 1 .. Len(c) => start[i + 1] = start[i] + Len(blocks[i])
Complete(c, blocks, d, start, of) ==
  \A n \in 1 .. Len(d) : of[n] \in 1 .. Len(c) /\ n - start[of[n]] \in 1 .. Len(blocks[of[n]])
(* Only instructions are replaced that control does not jump to or from,    *)
(* and the labels of a block are its own.                                  *)
Separate(c, blocks, d, of) ==
  \A i \in 1 .. Len(c) : ~Kept(c, blocks, i) =>
    /\ Op(c[i]) \notin Marks /\ ~Jumps(c[i])
    /\ \A k \in 1 .. Len(blocks[i]) :
         /\ Op(blocks[i][k]) \notin {"TRY_BEGIN", "TRY_END"}
         /\ Op(blocks[i][k]) = "LABEL" => \A n \in 1 .. Len(d) : d[n] = blocks[i][k] => of[n] = i
Rewritten(c, blocks, d, start, of) ==
  /\ IsSeq(c) /\ IsSeq(d)
  /\ Placed(c, blocks, d, start, of) /\ Ordered(c, blocks, start)
  /\ Complete(c, blocks, d, start, of) /\ Separate(c, blocks, d, of)

(* A block b in the place of an instruction that has type t does what the   *)
(* instruction did to the stack and the variables, on all of its paths.     *)
Falls(i) == Op(i) \notin {"RETURN_VALUE", "JUMP_FORWARD"}
Does(b, instr, t, rets, bt) ==
  /\ bt[1] = t
  /\ \A k \in 1 .. Len(b) :
       /\ bt[k].depth \in Nat /\ Takes(b[k]) \in 0 .. bt[k].depth /\ t.bound \subseteq bt[k].bound
       /\ Op(b[k]) = "LOAD_FAST" => Arg(b[k]) \in bt[k].bound
       /\ Op(b[k]) = "RETURN_VALUE" => bt[k].depth \in rets
       /\ Jumps(b[k]) => HasGoal(b, Arg(b[k]))
       /\ \A m \in Follows(b, k) :
            /\ m > k /\ bt[m].depth = bt[k].depth - Takes(b[k]) + Gives(b[k])
            /\ bt[m].bound \subseteq bt[k].bound \cup Binds(b[k])
  /\ Falls(b[Len(b)]) =>
       /\ Falls(instr) /\ bt[Len(b) + 1].depth = t.depth - Takes(instr) + Gives(instr)
       /\ t.bound \cup Binds(instr) \subseteq bt[Len(b) + 1].bound

LEMMA GoalFacts ==
  ASSUME NEW c, NEW l, HasGoal(c, l)
  PROVE  /\ Goal(c, l) \in DOMAIN c /\ c[Goal(c, l)] = Label(l)
         /\ \A j \in DOMAIN c : c[j] = Label(l) => j = Goal(c, l)
BY DEF HasGoal, Goal

LEMMA GoalOnly ==
  ASSUME NEW c, NEW l, NEW n \in DOMAIN c, c[n] = Label(l), \A j \in DOMAIN c : c[j] = Label(l) => j = n
  PROVE  HasGoal(c, l) /\ Goal(c, l) = n
<1>1. HasGoal(c, l)
  BY DEF HasGoal
<1> QED BY <1>1, GoalFacts

(* What stands at a position of the new code. *)
LEMMA PlaceOf ==
  ASSUME NEW c, NEW blocks, NEW d, NEW start, NEW of, Rewritten(c, blocks, d, start, of),
         NEW n \in 1 .. Len(d)
  PROVE  LET i == of[n] k == n - start[of[n]] IN
         /\ i \in 1 .. Len(c) /\ k \in 1 .. Len(blocks[i]) /\ start[i] \in Nat /\ n = start[i] + k
         /\ IsSeq(blocks[i]) /\ Len(blocks[i]) \in Nat \ {0} /\ d[n] = blocks[i][k]
<1> DEFINE i == of[n]
           k == n - start[i]
<1>1. i \in 1 .. Len(c) /\ k \in 1 .. Len(blocks[i])
  BY DEF Rewritten, Complete
<1>2. IsSeq(blocks[i]) /\ Len(blocks[i]) \in Nat \ {0} /\ start[i] \in Nat /\ d[start[i] + k] = blocks[i][k]
  BY <1>1 DEF Rewritten, Placed
<1>3. n = start[i] + k
  BY <1>2, SeqFacts DEF Rewritten
<1> QED BY <1>1, <1>2, <1>3

(* Where an instruction went. *)
LEMMA PlaceAt ==
  ASSUME NEW c, NEW blocks, NEW d, NEW start, NEW of, Rewritten(c, blocks, d, start, of),
         NEW i \in 1 .. Len(c), NEW k \in 1 .. Len(blocks[i])
  PROVE  /\ start[i] + k \in 1 .. Len(d) /\ of[start[i] + k] = i /\ d[start[i] + k] = blocks[i][k]
         /\ start[i] \in Nat /\ (start[i] + k) - start[i] = k
<1>1. /\ start[i] + k \in 1 .. Len(d) /\ of[start[i] + k] = i /\ d[start[i] + k] = blocks[i][k]
      /\ start[i] \in Nat /\ Len(blocks[i]) \in Nat
  BY DEF Rewritten, Placed
<1> QED BY <1>1

LEMMA KeptAt ==
  ASSUME NEW c, NEW blocks, NEW d, NEW start, NEW of, Rewritten(c, blocks, d, start, of),
         NEW i \in 1 .. Len(c), Kept(c, blocks, i)
  PROVE  /\ Len(blocks[i]) = 1 /\ start[i] + 1 \in 1 .. Len(d) /\ of[start[i] + 1] = i
         /\ d[start[i] + 1] = c[i] /\ start[i] \in Nat
<1>1. Len(blocks[i]) = 1 /\ blocks[i][1] = c[i]
  BY AloneIsSeq DEF Kept
<1> QED BY <1>1, PlaceAt

LEMMA KeptOf ==
  ASSUME NEW c, NEW blocks, NEW d, NEW start, NEW of, Rewritten(c, blocks, d, start, of),
         NEW n \in 1 .. Len(d), Kept(c, blocks, of[n])
  PROVE  n = start[of[n]] + 1 /\ d[n] = c[of[n]]
<1>1. Len(blocks[of[n]]) = 1 /\ blocks[of[n]][1] = c[of[n]]
  BY AloneIsSeq DEF Kept
<1> QED BY <1>1, PlaceOf

(* Labels, and the marks of try ranges, are where they were. *)
LEMMA GoalMoves ==
  ASSUME NEW c, NEW blocks, NEW d, NEW start, NEW of, Rewritten(c, blocks, d, start, of),
         NEW l, HasGoal(c, l)
  PROVE  /\ HasGoal(d, l) /\ Goal(d, l) = start[Goal(c, l)] + 1
         /\ Goal(c, l) \in 1 .. Len(c) /\ Kept(c, blocks, Goal(c, l))
<1> DEFINE g == Goal(c, l)
           n == start[g] + 1
<1>1. DOMAIN c = 1 .. Len(c) /\ DOMAIN d = 1 .. Len(d)
  BY SeqFacts DEF Rewritten
<1>2. g \in 1 .. Len(c) /\ c[g] = Label(l) /\ \A j \in 1 .. Len(c) : c[j] = Label(l) => j = g
  BY <1>1, GoalFacts
<1>3. Op(c[g]) = "LABEL" /\ Op(Label(l)) = "LABEL"
  BY <1>2 DEF Label, Op
<1>4. Kept(c, blocks, g)
  BY <1>2, <1>3 DEF Rewritten, Separate, Marks
<1>5. n \in 1 .. Len(d) /\ d[n] = Label(l) /\ of[n] = g
  BY <1>2, <1>4, KeptAt
<1>6. ASSUME NEW m \in 1 .. Len(d), d[m] = Label(l) PROVE m = n
  <2> DEFINE i == of[m]
             k == m - start[i]
  <2>1. i \in 1 .. Len(c) /\ k \in 1 .. Len(blocks[i]) /\ d[m] = blocks[i][k]
    BY PlaceOf
  <2>2. i = g
    <3>1. CASE Kept(c, blocks, i)
      BY <1>2, <1>6, <2>1, <3>1, KeptOf
    <3>2. CASE ~Kept(c, blocks, i)
      <4>1. \A x \in 1 .. Len(d) : d[x] = blocks[i][k] => of[x] = i
        BY <1>3, <1>6, <2>1, <3>2 DEF Rewritten, Separate
      <4> QED BY <4>1, <1>5, <1>6, <2>1
    <3> QED BY <3>1, <3>2
  <2> QED BY <1>4, <2>2, KeptOf
<1> HIDE DEF n, g
<1>7. HasGoal(d, l) /\ Goal(d, l) = n
  BY <1>1, <1>5, <1>6, GoalOnly
<1> QED BY <1>2, <1>4, <1>7 DEF n, g

LEMMA HandlersMove ==
  ASSUME NEW c, NEW blocks, NEW d, NEW start, NEW of, Rewritten(c, blocks, d, start, of),
         \A j \in 1 .. Len(c) : Op(c[j]) = "TRY_BEGIN" => HasGoal(c, Arg(c[j])[1]),
         NEW n \in 1 .. Len(d), NEW h \in Handlers(d, n)
  PROVE  \E g \in Handlers(c, of[n]) :
           h = start[g] + 1 /\ g \in 1 .. Len(c) /\ Kept(c, blocks, g)
<1>1. PICK j \in 1 .. n : /\ Op(d[j]) = "TRY_BEGIN" /\ \A k \in j .. n : Op(d[k]) # "TRY_END"
                          /\ h = Goal(d, Arg(d[j])[1])
  BY DEF Handlers
<1> DEFINE i == of[n]
           o == of[j]
<1>2. Len(d) \in Nat /\ Len(c) \in Nat /\ j \in 1 .. Len(d)
  BY SeqFacts DEF Rewritten
<1>3. /\ i \in 1 .. Len(c) /\ n - start[i] \in 1 .. Len(blocks[i]) /\ start[i] \in Nat
      /\ Len(blocks[i]) \in Nat
  BY PlaceOf
<1>4. /\ o \in 1 .. Len(c) /\ j - start[o] \in 1 .. Len(blocks[o]) /\ start[o] \in Nat
      /\ d[j] = blocks[o][j - start[o]]
  BY <1>2, PlaceOf
<1>5. Kept(c, blocks, o)
  BY <1>1, <1>4 DEF Rewritten, Separate
<1>6. j = start[o] + 1 /\ d[j] = c[o]
  BY <1>2, <1>5, KeptOf
<1>7. o \in 1 .. i
  <2>1. ~(i < o)
    <3>1. i < o => start[i] + Len(blocks[i]) <= start[o]
      BY <1>3, <1>4 DEF Rewritten, Ordered
    <3> QED BY <1>3, <1>4, <3>1
  <2> QED BY <1>2, <1>3, <1>4, <2>1
<1>8. ASSUME NEW k \in o .. i PROVE Op(c[k]) # "TRY_END"
  <2> SUFFICES ASSUME Op(c[k]) = "TRY_END" PROVE FALSE
    OBVIOUS
  <2>1. k \in 1 .. Len(c)
    BY <1>2, <1>3, <1>4
  <2>2. Kept(c, blocks, k)
    BY <2>1 DEF Rewritten, Separate, Marks
  <2>3. /\ Len(blocks[k]) = 1 /\ start[k] + 1 \in 1 .. Len(d) /\ start[k] \in Nat
        /\ d[start[k] + 1] = c[k]
    BY <2>1, <2>2, KeptAt
  <2>4. start[o] <= start[k]
    <3>1. o < k => start[o] + Len(blocks[o]) <= start[k]
      BY <1>4, <2>1 DEF Rewritten, Ordered
    <3>2. Len(blocks[o]) = 1
      BY <1>4, <1>5, KeptAt
    <3> QED BY <1>4, <2>1, <2>3, <3>1, <3>2
  <2>5. start[k] + 1 <= n
    <3>1. k < i => start[k] + Len(blocks[k]) <= start[i]
      BY <1>3, <2>1 DEF Rewritten, Ordered
    <3> QED BY <1>3, <2>1, <2>3, <3>1
  <2>6. start[k] + 1 \in j .. n
    BY <1>2, <1>4, <1>6, <2>3, <2>4, <2>5
  <2> QED BY <1>1, <2>3, <2>6
<1>9. HasGoal(c, Arg(c[o])[1])
  BY <1>1, <1>4, <1>6
<1>10. Goal(c, Arg(c[o])[1]) \in Handlers(c, i)
  BY <1>1, <1>6, <1>7, <1>8 DEF Handlers
<1> DEFINE g == Goal(c, Arg(c[o])[1])
<1>11. Goal(d, Arg(c[o])[1]) = start[g] + 1 /\ g \in 1 .. Len(c) /\ Kept(c, blocks, g)
  BY <1>9, GoalMoves
<1> QED BY <1>1, <1>6, <1>10, <1>11

(* The typing of the new code. *)
Spread(c, blocks, d, start, of, ty, bts) ==
  [n \in {m \in 1 .. Len(d) : of[m] \in DOMAIN ty} |->
     IF Kept(c, blocks, of[n]) THEN ty[of[n]] ELSE bts[of[n]][n - start[of[n]]]]

LEMMA SpreadAt ==
  ASSUME NEW c, NEW blocks, NEW d, NEW start, NEW of, Rewritten(c, blocks, d, start, of),
         NEW ty, NEW bts, NEW i \in (1 .. Len(c)) \cap DOMAIN ty
  PROVE  LET ty2 == Spread(c, blocks, d, start, of, ty, bts) IN
         /\ Kept(c, blocks, i) => start[i] + 1 \in DOMAIN ty2 /\ ty2[start[i] + 1] = ty[i]
         /\ ~Kept(c, blocks, i) => \A k \in 1 .. Len(blocks[i]) :
              start[i] + k \in DOMAIN ty2 /\ ty2[start[i] + k] = bts[i][k]
<1>1. CASE Kept(c, blocks, i)
  BY <1>1, KeptAt DEF Spread
<1>2. ASSUME ~Kept(c, blocks, i), NEW k \in 1 .. Len(blocks[i])
      PROVE  LET ty2 == Spread(c, blocks, d, start, of, ty, bts) IN
             start[i] + k \in DOMAIN ty2 /\ ty2[start[i] + k] = bts[i][k]
  BY <1>2, PlaceAt DEF Spread
<1> QED BY <1>1, <1>2

(* The first instruction of what an instruction became has its type. *)
LEMMA SpreadFirst ==
  ASSUME NEW c, NEW blocks, NEW d, NEW start, NEW of, Rewritten(c, blocks, d, start, of),
         NEW ty, NEW bts, NEW i \in (1 .. Len(c)) \cap DOMAIN ty,
         Kept(c, blocks, i) \/ bts[i][1] = ty[i]
  PROVE  /\ start[i] + 1 \in DOMAIN Spread(c, blocks, d, start, of, ty, bts)
         /\ Spread(c, blocks, d, start, of, ty, bts)[start[i] + 1] = ty[i]
<1>1. 1 \in 1 .. Len(blocks[i])
  BY DEF Rewritten, Placed
<1> QED BY <1>1, SpreadAt

(* A block for an instruction comes before those for later ones. *)
LEMMA OrderMoves ==
  ASSUME NEW c, NEW blocks, NEW d, NEW start, NEW of, Rewritten(c, blocks, d, start, of),
         NEW i \in 1 .. Len(c), NEW j \in 1 .. Len(c), i < j, NEW k \in 1 .. Len(blocks[i])
  PROVE  start[j] + 1 > start[i] + k
<1>1. /\ start[i] \in Nat /\ start[j] \in Nat /\ Len(blocks[i]) \in Nat
      /\ start[i] + Len(blocks[i]) <= start[j]
  BY DEF Rewritten, Placed, Ordered
<1> QED BY <1>1

(* Instructions of any code, replaced by blocks that do to the stack and    *)
(* the variables what those did, as the guards for divisions, subscripts    *)
(* and returns are: the code is sound on all its paths if it was before.    *)
THEOREM RewrittenFits ==
  ASSUME NEW c, NEW blocks, NEW d, NEW start, NEW of, Rewritten(c, blocks, d, start, of),
         NEW params, NEW rets, NEW ty, Fits(c, params, rets, ty), NEW bts,
         \A i \in DOMAIN ty : Kept(c, blocks, i) \/ Does(blocks[i], c[i], ty[i], rets, bts[i])
  PROVE  Fits(d, params, rets, Spread(c, blocks, d, start, of, ty, bts))
<1> DEFINE ty2 == Spread(c, blocks, d, start, of, ty, bts)
<1>1. /\ DOMAIN c = 1 .. Len(c) /\ DOMAIN d = 1 .. Len(d) /\ Len(c) \in Nat
      /\ IsTyping(c, params, ty) /\ DOMAIN ty \subseteq 1 .. Len(c)
  BY SeqFacts DEF Rewritten, Fits, IsTyping
<1>2. /\ DOMAIN ty2 = {m \in 1 .. Len(d) : of[m] \in DOMAIN ty}
      /\ \A n \in DOMAIN ty2 :
           ty2[n] = IF Kept(c, blocks, of[n]) THEN ty[of[n]] ELSE bts[of[n]][n - start[of[n]]]
  BY DEF Spread
<1>3. ASSUME NEW i \in DOMAIN ty PROVE start[i] + 1 \in DOMAIN ty2 /\ ty2[start[i] + 1] = ty[i]
  <2>1. i \in (1 .. Len(c)) \cap DOMAIN ty
    BY <1>1
  <2>2. Kept(c, blocks, i) \/ bts[i][1] = ty[i]
    BY DEF Does
  <2> QED BY <2>1, <2>2, SpreadFirst
<1> HIDE DEF ty2
<1>4. 1 \in DOMAIN ty2 /\ ty2[1].depth = 0 /\ ty2[1].bound \subseteq params
  <2>1. 1 \in DOMAIN ty /\ ty[1].depth = 0 /\ ty[1].bound \subseteq params
    BY <1>1 DEF IsTyping
  <2>2. start[1] = 0
    BY <1>1, <2>1 DEF Rewritten, Ordered
  <2> QED BY <1>3, <2>1, <2>2
<1>5. ASSUME NEW n \in 1 .. Len(d), Op(d[n]) = "TRY_BEGIN" PROVE HasGoal(d, Arg(d[n])[1])
  <2>1. Kept(c, blocks, of[n])
    BY <1>5, PlaceOf DEF Rewritten, Separate
  <2>2. d[n] = c[of[n]] /\ of[n] \in 1 .. Len(c)
    BY <2>1, KeptOf, PlaceOf
  <2>3. HasGoal(c, Arg(c[of[n]])[1])
    BY <1>1, <1>5, <2>2 DEF IsTyping
  <2> QED BY <2>2, <2>3, GoalMoves
<1>6. ASSUME NEW n \in DOMAIN ty2
      PROVE  /\ ty2[n].depth \in Nat /\ Takes(d[n]) \in 0 .. ty2[n].depth
             /\ Op(d[n]) = "LOAD_FAST" => Arg(d[n]) \in ty2[n].bound
             /\ Jumps(d[n]) => HasGoal(d, Arg(d[n]))
             /\ \A m \in Follows(d, n) :
                  /\ m \in DOMAIN ty2 /\ m > n /\ ty2[m].depth = ty2[n].depth - Takes(d[n]) + Gives(d[n])
                  /\ ty2[m].bound \subseteq ty2[n].bound \cup Binds(d[n])
             /\ \A h \in Handlers(d, n) :
                  h \in DOMAIN ty2 /\ h > n /\ ty2[h].depth = 0 /\ ty2[h].bound \subseteq ty2[n].bound
             /\ Op(d[n]) = "RETURN_VALUE" => ty2[n].depth \in rets
  <2> DEFINE i == of[n]
             k == n - start[i]
             b == blocks[i]
             bt == bts[i]
  <2>1. n \in 1 .. Len(d) /\ i \in DOMAIN ty /\ i \in 1 .. Len(c)
    BY <1>1, <1>2
  <2>2. /\ k \in 1 .. Len(b) /\ start[i] \in Nat /\ n = start[i] + k /\ d[n] = b[k]
        /\ IsSeq(b) /\ Len(b) \in Nat \ {0}
    BY <2>1, PlaceOf
  <2>3. /\ ty[i].depth \in Nat /\ Takes(c[i]) \in 0 .. ty[i].depth
        /\ Op(c[i]) = "LOAD_FAST" => Arg(c[i]) \in ty[i].bound
        /\ Jumps(c[i]) => HasGoal(c, Arg(c[i]))
        /\ \A m \in Follows(c, i) :
             /\ m \in DOMAIN ty /\ m > i /\ ty[m].depth = ty[i].depth - Takes(c[i]) + Gives(c[i])
             /\ ty[m].bound \subseteq ty[i].bound \cup Binds(c[i])
        /\ \A h \in Handlers(c, i) :
             h \in DOMAIN ty /\ h > i /\ ty[h].depth = 0 /\ ty[h].bound \subseteq ty[i].bound
        /\ Op(c[i]) = "RETURN_VALUE" => ty[i].depth \in rets
    BY <1>1, <2>1 DEF IsTyping, Fits
  <2>4. ASSUME ty[i].bound \subseteq ty2[n].bound, NEW h \in Handlers(d, n)
        PROVE  h \in DOMAIN ty2 /\ h > n /\ ty2[h].depth = 0 /\ ty2[h].bound \subseteq ty2[n].bound
    <3>1. PICK g \in Handlers(c, i) : h = start[g] + 1
      BY <1>1, <2>1, <2>4, HandlersMove DEF IsTyping
    <3>2. g \in DOMAIN ty /\ g \in 1 .. Len(c) /\ i < g
      BY <1>1, <2>1, <2>3, <3>1
    <3>3. h > n
      BY <2>1, <2>2, <3>1, <3>2, OrderMoves
    <3> QED BY <1>3, <2>3, <2>4, <3>1, <3>3
  <2>5. CASE Kept(c, blocks, i)
    <3>1. n = start[i] + 1 /\ d[n] = c[i] /\ ty2[n] = ty[i] /\ Len(b) = 1
      BY <1>2, <2>1, <2>5, KeptOf, KeptAt
    <3>2. ASSUME NEW m \in Follows(d, n)
          PROVE  \E x \in Follows(c, i) : m = start[x] + 1
      <4>1. CASE m = n + 1 /\ Op(d[n]) \notin {"RETURN_VALUE", "JUMP_FORWARD"}
        <5>1. i + 1 \in Follows(c, i) /\ i + 1 \in DOMAIN ty
          BY <2>3, <3>1, <4>1 DEF Follows
        <5>2. start[i + 1] = start[i] + Len(b)
          BY <1>1, <2>1, <5>1 DEF Rewritten, Ordered
        <5> QED BY <2>2, <3>1, <4>1, <5>1, <5>2
      <4>2. CASE Jumps(d[n]) /\ m = Goal(d, Arg(d[n]))
        <5>1. HasGoal(c, Arg(c[i])) /\ Goal(c, Arg(c[i])) \in Follows(c, i)
          BY <2>3, <3>1, <4>2 DEF Follows
        <5> QED BY <3>1, <4>2, <5>1, GoalMoves
      <4> QED BY <4>1, <4>2, <3>2 DEF Follows
    <3>3. Jumps(d[n]) => HasGoal(d, Arg(d[n]))
      BY <2>3, <3>1, GoalMoves
    <3>4. ASSUME NEW m \in Follows(d, n)
          PROVE  /\ m \in DOMAIN ty2 /\ m > n /\ ty2[m].depth = ty2[n].depth - Takes(d[n]) + Gives(d[n])
                 /\ ty2[m].bound \subseteq ty2[n].bound \cup Binds(d[n])
      <4>1. PICK x \in Follows(c, i) : m = start[x] + 1
        BY <3>2, <3>4
      <4>2. x \in DOMAIN ty /\ x \in 1 .. Len(c) /\ i < x /\ 1 \in 1 .. Len(b)
        BY <1>1, <2>1, <2>3, <3>1, <4>1
      <4>3. m > n
        BY <2>1, <3>1, <4>1, <4>2, OrderMoves
      <4> QED BY <1>3, <2>3, <3>1, <4>1, <4>3
    <3> QED BY <2>3, <2>4, <3>1, <3>3, <3>4
  <2>6. CASE ~Kept(c, blocks, i)
    <3>1. /\ Op(c[i]) \notin Marks /\ ~Jumps(c[i])
          /\ \A x \in 1 .. Len(b) : Op(b[x]) = "LABEL" => \A y \in 1 .. Len(d) : d[y] = b[x] => of[y] = i
      BY <2>1, <2>6 DEF Rewritten, Separate
    <3>2. /\ Does(b, c[i], ty[i], rets, bt) /\ ty2[n] = bt[k]
      BY <1>2, <2>1, <2>6
    <3>3. ASSUME NEW x \in 1 .. Len(b)
          PROVE  /\ start[i] + x \in DOMAIN ty2 /\ ty2[start[i] + x] = bt[x]
                 /\ start[i] + x \in 1 .. Len(d) /\ d[start[i] + x] = b[x]
      <4>1. i \in (1 .. Len(c)) \cap DOMAIN ty
        BY <2>1
      <4>2. start[i] + x \in DOMAIN ty2 /\ ty2[start[i] + x] = bt[x]
        BY <2>6, <4>1, SpreadAt DEF ty2
      <4> QED BY <2>1, <4>2, PlaceAt
    <3>4. /\ bt[k].depth \in Nat /\ Takes(b[k]) \in 0 .. bt[k].depth /\ ty[i].bound \subseteq bt[k].bound
          /\ Op(b[k]) = "LOAD_FAST" => Arg(b[k]) \in bt[k].bound
          /\ Op(b[k]) = "RETURN_VALUE" => bt[k].depth \in rets
          /\ Jumps(b[k]) => HasGoal(b, Arg(b[k]))
          /\ \A m \in Follows(b, k) :
               /\ m > k /\ bt[m].depth = bt[k].depth - Takes(b[k]) + Gives(b[k])
               /\ bt[m].bound \subseteq bt[k].bound \cup Binds(b[k])
      BY <2>2, <3>2 DEF Does
    <3>5. ASSUME Jumps(b[k])
          PROVE  /\ HasGoal(d, Arg(d[n])) /\ Goal(b, Arg(b[k])) \in 1 .. Len(b)
                 /\ Goal(d, Arg(d[n])) = start[i] + Goal(b, Arg(b[k]))
      <4> DEFINE l == Arg(b[k])
                 g == Goal(b, l)
      <4>1. g \in 1 .. Len(b) /\ b[g] = Label(l) /\ \A y \in 1 .. Len(b) : b[y] = Label(l) => y = g
        BY <2>2, <3>4, <3>5, GoalFacts, SeqFacts
      <4>2. start[i] + g \in 1 .. Len(d) /\ d[start[i] + g] = Label(l)
        BY <3>3, <4>1
      <4>3. ASSUME NEW y \in 1 .. Len(d), d[y] = Label(l) PROVE y = start[i] + g
        <5>1. of[y] = i
          BY <3>1, <4>1, <4>3 DEF Label, Op
        <5>2. y - start[i] \in 1 .. Len(b) /\ y = start[i] + (y - start[i]) /\ d[y] = b[y - start[i]]
          BY <5>1, PlaceOf
        <5> QED BY <4>1, <4>3, <5>2
      <4> HIDE DEF l, g
      <4>4. HasGoal(d, l) /\ Goal(d, l) = start[i] + g
        BY <1>1, <4>2, <4>3, GoalOnly
      <4> QED BY <2>2, <4>1, <4>4 DEF l, g
    <3>6. ASSUME NEW m \in Follows(d, n)
          PROVE  /\ m \in DOMAIN ty2 /\ m > n /\ ty2[m].depth = ty2[n].depth - Takes(d[n]) + Gives(d[n])
                 /\ ty2[m].bound \subseteq ty2[n].bound \cup Binds(d[n])
      <4>1. CASE Jumps(d[n]) /\ m = Goal(d, Arg(d[n]))
        <5>1. Goal(b, Arg(b[k])) \in Follows(b, k)
          BY <2>2, <4>1 DEF Follows
        <5>2. Goal(b, Arg(b[k])) > k /\ Goal(b, Arg(b[k])) \in 1 .. Len(b) /\ m = start[i] + Goal(b, Arg(b[k]))
          BY <2>2, <3>4, <3>5, <4>1, <5>1
        <5>3. m > n
          BY <2>2, <5>2
        <5> QED BY <2>2, <3>2, <3>3, <3>4, <5>1, <5>2, <5>3
      <4>2. CASE m = n + 1 /\ Falls(d[n]) /\ k < Len(b)
        <5>1. k + 1 \in Follows(b, k) /\ k + 1 \in 1 .. Len(b) /\ m = start[i] + (k + 1)
          BY <2>2, <4>2 DEF Follows, Falls
        <5>2. m > n
          BY <2>1, <4>2
        <5> QED BY <2>2, <3>2, <3>3, <3>4, <5>1, <5>2
      <4>3. CASE m = n + 1 /\ Falls(d[n]) /\ k = Len(b)
        <5>1. k + 1 \in Follows(b, k)
          BY <2>2, <4>3 DEF Follows, Falls
        <5>2. /\ Falls(c[i]) /\ bt[k + 1].depth = ty[i].depth - Takes(c[i]) + Gives(c[i])
              /\ ty[i].bound \cup Binds(c[i]) \subseteq bt[k + 1].bound
          BY <2>2, <3>2, <4>3 DEF Does
        <5>3. i + 1 \in Follows(c, i) /\ i + 1 \in DOMAIN ty
          BY <2>3, <5>2 DEF Follows, Falls
        <5>4. start[i + 1] = start[i] + Len(b)
          BY <1>1, <2>1, <5>3 DEF Rewritten, Ordered
        <5>5. m = start[i + 1] + 1
          BY <2>2, <4>3, <5>4
        <5>6. m > n
          BY <2>1, <4>3
        <5>7. m \in DOMAIN ty2 /\ ty2[m] = ty[i + 1]
          BY <1>3, <5>3, <5>5
        <5> QED BY <2>2, <2>3, <3>2, <3>4, <5>1, <5>2, <5>3, <5>6, <5>7
      <4> QED BY <2>2, <3>6, <4>1, <4>2, <4>3 DEF Follows, Falls
    <3>7. Jumps(d[n]) => HasGoal(d, Arg(d[n]))
      BY <2>2, <3>5
    <3> QED BY <2>2, <2>4, <3>2, <3>4, <3>6, <3>7
  <2> QED BY <2>5, <2>6
<1>7. IsTyping(d, params, ty2)
  BY <1>1, <1>2, <1>4, <1>5, <1>6 DEF IsTyping
<1> QED BY <1>6, <1>7 DEF Fits, ty2

----------------------------------------------------------------------------
(* Code with a block in the place of one instruction.                       *)

(* Code d is code c with block b in the place of instruction n. *)
Spliced(d, c, n, b) ==
  /\ IsSeq(d) /\ Len(d) = Len(c) - 1 + Len(b)
  /\ \A j \in 1 .. n - 1 : d[j] = c[j]
  /\ \A k \in 1 .. Len(b) : d[n - 1 + k] = b[k]
  /\ \A j \in n + 1 .. Len(c) : d[j - 1 + Len(b)] = c[j]
(* No try range begins or ends in the block, and c has none of its labels.  *)
Foreign(b, c) ==
  \A k \in 1 .. Len(b) : /\ Op(b[k]) \notin {"TRY_BEGIN", "TRY_END"}
                         /\ Op(b[k]) = "LABEL" => \A j \in 1 .. Len(c) : c[j] # b[k]

LEMMA SplicedFits ==
  ASSUME NEW c, IsSeq(c), NEW n \in 1 .. Len(c), NEW b, IsSeq(b), Len(b) # 0,
         NEW d, Spliced(d, c, n, b), Op(c[n]) \notin Marks, ~Jumps(c[n]), Foreign(b, c),
         NEW params, NEW rets, NEW ty, Fits(c, params, rets, ty),
         NEW bt, n \in DOMAIN ty => Does(b, c[n], ty[n], rets, bt)
  PROVE  \E ty2 : Fits(d, params, rets, ty2)
<1> DEFINE N == Len(c)
           B == Len(b)
           blocks == [i \in 1 .. N |-> IF i = n THEN b ELSE <<c[i]>>]
           start == [i \in 1 .. N |-> IF i <= n THEN i - 1 ELSE i - 2 + B]
           of == [m \in 1 .. Len(d) |-> IF m < n THEN m ELSE IF m < n + B THEN n ELSE m + 1 - B]
           bts == [i \in 1 .. N |-> bt]
<1>1. N \in Nat /\ n \in 1 .. N /\ B \in Nat \ {0} /\ Len(d) = N - 1 + B /\ Len(d) \in Nat /\ IsSeq(d)
  BY SeqFacts DEF Spliced
<1>2. ASSUME NEW i \in 1 .. N
      PROVE  IsSeq(blocks[i]) /\ Len(blocks[i]) = (IF i = n THEN B ELSE 1) /\ start[i] \in Nat
  BY <1>1, AloneIsSeq
<1>3. ASSUME NEW i \in 1 .. N, NEW k \in 1 .. Len(blocks[i])
      PROVE  start[i] + k \in 1 .. Len(d) /\ of[start[i] + k] = i /\ d[start[i] + k] = blocks[i][k]
  <2>1. CASE i = n
    BY <1>1, <1>2, <2>1 DEF Spliced
  <2>2. CASE i < n
    <3>1. k = 1 /\ start[i] + k = i
      BY <1>1, <1>2, <2>2
    <3> QED BY <1>1, <2>2, <3>1, AloneIsSeq DEF Spliced
  <2>3. CASE i > n
    <3>1. k = 1 /\ start[i] + k = i - 1 + B
      BY <1>1, <1>2, <2>3
    <3>2. d[i - 1 + B] = c[i] /\ i - 1 + B \in 1 .. Len(d) /\ of[i - 1 + B] = i
      BY <1>1, <2>3 DEF Spliced
    <3> QED BY <2>3, <3>1, <3>2, AloneIsSeq
  <2> QED BY <1>1, <2>1, <2>2, <2>3
<1>4. Placed(c, blocks, d, start, of)
  <2> HIDE DEF blocks, start, of
  <2>1. \A i \in 1 .. N : Len(blocks[i]) \in Nat \ {0}
    BY <1>1, <1>2
  <2> QED BY <1>2, <1>3, <2>1 DEF Placed
<1>5. Ordered(c, blocks, start)
  <2>1. 1 \in 1 .. N => start[1] = 0
    BY <1>1
  <2>2. ASSUME NEW i \in 1 .. N, NEW j \in 1 .. N, i < j PROVE start[i] + Len(blocks[i]) <= start[j]
    BY <1>1, <1>2, <2>2
  <2>3. ASSUME NEW i \in 1 .. N, i + 1 \in 1 .. N PROVE start[i + 1] = start[i] + Len(blocks[i])
    BY <1>1, <1>2, <2>3
  <2> QED BY <2>1, <2>2, <2>3 DEF Ordered
<1>6. ASSUME NEW m \in 1 .. Len(d) PROVE of[m] \in 1 .. N /\ m - start[of[m]] \in 1 .. Len(blocks[of[m]])
  <2>1. of[m] \in 1 .. N
    BY <1>1
  <2>2. Len(blocks[of[m]]) = IF of[m] = n THEN B ELSE 1
    BY <1>2, <2>1
  <2>3. m - start[of[m]] \in 1 .. IF of[m] = n THEN B ELSE 1
    BY <1>1, <2>1
  <2> QED BY <2>1, <2>2, <2>3
<1>7. ASSUME NEW i \in 1 .. N, ~Kept(c, blocks, i)
      PROVE  /\ i = n
             /\ \A k \in 1 .. B : Op(b[k]) = "LABEL" => \A m \in 1 .. Len(d) : d[m] = b[k] => of[m] = n
  <2>1. i = n
    BY <1>7 DEF Kept
  <2> HIDE DEF blocks, start, of
  <2>2. ASSUME NEW k \in 1 .. B, Op(b[k]) = "LABEL", NEW m \in 1 .. Len(d), d[m] = b[k], of[m] # n
        PROVE  FALSE
    <3>1. of[m] \in 1 .. N /\ m - start[of[m]] = 1 /\ start[of[m]] \in Nat
      <4>1. of[m] \in 1 .. N /\ m - start[of[m]] \in 1 .. Len(blocks[of[m]])
        BY <1>6
      <4>2. Len(blocks[of[m]]) = 1 /\ start[of[m]] \in Nat
        BY <1>2, <2>2, <4>1
      <4> QED BY <4>1, <4>2
    <3>2. blocks[of[m]][1] = c[of[m]]
      BY <2>2, <3>1, AloneIsSeq DEF blocks
    <3>3. start[of[m]] + 1 = m
      BY <1>1, <3>1
    <3>4. 1 \in 1 .. Len(blocks[of[m]])
      <4>1. Len(blocks[of[m]]) = 1
        BY <1>2, <2>2, <3>1
      <4> QED BY <4>1
    <3>5. d[start[of[m]] + 1] = blocks[of[m]][1]
      BY <1>3, <3>1, <3>4
    <3>6. d[m] = c[of[m]]
      BY <3>2, <3>3, <3>5
    <3> QED BY <2>2, <3>1, <3>6 DEF Foreign
  <2> QED BY <2>1, <2>2
<1>8. Separate(c, blocks, d, of)
  <2>1. blocks[n] = b
    BY <1>1
  <2> HIDE DEF blocks, of
  <2> QED BY <1>7, <2>1 DEF Separate, Foreign
<1>9. Rewritten(c, blocks, d, start, of)
  BY <1>1, <1>4, <1>5, <1>6, <1>8 DEF Rewritten, Complete
<1>10. ASSUME NEW i \in DOMAIN ty PROVE Kept(c, blocks, i) \/ Does(blocks[i], c[i], ty[i], rets, bts[i])
  <2>1. i \in 1 .. N
    BY SeqFacts DEF Fits, IsTyping
  <2> QED BY <2>1 DEF Kept
<1> HIDE DEF blocks, start, of, bts
<1> QED BY <1>9, <1>10, RewrittenFits

LEMMA BetweenIsSplice ==
  ASSUME NEW c, IsSeq(c), NEW n \in 1 .. Len(c), NEW b, IsSeq(b)
  PROVE  Spliced(Between(c, n - 1, b, n + 1), c, n, b)
<1> DEFINE N == Len(c)
           B == Len(b)
           m == n - 1
           k == n + 1
           d == Between(c, m, b, k)
<1>1. N \in Nat /\ B \in Nat /\ m \in 0 .. N /\ k \in m + 1 .. N + 1
  BY SeqFacts
<1> HIDE DEF m, k
<1>2. IsBetween(d, c, m, b, k)
  BY <1>1, BetweenAt
<1> HIDE DEF d
<1>3. Len(d) = N - 1 + B
  BY <1>1, <1>2 DEF IsBetween, m, k
<1>4. ASSUME NEW j \in n + 1 .. N PROVE d[j - 1 + B] = c[j]
  <2>1. j - 1 + B = m + B + (j - k + 1) /\ j \in k .. N
    BY <1>1 DEF m, k
  <2> QED BY <1>2, <2>1 DEF IsBetween
<1>5. Spliced(d, c, n, b)
  BY <1>2, <1>3, <1>4 DEF IsBetween, Spliced, m
<1> QED BY <1>5 DEF d, m, k

(* A guard goes behind an instruction. *)
LEMMA InsertIsSplice ==
  ASSUME NEW c, IsSeq(c), NEW n \in 1 .. Len(c), NEW p, IsSeq(p)
  PROVE  /\ Spliced(Insert(c, n, p), c, n, <<c[n]>> \o p)
         /\ IsConcat(<<c[n]>> \o p, <<c[n]>>, p)
<1> DEFINE o == <<c[n]>>
           N == Len(c)
           P == Len(p)
           k == n + 1
           d == Insert(c, n, p)
           b == o \o p
<1>1. N \in Nat /\ P \in Nat /\ n \in 0 .. N /\ n \in 1 .. N /\ k \in n + 1 .. N + 1
  BY SeqFacts
<1>2. d = Between(c, n, p, k)
  BY DEF Insert, Between
<1> HIDE DEF d, k
<1>3. IsBetween(d, c, n, p, k)
  BY <1>1, <1>2, BetweenAt
<1>4. IsSeq(o) /\ Len(o) = 1 /\ o[1] = c[n]
  BY AloneIsSeq
<1> HIDE DEF o
<1>5. IsConcat(b, o, p)
  BY <1>4, ConcatAt
<1> HIDE DEF b
<1>6. IsSeq(b) /\ Len(b) = P + 1 /\ b[1] = c[n]
  BY <1>1, <1>4, <1>5 DEF IsConcat
<1>7. ASSUME NEW i \in 1 .. P PROVE b[i + 1] = p[i]
  <2>1. i + 1 = Len(o) + i
    BY <1>1, <1>4
  <2> QED BY <1>5, <2>1 DEF IsConcat
<1>8. Len(d) = N - 1 + Len(b)
  BY <1>1, <1>3, <1>6 DEF IsBetween, k
<1>9. ASSUME NEW j \in n + 1 .. N PROVE d[j - 1 + Len(b)] = c[j]
  <2>1. j - 1 + Len(b) = n + P + (j - k + 1) /\ j \in k .. N
    BY <1>1, <1>6 DEF k
  <2> QED BY <1>3, <2>1 DEF IsBetween
<1>10. ASSUME NEW i \in 1 .. Len(b) PROVE d[n - 1 + i] = b[i]
  <2>1. CASE i = 1
    BY <1>1, <1>3, <1>6, <2>1 DEF IsBetween
  <2>2. CASE i # 1
    <3>1. i - 1 \in 1 .. P /\ n - 1 + i = n + (i - 1) /\ (i - 1) + 1 = i
      BY <1>1, <1>6, <2>2
    <3>2. d[n + (i - 1)] = p[i - 1]
      BY <1>3, <3>1 DEF IsBetween
    <3>3. b[(i - 1) + 1] = p[i - 1]
      BY <1>7, <3>1
    <3> QED BY <3>1, <3>2, <3>3
  <2> QED BY <2>1, <2>2
<1>11. \A j \in 1 .. n - 1 : d[j] = c[j]
  BY <1>1, <1>3 DEF IsBetween
<1>12. Spliced(d, c, n, b)
  BY <1>3, <1>8, <1>9, <1>10, <1>11 DEF Spliced, IsBetween
<1> QED BY <1>5, <1>12 DEF b, d, o

----------------------------------------------------------------------------
(* Blocks.                                                                  *)

(* A block typed by hand: its instruction k begins at depth h[k] over that   *)
(* of the block and with the variables g[k] besides those of the block.    *)
At(b, l, t) == t \in 1 .. Len(b) /\ b[t] = Label(l) /\ \A j \in 1 .. Len(b) : b[j] = Label(l) => j = t
Sound(b, u, h, g, rets, k) ==
  /\ h[k] \in Int /\ Takes(b[k]) \in 0 .. u.depth + h[k]
  /\ Op(b[k]) = "LOAD_FAST" => Arg(b[k]) \in u.bound \cup g[k]
  /\ Op(b[k]) = "RETURN_VALUE" => u.depth + h[k] \in rets
  /\ Falls(b[k]) => h[k + 1] = h[k] - Takes(b[k]) + Gives(b[k]) /\ g[k + 1] \subseteq g[k] \cup Binds(b[k])
  /\ Jumps(b[k]) => \E t : /\ At(b, Arg(b[k]), t) /\ t > k /\ h[t] = h[k] - Takes(b[k]) + Gives(b[k])
                           /\ g[t] \subseteq g[k]
Typing(b, u, h, g) == [k \in 1 .. Len(b) + 1 |-> [depth |-> u.depth + h[k], bound |-> u.bound \cup g[k]]]

LEMMA GivesInt == \A i : Gives(i) \in Int
BY DEF Gives

LEMMA SoundDoes ==
  ASSUME NEW b, IsSeq(b), NEW n \in Nat \ {0}, Len(b) = n, NEW u, u.depth \in Nat, u = [depth |-> u.depth, bound |-> u.bound],
         NEW h, NEW g, NEW rets,
         \A k \in 1 .. n : Sound(b, u, h, g, rets, k), h[1] = 0, g[1] = {}, NEW instr,
         Falls(b[n]) => /\ Falls(instr) /\ Takes(instr) \in Int /\ h[n + 1] = Gives(instr) - Takes(instr)
                        /\ Binds(instr) = {}
  PROVE  Does(b, instr, u, rets, Typing(b, u, h, g))
<1> DEFINE bt == Typing(b, u, h, g)
<1>1. ASSUME NEW k \in 1 .. n + 1 PROVE bt[k].depth = u.depth + h[k] /\ bt[k].bound = u.bound \cup g[k]
  BY DEF Typing
<1>2. bt[1] = u
  <2>1. bt[1] = [depth |-> u.depth + h[1], bound |-> u.bound \cup g[1]]
    <3>1. 1 \in 1 .. Len(b) + 1
      OBVIOUS
    <3> QED BY <3>1 DEF Typing
  <2>2. u.depth + h[1] = u.depth /\ u.bound \cup g[1] = u.bound
    OBVIOUS
  <2> QED BY <2>1, <2>2
<1> HIDE DEF bt
<1>3. ASSUME NEW k \in 1 .. n
      PROVE  /\ bt[k].depth \in Nat /\ Takes(b[k]) \in 0 .. bt[k].depth /\ u.bound \subseteq bt[k].bound
             /\ Op(b[k]) = "LOAD_FAST" => Arg(b[k]) \in bt[k].bound
             /\ Op(b[k]) = "RETURN_VALUE" => bt[k].depth \in rets
             /\ Jumps(b[k]) => HasGoal(b, Arg(b[k]))
             /\ \A m \in Follows(b, k) :
                  /\ m > k /\ bt[m].depth = bt[k].depth - Takes(b[k]) + Gives(b[k])
                  /\ bt[m].bound \subseteq bt[k].bound \cup Binds(b[k])
  <2>1. k \in 1 .. n + 1 /\ k + 1 \in 1 .. n + 1 /\ DOMAIN b = 1 .. n
    BY SeqFacts
  <2>2. bt[k].depth = u.depth + h[k] /\ bt[k].bound = u.bound \cup g[k] /\ Sound(b, u, h, g, rets, k)
    BY <1>1, <2>1
  <2>3. bt[k].depth \in Nat /\ h[k] \in Int /\ Takes(b[k]) \in Int /\ Gives(b[k]) \in Int
    BY <2>2, GivesInt DEF Sound
  <2>4. ASSUME Jumps(b[k])
        PROVE  /\ HasGoal(b, Arg(b[k])) /\ Goal(b, Arg(b[k])) \in 1 .. n /\ Goal(b, Arg(b[k])) > k
               /\ h[Goal(b, Arg(b[k]))] = h[k] - Takes(b[k]) + Gives(b[k]) /\ g[Goal(b, Arg(b[k]))] \subseteq g[k]
    <3>1. PICK t : /\ At(b, Arg(b[k]), t) /\ t > k /\ h[t] = h[k] - Takes(b[k]) + Gives(b[k])
                   /\ g[t] \subseteq g[k]
      BY <2>2, <2>4 DEF Sound
    <3>2. HasGoal(b, Arg(b[k])) /\ Goal(b, Arg(b[k])) = t
      BY <2>1, <3>1, GoalOnly DEF At
    <3> QED BY <3>1, <3>2 DEF At
  <2>5. ASSUME NEW m \in Follows(b, k)
        PROVE  /\ m > k /\ bt[m].depth = bt[k].depth - Takes(b[k]) + Gives(b[k])
               /\ bt[m].bound \subseteq bt[k].bound \cup Binds(b[k])
    <3>1. CASE Falls(b[k]) /\ m = k + 1
      <4>1. h[m] = h[k] - Takes(b[k]) + Gives(b[k]) /\ g[m] \subseteq g[k] \cup Binds(b[k])
        BY <2>2, <3>1 DEF Sound
      <4>2. bt[m].depth = u.depth + h[m] /\ bt[m].bound = u.bound \cup g[m]
        BY <1>1, <2>1, <3>1
      <4>3. m > k
        BY <3>1
      <4> QED BY <2>2, <2>3, <4>1, <4>2, <4>3
    <3>2. CASE Jumps(b[k]) /\ m = Goal(b, Arg(b[k]))
      <4>1. bt[m].depth = u.depth + h[m] /\ bt[m].bound = u.bound \cup g[m]
        BY <1>1, <2>4, <3>2
      <4>2. h[m] = h[k] - Takes(b[k]) + Gives(b[k]) /\ g[m] \subseteq g[k]
        BY <2>4, <3>2
      <4>3. m > k
        BY <2>4, <3>2
      <4> QED BY <2>2, <2>3, <4>1, <4>2, <4>3
    <3> QED BY <2>5, <3>1, <3>2 DEF Follows, Falls
  <2> QED BY <2>2, <2>3, <2>4, <2>5 DEF Sound
<1>4. ASSUME Falls(b[n])
      PROVE  /\ Falls(instr) /\ bt[n + 1].depth = u.depth - Takes(instr) + Gives(instr)
             /\ u.bound \cup Binds(instr) \subseteq bt[n + 1].bound
  BY <1>1, <1>4, GivesInt
<1> QED BY <1>2, <1>3, <1>4 DEF Does, bt

----------------------------------------------------------------------------
(* Guards that are inserted.                                                *)

(* A block for code of length n. *)
Labelled(b, n) ==
  \A k \in 1 .. Len(b) : /\ Op(b[k]) \notin {"TRY_BEGIN", "TRY_END"}
                         /\ Op(b[k]) = "LABEL" => Arg(b[k])[2][1] = n /\ Len(b) > 1

LEMMA LabelledForeign ==
  ASSUME NEW c, Numbered(c), NEW b, Labelled(b, Len(c)), IsSeq(c)
  PROVE  Foreign(b, c)
<1>1. Len(c) \in Nat
  BY SeqFacts
<1>2. ASSUME NEW k \in 1 .. Len(b), Op(b[k]) = "LABEL", NEW j \in 1 .. Len(c), c[j] = b[k] PROVE FALSE
  BY <1>1, <1>2 DEF Labelled, Numbered
<1> QED BY <1>2 DEF Labelled, Foreign

LEMMA SplicedReady ==
  ASSUME NEW c, Ready(c), NEW n \in 1 .. Len(c), NEW b, IsSeq(b), Len(b) # 0, Labelled(b, Len(c)),
         n = 1 => Op(b[1]) = "RESUME", NEW d, Spliced(d, c, n, b)
  PROVE  Ready(d)
<1> DEFINE N == Len(c)
           B == Len(b)
<1>1. N \in Nat \ {0} /\ B \in Nat \ {0} /\ IsSeq(d) /\ Len(d) = N - 1 + B
  BY SeqFacts DEF Spliced, Ready
<1>2. Op(d[1]) = "RESUME"
  <2>1. CASE n = 1
    <3>1. d[1 - 1 + 1] = b[1]
      BY <1>1, <2>1 DEF Spliced
    <3> QED BY <2>1, <3>1
  <2>2. CASE n # 1
    BY <1>1, <2>2 DEF Spliced, Ready
  <2> QED BY <2>1, <2>2
<1>3. ASSUME NEW j \in 1 .. Len(d), Op(d[j]) = "LABEL"
      PROVE  Arg(d[j])[2][1] \in Nat /\ Arg(d[j])[2][1] < Len(d)
  <2>1. CASE j < n
    <3>1. d[j] = c[j] /\ j \in 1 .. N
      BY <1>1, <2>1 DEF Spliced
    <3> QED BY <1>1, <1>3, <3>1 DEF Ready, Numbered
  <2>2. CASE j >= n /\ j <= n - 1 + B
    <3> DEFINE k == j - n + 1
    <3>1. k \in 1 .. B /\ n - 1 + k = j
      BY <1>1, <2>2
    <3>2. d[j] = b[k]
      BY <3>1 DEF Spliced
    <3> QED BY <1>1, <1>3, <3>1, <3>2 DEF Labelled
  <2>3. CASE j > n - 1 + B
    <3> DEFINE k == j + 1 - B
    <3>1. k \in n + 1 .. N /\ k - 1 + B = j /\ k \in 1 .. N
      BY <1>1, <2>3
    <3>2. d[j] = c[k]
      BY <3>1 DEF Spliced
    <3> QED BY <1>1, <1>3, <3>1, <3>2 DEF Ready, Numbered
  <2> QED BY <1>1, <2>1, <2>2, <2>3
<1> QED BY <1>1, <1>2, <1>3 DEF Ready, Numbered

(* The type behind an instruction. *)
After(i, t) == [depth |-> t.depth - Takes(i) + Gives(i), bound |-> t.bound \cup Binds(i)]
Nothing == <<"NOP", "">>

LEMMA InsertDoes ==
  ASSUME NEW i, Op(i) \in {"RESUME", "STORE_FAST"}, NEW t, t.depth \in Nat, Takes(i) \in 0 .. t.depth,
         NEW p, IsSeq(p), NEW rets, NEW pt, Does(p, Nothing, After(i, t), rets, pt), Len(p) # 0,
         NEW b, IsSeq(b), IsConcat(b, <<i>>, p)
  PROVE  \E bt : Does(b, i, t, rets, bt)
<1> DEFINE n == Len(p)
           bt == [k \in 1 .. n + 2 |-> IF k = 1 THEN t ELSE pt[k - 1]]
           u == After(i, t)
<1>1. n \in Nat \ {0}
  BY SeqFacts
<1>2. Len(b) = n + 1 /\ b[1] = i /\ \A k \in 1 .. n : b[1 + k] = p[k]
  <2>1. Len(<<i>>) = 1 /\ <<i>>[1] = i
    OBVIOUS
  <2> DEFINE o == <<i>>
  <2> HIDE DEF o
  <2>2. IsConcat(b, o, p) /\ Len(o) = 1 /\ o[1] = i
    BY <2>1 DEF o
  <2> QED BY <1>1, <2>2 DEF IsConcat
<1>3. bt[1] = t /\ \A k \in 1 .. n + 1 : bt[k + 1] = pt[k]
  BY <1>1
<1>4. /\ u.depth = t.depth - Takes(i) + Gives(i) /\ u.bound = t.bound \cup Binds(i)
      /\ pt[1] = u /\ u.depth \in Nat /\ Gives(i) \in Int
  BY <1>1, GivesInt DEF After, Does
<1> HIDE DEF bt, u
<1>5. Op(i) \notin {"LABEL", "LOAD_FAST", "RETURN_VALUE", "JUMP_FORWARD"} /\ ~Jumps(i) /\ Falls(i)
  BY DEF Jumps, JumpOps, Falls
<1>6. DOMAIN b = 1 .. n + 1 /\ DOMAIN p = 1 .. n
  BY <1>2, SeqFacts
<1>7. ASSUME NEW l, HasGoal(p, l)
      PROVE  HasGoal(b, l) /\ Goal(b, l) = Goal(p, l) + 1 /\ Goal(p, l) \in 1 .. n
  <2> DEFINE q == Goal(p, l)
  <2>1. q \in 1 .. n /\ p[q] = Label(l) /\ \A j \in 1 .. n : p[j] = Label(l) => j = q
    BY <1>6, <1>7, GoalFacts
  <2> HIDE DEF q
  <2>2. q + 1 \in 1 .. n + 1 /\ b[q + 1] = Label(l)
    <3>1. b[1 + q] = p[q] /\ 1 + q = q + 1 /\ q + 1 \in 1 .. n + 1
      BY <1>1, <1>2, <2>1
    <3> QED BY <2>1, <3>1
  <2>3. ASSUME NEW j \in 1 .. n + 1, b[j] = Label(l) PROVE j = q + 1
    <3>1. j # 1
      BY <1>2, <1>5, <2>3 DEF Label, Op
    <3>2. j - 1 \in 1 .. n /\ 1 + (j - 1) = j
      BY <1>1, <3>1
    <3>3. p[j - 1] = Label(l)
      BY <1>2, <2>3, <3>2
    <3>4. j - 1 = q
      BY <2>1, <3>2, <3>3
    <3> QED BY <2>1, <3>2, <3>4
  <2>4. HasGoal(b, l) /\ Goal(b, l) = q + 1
    BY <1>6, <2>2, <2>3, GoalOnly
  <2> QED BY <2>1, <2>4 DEF q
<1>8. ASSUME NEW k \in 1 .. n + 1
      PROVE  /\ bt[k].depth \in Nat /\ Takes(b[k]) \in 0 .. bt[k].depth /\ t.bound \subseteq bt[k].bound
             /\ Op(b[k]) = "LOAD_FAST" => Arg(b[k]) \in bt[k].bound
             /\ Op(b[k]) = "RETURN_VALUE" => bt[k].depth \in rets
             /\ Jumps(b[k]) => HasGoal(b, Arg(b[k]))
             /\ \A m \in Follows(b, k) :
                  /\ m > k /\ bt[m].depth = bt[k].depth - Takes(b[k]) + Gives(b[k])
                  /\ bt[m].bound \subseteq bt[k].bound \cup Binds(b[k])
  <2>1. CASE k = 1
    <3>1. b[k] = i /\ bt[k] = t /\ Follows(b, k) = {k + 1} /\ bt[k + 1] = u
      BY <1>1, <1>2, <1>3, <1>4, <1>5, <2>1 DEF Follows, Falls
    <3> QED BY <1>4, <1>5, <2>1, <3>1
  <2>2. CASE k # 1
    <3> DEFINE j == k - 1
    <3>1. j \in 1 .. n /\ j + 1 = k /\ 1 + j = k /\ j \in 1 .. n + 1 /\ j + 1 \in 1 .. n + 1 /\ (j + 1) + 1 = k + 1
      BY <1>1, <2>2
    <3>2. b[k] = p[j] /\ bt[k] = pt[j]
      BY <1>2, <1>3, <3>1
    <3>3. /\ pt[j].depth \in Nat /\ Takes(p[j]) \in 0 .. pt[j].depth /\ u.bound \subseteq pt[j].bound
          /\ Op(p[j]) = "LOAD_FAST" => Arg(p[j]) \in pt[j].bound
          /\ Op(p[j]) = "RETURN_VALUE" => pt[j].depth \in rets
          /\ Jumps(p[j]) => HasGoal(p, Arg(p[j]))
          /\ \A m \in Follows(p, j) :
               /\ m > j /\ pt[m].depth = pt[j].depth - Takes(p[j]) + Gives(p[j])
               /\ pt[m].bound \subseteq pt[j].bound \cup Binds(p[j])
      BY <3>1 DEF Does, u
    <3>4. ASSUME NEW m \in Follows(b, k)
          PROVE  \E x \in Follows(p, j) : x \in 1 .. n + 1 /\ m = x + 1
      <4>1. CASE m = k + 1 /\ Op(b[k]) \notin {"RETURN_VALUE", "JUMP_FORWARD"}
        <5>1. j + 1 \in Follows(p, j)
          BY <3>2, <4>1 DEF Follows
        <5> QED BY <3>1, <4>1, <5>1
      <4>2. CASE Jumps(b[k]) /\ m = Goal(b, Arg(b[k]))
        <5>1. Goal(p, Arg(p[j])) \in Follows(p, j) /\ HasGoal(p, Arg(p[j]))
          BY <3>2, <3>3, <4>2 DEF Follows
        <5>2. m = Goal(p, Arg(p[j])) + 1 /\ Goal(p, Arg(p[j])) \in 1 .. n
          BY <1>7, <3>2, <4>2, <5>1
        <5> QED BY <1>1, <5>1, <5>2
      <4> QED BY <3>4, <4>1, <4>2 DEF Follows
    <3>5. ASSUME NEW m \in Follows(b, k)
          PROVE  /\ m > k /\ bt[m].depth = bt[k].depth - Takes(b[k]) + Gives(b[k])
                 /\ bt[m].bound \subseteq bt[k].bound \cup Binds(b[k])
      <4>1. PICK x \in Follows(p, j) : x \in 1 .. n + 1 /\ m = x + 1
        BY <3>4
      <4>2. bt[m] = pt[x]
        BY <1>3, <4>1
      <4>3. x > j
        BY <3>3, <4>1
      <4>4. m > k
        BY <3>1, <4>1, <4>3
      <4> QED BY <3>2, <3>3, <4>1, <4>2, <4>4
    <3>6. Jumps(b[k]) => HasGoal(b, Arg(b[k]))
      BY <1>7, <3>2, <3>3
    <3> QED BY <1>4, <3>2, <3>3, <3>5, <3>6
  <2> QED BY <2>1, <2>2
<1>9. ASSUME Falls(b[n + 1])
      PROVE  /\ Falls(i) /\ bt[n + 2].depth = t.depth - Takes(i) + Gives(i)
             /\ t.bound \cup Binds(i) \subseteq bt[n + 2].bound
  <2>1. b[n + 1] = p[n] /\ bt[n + 2] = pt[n + 1]
    BY <1>1, <1>2, <1>3
  <2>2. /\ pt[n + 1].depth = u.depth - Takes(Nothing) + Gives(Nothing)
        /\ u.bound \cup Binds(Nothing) \subseteq pt[n + 1].bound
    BY <1>1, <1>9, <2>1 DEF Does, u
  <2>3. Takes(Nothing) = 0 /\ Gives(Nothing) = 0
    BY DEF Nothing, Takes, Gives, Op, JumpOps
  <2> QED BY <1>4, <1>5, <2>1, <2>2, <2>3
<1>10. Len(b) = n + 1 /\ Len(b) + 1 = n + 2
  BY <1>1, <1>2
<1>11. Does(b, i, t, rets, bt)
  BY <1>3, <1>8, <1>9, <1>10 DEF Does
<1> QED BY <1>11

LEMMA InsertFits ==
  ASSUME NEW c, Ready(c), NEW n \in 1 .. Len(c), Op(c[n]) \in {"RESUME", "STORE_FAST"},
         NEW p, IsSeq(p), Len(p) # 0, Labelled(p, Len(c)),
         NEW params, NEW rets, NEW ty, Fits(c, params, rets, ty),
         n \in DOMAIN ty => \E pt : Does(p, Nothing, After(c[n], ty[n]), rets, pt)
  PROVE  Ready(Insert(c, n, p)) /\ \E ty2 : Fits(Insert(c, n, p), params, rets, ty2)
<1> DEFINE i == c[n]
           d == Insert(c, n, p)
           b == <<i>> \o p
           P == Len(p)
<1>1. P \in Nat \ {0} /\ Len(c) \in Nat /\ IsSeq(c) /\ Numbered(c)
  BY SeqFacts DEF Ready
<1>2. Spliced(d, c, n, b) /\ IsConcat(b, <<i>>, p)
  BY <1>1, InsertIsSplice
<1> HIDE DEF b, d
<1>3. IsSeq(b) /\ Len(b) = P + 1 /\ b[1] = i /\ \A k \in 1 .. P : b[1 + k] = p[k]
  <2> DEFINE o == <<i>>
  <2>1. Len(o) = 1 /\ o[1] = i /\ IsConcat(b, o, p)
    BY <1>2, AloneIsSeq
  <2> HIDE DEF o
  <2> QED BY <1>1, <2>1 DEF IsConcat
<1>4. Labelled(b, Len(c))
  <2>1. ASSUME NEW k \in 1 .. Len(b), k # 1 PROVE k - 1 \in 1 .. P /\ b[k] = p[k - 1]
    <3>1. k - 1 \in 1 .. P /\ 1 + (k - 1) = k
      BY <1>1, <1>3, <2>1
    <3> QED BY <1>3, <3>1
  <2> QED BY <1>1, <1>3, <2>1 DEF Labelled
<1>5. Ready(d)
  <2>1. n = 1 => Op(b[1]) = "RESUME"
    BY <1>3 DEF Ready
  <2> QED BY <1>1, <1>2, <1>3, <1>4, <2>1, SplicedReady
<1>6. \E bt : n \in DOMAIN ty => Does(b, i, ty[n], rets, bt)
  <2>1. CASE n \in DOMAIN ty
    <3>1. PICK pt : Does(p, Nothing, After(i, ty[n]), rets, pt)
      BY <2>1
    <3>2. ty[n].depth \in Nat /\ Takes(i) \in 0 .. ty[n].depth
      BY <2>1 DEF Fits, IsTyping
    <3> DEFINE t == ty[n]
               j == c[n]
    <3>3. /\ Op(j) \in {"RESUME", "STORE_FAST"} /\ t.depth \in Nat /\ Takes(j) \in 0 .. t.depth
          /\ Does(p, Nothing, After(j, t), rets, pt) /\ IsConcat(b, <<j>>, p)
      BY <1>2, <3>1, <3>2
    <3> HIDE DEF t, j
    <3>4. \E bt : Does(b, j, t, rets, bt)
      BY <1>3, <3>3, InsertDoes
    <3> QED BY <3>4 DEF t, j
  <2>2. CASE n \notin DOMAIN ty
    BY <2>2
  <2> QED BY <2>1, <2>2
<1>7. PICK bt : n \in DOMAIN ty => Does(b, i, ty[n], rets, bt)
  BY <1>6
<1>8. Op(i) \notin Marks /\ ~Jumps(i) /\ Foreign(b, c) /\ Len(b) # 0
  BY <1>1, <1>3, <1>4, LabelledForeign DEF Marks, Jumps, JumpOps
<1>9. \E ty2 : Fits(d, params, rets, ty2)
  BY <1>1, <1>2, <1>3, <1>7, <1>8, SplicedFits
<1> QED BY <1>5, <1>9 DEF d

----------------------------------------------------------------------------
(* The blocks of the guards, each with its typing.                          *)

LEMMA ShortSeqs ==
  /\ \A a : IsSeq(<<a>>) /\ Len(<<a>>) = 1
  /\ \A a, b : IsSeq(<<a, b>>) /\ Len(<<a, b>>) = 2
  /\ \A a, b, c : IsSeq(<<a, b, c>>) /\ Len(<<a, b, c>>) = 3
  /\ \A a, b, c, d : IsSeq(<<a, b, c, d>>) /\ Len(<<a, b, c, d>>) = 4
<1>1. ASSUME NEW a PROVE IsSeq(<<a>>) /\ Len(<<a>>) = 1
  BY AloneIsSeq
<1>2. ASSUME NEW a, NEW b PROVE IsSeq(<<a, b>>) /\ Len(<<a, b>>) = 2
  <2>1. <<a, b>> \in Seq({a, b})
    OBVIOUS
  <2> QED BY <2>1 DEF IsSeq
<1>3. ASSUME NEW a, NEW b, NEW c PROVE IsSeq(<<a, b, c>>) /\ Len(<<a, b, c>>) = 3
  <2>1. <<a, b, c>> \in Seq({a, b, c})
    OBVIOUS
  <2> QED BY <2>1 DEF IsSeq
<1>4. ASSUME NEW a, NEW b, NEW c, NEW d PROVE IsSeq(<<a, b, c, d>>) /\ Len(<<a, b, c, d>>) = 4
  <2>1. <<a, b, c, d>> \in Seq({a, b, c, d})
    OBVIOUS
  <2> QED BY <2>1 DEF IsSeq
<1> QED BY <1>1, <1>2, <1>3, <1>4

IsType(u) == u.depth \in Nat /\ u = [depth |-> u.depth, bound |-> u.bound]
(* Block b is a guard for code of length n, at a place of type u. *)
Guards(b, u, rets, n) ==
  IsSeq(b) /\ Len(b) # 0 /\ Labelled(b, n) /\ \E bt : Does(b, Nothing, u, rets, bt)

(* The blocks that Build inserts. *)
IndexBlock(v, list, l, d) ==
  <<LoadFast(v), LoadFun("len"), LoadFast(list)>> \o CallOf(1)
    \o <<Compare(">="), IfFalse(l)>> \o ReturnConst(d) \o <<Label(l)>>
ListBoundBlock(v, i, l, d) ==
  <<LoadFun("len"), LoadFast(v)>> \o CallOf(1)
    \o <<LoadConst(i), Compare(">"), IfTrue(l)>> \o ReturnConst(d) \o <<Label(l)>>
FileBlock(v, l, d) ==
  <<LoadGlobal("os"), <<"LOAD_ATTR", "path">>, Method("exists"), LoadFast(v)>> \o CallOf(1)
    \o <<IfTrue(l)>> \o ReturnConst(d) \o <<Label(l)>>
StrCoerceBlock(v, l) ==
  IsInstance(v, "str") \o <<IfTrue(l), LoadFun("str"), LoadFast(v)>> \o CallOf(1)
    \o <<StoreFast(v), Label(l)>>
NumberBlock(v, l, l2, d) ==
  IsInstance(v, "str") \o <<IfFalse(l), LoadFast(v), Method("lstrip"), LoadConst(StrV("-"))>>
    \o CallOf(1) \o <<Method("isdigit")>> \o CallOf(0) \o <<IfTrue(l2)>>
    \o AssignConst(v, d) \o <<Label(l2), Label(l)>>

Precall(n) == <<"PRECALL", n>>
Divide == <<"BINARY_OP", "/">>
LoadAttr(n) == <<"LOAD_ATTR", n>>
CallN(n) == <<"CALL", n>>

(* Instructions without jumps that take and give so many values. *)
Plain(i, takes, gives) ==
  /\ Takes(i) = takes /\ Gives(i) = gives /\ Falls(i) /\ ~Jumps(i)
  /\ Op(i) \notin {"LOAD_FAST", "RETURN_VALUE", "LABEL", "TRY_BEGIN", "TRY_END"}

LEMMA Effects ==
  /\ \A c : Plain(LoadConst(c), 0, 1)
  /\ Plain(Is, 2, 1) /\ Plain(Subscr, 2, 1) /\ Plain(Copy, 1, 2) /\ Plain(Pop, 1, 0)
  /\ Plain(Divide, 2, 1) /\ \A op : Plain(Compare(op), 2, 1)
  /\ \A n : Plain(LoadGlobal(n), 0, 1) /\ Plain(LoadFun(n), 0, 2)
  /\ \A n : Plain(Method(n), 1, 2) /\ Plain(LoadAttr(n), 1, 1)
  /\ \A v : Plain(StoreFast(v), 1, 0)
  /\ \A n : Plain(Precall(n), 0, 0) /\ Plain(CallN(n), n + 2, 1)
<1>1. \A c : Plain(LoadConst(c), 0, 1)
  BY DEF Plain, LoadConst, Takes, Gives, Falls, Jumps, JumpOps, Op, Arg
<1>2. Plain(Is, 2, 1) /\ Plain(Subscr, 2, 1) /\ Plain(Copy, 1, 2) /\ Plain(Pop, 1, 0)
  BY DEF Plain, Is, Subscr, Copy, Pop, Takes, Gives, Falls, Jumps, JumpOps, Op, Arg
<1>3. Plain(Divide, 2, 1) /\ \A op : Plain(Compare(op), 2, 1)
  BY DEF Plain, Divide, Compare, Takes, Gives, Falls, Jumps, JumpOps, Op, Arg
<1>4. \A n : Plain(LoadGlobal(n), 0, 1) /\ Plain(LoadFun(n), 0, 2)
  BY DEF Plain, LoadGlobal, LoadFun, Takes, Gives, Falls, Jumps, JumpOps, Op, Arg
<1>5. \A n : Plain(Method(n), 1, 2) /\ Plain(LoadAttr(n), 1, 1)
  BY DEF Plain, Method, LoadAttr, Takes, Gives, Falls, Jumps, JumpOps, Op, Arg
<1>6. \A v : Plain(StoreFast(v), 1, 0)
  BY DEF Plain, StoreFast, Takes, Gives, Falls, Jumps, JumpOps, Op, Arg
<1>7. \A n : Plain(Precall(n), 0, 0) /\ Plain(CallN(n), n + 2, 1)
  BY DEF Plain, Precall, CallN, Takes, Gives, Falls, Jumps, JumpOps, Op, Arg
<1> QED BY <1>1, <1>2, <1>3, <1>4, <1>5, <1>6, <1>7

(* The others. *)
IsLoad(i, v) == Op(i) = "LOAD_FAST" /\ Arg(i) = v /\ Takes(i) = 0 /\ Gives(i) = 1 /\ Falls(i) /\ ~Jumps(i)
IsBranch(i, l) == Op(i) \in JumpOps /\ Arg(i) = l /\ Takes(i) = 1 /\ Gives(i) = 0 /\ Falls(i) /\ Jumps(i)
                  /\ Op(i) \notin {"LOAD_FAST", "RETURN_VALUE", "LABEL", "TRY_BEGIN", "TRY_END"}
IsJump(i, l) == Op(i) = "JUMP_FORWARD" /\ Arg(i) = l /\ Takes(i) = 0 /\ Gives(i) = 0 /\ ~Falls(i) /\ Jumps(i)
IsLabel(i, l) == i = Label(l) /\ Op(i) = "LABEL" /\ Arg(i) = l /\ Takes(i) = 0 /\ Gives(i) = 0 /\ Falls(i) /\ ~Jumps(i)
IsReturn(i) == Op(i) = "RETURN_VALUE" /\ Takes(i) = 1 /\ Gives(i) = 0 /\ ~Falls(i) /\ ~Jumps(i)

LEMMA Controls ==
  /\ \A v : IsLoad(LoadFast(v), v)
  /\ \A l : IsBranch(IfTrue(l), l) /\ IsBranch(IfFalse(l), l)
  /\ \A l : IsJump(Jump(l), l) /\ IsLabel(Label(l), l)
  /\ \A x : Op(x) = "RETURN_VALUE" => IsReturn(x)
  /\ IsReturn(Return)
<1>1. \A v : IsLoad(LoadFast(v), v)
  BY DEF IsLoad, LoadFast, Takes, Gives, Falls, Jumps, JumpOps, Op, Arg
<1>2. \A l : IsBranch(IfTrue(l), l) /\ IsBranch(IfFalse(l), l)
  BY DEF IsBranch, IfTrue, IfFalse, Takes, Gives, Falls, Jumps, JumpOps, Op, Arg
<1>3. \A l : IsJump(Jump(l), l)
  BY DEF IsJump, Jump, Takes, Gives, Falls, Jumps, JumpOps, Op, Arg
<1>4. \A l : IsLabel(Label(l), l)
  BY DEF IsLabel, Label, Takes, Gives, Falls, Jumps, JumpOps, Op, Arg
<1>5. IsReturn(Return) /\ \A x : Op(x) = "RETURN_VALUE" => IsReturn(x)
  BY DEF IsReturn, Return, Takes, Gives, Falls, Jumps, JumpOps, Op, Arg
<1> QED BY <1>1, <1>2, <1>3, <1>4, <1>5

LEMMA NothingDone == Falls(Nothing) /\ Takes(Nothing) = 0 /\ Gives(Nothing) = 0 /\ Binds(Nothing) = {}
BY DEF Nothing, Falls, Takes, Gives, Binds, Op, JumpOps

(* A guard that returns the default for None. *)
LEMMA NoneReturns ==
  ASSUME NEW v, NEW d, NEW l, NEW n, NEW u, NEW rets, l[2][1] = n, IsType(u), v \in u.bound,
         u.depth + 1 \in rets
  PROVE  Guards(IfNone(v, l, ReturnConst(d)), u, rets, n)
<1> DEFINE b == IfNone(v, l, ReturnConst(d))
           p1 == << LoadFast(v), LoadConst(NoneV), Is, IfFalse(l) >>
           p2 == << LoadConst(d), Return >>
           p3 == << Label(l) >>
           h == <<0, 1, 2, 1, 0, 1, 0, 0>>
           g == <<{}, {}, {}, {}, {}, {}, {}, {}>>
<1>1. /\ IsSeq(b) /\ Len(b) = 7 /\ b[1] = LoadFast(v) /\ b[2] = LoadConst(NoneV)
      /\ b[3] = Is /\ b[4] = IfFalse(l) /\ b[5] = LoadConst(d) /\ b[6] = Return
      /\ b[7] = Label(l)
  <2>1. /\ IsSeq(p1) /\ Len(p1) = 4 /\ p1[1] = LoadFast(v) /\ p1[2] = LoadConst(NoneV)
        /\ p1[3] = Is /\ p1[4] = IfFalse(l)
    BY ShortSeqs
  <2>2. /\ IsSeq(p2) /\ Len(p2) = 2 /\ p2[1] = LoadConst(d) /\ p2[2] = Return
    BY ShortSeqs
  <2>3. /\ IsSeq(p3) /\ Len(p3) = 1 /\ p3[1] = Label(l)
    BY ShortSeqs
  <2>4. b = (p1 \o p2) \o p3
    BY DEF IfNone, ReturnConst
  <2> HIDE DEF b, p1, p2, p3
  <2> DEFINE s2 == p1 \o p2
  <2>5. b = s2 \o p3
    BY <2>4
  <2>6. IsConcat(s2, p1, p2)
    BY <2>1, <2>2, ConcatAt
  <2> HIDE DEF s2
  <2>7. /\ IsSeq(s2) /\ Len(s2) = 6 /\ s2[1] = p1[1] /\ s2[2] = p1[2] /\ s2[3] = p1[3]
        /\ s2[4] = p1[4] /\ s2[5] = p2[1] /\ s2[6] = p2[2]
    BY <2>1, <2>2, <2>6 DEF IsConcat
  <2>8. IsConcat(b, s2, p3)
    BY <2>7, <2>3, <2>5, ConcatAt
  <2>9. /\ IsSeq(b) /\ Len(b) = 7 /\ b[1] = s2[1] /\ b[2] = s2[2] /\ b[3] = s2[3]
        /\ b[4] = s2[4] /\ b[5] = s2[5] /\ b[6] = s2[6] /\ b[7] = p3[1]
    BY <2>7, <2>3, <2>8 DEF IsConcat
  <2> QED BY <2>1, <2>2, <2>3, <2>7, <2>9
<1>2. /\ h[1] = 0 /\ h[2] = 1 /\ h[3] = 2 /\ h[4] = 1 /\ h[5] = 0 /\ h[6] = 1 /\ h[7] = 0 /\ h[8] = 0
  OBVIOUS
<1>3. /\ g[1] = {} /\ g[2] = {} /\ g[3] = {} /\ g[4] = {} /\ g[5] = {}
      /\ g[6] = {} /\ g[7] = {} /\ g[8] = {}
  OBVIOUS
<1> HIDE DEF b, h, g
<1>4. \A k \in 1 .. 7 : k \in {1, 2, 3, 4, 5, 6, 7}
  OBVIOUS
<1>5. /\ Plain(b[2], 0, 1) /\ Plain(b[3], 2, 1) /\ Plain(b[5], 0, 1)
  BY <1>1, Effects
<1>6. /\ IsLoad(b[1], v) /\ IsBranch(b[4], l) /\ IsReturn(b[6]) /\ IsLabel(b[7], l)
  BY <1>1, Controls
<1>7. \A k \in 1 .. 7 : /\ Op(b[k]) \notin {"TRY_BEGIN", "TRY_END"}
                        /\ Op(b[k]) = "LABEL" => k \in {7}
  BY <1>4, <1>5, <1>6 DEF Plain, IsLoad, IsJump, IsBranch, IsLabel, IsReturn
<1>8. At(b, l, 7)
  BY <1>1, <1>6, <1>7 DEF At, IsLabel, Label
<1>9. Sound(b, u, h, g, rets, 2)
  BY <1>2, <1>3, <1>5 DEF Sound, Plain, IsType
<1>10. Sound(b, u, h, g, rets, 3)
  BY <1>2, <1>3, <1>5 DEF Sound, Plain, IsType
<1>11. Sound(b, u, h, g, rets, 5)
  BY <1>2, <1>3, <1>5 DEF Sound, Plain, IsType
<1>12. Sound(b, u, h, g, rets, 1)
  BY <1>2, <1>3, <1>6 DEF Sound, IsLoad, IsType
<1>13. Sound(b, u, h, g, rets, 4)
  BY <1>2, <1>3, <1>6, <1>8 DEF Sound, IsBranch, IsType
<1>14. Sound(b, u, h, g, rets, 6)
  BY <1>2, <1>3, <1>6 DEF Sound, IsReturn, IsType
<1>15. Sound(b, u, h, g, rets, 7)
  BY <1>2, <1>3, <1>6 DEF Sound, IsLabel, IsType
<1>16. \A k \in 1 .. 7 : Sound(b, u, h, g, rets, k)
  BY <1>4, <1>12, <1>9, <1>10, <1>13, <1>11, <1>14, <1>15
<1>17. Does(b, Nothing, u, rets, Typing(b, u, h, g))
  <2>1. /\ 7 \in Nat \ {0} /\ Len(b) = 7 /\ IsSeq(b) /\ h[1] = 0 /\ g[1] = {}
        /\ \A k \in 1 .. 7 : Sound(b, u, h, g, rets, k)
    BY <1>1, <1>2, <1>3, <1>16
  <2>2. /\ Falls(Nothing) /\ Takes(Nothing) \in Int /\ h[7 + 1] = Gives(Nothing) - Takes(Nothing)
        /\ Binds(Nothing) = {}
    BY <1>2, NothingDone
  <2>3. u.depth \in Nat /\ u = [depth |-> u.depth, bound |-> u.bound]
    BY DEF IsType
  <2> QED BY <2>1, <2>2, <2>3, SoundDoes
<1>18. Labelled(b, n)
  BY <1>1, <1>7 DEF Labelled, Label, Arg
<1> QED BY <1>1, <1>17, <1>18 DEF Guards, b

(* A guard that assigns the default for None. *)
LEMMA NoneAssigns ==
  ASSUME NEW v, NEW d, NEW l, NEW n, NEW u, NEW rets, l[2][1] = n, IsType(u), v \in u.bound
  PROVE  Guards(IfNone(v, l, AssignConst(v, d)), u, rets, n)
<1> DEFINE b == IfNone(v, l, AssignConst(v, d))
           p1 == << LoadFast(v), LoadConst(NoneV), Is, IfFalse(l) >>
           p2 == << LoadConst(d), StoreFast(v) >>
           p3 == << Label(l) >>
           h == <<0, 1, 2, 1, 0, 1, 0, 0>>
           g == <<{}, {}, {}, {}, {}, {}, {}, {}>>
<1>1. /\ IsSeq(b) /\ Len(b) = 7 /\ b[1] = LoadFast(v) /\ b[2] = LoadConst(NoneV)
      /\ b[3] = Is /\ b[4] = IfFalse(l) /\ b[5] = LoadConst(d) /\ b[6] = StoreFast(v)
      /\ b[7] = Label(l)
  <2>1. /\ IsSeq(p1) /\ Len(p1) = 4 /\ p1[1] = LoadFast(v) /\ p1[2] = LoadConst(NoneV)
        /\ p1[3] = Is /\ p1[4] = IfFalse(l)
    BY ShortSeqs
  <2>2. /\ IsSeq(p2) /\ Len(p2) = 2 /\ p2[1] = LoadConst(d) /\ p2[2] = StoreFast(v)
    BY ShortSeqs
  <2>3. /\ IsSeq(p3) /\ Len(p3) = 1 /\ p3[1] = Label(l)
    BY ShortSeqs
  <2>4. b = (p1 \o p2) \o p3
    BY DEF IfNone, AssignConst
  <2> HIDE DEF b, p1, p2, p3
  <2> DEFINE s2 == p1 \o p2
  <2>5. b = s2 \o p3
    BY <2>4
  <2>6. IsConcat(s2, p1, p2)
    BY <2>1, <2>2, ConcatAt
  <2> HIDE DEF s2
  <2>7. /\ IsSeq(s2) /\ Len(s2) = 6 /\ s2[1] = p1[1] /\ s2[2] = p1[2] /\ s2[3] = p1[3]
        /\ s2[4] = p1[4] /\ s2[5] = p2[1] /\ s2[6] = p2[2]
    BY <2>1, <2>2, <2>6 DEF IsConcat
  <2>8. IsConcat(b, s2, p3)
    BY <2>7, <2>3, <2>5, ConcatAt
  <2>9. /\ IsSeq(b) /\ Len(b) = 7 /\ b[1] = s2[1] /\ b[2] = s2[2] /\ b[3] = s2[3]
        /\ b[4] = s2[4] /\ b[5] = s2[5] /\ b[6] = s2[6] /\ b[7] = p3[1]
    BY <2>7, <2>3, <2>8 DEF IsConcat
  <2> QED BY <2>1, <2>2, <2>3, <2>7, <2>9
<1>2. /\ h[1] = 0 /\ h[2] = 1 /\ h[3] = 2 /\ h[4] = 1 /\ h[5] = 0 /\ h[6] = 1 /\ h[7] = 0 /\ h[8] = 0
  OBVIOUS
<1>3. /\ g[1] = {} /\ g[2] = {} /\ g[3] = {} /\ g[4] = {} /\ g[5] = {}
      /\ g[6] = {} /\ g[7] = {} /\ g[8] = {}
  OBVIOUS
<1> HIDE DEF b, h, g
<1>4. \A k \in 1 .. 7 : k \in {1, 2, 3, 4, 5, 6, 7}
  OBVIOUS
<1>5. /\ Plain(b[2], 0, 1) /\ Plain(b[3], 2, 1) /\ Plain(b[5], 0, 1) /\ Plain(b[6], 1, 0)
  BY <1>1, Effects
<1>6. /\ IsLoad(b[1], v) /\ IsBranch(b[4], l) /\ IsLabel(b[7], l)
  BY <1>1, Controls
<1>7. \A k \in 1 .. 7 : /\ Op(b[k]) \notin {"TRY_BEGIN", "TRY_END"}
                        /\ Op(b[k]) = "LABEL" => k \in {7}
  BY <1>4, <1>5, <1>6 DEF Plain, IsLoad, IsJump, IsBranch, IsLabel, IsReturn
<1>8. At(b, l, 7)
  BY <1>1, <1>6, <1>7 DEF At, IsLabel, Label
<1>9. Sound(b, u, h, g, rets, 2)
  BY <1>2, <1>3, <1>5 DEF Sound, Plain, IsType
<1>10. Sound(b, u, h, g, rets, 3)
  BY <1>2, <1>3, <1>5 DEF Sound, Plain, IsType
<1>11. Sound(b, u, h, g, rets, 5)
  BY <1>2, <1>3, <1>5 DEF Sound, Plain, IsType
<1>12. Sound(b, u, h, g, rets, 6)
  BY <1>2, <1>3, <1>5 DEF Sound, Plain, IsType
<1>13. Sound(b, u, h, g, rets, 1)
  BY <1>2, <1>3, <1>6 DEF Sound, IsLoad, IsType
<1>14. Sound(b, u, h, g, rets, 4)
  BY <1>2, <1>3, <1>6, <1>8 DEF Sound, IsBranch, IsType
<1>15. Sound(b, u, h, g, rets, 7)
  BY <1>2, <1>3, <1>6 DEF Sound, IsLabel, IsType
<1>16. \A k \in 1 .. 7 : Sound(b, u, h, g, rets, k)
  BY <1>4, <1>13, <1>9, <1>10, <1>14, <1>11, <1>12, <1>15
<1>17. Does(b, Nothing, u, rets, Typing(b, u, h, g))
  <2>1. /\ 7 \in Nat \ {0} /\ Len(b) = 7 /\ IsSeq(b) /\ h[1] = 0 /\ g[1] = {}
        /\ \A k \in 1 .. 7 : Sound(b, u, h, g, rets, k)
    BY <1>1, <1>2, <1>3, <1>16
  <2>2. /\ Falls(Nothing) /\ Takes(Nothing) \in Int /\ h[7 + 1] = Gives(Nothing) - Takes(Nothing)
        /\ Binds(Nothing) = {}
    BY <1>2, NothingDone
  <2>3. u.depth \in Nat /\ u = [depth |-> u.depth, bound |-> u.bound]
    BY DEF IsType
  <2> QED BY <2>1, <2>2, <2>3, SoundDoes
<1>18. Labelled(b, n)
  BY <1>1, <1>7 DEF Labelled, Label, Arg
<1> QED BY <1>1, <1>17, <1>18 DEF Guards, b

(* The block of an index guard. *)
LEMMA IndexReturns ==
  ASSUME NEW v, NEW list, NEW d, NEW l, NEW n, NEW u, NEW rets, l[2][1] = n, IsType(u), v \in u.bound,
         list \in u.bound, u.depth + 1 \in rets
  PROVE  Guards(IndexBlock(v, list, l, d), u, rets, n)
<1> DEFINE b == IndexBlock(v, list, l, d)
           p1 == << LoadFast(v), LoadFun("len"), LoadFast(list) >>
           p2 == << Precall(1), CallN(1) >>
           p3 == << Compare(">="), IfFalse(l) >>
           p4 == << LoadConst(d), Return >>
           p5 == << Label(l) >>
           h == <<0, 1, 3, 4, 4, 2, 1, 0, 1, 0, 0>>
           g == <<{}, {}, {}, {}, {}, {}, {}, {}, {}, {}, {}>>
<1>1. /\ IsSeq(b) /\ Len(b) = 10 /\ b[1] = LoadFast(v) /\ b[2] = LoadFun("len")
      /\ b[3] = LoadFast(list) /\ b[4] = Precall(1) /\ b[5] = CallN(1) /\ b[6] = Compare(">=")
      /\ b[7] = IfFalse(l) /\ b[8] = LoadConst(d) /\ b[9] = Return /\ b[10] = Label(l)
  <2>1. /\ IsSeq(p1) /\ Len(p1) = 3 /\ p1[1] = LoadFast(v) /\ p1[2] = LoadFun("len")
        /\ p1[3] = LoadFast(list)
    BY ShortSeqs
  <2>2. /\ IsSeq(p2) /\ Len(p2) = 2 /\ p2[1] = Precall(1) /\ p2[2] = CallN(1)
    BY ShortSeqs
  <2>3. /\ IsSeq(p3) /\ Len(p3) = 2 /\ p3[1] = Compare(">=") /\ p3[2] = IfFalse(l)
    BY ShortSeqs
  <2>4. /\ IsSeq(p4) /\ Len(p4) = 2 /\ p4[1] = LoadConst(d) /\ p4[2] = Return
    BY ShortSeqs
  <2>5. /\ IsSeq(p5) /\ Len(p5) = 1 /\ p5[1] = Label(l)
    BY ShortSeqs
  <2>6. b = (((p1 \o p2) \o p3) \o p4) \o p5
    BY DEF IndexBlock, ReturnConst, CallOf, Precall, CallN
  <2> HIDE DEF b, p1, p2, p3, p4, p5
  <2> DEFINE s2 == p1 \o p2
             s3 == s2 \o p3
             s4 == s3 \o p4
  <2>7. b = s4 \o p5
    BY <2>6
  <2>8. IsConcat(s2, p1, p2)
    BY <2>1, <2>2, ConcatAt
  <2> HIDE DEF s2
  <2>9. /\ IsSeq(s2) /\ Len(s2) = 5 /\ s2[1] = p1[1] /\ s2[2] = p1[2] /\ s2[3] = p1[3]
        /\ s2[4] = p2[1] /\ s2[5] = p2[2]
    BY <2>1, <2>2, <2>8 DEF IsConcat
  <2>10. IsConcat(s3, s2, p3)
    BY <2>9, <2>3, ConcatAt
  <2> HIDE DEF s3
  <2>11. /\ IsSeq(s3) /\ Len(s3) = 7 /\ s3[1] = s2[1] /\ s3[2] = s2[2] /\ s3[3] = s2[3]
         /\ s3[4] = s2[4] /\ s3[5] = s2[5] /\ s3[6] = p3[1] /\ s3[7] = p3[2]
    BY <2>9, <2>3, <2>10 DEF IsConcat
  <2>12. IsConcat(s4, s3, p4)
    BY <2>11, <2>4, ConcatAt
  <2> HIDE DEF s4
  <2>13. /\ IsSeq(s4) /\ Len(s4) = 9 /\ s4[1] = s3[1] /\ s4[2] = s3[2] /\ s4[3] = s3[3]
         /\ s4[4] = s3[4] /\ s4[5] = s3[5] /\ s4[6] = s3[6] /\ s4[7] = s3[7] /\ s4[8] = p4[1]
         /\ s4[9] = p4[2]
    BY <2>11, <2>4, <2>12 DEF IsConcat
  <2>14. IsConcat(b, s4, p5)
    BY <2>13, <2>5, <2>7, ConcatAt
  <2>15. /\ IsSeq(b) /\ Len(b) = 10 /\ b[1] = s4[1] /\ b[2] = s4[2] /\ b[3] = s4[3]
         /\ b[4] = s4[4] /\ b[5] = s4[5] /\ b[6] = s4[6] /\ b[7] = s4[7] /\ b[8] = s4[8]
         /\ b[9] = s4[9] /\ b[10] = p5[1]
    BY <2>13, <2>5, <2>14 DEF IsConcat
  <2> QED BY <2>1, <2>2, <2>3, <2>4, <2>5, <2>9, <2>11, <2>13, <2>15
<1>2. /\ h[1] = 0 /\ h[2] = 1 /\ h[3] = 3 /\ h[4] = 4 /\ h[5] = 4 /\ h[6] = 2 /\ h[7] = 1 /\ h[8] = 0
      /\ h[9] = 1 /\ h[10] = 0 /\ h[11] = 0
  OBVIOUS
<1>3. /\ g[1] = {} /\ g[2] = {} /\ g[3] = {} /\ g[4] = {} /\ g[5] = {}
      /\ g[6] = {} /\ g[7] = {} /\ g[8] = {} /\ g[9] = {} /\ g[10] = {}
      /\ g[11] = {}
  OBVIOUS
<1> HIDE DEF b, h, g
<1>4. \A k \in 1 .. 10 : k \in {1, 2, 3, 4, 5, 6, 7, 8, 9, 10}
  OBVIOUS
<1>5. /\ Plain(b[2], 0, 2) /\ Plain(b[4], 0, 0) /\ Plain(b[5], 3, 1) /\ Plain(b[6], 2, 1)
      /\ Plain(b[8], 0, 1)
  BY <1>1, Effects
<1>6. /\ IsLoad(b[1], v) /\ IsLoad(b[3], list) /\ IsBranch(b[7], l) /\ IsReturn(b[9])
      /\ IsLabel(b[10], l)
  BY <1>1, Controls
<1>7. \A k \in 1 .. 10 : /\ Op(b[k]) \notin {"TRY_BEGIN", "TRY_END"}
                         /\ Op(b[k]) = "LABEL" => k \in {10}
  BY <1>4, <1>5, <1>6 DEF Plain, IsLoad, IsJump, IsBranch, IsLabel, IsReturn
<1>8. At(b, l, 10)
  BY <1>1, <1>6, <1>7 DEF At, IsLabel, Label
<1>9. Sound(b, u, h, g, rets, 2)
  BY <1>2, <1>3, <1>5 DEF Sound, Plain, IsType
<1>10. Sound(b, u, h, g, rets, 4)
  BY <1>2, <1>3, <1>5 DEF Sound, Plain, IsType
<1>11. Sound(b, u, h, g, rets, 5)
  BY <1>2, <1>3, <1>5 DEF Sound, Plain, IsType
<1>12. Sound(b, u, h, g, rets, 6)
  BY <1>2, <1>3, <1>5 DEF Sound, Plain, IsType
<1>13. Sound(b, u, h, g, rets, 8)
  BY <1>2, <1>3, <1>5 DEF Sound, Plain, IsType
<1>14. Sound(b, u, h, g, rets, 1)
  BY <1>2, <1>3, <1>6 DEF Sound, IsLoad, IsType
<1>15. Sound(b, u, h, g, rets, 3)
  BY <1>2, <1>3, <1>6 DEF Sound, IsLoad, IsType
<1>16. Sound(b, u, h, g, rets, 7)
  BY <1>2, <1>3, <1>6, <1>8 DEF Sound, IsBranch, IsType
<1>17. Sound(b, u, h, g, rets, 9)
  BY <1>2, <1>3, <1>6 DEF Sound, IsReturn, IsType
<1>18. Sound(b, u, h, g, rets, 10)
  BY <1>2, <1>3, <1>6 DEF Sound, IsLabel, IsType
<1>19. \A k \in 1 .. 10 : Sound(b, u, h, g, rets, k)
  BY <1>4, <1>14, <1>9, <1>15, <1>10, <1>11, <1>12, <1>16, <1>13, <1>17, <1>18
<1>20. Does(b, Nothing, u, rets, Typing(b, u, h, g))
  <2>1. /\ 10 \in Nat \ {0} /\ Len(b) = 10 /\ IsSeq(b) /\ h[1] = 0 /\ g[1] = {}
        /\ \A k \in 1 .. 10 : Sound(b, u, h, g, rets, k)
    BY <1>1, <1>2, <1>3, <1>19
  <2>2. /\ Falls(Nothing) /\ Takes(Nothing) \in Int /\ h[10 + 1] = Gives(Nothing) - Takes(Nothing)
        /\ Binds(Nothing) = {}
    BY <1>2, NothingDone
  <2>3. u.depth \in Nat /\ u = [depth |-> u.depth, bound |-> u.bound]
    BY DEF IsType
  <2> QED BY <2>1, <2>2, <2>3, SoundDoes
<1>21. Labelled(b, n)
  BY <1>1, <1>7 DEF Labelled, Label, Arg
<1> QED BY <1>1, <1>20, <1>21 DEF Guards, b

(* The block of a list bound guard. *)
LEMMA BoundReturns ==
  ASSUME NEW v, NEW i, NEW d, NEW l, NEW n, NEW u, NEW rets, l[2][1] = n, IsType(u), v \in u.bound,
         u.depth + 1 \in rets
  PROVE  Guards(ListBoundBlock(v, i, l, d), u, rets, n)
<1> DEFINE b == ListBoundBlock(v, i, l, d)
           p1 == << LoadFun("len"), LoadFast(v) >>
           p2 == << Precall(1), CallN(1) >>
           p3 == << LoadConst(i), Compare(">"), IfTrue(l) >>
           p4 == << LoadConst(d), Return >>
           p5 == << Label(l) >>
           h == <<0, 2, 3, 3, 1, 2, 1, 0, 1, 0, 0>>
           g == <<{}, {}, {}, {}, {}, {}, {}, {}, {}, {}, {}>>
<1>1. /\ IsSeq(b) /\ Len(b) = 10 /\ b[1] = LoadFun("len") /\ b[2] = LoadFast(v)
      /\ b[3] = Precall(1) /\ b[4] = CallN(1) /\ b[5] = LoadConst(i) /\ b[6] = Compare(">")
      /\ b[7] = IfTrue(l) /\ b[8] = LoadConst(d) /\ b[9] = Return /\ b[10] = Label(l)
  <2>1. /\ IsSeq(p1) /\ Len(p1) = 2 /\ p1[1] = LoadFun("len") /\ p1[2] = LoadFast(v)
    BY ShortSeqs
  <2>2. /\ IsSeq(p2) /\ Len(p2) = 2 /\ p2[1] = Precall(1) /\ p2[2] = CallN(1)
    BY ShortSeqs
  <2>3. /\ IsSeq(p3) /\ Len(p3) = 3 /\ p3[1] = LoadConst(i) /\ p3[2] = Compare(">")
        /\ p3[3] = IfTrue(l)
    BY ShortSeqs
  <2>4. /\ IsSeq(p4) /\ Len(p4) = 2 /\ p4[1] = LoadConst(d) /\ p4[2] = Return
    BY ShortSeqs
  <2>5. /\ IsSeq(p5) /\ Len(p5) = 1 /\ p5[1] = Label(l)
    BY ShortSeqs
  <2>6. b = (((p1 \o p2) \o p3) \o p4) \o p5
    BY DEF ListBoundBlock, ReturnConst, CallOf, Precall, CallN
  <2> HIDE DEF b, p1, p2, p3, p4, p5
  <2> DEFINE s2 == p1 \o p2
             s3 == s2 \o p3
             s4 == s3 \o p4
  <2>7. b = s4 \o p5
    BY <2>6
  <2>8. IsConcat(s2, p1, p2)
    BY <2>1, <2>2, ConcatAt
  <2> HIDE DEF s2
  <2>9. /\ IsSeq(s2) /\ Len(s2) = 4 /\ s2[1] = p1[1] /\ s2[2] = p1[2] /\ s2[3] = p2[1]
        /\ s2[4] = p2[2]
    BY <2>1, <2>2, <2>8 DEF IsConcat
  <2>10. IsConcat(s3, s2, p3)
    BY <2>9, <2>3, ConcatAt
  <2> HIDE DEF s3
  <2>11. /\ IsSeq(s3) /\ Len(s3) = 7 /\ s3[1] = s2[1] /\ s3[2] = s2[2] /\ s3[3] = s2[3]
         /\ s3[4] = s2[4] /\ s3[5] = p3[1] /\ s3[6] = p3[2] /\ s3[7] = p3[3]
    BY <2>9, <2>3, <2>10 DEF IsConcat
  <2>12. IsConcat(s4, s3, p4)
    BY <2>11, <2>4, ConcatAt
  <2> HIDE DEF s4
  <2>13. /\ IsSeq(s4) /\ Len(s4) = 9 /\ s4[1] = s3[1] /\ s4[2] = s3[2] /\ s4[3] = s3[3]
         /\ s4[4] = s3[4] /\ s4[5] = s3[5] /\ s4[6] = s3[6] /\ s4[7] = s3[7] /\ s4[8] = p4[1]
         /\ s4[9] = p4[2]
    BY <2>11, <2>4, <2>12 DEF IsConcat
  <2>14. IsConcat(b, s4, p5)
    BY <2>13, <2>5, <2>7, ConcatAt
  <2>15. /\ IsSeq(b) /\ Len(b) = 10 /\ b[1] = s4[1] /\ b[2] = s4[2] /\ b[3] = s4[3]
         /\ b[4] = s4[4] /\ b[5] = s4[5] /\ b[6] = s4[6] /\ b[7] = s4[7] /\ b[8] = s4[8]
         /\ b[9] = s4[9] /\ b[10] = p5[1]
    BY <2>13, <2>5, <2>14 DEF IsConcat
  <2> QED BY <2>1, <2>2, <2>3, <2>4, <2>5, <2>9, <2>11, <2>13, <2>15
<1>2. /\ h[1] = 0 /\ h[2] = 2 /\ h[3] = 3 /\ h[4] = 3 /\ h[5] = 1 /\ h[6] = 2 /\ h[7] = 1 /\ h[8] = 0
      /\ h[9] = 1 /\ h[10] = 0 /\ h[11] = 0
  OBVIOUS
<1>3. /\ g[1] = {} /\ g[2] = {} /\ g[3] = {} /\ g[4] = {} /\ g[5] = {}
      /\ g[6] = {} /\ g[7] = {} /\ g[8] = {} /\ g[9] = {} /\ g[10] = {}
      /\ g[11] = {}
  OBVIOUS
<1> HIDE DEF b, h, g
<1>4. \A k \in 1 .. 10 : k \in {1, 2, 3, 4, 5, 6, 7, 8, 9, 10}
  OBVIOUS
<1>5. /\ Plain(b[1], 0, 2) /\ Plain(b[3], 0, 0) /\ Plain(b[4], 3, 1) /\ Plain(b[5], 0, 1)
      /\ Plain(b[6], 2, 1) /\ Plain(b[8], 0, 1)
  BY <1>1, Effects
<1>6. /\ IsLoad(b[2], v) /\ IsBranch(b[7], l) /\ IsReturn(b[9]) /\ IsLabel(b[10], l)
  BY <1>1, Controls
<1>7. \A k \in 1 .. 10 : /\ Op(b[k]) \notin {"TRY_BEGIN", "TRY_END"}
                         /\ Op(b[k]) = "LABEL" => k \in {10}
  BY <1>4, <1>5, <1>6 DEF Plain, IsLoad, IsJump, IsBranch, IsLabel, IsReturn
<1>8. At(b, l, 10)
  BY <1>1, <1>6, <1>7 DEF At, IsLabel, Label
<1>9. Sound(b, u, h, g, rets, 1)
  BY <1>2, <1>3, <1>5 DEF Sound, Plain, IsType
<1>10. Sound(b, u, h, g, rets, 3)
  BY <1>2, <1>3, <1>5 DEF Sound, Plain, IsType
<1>11. Sound(b, u, h, g, rets, 4)
  BY <1>2, <1>3, <1>5 DEF Sound, Plain, IsType
<1>12. Sound(b, u, h, g, rets, 5)
  BY <1>2, <1>3, <1>5 DEF Sound, Plain, IsType
<1>13. Sound(b, u, h, g, rets, 6)
  BY <1>2, <1>3, <1>5 DEF Sound, Plain, IsType
<1>14. Sound(b, u, h, g, rets, 8)
  BY <1>2, <1>3, <1>5 DEF Sound, Plain, IsType
<1>15. Sound(b, u, h, g, rets, 2)
  BY <1>2, <1>3, <1>6 DEF Sound, IsLoad, IsType
<1>16. Sound(b, u, h, g, rets, 7)
  BY <1>2, <1>3, <1>6, <1>8 DEF Sound, IsBranch, IsType
<1>17. Sound(b, u, h, g, rets, 9)
  BY <1>2, <1>3, <1>6 DEF Sound, IsReturn, IsType
<1>18. Sound(b, u, h, g, rets, 10)
  BY <1>2, <1>3, <1>6 DEF Sound, IsLabel, IsType
<1>19. \A k \in 1 .. 10 : Sound(b, u, h, g, rets, k)
  BY <1>4, <1>9, <1>15, <1>10, <1>11, <1>12, <1>13, <1>16, <1>14, <1>17, <1>18
<1>20. Does(b, Nothing, u, rets, Typing(b, u, h, g))
  <2>1. /\ 10 \in Nat \ {0} /\ Len(b) = 10 /\ IsSeq(b) /\ h[1] = 0 /\ g[1] = {}
        /\ \A k \in 1 .. 10 : Sound(b, u, h, g, rets, k)
    BY <1>1, <1>2, <1>3, <1>19
  <2>2. /\ Falls(Nothing) /\ Takes(Nothing) \in Int /\ h[10 + 1] = Gives(Nothing) - Takes(Nothing)
        /\ Binds(Nothing) = {}
    BY <1>2, NothingDone
  <2>3. u.depth \in Nat /\ u = [depth |-> u.depth, bound |-> u.bound]
    BY DEF IsType
  <2> QED BY <2>1, <2>2, <2>3, SoundDoes
<1>21. Labelled(b, n)
  BY <1>1, <1>7 DEF Labelled, Label, Arg
<1> QED BY <1>1, <1>20, <1>21 DEF Guards, b

(* The block of a file guard. *)
LEMMA FileReturns ==
  ASSUME NEW v, NEW d, NEW l, NEW n, NEW u, NEW rets, l[2][1] = n, IsType(u), v \in u.bound,
         u.depth + 1 \in rets
  PROVE  Guards(FileBlock(v, l, d), u, rets, n)
<1> DEFINE b == FileBlock(v, l, d)
           p1 == << LoadGlobal("os"), LoadAttr("path"), Method("exists"), LoadFast(v) >>
           p2 == << Precall(1), CallN(1) >>
           p3 == << IfTrue(l) >>
           p4 == << LoadConst(d), Return >>
           p5 == << Label(l) >>
           h == <<0, 1, 1, 2, 3, 3, 1, 0, 1, 0, 0>>
           g == <<{}, {}, {}, {}, {}, {}, {}, {}, {}, {}, {}>>
<1>1. /\ IsSeq(b) /\ Len(b) = 10 /\ b[1] = LoadGlobal("os") /\ b[2] = LoadAttr("path")
      /\ b[3] = Method("exists") /\ b[4] = LoadFast(v) /\ b[5] = Precall(1) /\ b[6] = CallN(1)
      /\ b[7] = IfTrue(l) /\ b[8] = LoadConst(d) /\ b[9] = Return /\ b[10] = Label(l)
  <2>1. /\ IsSeq(p1) /\ Len(p1) = 4 /\ p1[1] = LoadGlobal("os") /\ p1[2] = LoadAttr("path")
        /\ p1[3] = Method("exists") /\ p1[4] = LoadFast(v)
    BY ShortSeqs
  <2>2. /\ IsSeq(p2) /\ Len(p2) = 2 /\ p2[1] = Precall(1) /\ p2[2] = CallN(1)
    BY ShortSeqs
  <2>3. /\ IsSeq(p3) /\ Len(p3) = 1 /\ p3[1] = IfTrue(l)
    BY ShortSeqs
  <2>4. /\ IsSeq(p4) /\ Len(p4) = 2 /\ p4[1] = LoadConst(d) /\ p4[2] = Return
    BY ShortSeqs
  <2>5. /\ IsSeq(p5) /\ Len(p5) = 1 /\ p5[1] = Label(l)
    BY ShortSeqs
  <2>6. b = (((p1 \o p2) \o p3) \o p4) \o p5
    BY DEF FileBlock, ReturnConst, LoadAttr, CallOf, Precall, CallN
  <2> HIDE DEF b, p1, p2, p3, p4, p5
  <2> DEFINE s2 == p1 \o p2
             s3 == s2 \o p3
             s4 == s3 \o p4
  <2>7. b = s4 \o p5
    BY <2>6
  <2>8. IsConcat(s2, p1, p2)
    BY <2>1, <2>2, ConcatAt
  <2> HIDE DEF s2
  <2>9. /\ IsSeq(s2) /\ Len(s2) = 6 /\ s2[1] = p1[1] /\ s2[2] = p1[2] /\ s2[3] = p1[3]
        /\ s2[4] = p1[4] /\ s2[5] = p2[1] /\ s2[6] = p2[2]
    BY <2>1, <2>2, <2>8 DEF IsConcat
  <2>10. IsConcat(s3, s2, p3)
    BY <2>9, <2>3, ConcatAt
  <2> HIDE DEF s3
  <2>11. /\ IsSeq(s3) /\ Len(s3) = 7 /\ s3[1] = s2[1] /\ s3[2] = s2[2] /\ s3[3] = s2[3]
         /\ s3[4] = s2[4] /\ s3[5] = s2[5] /\ s3[6] = s2[6] /\ s3[7] = p3[1]
    BY <2>9, <2>3, <2>10 DEF IsConcat
  <2>12. IsConcat(s4, s3, p4)
    BY <2>11, <2>4, ConcatAt
  <2> HIDE DEF s4
  <2>13. /\ IsSeq(s4) /\ Len(s4) = 9 /\ s4[1] = s3[1] /\ s4[2] = s3[2] /\ s4[3] = s3[3]
         /\ s4[4] = s3[4] /\ s4[5] = s3[5] /\ s4[6] = s3[6] /\ s4[7] = s3[7] /\ s4[8] = p4[1]
         /\ s4[9] = p4[2]
    BY <2>11, <2>4, <2>12 DEF IsConcat
  <2>14. IsConcat(b, s4, p5)
    BY <2>13, <2>5, <2>7, ConcatAt
  <2>15. /\ IsSeq(b) /\ Len(b) = 10 /\ b[1] = s4[1] /\ b[2] = s4[2] /\ b[3] = s4[3]
         /\ b[4] = s4[4] /\ b[5] = s4[5] /\ b[6] = s4[6] /\ b[7] = s4[7] /\ b[8] = s4[8]
         /\ b[9] = s4[9] /\ b[10] = p5[1]
    BY <2>13, <2>5, <2>14 DEF IsConcat
  <2> QED BY <2>1, <2>2, <2>3, <2>4, <2>5, <2>9, <2>11, <2>13, <2>15
<1>2. /\ h[1] = 0 /\ h[2] = 1 /\ h[3] = 1 /\ h[4] = 2 /\ h[5] = 3 /\ h[6] = 3 /\ h[7] = 1 /\ h[8] = 0
      /\ h[9] = 1 /\ h[10] = 0 /\ h[11] = 0
  OBVIOUS
<1>3. /\ g[1] = {} /\ g[2] = {} /\ g[3] = {} /\ g[4] = {} /\ g[5] = {}
      /\ g[6] = {} /\ g[7] = {} /\ g[8] = {} /\ g[9] = {} /\ g[10] = {}
      /\ g[11] = {}
  OBVIOUS
<1> HIDE DEF b, h, g
<1>4. \A k \in 1 .. 10 : k \in {1, 2, 3, 4, 5, 6, 7, 8, 9, 10}
  OBVIOUS
<1>5. /\ Plain(b[1], 0, 1) /\ Plain(b[2], 1, 1) /\ Plain(b[3], 1, 2) /\ Plain(b[5], 0, 0)
      /\ Plain(b[6], 3, 1) /\ Plain(b[8], 0, 1)
  BY <1>1, Effects
<1>6. /\ IsLoad(b[4], v) /\ IsBranch(b[7], l) /\ IsReturn(b[9]) /\ IsLabel(b[10], l)
  BY <1>1, Controls
<1>7. \A k \in 1 .. 10 : /\ Op(b[k]) \notin {"TRY_BEGIN", "TRY_END"}
                         /\ Op(b[k]) = "LABEL" => k \in {10}
  BY <1>4, <1>5, <1>6 DEF Plain, IsLoad, IsJump, IsBranch, IsLabel, IsReturn
<1>8. At(b, l, 10)
  BY <1>1, <1>6, <1>7 DEF At, IsLabel, Label
<1>9. Sound(b, u, h, g, rets, 1)
  BY <1>2, <1>3, <1>5 DEF Sound, Plain, IsType
<1>10. Sound(b, u, h, g, rets, 2)
  BY <1>2, <1>3, <1>5 DEF Sound, Plain, IsType
<1>11. Sound(b, u, h, g, rets, 3)
  BY <1>2, <1>3, <1>5 DEF Sound, Plain, IsType
<1>12. Sound(b, u, h, g, rets, 5)
  BY <1>2, <1>3, <1>5 DEF Sound, Plain, IsType
<1>13. Sound(b, u, h, g, rets, 6)
  BY <1>2, <1>3, <1>5 DEF Sound, Plain, IsType
<1>14. Sound(b, u, h, g, rets, 8)
  BY <1>2, <1>3, <1>5 DEF Sound, Plain, IsType
<1>15. Sound(b, u, h, g, rets, 4)
  BY <1>2, <1>3, <1>6 DEF Sound, IsLoad, IsType
<1>16. Sound(b, u, h, g, rets, 7)
  BY <1>2, <1>3, <1>6, <1>8 DEF Sound, IsBranch, IsType
<1>17. Sound(b, u, h, g, rets, 9)
  BY <1>2, <1>3, <1>6 DEF Sound, IsReturn, IsType
<1>18. Sound(b, u, h, g, rets, 10)
  BY <1>2, <1>3, <1>6 DEF Sound, IsLabel, IsType
<1>19. \A k \in 1 .. 10 : Sound(b, u, h, g, rets, k)
  BY <1>4, <1>9, <1>10, <1>11, <1>15, <1>12, <1>13, <1>16, <1>14, <1>17, <1>18
<1>20. Does(b, Nothing, u, rets, Typing(b, u, h, g))
  <2>1. /\ 10 \in Nat \ {0} /\ Len(b) = 10 /\ IsSeq(b) /\ h[1] = 0 /\ g[1] = {}
        /\ \A k \in 1 .. 10 : Sound(b, u, h, g, rets, k)
    BY <1>1, <1>2, <1>3, <1>19
  <2>2. /\ Falls(Nothing) /\ Takes(Nothing) \in Int /\ h[10 + 1] = Gives(Nothing) - Takes(Nothing)
        /\ Binds(Nothing) = {}
    BY <1>2, NothingDone
  <2>3. u.depth \in Nat /\ u = [depth |-> u.depth, bound |-> u.bound]
    BY DEF IsType
  <2> QED BY <2>1, <2>2, <2>3, SoundDoes
<1>21. Labelled(b, n)
  BY <1>1, <1>7 DEF Labelled, Label, Arg
<1> QED BY <1>1, <1>20, <1>21 DEF Guards, b

(* The block of a coercion to text. *)
LEMMA TextAssigns ==
  ASSUME NEW v, NEW l, NEW n, NEW u, NEW rets, l[2][1] = n, IsType(u), v \in u.bound
  PROVE  Guards(StrCoerceBlock(v, l), u, rets, n)
<1> DEFINE b == StrCoerceBlock(v, l)
           p1 == << LoadFun("isinstance"), LoadFast(v), LoadGlobal("str") >>
           p2 == << Precall(2), CallN(2) >>
           p3 == << IfTrue(l), LoadFun("str"), LoadFast(v) >>
           p4 == << Precall(1), CallN(1) >>
           p5 == << StoreFast(v), Label(l) >>
           h == <<0, 2, 3, 4, 4, 1, 0, 2, 3, 3, 1, 0, 0>>
           g == <<{}, {}, {}, {}, {}, {}, {}, {}, {}, {}, {}, {}, {}>>
<1>1. /\ IsSeq(b) /\ Len(b) = 12 /\ b[1] = LoadFun("isinstance") /\ b[2] = LoadFast(v)
      /\ b[3] = LoadGlobal("str") /\ b[4] = Precall(2) /\ b[5] = CallN(2) /\ b[6] = IfTrue(l)
      /\ b[7] = LoadFun("str") /\ b[8] = LoadFast(v) /\ b[9] = Precall(1) /\ b[10] = CallN(1)
      /\ b[11] = StoreFast(v) /\ b[12] = Label(l)
  <2>1. /\ IsSeq(p1) /\ Len(p1) = 3 /\ p1[1] = LoadFun("isinstance") /\ p1[2] = LoadFast(v)
        /\ p1[3] = LoadGlobal("str")
    BY ShortSeqs
  <2>2. /\ IsSeq(p2) /\ Len(p2) = 2 /\ p2[1] = Precall(2) /\ p2[2] = CallN(2)
    BY ShortSeqs
  <2>3. /\ IsSeq(p3) /\ Len(p3) = 3 /\ p3[1] = IfTrue(l) /\ p3[2] = LoadFun("str")
        /\ p3[3] = LoadFast(v)
    BY ShortSeqs
  <2>4. /\ IsSeq(p4) /\ Len(p4) = 2 /\ p4[1] = Precall(1) /\ p4[2] = CallN(1)
    BY ShortSeqs
  <2>5. /\ IsSeq(p5) /\ Len(p5) = 2 /\ p5[1] = StoreFast(v) /\ p5[2] = Label(l)
    BY ShortSeqs
  <2>6. b = (((p1 \o p2) \o p3) \o p4) \o p5
    BY DEF StrCoerceBlock, IsInstance, CallOf, Precall, CallN
  <2> HIDE DEF b, p1, p2, p3, p4, p5
  <2> DEFINE s2 == p1 \o p2
             s3 == s2 \o p3
             s4 == s3 \o p4
  <2>7. b = s4 \o p5
    BY <2>6
  <2>8. IsConcat(s2, p1, p2)
    BY <2>1, <2>2, ConcatAt
  <2> HIDE DEF s2
  <2>9. /\ IsSeq(s2) /\ Len(s2) = 5 /\ s2[1] = p1[1] /\ s2[2] = p1[2] /\ s2[3] = p1[3]
        /\ s2[4] = p2[1] /\ s2[5] = p2[2]
    BY <2>1, <2>2, <2>8 DEF IsConcat
  <2>10. IsConcat(s3, s2, p3)
    BY <2>9, <2>3, ConcatAt
  <2> HIDE DEF s3
  <2>11. /\ IsSeq(s3) /\ Len(s3) = 8 /\ s3[1] = s2[1] /\ s3[2] = s2[2] /\ s3[3] = s2[3]
         /\ s3[4] = s2[4] /\ s3[5] = s2[5] /\ s3[6] = p3[1] /\ s3[7] = p3[2] /\ s3[8] = p3[3]
    BY <2>9, <2>3, <2>10 DEF IsConcat
  <2>12. IsConcat(s4, s3, p4)
    BY <2>11, <2>4, ConcatAt
  <2> HIDE DEF s4
  <2>13. /\ IsSeq(s4) /\ Len(s4) = 10 /\ s4[1] = s3[1] /\ s4[2] = s3[2] /\ s4[3] = s3[3]
         /\ s4[4] = s3[4] /\ s4[5] = s3[5] /\ s4[6] = s3[6] /\ s4[7] = s3[7] /\ s4[8] = s3[8]
         /\ s4[9] = p4[1] /\ s4[10] = p4[2]
    BY <2>11, <2>4, <2>12 DEF IsConcat
  <2>14. IsConcat(b, s4, p5)
    BY <2>13, <2>5, <2>7, ConcatAt
  <2>15. /\ IsSeq(b) /\ Len(b) = 12 /\ b[1] = s4[1] /\ b[2] = s4[2] /\ b[3] = s4[3]
         /\ b[4] = s4[4] /\ b[5] = s4[5] /\ b[6] = s4[6] /\ b[7] = s4[7] /\ b[8] = s4[8]
         /\ b[9] = s4[9] /\ b[10] = s4[10] /\ b[11] = p5[1] /\ b[12] = p5[2]
    BY <2>13, <2>5, <2>14 DEF IsConcat
  <2> QED BY <2>1, <2>2, <2>3, <2>4, <2>5, <2>9, <2>11, <2>13, <2>15
<1>2. /\ h[1] = 0 /\ h[2] = 2 /\ h[3] = 3 /\ h[4] = 4 /\ h[5] = 4 /\ h[6] = 1 /\ h[7] = 0 /\ h[8] = 2
      /\ h[9] = 3 /\ h[10] = 3 /\ h[11] = 1 /\ h[12] = 0 /\ h[13] = 0
  OBVIOUS
<1>3. /\ g[1] = {} /\ g[2] = {} /\ g[3] = {} /\ g[4] = {} /\ g[5] = {}
      /\ g[6] = {} /\ g[7] = {} /\ g[8] = {} /\ g[9] = {} /\ g[10] = {}
      /\ g[11] = {} /\ g[12] = {} /\ g[13] = {}
  OBVIOUS
<1> HIDE DEF b, h, g
<1>4. \A k \in 1 .. 12 : k \in {1, 2, 3, 4, 5, 6, 7, 8, 9, 10, 11, 12}
  OBVIOUS
<1>5. /\ Plain(b[1], 0, 2) /\ Plain(b[3], 0, 1) /\ Plain(b[4], 0, 0) /\ Plain(b[5], 4, 1)
      /\ Plain(b[7], 0, 2) /\ Plain(b[9], 0, 0) /\ Plain(b[10], 3, 1) /\ Plain(b[11], 1, 0)
  <2>1. Plain(b[1], 0, 2) /\ Plain(b[3], 0, 1) /\ Plain(b[4], 0, 0) /\ Plain(b[5], 4, 1)
    BY <1>1, Effects
  <2>2. Plain(b[7], 0, 2) /\ Plain(b[9], 0, 0) /\ Plain(b[10], 3, 1) /\ Plain(b[11], 1, 0)
    BY <1>1, Effects
  <2> QED BY <2>1, <2>2
<1>6. /\ IsLoad(b[2], v) /\ IsBranch(b[6], l) /\ IsLoad(b[8], v) /\ IsLabel(b[12], l)
  BY <1>1, Controls
<1>7. \A k \in 1 .. 12 : /\ Op(b[k]) \notin {"TRY_BEGIN", "TRY_END"}
                         /\ Op(b[k]) = "LABEL" => k \in {12}
  BY <1>4, <1>5, <1>6 DEF Plain, IsLoad, IsJump, IsBranch, IsLabel, IsReturn
<1>8. At(b, l, 12)
  BY <1>1, <1>6, <1>7 DEF At, IsLabel, Label
<1>9. Sound(b, u, h, g, rets, 1)
  BY <1>2, <1>3, <1>5 DEF Sound, Plain, IsType
<1>10. Sound(b, u, h, g, rets, 3)
  BY <1>2, <1>3, <1>5 DEF Sound, Plain, IsType
<1>11. Sound(b, u, h, g, rets, 4)
  BY <1>2, <1>3, <1>5 DEF Sound, Plain, IsType
<1>12. Sound(b, u, h, g, rets, 5)
  BY <1>2, <1>3, <1>5 DEF Sound, Plain, IsType
<1>13. Sound(b, u, h, g, rets, 7)
  BY <1>2, <1>3, <1>5 DEF Sound, Plain, IsType
<1>14. Sound(b, u, h, g, rets, 9)
  BY <1>2, <1>3, <1>5 DEF Sound, Plain, IsType
<1>15. Sound(b, u, h, g, rets, 10)
  BY <1>2, <1>3, <1>5 DEF Sound, Plain, IsType
<1>16. Sound(b, u, h, g, rets, 11)
  BY <1>2, <1>3, <1>5 DEF Sound, Plain, IsType
<1>17. Sound(b, u, h, g, rets, 2)
  BY <1>2, <1>3, <1>6 DEF Sound, IsLoad, IsType
<1>18. Sound(b, u, h, g, rets, 6)
  BY <1>2, <1>3, <1>6, <1>8 DEF Sound, IsBranch, IsType
<1>19. Sound(b, u, h, g, rets, 8)
  BY <1>2, <1>3, <1>6 DEF Sound, IsLoad, IsType
<1>20. Sound(b, u, h, g, rets, 12)
  BY <1>2, <1>3, <1>6 DEF Sound, IsLabel, IsType
<1>21. \A k \in 1 .. 12 : Sound(b, u, h, g, rets, k)
  BY <1>4, <1>9, <1>17, <1>10, <1>11, <1>12, <1>18, <1>13, <1>19, <1>14, <1>15, <1>16, <1>20
<1>22. Does(b, Nothing, u, rets, Typing(b, u, h, g))
  <2>1. /\ 12 \in Nat \ {0} /\ Len(b) = 12 /\ IsSeq(b) /\ h[1] = 0 /\ g[1] = {}
        /\ \A k \in 1 .. 12 : Sound(b, u, h, g, rets, k)
    BY <1>1, <1>2, <1>3, <1>21
  <2>2. /\ Falls(Nothing) /\ Takes(Nothing) \in Int /\ h[12 + 1] = Gives(Nothing) - Takes(Nothing)
        /\ Binds(Nothing) = {}
    BY <1>2, NothingDone
  <2>3. u.depth \in Nat /\ u = [depth |-> u.depth, bound |-> u.bound]
    BY DEF IsType
  <2> QED BY <2>1, <2>2, <2>3, SoundDoes
<1>23. Labelled(b, n)
  BY <1>1, <1>7 DEF Labelled, Label, Arg
<1> QED BY <1>1, <1>22, <1>23 DEF Guards, b

(* The block of a coercion to a number. *)
LEMMA NumberAssigns ==
  ASSUME NEW v, NEW d, NEW l, NEW l2, NEW n, NEW u, NEW rets, l[2][1] = n, IsType(u), l2[2][1] = n, l2 # l,
         v \in u.bound
  PROVE  Guards(NumberBlock(v, l, l2, d), u, rets, n)
<1> DEFINE b == NumberBlock(v, l, l2, d)
           p1 == << LoadFun("isinstance"), LoadFast(v), LoadGlobal("str") >>
           p2 == << Precall(2), CallN(2) >>
           p3 == << IfFalse(l), LoadFast(v), Method("lstrip"), LoadConst(StrV("-")) >>
           p4 == << Precall(1), CallN(1) >>
           p5 == << Method("isdigit") >>
           p6 == << Precall(0), CallN(0) >>
           p7 == << IfTrue(l2) >>
           p8 == << LoadConst(d), StoreFast(v) >>
           p9 == << Label(l2), Label(l) >>
           h == <<0, 2, 3, 4, 4, 1, 0, 1, 2, 3, 3, 1, 2, 2, 1, 0, 1, 0, 0, 0>>
           g == <<{}, {}, {}, {}, {}, {}, {}, {}, {}, {}, {}, {}, {}, {}, {}, {}, {}, {}, {}, {}>>
<1>1. /\ IsSeq(b) /\ Len(b) = 19 /\ b[1] = LoadFun("isinstance") /\ b[2] = LoadFast(v)
      /\ b[3] = LoadGlobal("str") /\ b[4] = Precall(2) /\ b[5] = CallN(2) /\ b[6] = IfFalse(l)
      /\ b[7] = LoadFast(v) /\ b[8] = Method("lstrip") /\ b[9] = LoadConst(StrV("-")) /\ b[10] = Precall(1)
      /\ b[11] = CallN(1) /\ b[12] = Method("isdigit") /\ b[13] = Precall(0) /\ b[14] = CallN(0)
      /\ b[15] = IfTrue(l2) /\ b[16] = LoadConst(d) /\ b[17] = StoreFast(v) /\ b[18] = Label(l2)
      /\ b[19] = Label(l)
  <2>1. /\ IsSeq(p1) /\ Len(p1) = 3 /\ p1[1] = LoadFun("isinstance") /\ p1[2] = LoadFast(v)
        /\ p1[3] = LoadGlobal("str")
    BY ShortSeqs
  <2>2. /\ IsSeq(p2) /\ Len(p2) = 2 /\ p2[1] = Precall(2) /\ p2[2] = CallN(2)
    BY ShortSeqs
  <2>3. /\ IsSeq(p3) /\ Len(p3) = 4 /\ p3[1] = IfFalse(l) /\ p3[2] = LoadFast(v)
        /\ p3[3] = Method("lstrip") /\ p3[4] = LoadConst(StrV("-"))
    BY ShortSeqs
  <2>4. /\ IsSeq(p4) /\ Len(p4) = 2 /\ p4[1] = Precall(1) /\ p4[2] = CallN(1)
    BY ShortSeqs
  <2>5. /\ IsSeq(p5) /\ Len(p5) = 1 /\ p5[1] = Method("isdigit")
    BY ShortSeqs
  <2>6. /\ IsSeq(p6) /\ Len(p6) = 2 /\ p6[1] = Precall(0) /\ p6[2] = CallN(0)
    BY ShortSeqs
  <2>7. /\ IsSeq(p7) /\ Len(p7) = 1 /\ p7[1] = IfTrue(l2)
    BY ShortSeqs
  <2>8. /\ IsSeq(p8) /\ Len(p8) = 2 /\ p8[1] = LoadConst(d) /\ p8[2] = StoreFast(v)
    BY ShortSeqs
  <2>9. /\ IsSeq(p9) /\ Len(p9) = 2 /\ p9[1] = Label(l2) /\ p9[2] = Label(l)
    BY ShortSeqs
  <2>10. b = (((((((p1 \o p2) \o p3) \o p4) \o p5) \o p6) \o p7) \o p8) \o p9
    BY DEF NumberBlock, IsInstance, AssignConst, CallOf, Precall, CallN
  <2> HIDE DEF b, p1, p2, p3, p4, p5, p6, p7, p8, p9
  <2> DEFINE s2 == p1 \o p2
             s3 == s2 \o p3
             s4 == s3 \o p4
             s5 == s4 \o p5
             s6 == s5 \o p6
             s7 == s6 \o p7
             s8 == s7 \o p8
  <2>11. b = s8 \o p9
    BY <2>10
  <2>12. IsConcat(s2, p1, p2)
    BY <2>1, <2>2, ConcatAt
  <2> HIDE DEF s2
  <2>13. /\ IsSeq(s2) /\ Len(s2) = 5 /\ s2[1] = p1[1] /\ s2[2] = p1[2] /\ s2[3] = p1[3]
         /\ s2[4] = p2[1] /\ s2[5] = p2[2]
    BY <2>1, <2>2, <2>12 DEF IsConcat
  <2>14. IsConcat(s3, s2, p3)
    BY <2>13, <2>3, ConcatAt
  <2> HIDE DEF s3
  <2>15. /\ IsSeq(s3) /\ Len(s3) = 9 /\ s3[1] = s2[1] /\ s3[2] = s2[2] /\ s3[3] = s2[3]
         /\ s3[4] = s2[4] /\ s3[5] = s2[5] /\ s3[6] = p3[1] /\ s3[7] = p3[2] /\ s3[8] = p3[3]
         /\ s3[9] = p3[4]
    BY <2>13, <2>3, <2>14 DEF IsConcat
  <2>16. IsConcat(s4, s3, p4)
    BY <2>15, <2>4, ConcatAt
  <2> HIDE DEF s4
  <2>17. /\ IsSeq(s4) /\ Len(s4) = 11 /\ s4[1] = s3[1] /\ s4[2] = s3[2] /\ s4[3] = s3[3]
         /\ s4[4] = s3[4] /\ s4[5] = s3[5] /\ s4[6] = s3[6] /\ s4[7] = s3[7] /\ s4[8] = s3[8]
         /\ s4[9] = s3[9] /\ s4[10] = p4[1] /\ s4[11] = p4[2]
    BY <2>15, <2>4, <2>16 DEF IsConcat
  <2>18. IsConcat(s5, s4, p5)
    BY <2>17, <2>5, ConcatAt
  <2> HIDE DEF s5
  <2>19. /\ IsSeq(s5) /\ Len(s5) = 12 /\ s5[1] = s4[1] /\ s5[2] = s4[2] /\ s5[3] = s4[3]
         /\ s5[4] = s4[4] /\ s5[5] = s4[5] /\ s5[6] = s4[6] /\ s5[7] = s4[7] /\ s5[8] = s4[8]
         /\ s5[9] = s4[9] /\ s5[10] = s4[10] /\ s5[11] = s4[11] /\ s5[12] = p5[1]
    BY <2>17, <2>5, <2>18 DEF IsConcat
  <2>20. IsConcat(s6, s5, p6)
    BY <2>19, <2>6, ConcatAt
  <2> HIDE DEF s6
  <2>21. /\ IsSeq(s6) /\ Len(s6) = 14 /\ s6[1] = s5[1] /\ s6[2] = s5[2] /\ s6[3] = s5[3]
         /\ s6[4] = s5[4] /\ s6[5] = s5[5] /\ s6[6] = s5[6] /\ s6[7] = s5[7] /\ s6[8] = s5[8]
         /\ s6[9] = s5[9] /\ s6[10] = s5[10] /\ s6[11] = s5[11] /\ s6[12] = s5[12] /\ s6[13] = p6[1]
         /\ s6[14] = p6[2]
    BY <2>19, <2>6, <2>20 DEF IsConcat
  <2>22. IsConcat(s7, s6, p7)
    BY <2>21, <2>7, ConcatAt
  <2> HIDE DEF s7
  <2>23. /\ IsSeq(s7) /\ Len(s7) = 15 /\ s7[1] = s6[1] /\ s7[2] = s6[2] /\ s7[3] = s6[3]
         /\ s7[4] = s6[4] /\ s7[5] = s6[5] /\ s7[6] = s6[6] /\ s7[7] = s6[7] /\ s7[8] = s6[8]
         /\ s7[9] = s6[9] /\ s7[10] = s6[10] /\ s7[11] = s6[11] /\ s7[12] = s6[12] /\ s7[13] = s6[13]
         /\ s7[14] = s6[14] /\ s7[15] = p7[1]
    BY <2>21, <2>7, <2>22 DEF IsConcat
  <2>24. IsConcat(s8, s7, p8)
    BY <2>23, <2>8, ConcatAt
  <2> HIDE DEF s8
  <2>25. /\ IsSeq(s8) /\ Len(s8) = 17 /\ s8[1] = s7[1] /\ s8[2] = s7[2] /\ s8[3] = s7[3]
         /\ s8[4] = s7[4] /\ s8[5] = s7[5] /\ s8[6] = s7[6] /\ s8[7] = s7[7] /\ s8[8] = s7[8]
         /\ s8[9] = s7[9] /\ s8[10] = s7[10] /\ s8[11] = s7[11] /\ s8[12] = s7[12] /\ s8[13] = s7[13]
         /\ s8[14] = s7[14] /\ s8[15] = s7[15] /\ s8[16] = p8[1] /\ s8[17] = p8[2]
    BY <2>23, <2>8, <2>24 DEF IsConcat
  <2>26. IsConcat(b, s8, p9)
    BY <2>25, <2>9, <2>11, ConcatAt
  <2>27. /\ IsSeq(b) /\ Len(b) = 19 /\ b[1] = s8[1] /\ b[2] = s8[2] /\ b[3] = s8[3]
         /\ b[4] = s8[4] /\ b[5] = s8[5] /\ b[6] = s8[6] /\ b[7] = s8[7] /\ b[8] = s8[8]
         /\ b[9] = s8[9] /\ b[10] = s8[10] /\ b[11] = s8[11] /\ b[12] = s8[12] /\ b[13] = s8[13]
         /\ b[14] = s8[14] /\ b[15] = s8[15] /\ b[16] = s8[16] /\ b[17] = s8[17] /\ b[18] = p9[1]
         /\ b[19] = p9[2]
    BY <2>25, <2>9, <2>26 DEF IsConcat
  <2> QED BY <2>1, <2>2, <2>3, <2>4, <2>5, <2>6, <2>7, <2>8, <2>9, <2>13, <2>15, <2>17, <2>19, <2>21, <2>23, <2>25, <2>27
<1>2. /\ h[1] = 0 /\ h[2] = 2 /\ h[3] = 3 /\ h[4] = 4 /\ h[5] = 4 /\ h[6] = 1 /\ h[7] = 0 /\ h[8] = 1
      /\ h[9] = 2 /\ h[10] = 3 /\ h[11] = 3 /\ h[12] = 1 /\ h[13] = 2 /\ h[14] = 2 /\ h[15] = 1 /\ h[16] = 0
      /\ h[17] = 1 /\ h[18] = 0 /\ h[19] = 0 /\ h[20] = 0
  OBVIOUS
<1>3. /\ g[1] = {} /\ g[2] = {} /\ g[3] = {} /\ g[4] = {} /\ g[5] = {}
      /\ g[6] = {} /\ g[7] = {} /\ g[8] = {} /\ g[9] = {} /\ g[10] = {}
      /\ g[11] = {} /\ g[12] = {} /\ g[13] = {} /\ g[14] = {} /\ g[15] = {}
      /\ g[16] = {} /\ g[17] = {} /\ g[18] = {} /\ g[19] = {} /\ g[20] = {}
  OBVIOUS
<1> HIDE DEF b, h, g
<1>4. \A k \in 1 .. 19 : k \in {1, 2, 3, 4, 5, 6, 7, 8, 9, 10, 11, 12, 13, 14, 15, 16, 17, 18, 19}
  OBVIOUS
<1>5. /\ Plain(b[1], 0, 2) /\ Plain(b[3], 0, 1) /\ Plain(b[4], 0, 0) /\ Plain(b[5], 4, 1)
      /\ Plain(b[8], 1, 2) /\ Plain(b[9], 0, 1) /\ Plain(b[10], 0, 0) /\ Plain(b[11], 3, 1)
      /\ Plain(b[12], 1, 2) /\ Plain(b[13], 0, 0) /\ Plain(b[14], 2, 1) /\ Plain(b[16], 0, 1)
      /\ Plain(b[17], 1, 0)
  <2>1. Plain(b[1], 0, 2) /\ Plain(b[3], 0, 1) /\ Plain(b[4], 0, 0) /\ Plain(b[5], 4, 1)
    BY <1>1, Effects
  <2>2. Plain(b[8], 1, 2) /\ Plain(b[9], 0, 1) /\ Plain(b[10], 0, 0) /\ Plain(b[11], 3, 1)
    BY <1>1, Effects
  <2>3. Plain(b[12], 1, 2) /\ Plain(b[13], 0, 0) /\ Plain(b[14], 2, 1) /\ Plain(b[16], 0, 1)
    BY <1>1, Effects
  <2>4. Plain(b[17], 1, 0)
    BY <1>1, Effects
  <2> QED BY <2>1, <2>2, <2>3, <2>4
<1>6. /\ IsLoad(b[2], v) /\ IsBranch(b[6], l) /\ IsLoad(b[7], v) /\ IsBranch(b[15], l2)
      /\ IsLabel(b[18], l2) /\ IsLabel(b[19], l)
  BY <1>1, Controls
<1>7. \A k \in 1 .. 19 : /\ Op(b[k]) \notin {"TRY_BEGIN", "TRY_END"}
                         /\ Op(b[k]) = "LABEL" => k \in {18, 19}
  BY <1>4, <1>5, <1>6 DEF Plain, IsLoad, IsJump, IsBranch, IsLabel, IsReturn
<1>8. At(b, l2, 18) /\ At(b, l, 19)
  BY <1>1, <1>6, <1>7 DEF At, IsLabel, Label
<1>9. Sound(b, u, h, g, rets, 1)
  BY <1>2, <1>3, <1>5 DEF Sound, Plain, IsType
<1>10. Sound(b, u, h, g, rets, 3)
  BY <1>2, <1>3, <1>5 DEF Sound, Plain, IsType
<1>11. Sound(b, u, h, g, rets, 4)
  BY <1>2, <1>3, <1>5 DEF Sound, Plain, IsType
<1>12. Sound(b, u, h, g, rets, 5)
  BY <1>2, <1>3, <1>5 DEF Sound, Plain, IsType
<1>13. Sound(b, u, h, g, rets, 8)
  BY <1>2, <1>3, <1>5 DEF Sound, Plain, IsType
<1>14. Sound(b, u, h, g, rets, 9)
  BY <1>2, <1>3, <1>5 DEF Sound, Plain, IsType
<1>15. Sound(b, u, h, g, rets, 10)
  BY <1>2, <1>3, <1>5 DEF Sound, Plain, IsType
<1>16. Sound(b, u, h, g, rets, 11)
  BY <1>2, <1>3, <1>5 DEF Sound, Plain, IsType
<1>17. Sound(b, u, h, g, rets, 12)
  BY <1>2, <1>3, <1>5 DEF Sound, Plain, IsType
<1>18. Sound(b, u, h, g, rets, 13)
  BY <1>2, <1>3, <1>5 DEF Sound, Plain, IsType
<1>19. Sound(b, u, h, g, rets, 14)
  BY <1>2, <1>3, <1>5 DEF Sound, Plain, IsType
<1>20. Sound(b, u, h, g, rets, 16)
  BY <1>2, <1>3, <1>5 DEF Sound, Plain, IsType
<1>21. Sound(b, u, h, g, rets, 17)
  BY <1>2, <1>3, <1>5 DEF Sound, Plain, IsType
<1>22. Sound(b, u, h, g, rets, 2)
  BY <1>2, <1>3, <1>6 DEF Sound, IsLoad, IsType
<1>23. Sound(b, u, h, g, rets, 6)
  BY <1>2, <1>3, <1>6, <1>8 DEF Sound, IsBranch, IsType
<1>24. Sound(b, u, h, g, rets, 7)
  BY <1>2, <1>3, <1>6 DEF Sound, IsLoad, IsType
<1>25. Sound(b, u, h, g, rets, 15)
  BY <1>2, <1>3, <1>6, <1>8 DEF Sound, IsBranch, IsType
<1>26. Sound(b, u, h, g, rets, 18)
  BY <1>2, <1>3, <1>6 DEF Sound, IsLabel, IsType
<1>27. Sound(b, u, h, g, rets, 19)
  BY <1>2, <1>3, <1>6 DEF Sound, IsLabel, IsType
<1>28. \A k \in 1 .. 19 : Sound(b, u, h, g, rets, k)
  BY <1>4, <1>9, <1>22, <1>10, <1>11, <1>12, <1>23, <1>24, <1>13, <1>14, <1>15, <1>16, <1>17, <1>18, <1>19, <1>25, <1>20, <1>21, <1>26, <1>27
<1>29. Does(b, Nothing, u, rets, Typing(b, u, h, g))
  <2>1. /\ 19 \in Nat \ {0} /\ Len(b) = 19 /\ IsSeq(b) /\ h[1] = 0 /\ g[1] = {}
        /\ \A k \in 1 .. 19 : Sound(b, u, h, g, rets, k)
    BY <1>1, <1>2, <1>3, <1>28
  <2>2. /\ Falls(Nothing) /\ Takes(Nothing) \in Int /\ h[19 + 1] = Gives(Nothing) - Takes(Nothing)
        /\ Binds(Nothing) = {}
    BY <1>2, NothingDone
  <2>3. u.depth \in Nat /\ u = [depth |-> u.depth, bound |-> u.bound]
    BY DEF IsType
  <2> QED BY <2>1, <2>2, <2>3, SoundDoes
<1>30. Labelled(b, n)
  BY <1>1, <1>7 DEF Labelled, Label, Arg
<1> QED BY <1>1, <1>29, <1>30 DEF Guards, b

(* The blocks that Build puts in the place of an instruction. *)
DivisionBlock(d, l) == <<Copy, LoadConst(IntV(0)), Compare("!="), IfTrue(l), Pop, LoadConst(d),
                         Label(l), Divide>>
ReturnBlock(d, l, x) == <<Copy, LoadConst(NoneV), Is, IfFalse(l), Pop, LoadConst(d), Label(l), x>>

Marked(b, labels) ==
  \A k \in 1 .. Len(b) : /\ Op(b[k]) \notin {"TRY_BEGIN", "TRY_END"}
                         /\ Op(b[k]) = "LABEL" => Arg(b[k]) \in labels
Replaces(b, i, u, rets, labels) ==
  IsSeq(b) /\ Len(b) > 1 /\ Marked(b, labels) /\ \E bt : Does(b, i, u, rets, bt)

LEMMA StoreBinds == \A v : Binds(StoreFast(v)) = {v}
BY DEF Binds, StoreFast, Op, Arg

LEMMA SubscriptDone ==
  \A x : Op(x) = "BINARY_SUBSCR" => Falls(x) /\ Takes(x) = 2 /\ Gives(x) = 1 /\ Binds(x) = {}
BY DEF Falls, Takes, Gives, Binds, JumpOps

LEMMA Seq8 ==
  \A a1, a2, a3, a4, a5, a6, a7, a8 :
    IsSeq(<<a1, a2, a3, a4, a5, a6, a7, a8>>) /\ Len(<<a1, a2, a3, a4, a5, a6, a7, a8>>) = 8
<1>1. ASSUME NEW a1, NEW a2, NEW a3, NEW a4, NEW a5, NEW a6, NEW a7, NEW a8
      PROVE  IsSeq(<<a1, a2, a3, a4, a5, a6, a7, a8>>) /\ Len(<<a1, a2, a3, a4, a5, a6, a7, a8>>) = 8
  <2>1. <<a1, a2, a3, a4, a5, a6, a7, a8>> \in Seq({a1, a2, a3, a4, a5, a6, a7, a8})
    OBVIOUS
  <2> QED BY <2>1 DEF IsSeq
<1> QED BY <1>1

LEMMA Seq10 ==
  \A a1, a2, a3, a4, a5, a6, a7, a8, a9, a10 :
    IsSeq(<<a1, a2, a3, a4, a5, a6, a7, a8, a9, a10>>) /\ Len(<<a1, a2, a3, a4, a5, a6, a7, a8, a9, a10>>) = 10
<1>1. ASSUME NEW a1, NEW a2, NEW a3, NEW a4, NEW a5, NEW a6, NEW a7, NEW a8, NEW a9, NEW a10
      PROVE  IsSeq(<<a1, a2, a3, a4, a5, a6, a7, a8, a9, a10>>) /\ Len(<<a1, a2, a3, a4, a5, a6, a7, a8, a9, a10>>) = 10
  <2>1. <<a1, a2, a3, a4, a5, a6, a7, a8, a9, a10>> \in Seq({a1, a2, a3, a4, a5, a6, a7, a8, a9, a10})
    OBVIOUS
  <2> QED BY <2>1 DEF IsSeq
<1> QED BY <1>1

LEMMA Seq12 ==
  \A a1, a2, a3, a4, a5, a6, a7, a8, a9, a10, a11, a12 :
    IsSeq(<<a1, a2, a3, a4, a5, a6, a7, a8, a9, a10, a11, a12>>) /\ Len(<<a1, a2, a3, a4, a5, a6, a7, a8, a9, a10, a11, a12>>) = 12
<1>1. ASSUME NEW a1, NEW a2, NEW a3, NEW a4, NEW a5, NEW a6, NEW a7, NEW a8, NEW a9, NEW a10, NEW a11, NEW a12
      PROVE  IsSeq(<<a1, a2, a3, a4, a5, a6, a7, a8, a9, a10, a11, a12>>) /\ Len(<<a1, a2, a3, a4, a5, a6, a7, a8, a9, a10, a11, a12>>) = 12
  <2>1. <<a1, a2, a3, a4, a5, a6, a7, a8, a9, a10, a11, a12>> \in Seq({a1, a2, a3, a4, a5, a6, a7, a8, a9, a10, a11, a12})
    OBVIOUS
  <2> QED BY <2>1 DEF IsSeq
<1> QED BY <1>1

(* The block of a division guard. *)
LEMMA DivisionReplaces ==
  ASSUME NEW d, NEW l, NEW u, NEW rets, IsType(u), u.depth \geq 2
  PROVE  Replaces(DivisionBlock(d, l), Divide, u, rets, {l})
<1> DEFINE b == DivisionBlock(d, l)
           p1 == << Copy, LoadConst(IntV(0)), Compare("!="), IfTrue(l), Pop, LoadConst(d), Label(l), Divide >>
           h == <<0, 1, 2, 1, 0, -1, 0, 0, -1>>
           g == <<{}, {}, {}, {}, {}, {}, {}, {}, {}>>
<1>1. /\ IsSeq(b) /\ Len(b) = 8 /\ b[1] = Copy /\ b[2] = LoadConst(IntV(0))
      /\ b[3] = Compare("!=") /\ b[4] = IfTrue(l) /\ b[5] = Pop /\ b[6] = LoadConst(d)
      /\ b[7] = Label(l) /\ b[8] = Divide
  <2>1. /\ IsSeq(p1) /\ Len(p1) = 8 /\ p1[1] = Copy /\ p1[2] = LoadConst(IntV(0))
        /\ p1[3] = Compare("!=") /\ p1[4] = IfTrue(l) /\ p1[5] = Pop /\ p1[6] = LoadConst(d)
        /\ p1[7] = Label(l) /\ p1[8] = Divide
    BY Seq8
  <2>2. b = p1
    BY DEF DivisionBlock
  <2> HIDE DEF b, p1
  <2> QED BY <2>1, <2>2
<1>2. /\ h[1] = 0 /\ h[2] = 1 /\ h[3] = 2 /\ h[4] = 1 /\ h[5] = 0 /\ h[6] = -1 /\ h[7] = 0 /\ h[8] = 0
      /\ h[9] = -1
  OBVIOUS
<1>3. /\ g[1] = {} /\ g[2] = {} /\ g[3] = {} /\ g[4] = {} /\ g[5] = {}
      /\ g[6] = {} /\ g[7] = {} /\ g[8] = {} /\ g[9] = {}
  OBVIOUS
<1> HIDE DEF b, h, g
<1>4. \A k \in 1 .. 8 : k \in {1, 2, 3, 4, 5, 6, 7, 8}
  OBVIOUS
<1>5. /\ Plain(b[1], 1, 2) /\ Plain(b[2], 0, 1) /\ Plain(b[3], 2, 1) /\ Plain(b[5], 1, 0)
      /\ Plain(b[6], 0, 1) /\ Plain(b[8], 2, 1)
  BY <1>1, Effects
<1>6. /\ IsBranch(b[4], l) /\ IsLabel(b[7], l)
  BY <1>1, Controls
<1>7. \A k \in 1 .. 8 : /\ Op(b[k]) \notin {"TRY_BEGIN", "TRY_END"}
                        /\ Op(b[k]) = "LABEL" => k \in {7}
  BY <1>4, <1>5, <1>6 DEF Plain, IsLoad, IsJump, IsBranch, IsLabel, IsReturn
<1>8. At(b, l, 7)
  BY <1>1, <1>6, <1>7 DEF At, IsLabel, Label
<1>9. Sound(b, u, h, g, rets, 1)
  BY <1>2, <1>3, <1>5 DEF Sound, Plain, IsType
<1>10. Sound(b, u, h, g, rets, 2)
  BY <1>2, <1>3, <1>5 DEF Sound, Plain, IsType
<1>11. Sound(b, u, h, g, rets, 3)
  BY <1>2, <1>3, <1>5 DEF Sound, Plain, IsType
<1>12. Sound(b, u, h, g, rets, 5)
  BY <1>2, <1>3, <1>5 DEF Sound, Plain, IsType
<1>13. Sound(b, u, h, g, rets, 6)
  BY <1>2, <1>3, <1>5 DEF Sound, Plain, IsType
<1>14. Sound(b, u, h, g, rets, 8)
  BY <1>2, <1>3, <1>5 DEF Sound, Plain, IsType
<1>15. Sound(b, u, h, g, rets, 4)
  BY <1>2, <1>3, <1>6, <1>8 DEF Sound, IsBranch, IsType
<1>16. Sound(b, u, h, g, rets, 7)
  BY <1>2, <1>3, <1>6 DEF Sound, IsLabel, IsType
<1>17. \A k \in 1 .. 8 : Sound(b, u, h, g, rets, k)
  BY <1>4, <1>9, <1>10, <1>11, <1>15, <1>12, <1>13, <1>16, <1>14
<1>18. Does(b, Divide, u, rets, Typing(b, u, h, g))
  <2>1. /\ 8 \in Nat \ {0} /\ Len(b) = 8 /\ IsSeq(b) /\ h[1] = 0 /\ g[1] = {}
        /\ \A k \in 1 .. 8 : Sound(b, u, h, g, rets, k)
    BY <1>1, <1>2, <1>3, <1>17
  <2>2. Falls(b[8]) => /\ Falls(Divide) /\ Takes(Divide) \in Int /\ h[8 + 1] = Gives(Divide) - Takes(Divide)
                       /\ Binds(Divide) = {}
    BY <1>2, Effects DEF Plain, Divide, Binds, Op
  <2>3. u.depth \in Nat /\ u = [depth |-> u.depth, bound |-> u.bound]
    BY DEF IsType
  <2> QED BY <2>1, <2>2, <2>3, SoundDoes
<1>19. Marked(b, {l})
  BY <1>1, <1>7 DEF Marked, Label, Arg
<1> QED BY <1>1, <1>18, <1>19 DEF Replaces, b

(* The block of a return guard. *)
LEMMA ReturnReplaces ==
  ASSUME NEW d, NEW l, NEW x, NEW u, NEW rets, IsType(u), u.depth \geq 1, u.depth \in rets,
         Op(x) = "RETURN_VALUE"
  PROVE  Replaces(ReturnBlock(d, l, x), x, u, rets, {l})
<1> DEFINE b == ReturnBlock(d, l, x)
           p1 == << Copy, LoadConst(NoneV), Is, IfFalse(l), Pop, LoadConst(d), Label(l), x >>
           h == <<0, 1, 2, 1, 0, -1, 0, 0, -1>>
           g == <<{}, {}, {}, {}, {}, {}, {}, {}, {}>>
<1>1. /\ IsSeq(b) /\ Len(b) = 8 /\ b[1] = Copy /\ b[2] = LoadConst(NoneV)
      /\ b[3] = Is /\ b[4] = IfFalse(l) /\ b[5] = Pop /\ b[6] = LoadConst(d)
      /\ b[7] = Label(l) /\ b[8] = x
  <2>1. /\ IsSeq(p1) /\ Len(p1) = 8 /\ p1[1] = Copy /\ p1[2] = LoadConst(NoneV)
        /\ p1[3] = Is /\ p1[4] = IfFalse(l) /\ p1[5] = Pop /\ p1[6] = LoadConst(d)
        /\ p1[7] = Label(l) /\ p1[8] = x
    BY Seq8
  <2>2. b = p1
    BY DEF ReturnBlock
  <2> HIDE DEF b, p1
  <2> QED BY <2>1, <2>2
<1>2. /\ h[1] = 0 /\ h[2] = 1 /\ h[3] = 2 /\ h[4] = 1 /\ h[5] = 0 /\ h[6] = -1 /\ h[7] = 0 /\ h[8] = 0
      /\ h[9] = -1
  OBVIOUS
<1>3. /\ g[1] = {} /\ g[2] = {} /\ g[3] = {} /\ g[4] = {} /\ g[5] = {}
      /\ g[6] = {} /\ g[7] = {} /\ g[8] = {} /\ g[9] = {}
  OBVIOUS
<1> HIDE DEF b, h, g
<1>4. \A k \in 1 .. 8 : k \in {1, 2, 3, 4, 5, 6, 7, 8}
  OBVIOUS
<1>5. /\ Plain(b[1], 1, 2) /\ Plain(b[2], 0, 1) /\ Plain(b[3], 2, 1) /\ Plain(b[5], 1, 0)
      /\ Plain(b[6], 0, 1)
  BY <1>1, Effects
<1>6. /\ IsBranch(b[4], l) /\ IsLabel(b[7], l) /\ IsReturn(b[8])
  BY <1>1, Controls
<1>7. \A k \in 1 .. 8 : /\ Op(b[k]) \notin {"TRY_BEGIN", "TRY_END"}
                        /\ Op(b[k]) = "LABEL" => k \in {7}
  BY <1>4, <1>5, <1>6 DEF Plain, IsLoad, IsJump, IsBranch, IsLabel, IsReturn
<1>8. At(b, l, 7)
  BY <1>1, <1>6, <1>7 DEF At, IsLabel, Label
<1>9. Sound(b, u, h, g, rets, 1)
  BY <1>2, <1>3, <1>5 DEF Sound, Plain, IsType
<1>10. Sound(b, u, h, g, rets, 2)
  BY <1>2, <1>3, <1>5 DEF Sound, Plain, IsType
<1>11. Sound(b, u, h, g, rets, 3)
  BY <1>2, <1>3, <1>5 DEF Sound, Plain, IsType
<1>12. Sound(b, u, h, g, rets, 5)
  BY <1>2, <1>3, <1>5 DEF Sound, Plain, IsType
<1>13. Sound(b, u, h, g, rets, 6)
  BY <1>2, <1>3, <1>5 DEF Sound, Plain, IsType
<1>14. Sound(b, u, h, g, rets, 4)
  BY <1>2, <1>3, <1>6, <1>8 DEF Sound, IsBranch, IsType
<1>15. Sound(b, u, h, g, rets, 7)
  BY <1>2, <1>3, <1>6 DEF Sound, IsLabel, IsType
<1>16. Sound(b, u, h, g, rets, 8)
  BY <1>2, <1>3, <1>6 DEF Sound, IsReturn, IsType
<1>17. \A k \in 1 .. 8 : Sound(b, u, h, g, rets, k)
  BY <1>4, <1>9, <1>10, <1>11, <1>14, <1>12, <1>13, <1>15, <1>16
<1>18. Does(b, x, u, rets, Typing(b, u, h, g))
  <2>1. /\ 8 \in Nat \ {0} /\ Len(b) = 8 /\ IsSeq(b) /\ h[1] = 0 /\ g[1] = {}
        /\ \A k \in 1 .. 8 : Sound(b, u, h, g, rets, k)
    BY <1>1, <1>2, <1>3, <1>17
  <2>2. Falls(b[8]) => /\ Falls(x) /\ Takes(x) \in Int /\ h[8 + 1] = Gives(x) - Takes(x)
                       /\ Binds(x) = {}
    BY <1>6 DEF IsReturn
  <2>3. u.depth \in Nat /\ u = [depth |-> u.depth, bound |-> u.bound]
    BY DEF IsType
  <2> QED BY <2>1, <2>2, <2>3, SoundDoes
<1>19. Marked(b, {l})
  BY <1>1, <1>7 DEF Marked, Label, Arg
<1> QED BY <1>1, <1>18, <1>19 DEF Replaces, b

(* The block of a subscript guard. *)
LEMMA SubscriptReplaces ==
  ASSUME NEW n, NEW d, NEW x, NEW u, NEW rets, IsType(u), u.depth \geq 2, Op(x) = "BINARY_SUBSCR"
  PROVE  Replaces(SafeSubscript(n, d), x, u, rets, {<<"not_none", n>>, <<"dict", n>>, <<"end", n>>})
<1> DEFINE b == SafeSubscript(n, d)
           p1 == << StoreFast("_codesuture_key"), StoreFast("_codesuture_cont"), LoadFast("_codesuture_cont"), LoadConst(NoneV), Compare("=="), IfFalse(<<"not_none", n>>), LoadConst(d), Jump(<<"end", n>>), Label(<<"not_none", n>>), LoadFun("isinstance"), LoadFast("_codesuture_cont"), LoadGlobal("dict") >>
           p2 == << Precall(2), CallN(2) >>
           p3 == << IfTrue(<<"dict", n>>), LoadFast("_codesuture_cont"), LoadFast("_codesuture_key"), Subscr, Jump(<<"end", n>>), Label(<<"dict", n>>), LoadFast("_codesuture_cont"), Method("get"), LoadFast("_codesuture_key"), LoadConst(d) >>
           p4 == << Precall(2), CallN(2) >>
           p5 == << Label(<<"end", n>>) >>
           h == <<0, -1, -2, -1, 0, -1, -2, -1, -2, -2, 0, 1, 2, 2, -1, -2, -1, 0, -1, -2, -2, -1, 0, 1, 2, 2, -1, -1>>
           g == <<{}, {"_codesuture_key"}, {"_codesuture_key", "_codesuture_cont"}, {"_codesuture_key", "_codesuture_cont"}, {"_codesuture_key", "_codesuture_cont"}, {"_codesuture_key", "_codesuture_cont"}, {"_codesuture_key", "_codesuture_cont"}, {"_codesuture_key", "_codesuture_cont"}, {"_codesuture_key", "_codesuture_cont"}, {"_codesuture_key", "_codesuture_cont"}, {"_codesuture_key", "_codesuture_cont"}, {"_codesuture_key", "_codesuture_cont"}, {"_codesuture_key", "_codesuture_cont"}, {"_codesuture_key", "_codesuture_cont"}, {"_codesuture_key", "_codesuture_cont"}, {"_codesuture_key", "_codesuture_cont"}, {"_codesuture_key", "_codesuture_cont"}, {"_codesuture_key", "_codesuture_cont"}, {"_codesuture_key", "_codesuture_cont"}, {"_codesuture_key", "_codesuture_cont"}, {"_codesuture_key", "_codesuture_cont"}, {"_codesuture_key", "_codesuture_cont"}, {"_codesuture_key", "_codesuture_cont"}, {"_codesuture_key", "_codesuture_cont"}, {"_codesuture_key", "_codesuture_cont"}, {"_codesuture_key", "_codesuture_cont"}, {"_codesuture_key", "_codesuture_cont"}, {"_codesuture_key", "_codesuture_cont"}>>
<1>1. /\ IsSeq(b) /\ Len(b) = 27 /\ b[1] = StoreFast("_codesuture_key") /\ b[2] = StoreFast("_codesuture_cont")
      /\ b[3] = LoadFast("_codesuture_cont") /\ b[4] = LoadConst(NoneV) /\ b[5] = Compare("==") /\ b[6] = IfFalse(<<"not_none", n>>)
      /\ b[7] = LoadConst(d) /\ b[8] = Jump(<<"end", n>>) /\ b[9] = Label(<<"not_none", n>>) /\ b[10] = LoadFun("isinstance")
      /\ b[11] = LoadFast("_codesuture_cont") /\ b[12] = LoadGlobal("dict") /\ b[13] = Precall(2) /\ b[14] = CallN(2)
      /\ b[15] = IfTrue(<<"dict", n>>) /\ b[16] = LoadFast("_codesuture_cont") /\ b[17] = LoadFast("_codesuture_key") /\ b[18] = Subscr
      /\ b[19] = Jump(<<"end", n>>) /\ b[20] = Label(<<"dict", n>>) /\ b[21] = LoadFast("_codesuture_cont") /\ b[22] = Method("get")
      /\ b[23] = LoadFast("_codesuture_key") /\ b[24] = LoadConst(d) /\ b[25] = Precall(2) /\ b[26] = CallN(2)
      /\ b[27] = Label(<<"end", n>>)
  <2>1. /\ IsSeq(p1) /\ Len(p1) = 12 /\ p1[1] = StoreFast("_codesuture_key") /\ p1[2] = StoreFast("_codesuture_cont")
        /\ p1[3] = LoadFast("_codesuture_cont") /\ p1[4] = LoadConst(NoneV) /\ p1[5] = Compare("==") /\ p1[6] = IfFalse(<<"not_none", n>>)
        /\ p1[7] = LoadConst(d) /\ p1[8] = Jump(<<"end", n>>) /\ p1[9] = Label(<<"not_none", n>>) /\ p1[10] = LoadFun("isinstance")
        /\ p1[11] = LoadFast("_codesuture_cont") /\ p1[12] = LoadGlobal("dict")
    BY Seq12
  <2>2. /\ IsSeq(p2) /\ Len(p2) = 2 /\ p2[1] = Precall(2) /\ p2[2] = CallN(2)
    BY ShortSeqs
  <2>3. /\ IsSeq(p3) /\ Len(p3) = 10 /\ p3[1] = IfTrue(<<"dict", n>>) /\ p3[2] = LoadFast("_codesuture_cont")
        /\ p3[3] = LoadFast("_codesuture_key") /\ p3[4] = Subscr /\ p3[5] = Jump(<<"end", n>>) /\ p3[6] = Label(<<"dict", n>>)
        /\ p3[7] = LoadFast("_codesuture_cont") /\ p3[8] = Method("get") /\ p3[9] = LoadFast("_codesuture_key") /\ p3[10] = LoadConst(d)
    BY Seq10
  <2>4. /\ IsSeq(p4) /\ Len(p4) = 2 /\ p4[1] = Precall(2) /\ p4[2] = CallN(2)
    BY ShortSeqs
  <2>5. /\ IsSeq(p5) /\ Len(p5) = 1 /\ p5[1] = Label(<<"end", n>>)
    BY ShortSeqs
  <2>6. b = (((p1 \o p2) \o p3) \o p4) \o p5
    BY DEF SafeSubscript, CallOf, Precall, CallN
  <2> HIDE DEF b, p1, p2, p3, p4, p5
  <2> DEFINE s2 == p1 \o p2
             s3 == s2 \o p3
             s4 == s3 \o p4
  <2>7. b = s4 \o p5
    BY <2>6
  <2>8. IsConcat(s2, p1, p2)
    BY <2>1, <2>2, ConcatAt
  <2> HIDE DEF s2
  <2>9. /\ IsSeq(s2) /\ Len(s2) = 14 /\ s2[1] = p1[1] /\ s2[2] = p1[2] /\ s2[3] = p1[3]
        /\ s2[4] = p1[4] /\ s2[5] = p1[5] /\ s2[6] = p1[6] /\ s2[7] = p1[7] /\ s2[8] = p1[8]
        /\ s2[9] = p1[9] /\ s2[10] = p1[10] /\ s2[11] = p1[11] /\ s2[12] = p1[12] /\ s2[13] = p2[1]
        /\ s2[14] = p2[2]
    BY <2>1, <2>2, <2>8 DEF IsConcat
  <2>10. IsConcat(s3, s2, p3)
    BY <2>9, <2>3, ConcatAt
  <2> HIDE DEF s3
  <2>11. /\ IsSeq(s3) /\ Len(s3) = 24 /\ s3[1] = s2[1] /\ s3[2] = s2[2] /\ s3[3] = s2[3]
         /\ s3[4] = s2[4] /\ s3[5] = s2[5] /\ s3[6] = s2[6] /\ s3[7] = s2[7] /\ s3[8] = s2[8]
         /\ s3[9] = s2[9] /\ s3[10] = s2[10] /\ s3[11] = s2[11] /\ s3[12] = s2[12] /\ s3[13] = s2[13]
         /\ s3[14] = s2[14] /\ s3[15] = p3[1] /\ s3[16] = p3[2] /\ s3[17] = p3[3] /\ s3[18] = p3[4]
         /\ s3[19] = p3[5] /\ s3[20] = p3[6] /\ s3[21] = p3[7] /\ s3[22] = p3[8] /\ s3[23] = p3[9]
         /\ s3[24] = p3[10]
    BY <2>9, <2>3, <2>10 DEF IsConcat
  <2>12. IsConcat(s4, s3, p4)
    BY <2>11, <2>4, ConcatAt
  <2> HIDE DEF s4
  <2>13. /\ IsSeq(s4) /\ Len(s4) = 26 /\ s4[1] = s3[1] /\ s4[2] = s3[2] /\ s4[3] = s3[3]
         /\ s4[4] = s3[4] /\ s4[5] = s3[5] /\ s4[6] = s3[6] /\ s4[7] = s3[7] /\ s4[8] = s3[8]
         /\ s4[9] = s3[9] /\ s4[10] = s3[10] /\ s4[11] = s3[11] /\ s4[12] = s3[12] /\ s4[13] = s3[13]
         /\ s4[14] = s3[14] /\ s4[15] = s3[15] /\ s4[16] = s3[16] /\ s4[17] = s3[17] /\ s4[18] = s3[18]
         /\ s4[19] = s3[19] /\ s4[20] = s3[20] /\ s4[21] = s3[21] /\ s4[22] = s3[22] /\ s4[23] = s3[23]
         /\ s4[24] = s3[24] /\ s4[25] = p4[1] /\ s4[26] = p4[2]
    BY <2>11, <2>4, <2>12 DEF IsConcat
  <2>14. IsConcat(b, s4, p5)
    BY <2>13, <2>5, <2>7, ConcatAt
  <2>15. /\ IsSeq(b) /\ Len(b) = 27 /\ b[1] = s4[1] /\ b[2] = s4[2] /\ b[3] = s4[3]
         /\ b[4] = s4[4] /\ b[5] = s4[5] /\ b[6] = s4[6] /\ b[7] = s4[7] /\ b[8] = s4[8]
         /\ b[9] = s4[9] /\ b[10] = s4[10] /\ b[11] = s4[11] /\ b[12] = s4[12] /\ b[13] = s4[13]
         /\ b[14] = s4[14] /\ b[15] = s4[15] /\ b[16] = s4[16] /\ b[17] = s4[17] /\ b[18] = s4[18]
         /\ b[19] = s4[19] /\ b[20] = s4[20] /\ b[21] = s4[21] /\ b[22] = s4[22] /\ b[23] = s4[23]
         /\ b[24] = s4[24] /\ b[25] = s4[25] /\ b[26] = s4[26] /\ b[27] = p5[1]
    BY <2>13, <2>5, <2>14 DEF IsConcat
  <2> QED BY <2>1, <2>2, <2>3, <2>4, <2>5, <2>9, <2>11, <2>13, <2>15
<1>2. /\ h[1] = 0 /\ h[2] = -1 /\ h[3] = -2 /\ h[4] = -1 /\ h[5] = 0 /\ h[6] = -1 /\ h[7] = -2 /\ h[8] = -1
      /\ h[9] = -2 /\ h[10] = -2 /\ h[11] = 0 /\ h[12] = 1 /\ h[13] = 2 /\ h[14] = 2 /\ h[15] = -1 /\ h[16] = -2
      /\ h[17] = -1 /\ h[18] = 0 /\ h[19] = -1 /\ h[20] = -2 /\ h[21] = -2 /\ h[22] = -1 /\ h[23] = 0 /\ h[24] = 1
      /\ h[25] = 2 /\ h[26] = 2 /\ h[27] = -1 /\ h[28] = -1
  OBVIOUS
<1>3. /\ g[1] = {} /\ g[2] = {"_codesuture_key"} /\ g[3] = {"_codesuture_key", "_codesuture_cont"} /\ g[4] = {"_codesuture_key", "_codesuture_cont"} /\ g[5] = {"_codesuture_key", "_codesuture_cont"}
      /\ g[6] = {"_codesuture_key", "_codesuture_cont"} /\ g[7] = {"_codesuture_key", "_codesuture_cont"} /\ g[8] = {"_codesuture_key", "_codesuture_cont"} /\ g[9] = {"_codesuture_key", "_codesuture_cont"} /\ g[10] = {"_codesuture_key", "_codesuture_cont"}
      /\ g[11] = {"_codesuture_key", "_codesuture_cont"} /\ g[12] = {"_codesuture_key", "_codesuture_cont"} /\ g[13] = {"_codesuture_key", "_codesuture_cont"} /\ g[14] = {"_codesuture_key", "_codesuture_cont"} /\ g[15] = {"_codesuture_key", "_codesuture_cont"}
      /\ g[16] = {"_codesuture_key", "_codesuture_cont"} /\ g[17] = {"_codesuture_key", "_codesuture_cont"} /\ g[18] = {"_codesuture_key", "_codesuture_cont"} /\ g[19] = {"_codesuture_key", "_codesuture_cont"} /\ g[20] = {"_codesuture_key", "_codesuture_cont"}
      /\ g[21] = {"_codesuture_key", "_codesuture_cont"} /\ g[22] = {"_codesuture_key", "_codesuture_cont"} /\ g[23] = {"_codesuture_key", "_codesuture_cont"} /\ g[24] = {"_codesuture_key", "_codesuture_cont"} /\ g[25] = {"_codesuture_key", "_codesuture_cont"}
      /\ g[26] = {"_codesuture_key", "_codesuture_cont"} /\ g[27] = {"_codesuture_key", "_codesuture_cont"} /\ g[28] = {"_codesuture_key", "_codesuture_cont"}
  OBVIOUS
<1> HIDE DEF b, h, g
<1>4. \A k \in 1 .. 27 : k \in {1, 2, 3, 4, 5, 6, 7, 8, 9, 10, 11, 12, 13, 14, 15, 16, 17, 18, 19, 20, 21, 22, 23, 24, 25, 26, 27}
  OBVIOUS
<1>5. /\ Plain(b[1], 1, 0) /\ Plain(b[2], 1, 0) /\ Plain(b[4], 0, 1) /\ Plain(b[5], 2, 1)
      /\ Plain(b[7], 0, 1) /\ Plain(b[10], 0, 2) /\ Plain(b[12], 0, 1) /\ Plain(b[13], 0, 0)
      /\ Plain(b[14], 4, 1) /\ Plain(b[18], 2, 1) /\ Plain(b[22], 1, 2) /\ Plain(b[24], 0, 1)
      /\ Plain(b[25], 0, 0) /\ Plain(b[26], 4, 1)
  <2>1. Plain(b[1], 1, 0) /\ Plain(b[2], 1, 0) /\ Plain(b[4], 0, 1) /\ Plain(b[5], 2, 1)
    BY <1>1, Effects
  <2>2. Plain(b[7], 0, 1) /\ Plain(b[10], 0, 2) /\ Plain(b[12], 0, 1) /\ Plain(b[13], 0, 0)
    BY <1>1, Effects
  <2>3. Plain(b[14], 4, 1) /\ Plain(b[18], 2, 1) /\ Plain(b[22], 1, 2) /\ Plain(b[24], 0, 1)
    BY <1>1, Effects
  <2>4. Plain(b[25], 0, 0) /\ Plain(b[26], 4, 1)
    BY <1>1, Effects
  <2> QED BY <2>1, <2>2, <2>3, <2>4
<1>6. /\ IsLoad(b[3], "_codesuture_cont") /\ IsBranch(b[6], <<"not_none", n>>) /\ IsJump(b[8], <<"end", n>>) /\ IsLabel(b[9], <<"not_none", n>>)
      /\ IsLoad(b[11], "_codesuture_cont") /\ IsBranch(b[15], <<"dict", n>>) /\ IsLoad(b[16], "_codesuture_cont") /\ IsLoad(b[17], "_codesuture_key")
      /\ IsJump(b[19], <<"end", n>>) /\ IsLabel(b[20], <<"dict", n>>) /\ IsLoad(b[21], "_codesuture_cont") /\ IsLoad(b[23], "_codesuture_key")
      /\ IsLabel(b[27], <<"end", n>>)
  BY <1>1, Controls
<1>7. \A k \in 1 .. 27 : /\ Op(b[k]) \notin {"TRY_BEGIN", "TRY_END"}
                         /\ Op(b[k]) = "LABEL" => k \in {9, 20, 27}
  BY <1>4, <1>5, <1>6 DEF Plain, IsLoad, IsJump, IsBranch, IsLabel, IsReturn
<1>8. At(b, <<"not_none", n>>, 9) /\ At(b, <<"dict", n>>, 20) /\ At(b, <<"end", n>>, 27)
  BY <1>1, <1>6, <1>7 DEF At, IsLabel, Label
<1>9. Sound(b, u, h, g, rets, 1)
  BY <1>1, <1>2, <1>3, <1>5, StoreBinds DEF Sound, Plain, IsType
<1>10. Sound(b, u, h, g, rets, 2)
  BY <1>1, <1>2, <1>3, <1>5, StoreBinds DEF Sound, Plain, IsType
<1>11. Sound(b, u, h, g, rets, 4)
  BY <1>2, <1>3, <1>5 DEF Sound, Plain, IsType
<1>12. Sound(b, u, h, g, rets, 5)
  BY <1>2, <1>3, <1>5 DEF Sound, Plain, IsType
<1>13. Sound(b, u, h, g, rets, 7)
  BY <1>2, <1>3, <1>5 DEF Sound, Plain, IsType
<1>14. Sound(b, u, h, g, rets, 10)
  BY <1>2, <1>3, <1>5 DEF Sound, Plain, IsType
<1>15. Sound(b, u, h, g, rets, 12)
  BY <1>2, <1>3, <1>5 DEF Sound, Plain, IsType
<1>16. Sound(b, u, h, g, rets, 13)
  BY <1>2, <1>3, <1>5 DEF Sound, Plain, IsType
<1>17. Sound(b, u, h, g, rets, 14)
  BY <1>2, <1>3, <1>5 DEF Sound, Plain, IsType
<1>18. Sound(b, u, h, g, rets, 18)
  BY <1>2, <1>3, <1>5 DEF Sound, Plain, IsType
<1>19. Sound(b, u, h, g, rets, 22)
  BY <1>2, <1>3, <1>5 DEF Sound, Plain, IsType
<1>20. Sound(b, u, h, g, rets, 24)
  BY <1>2, <1>3, <1>5 DEF Sound, Plain, IsType
<1>21. Sound(b, u, h, g, rets, 25)
  BY <1>2, <1>3, <1>5 DEF Sound, Plain, IsType
<1>22. Sound(b, u, h, g, rets, 26)
  BY <1>2, <1>3, <1>5 DEF Sound, Plain, IsType
<1>23. Sound(b, u, h, g, rets, 3)
  BY <1>2, <1>3, <1>6 DEF Sound, IsLoad, IsType
<1>24. Sound(b, u, h, g, rets, 6)
  BY <1>2, <1>3, <1>6, <1>8 DEF Sound, IsBranch, IsType
<1>25. Sound(b, u, h, g, rets, 8)
  BY <1>2, <1>3, <1>6, <1>8 DEF Sound, IsJump, IsType
<1>26. Sound(b, u, h, g, rets, 9)
  BY <1>2, <1>3, <1>6 DEF Sound, IsLabel, IsType
<1>27. Sound(b, u, h, g, rets, 11)
  BY <1>2, <1>3, <1>6 DEF Sound, IsLoad, IsType
<1>28. Sound(b, u, h, g, rets, 15)
  BY <1>2, <1>3, <1>6, <1>8 DEF Sound, IsBranch, IsType
<1>29. Sound(b, u, h, g, rets, 16)
  BY <1>2, <1>3, <1>6 DEF Sound, IsLoad, IsType
<1>30. Sound(b, u, h, g, rets, 17)
  BY <1>2, <1>3, <1>6 DEF Sound, IsLoad, IsType
<1>31. Sound(b, u, h, g, rets, 19)
  BY <1>2, <1>3, <1>6, <1>8 DEF Sound, IsJump, IsType
<1>32. Sound(b, u, h, g, rets, 20)
  BY <1>2, <1>3, <1>6 DEF Sound, IsLabel, IsType
<1>33. Sound(b, u, h, g, rets, 21)
  BY <1>2, <1>3, <1>6 DEF Sound, IsLoad, IsType
<1>34. Sound(b, u, h, g, rets, 23)
  BY <1>2, <1>3, <1>6 DEF Sound, IsLoad, IsType
<1>35. Sound(b, u, h, g, rets, 27)
  BY <1>2, <1>3, <1>6 DEF Sound, IsLabel, IsType
<1>36. \A k \in 1 .. 27 : Sound(b, u, h, g, rets, k)
  BY <1>4, <1>9, <1>10, <1>23, <1>11, <1>12, <1>24, <1>13, <1>25, <1>26, <1>14, <1>27, <1>15, <1>16, <1>17, <1>28, <1>29, <1>30, <1>18, <1>31, <1>32, <1>33, <1>19, <1>34, <1>20, <1>21, <1>22, <1>35
<1>37. Does(b, x, u, rets, Typing(b, u, h, g))
  <2>1. /\ 27 \in Nat \ {0} /\ Len(b) = 27 /\ IsSeq(b) /\ h[1] = 0 /\ g[1] = {}
        /\ \A k \in 1 .. 27 : Sound(b, u, h, g, rets, k)
    BY <1>1, <1>2, <1>3, <1>36
  <2>2. Falls(b[27]) => /\ Falls(x) /\ Takes(x) \in Int /\ h[27 + 1] = Gives(x) - Takes(x)
                       /\ Binds(x) = {}
    BY <1>2, SubscriptDone
  <2>3. u.depth \in Nat /\ u = [depth |-> u.depth, bound |-> u.bound]
    BY DEF IsType
  <2> QED BY <2>1, <2>2, <2>3, SoundDoes
<1>38. Marked(b, {<<"not_none", n>>, <<"dict", n>>, <<"end", n>>})
  BY <1>1, <1>7 DEF Marked, Label, Arg
<1> QED BY <1>1, <1>37, <1>38 DEF Replaces, b

(* The block that walks a chain of attributes. *)
WalkTest(l) == <<Copy, LoadConst(NoneV), Is, IfTrue(l)>>
WalkStep(attr, l) == WalkTest(l) \o << <<"LOAD_ATTR", attr>> >>
WalkBlock(v, attrs, d, n) ==
  <<LoadFast(v)>> \o FlattenSeq([j \in DOMAIN attrs |-> WalkStep(attrs[j][2], <<"default", n>>)])
    \o WalkTest(<<"default", n>>) \o <<Pop, Jump(<<"end", n>>), Label(<<"default", n>>), Pop>>
    \o ReturnConst(d) \o <<Label(<<"end", n>>)>>

LEMMA WalkStepIs ==
  ASSUME NEW attr, NEW l
  PROVE  LET s == WalkStep(attr, l) IN
         /\ IsSeq(s) /\ Len(s) = 5 /\ s[1] = Copy /\ s[2] = LoadConst(NoneV) /\ s[3] = Is
         /\ s[4] = IfTrue(l) /\ s[5] = LoadAttr(attr)
<1> DEFINE p1 == WalkTest(l)
           p2 == << LoadAttr(attr) >>
           s == WalkStep(attr, l)
<1>1. /\ IsSeq(p1) /\ Len(p1) = 4 /\ p1[1] = Copy /\ p1[2] = LoadConst(NoneV) /\ p1[3] = Is /\ p1[4] = IfTrue(l)
  BY ShortSeqs DEF WalkTest
<1>2. IsSeq(p2) /\ Len(p2) = 1 /\ p2[1] = LoadAttr(attr)
  BY ShortSeqs
<1>3. s = p1 \o p2
  BY DEF WalkStep, LoadAttr
<1> HIDE DEF p1, p2, s
<1>4. IsConcat(s, p1, p2)
  BY <1>1, <1>2, <1>3, ConcatAt
<1>5. /\ IsSeq(s) /\ Len(s) = 5 /\ s[1] = p1[1] /\ s[2] = p1[2] /\ s[3] = p1[3] /\ s[4] = p1[4] /\ s[5] = p2[1]
  BY <1>1, <1>2, <1>4 DEF IsConcat
<1> QED BY <1>1, <1>2, <1>5 DEF s

(* What stands at position x of the walk, k behind the start of a step. *)
WalkAt(w, l, x, k) ==
  /\ k \in {1, 2, 3, 4, 5}
  /\ k = 1 => w[x] = Copy
  /\ k = 2 => w[x] = LoadConst(NoneV)
  /\ k = 3 => w[x] = Is
  /\ k = 4 => w[x] = IfTrue(l)
  /\ k = 5 => \E a : w[x] = LoadAttr(a)
Walks(w, l, place) ==
  /\ IsSeq(w) /\ Len(w) # 0 /\ place[1] = 1 /\ place[Len(w)] = 5
  /\ \A x \in 1 .. Len(w) : WalkAt(w, l, x, place[x])
  /\ \A x \in 1 .. Len(w) : x + 1 \in 1 .. Len(w) => place[x + 1] = IF place[x] = 5 THEN 1 ELSE place[x] + 1

LEMMA WalkIs ==
  ASSUME NEW attrs, IsSeq(attrs), Len(attrs) # 0, NEW l
  PROVE  \E place : Walks(FlattenSeq([j \in DOMAIN attrs |-> WalkStep(attrs[j][2], l)]), l, place)
<1> DEFINE s == [j \in DOMAIN attrs |-> WalkStep(attrs[j][2], l)]
           N == Len(attrs)
           w == FlattenSeq(s)
<1>1. N \in Nat \ {0} /\ DOMAIN attrs = 1 .. N
  BY SeqFacts
<1>2. ASSUME NEW j \in 1 .. N
      PROVE  /\ IsSeq(s[j]) /\ Len(s[j]) = 5 /\ s[j][1] = Copy /\ s[j][2] = LoadConst(NoneV) /\ s[j][3] = Is
             /\ s[j][4] = IfTrue(l) /\ \E a : s[j][5] = LoadAttr(a)
  <2>1. s[j] = WalkStep(attrs[j][2], l)
    BY <1>1
  <2> HIDE DEF s
  <2> QED BY <2>1, WalkStepIs
<1>3. IsSeq(s) /\ Len(s) = N
  <2>1. s \in [1 .. N -> {s[j] : j \in 1 .. N}]
    BY <1>1
  <2>2. s \in Seq({s[j] : j \in 1 .. N}) /\ DOMAIN s = 1 .. N
    BY <1>1, <2>1, SeqDef
  <2>3. IsSeq(s)
    BY <2>2 DEF IsSeq
  <2> QED BY <1>1, <2>2, <2>3, SeqFacts
<1> HIDE DEF s
<1>4. Sequences(s)
  BY <1>1, <1>2, <1>3 DEF Sequences
<1>5. PICK start, of : Flattened(w, s, start, of)
  BY <1>4, FlattenLays
<1> DEFINE place == [x \in 1 .. Len(w) |-> x - start[of[x]]]
<1>6. \A x \in 1 .. Len(w) : place[x] = x - start[of[x]]
  OBVIOUS
<1> HIDE DEF w, place
<1>7. /\ IsSeq(w) /\ start[1] = 0 /\ Len(w) = start[N] + 5
      /\ \A i \in 1 .. N :
           /\ start[i] \in Nat
           /\ i + 1 \in 1 .. N => start[i + 1] = start[i] + 5
           /\ \A j \in 1 .. N : i < j => start[i] + 5 <= start[j]
           /\ \A k \in 1 .. 5 : start[i] + k \in 1 .. Len(w) /\ w[start[i] + k] = s[i][k]
      /\ \A n \in 1 .. Len(w) : of[n] \in 1 .. N /\ n - start[of[n]] \in 1 .. 5
  <2>1. N \in 1 .. N
    BY <1>1
  <2>2. ASSUME NEW i \in 1 .. N PROVE Len(s[i]) = 5
    BY <1>2
  <2> QED BY <1>3, <1>5, <2>1, <2>2 DEF Flattened
<1>8. Len(w) \in Nat \ {0}
  <2>1. N \in 1 .. N
    BY <1>1
  <2> QED BY <1>7, <2>1
(* A position belongs to one step. *)
<1>9. ASSUME NEW i \in 1 .. N, NEW k \in 1 .. 5 PROVE start[i] + k \in 1 .. Len(w) /\ of[start[i] + k] = i /\ place[start[i] + k] = k
  <2> DEFINE x == start[i] + k
             j == of[x]
  <2>1. x \in 1 .. Len(w) /\ j \in 1 .. N /\ x - start[j] \in 1 .. 5
    BY <1>7
  <2>2. /\ start[i] \in Nat /\ start[j] \in Nat
        /\ i < j => start[i] + 5 <= start[j]
        /\ j < i => start[j] + 5 <= start[i]
    BY <1>7, <2>1
  <2>3. place[x] = x - start[j]
    BY <1>6, <2>1
  <2> HIDE DEF j
  <2>4. i = j
    <3>1. i \in Nat /\ j \in Nat
      BY <1>1, <2>1
    <3>2. \A a, b \in Nat : (a + k) - b \in 1 .. 5 => ~(a + 5 <= b) /\ ~(b + 5 <= a)
      OBVIOUS
    <3>3. ~(i < j) /\ ~(j < i)
      BY <2>1, <2>2, <3>2
    <3> QED BY <3>1, <3>2, <3>3
  <2> QED BY <2>1, <2>2, <2>3, <2>4 DEF j
<1>10. ASSUME NEW x \in 1 .. Len(w)
       PROVE  \E i \in 1 .. N : \E k \in 1 .. 5 : x = start[i] + k /\ place[x] = k /\ w[x] = s[i][k]
  <2> DEFINE i == of[x]
             k == x - start[i]
  <2>1. i \in 1 .. N /\ k \in 1 .. 5 /\ start[i] \in Nat /\ place[x] = k
    BY <1>6, <1>7
  <2>2. x = start[i] + k
    BY <1>8, <2>1
  <2> HIDE DEF i, k
  <2>3. w[x] = s[i][k]
    BY <1>7, <2>1, <2>2
  <2> QED BY <2>1, <2>2, <2>3
<1>11. place[1] = 1
  <2>1. 1 \in 1 .. N /\ 1 \in 1 .. 5 /\ start[1] + 1 = 1
    BY <1>1, <1>7
  <2> QED BY <1>9, <2>1
<1>12. place[Len(w)] = 5
  <2>1. N \in 1 .. N /\ 5 \in 1 .. 5 /\ start[N] + 5 = Len(w)
    BY <1>1, <1>7
  <2> QED BY <1>9, <2>1
<1>13. ASSUME NEW x \in 1 .. Len(w) PROVE WalkAt(w, l, x, place[x])
  <2>1. PICK i \in 1 .. N : \E k \in 1 .. 5 : x = start[i] + k /\ place[x] = k /\ w[x] = s[i][k]
    BY <1>10
  <2>2. place[x] \in {1, 2, 3, 4, 5} /\ w[x] = s[i][place[x]]
    BY <2>1
  <2> QED BY <1>2, <2>2 DEF WalkAt
<1>14. ASSUME NEW x \in 1 .. Len(w), x + 1 \in 1 .. Len(w)
       PROVE  place[x + 1] = IF place[x] = 5 THEN 1 ELSE place[x] + 1
  <2>1. PICK i \in 1 .. N : \E k \in 1 .. 5 : x = start[i] + k /\ place[x] = k
    BY <1>10
  <2>2. PICK k \in 1 .. 5 : x = start[i] + k /\ place[x] = k
    BY <2>1
  <2>3. start[i] \in Nat
    BY <1>7
  <2>4. CASE k # 5
    <3>1. k + 1 \in 1 .. 5 /\ x + 1 = start[i] + (k + 1)
      BY <2>2, <2>3, <2>4
    <3>2. place[start[i] + (k + 1)] = k + 1
      BY <1>9, <3>1
    <3> QED BY <2>2, <2>4, <3>1, <3>2
  <2>5. CASE k = 5
    <3>1. i # N
      BY <1>7, <1>14, <2>2, <2>5
    <3>2. i + 1 \in 1 .. N
      <4>1. i \in 1 .. N /\ i \in Nat /\ N \in Nat /\ i <= N
        BY <1>1, <2>1
      <4> QED BY <3>1, <4>1
    <3>3. start[i + 1] = start[i] + 5 /\ 1 \in 1 .. 5
      BY <1>7, <3>2
    <3>4. place[start[i + 1] + 1] = 1
      BY <1>9, <3>2, <3>3
    <3>5. start[i + 1] + 1 = x + 1
      BY <2>2, <2>3, <2>5, <3>3
    <3> QED BY <2>2, <2>5, <3>4, <3>5
  <2> QED BY <2>4, <2>5
<1>15. Walks(w, l, place)
  BY <1>7, <1>8, <1>11, <1>12, <1>13, <1>14 DEF Walks
<1> QED BY <1>15 DEF w, s

IsWalkBlock(b, w, place, H, v, d, dl, el) ==
  /\ Walks(w, dl, place) /\ H = Len(w) + 1 /\ IsSeq(b) /\ Len(b) = H + 11
  /\ b[1] = LoadFast(v) /\ \A x \in 1 .. Len(w) : b[1 + x] = w[x]
  /\ b[H + 1] = Copy /\ b[H + 2] = LoadConst(NoneV) /\ b[H + 3] = Is
  /\ b[H + 4] = IfTrue(dl) /\ b[H + 5] = Pop /\ b[H + 6] = Jump(el)
  /\ b[H + 7] = Label(dl) /\ b[H + 8] = Pop /\ b[H + 9] = LoadConst(d)
  /\ b[H + 10] = Return /\ b[H + 11] = Label(el)

LEMMA WalkBlockIs ==
  ASSUME NEW v, NEW attrs, IsSeq(attrs), Len(attrs) # 0, NEW d, NEW n
  PROVE  \E w, place, H : IsWalkBlock(WalkBlock(v, attrs, d, n), w, place, H, v, d, <<"default", n>>, <<"end", n>>)
<1> DEFINE b == WalkBlock(v, attrs, d, n)
           dl == <<"default", n>>
           el == <<"end", n>>
           w == FlattenSeq([j \in DOMAIN attrs |-> WalkStep(attrs[j][2], dl)])
           H == Len(w) + 1
           f == <<LoadFast(v)>>
           T == WalkTest(dl)
           q == <<Pop, Jump(el), Label(dl), Pop>>
           r == ReturnConst(d)
           e == <<Label(el)>>
           s1 == f \o w
           s2 == s1 \o T
           s3 == s2 \o q
           s4 == s3 \o r
<1>1. PICK place : Walks(w, dl, place)
  BY WalkIs
<1>2. b = s4 \o e
  BY DEF WalkBlock
<1>3. IsSeq(f) /\ Len(f) = 1 /\ f[1] = LoadFast(v)
  BY ShortSeqs
<1>4. IsSeq(T) /\ Len(T) = 4 /\ T[1] = Copy /\ T[2] = LoadConst(NoneV) /\ T[3] = Is /\ T[4] = IfTrue(dl)
  BY ShortSeqs DEF WalkTest
<1>5. IsSeq(q) /\ Len(q) = 4 /\ q[1] = Pop /\ q[2] = Jump(el) /\ q[3] = Label(dl) /\ q[4] = Pop
  BY ShortSeqs
<1>6. IsSeq(r) /\ Len(r) = 2 /\ r[1] = LoadConst(d) /\ r[2] = Return
  BY ShortSeqs DEF ReturnConst
<1>7. IsSeq(e) /\ Len(e) = 1 /\ e[1] = Label(el)
  BY ShortSeqs
<1> HIDE DEF b, w, f, T, q, r, e, dl, el
<1>8. IsSeq(w) /\ Len(w) \in Nat \ {0}
  BY <1>1, SeqFacts DEF Walks
<1>9. H \in Nat /\ H = Len(w) + 1
  BY <1>8
<1>10. IsConcat(s1, f, w)
  BY <1>3, <1>8, ConcatAt
<1> HIDE DEF s1
<1>11. /\ IsSeq(s1) /\ Len(s1) = H /\ s1[1] = LoadFast(v) /\ \A x \in 1 .. Len(w) : s1[1 + x] = w[x]
  BY <1>3, <1>8, <1>10 DEF IsConcat
<1> HIDE DEF H
<1>12. IsConcat(s2, s1, T)
  BY <1>11, <1>4, ConcatAt
<1> HIDE DEF s2
<1>13. /\ IsSeq(s2) /\ Len(s2) = H + 4 /\ \A x \in 1 .. H : s2[x] = s1[x]
       /\ s2[H + 1] = T[1] /\ s2[H + 2] = T[2] /\ s2[H + 3] = T[3] /\ s2[H + 4] = T[4]
  <2>1. Len(s1) = H /\ IsConcat(s2, s1, T) /\ H \in Nat /\ Len(T) = 4
    BY <1>9, <1>11, <1>4, <1>12
  <2> QED BY <1>11, <2>1 DEF IsConcat
<1>14. IsConcat(s3, s2, q)
  BY <1>13, <1>5, ConcatAt
<1> HIDE DEF s3
<1>15. /\ IsSeq(s3) /\ Len(s3) = H + 8 /\ \A x \in 1 .. H : s3[x] = s2[x]
       /\ s3[H + 1] = s2[H + 1] /\ s3[H + 2] = s2[H + 2] /\ s3[H + 3] = s2[H + 3] /\ s3[H + 4] = s2[H + 4]
       /\ s3[H + 5] = q[1] /\ s3[H + 6] = q[2] /\ s3[H + 7] = q[3] /\ s3[H + 8] = q[4]
  <2>1. Len(s2) = H + 4 /\ IsConcat(s3, s2, q) /\ H \in Nat /\ Len(q) = 4
    BY <1>9, <1>13, <1>5, <1>14
  <2> QED BY <1>13, <2>1 DEF IsConcat
<1>16. IsConcat(s4, s3, r)
  BY <1>15, <1>6, ConcatAt
<1> HIDE DEF s4
<1>17. /\ IsSeq(s4) /\ Len(s4) = H + 10 /\ \A x \in 1 .. H : s4[x] = s3[x]
       /\ s4[H + 1] = s3[H + 1] /\ s4[H + 2] = s3[H + 2] /\ s4[H + 3] = s3[H + 3] /\ s4[H + 4] = s3[H + 4]
       /\ s4[H + 5] = s3[H + 5] /\ s4[H + 6] = s3[H + 6] /\ s4[H + 7] = s3[H + 7] /\ s4[H + 8] = s3[H + 8]
       /\ s4[H + 9] = r[1] /\ s4[H + 10] = r[2]
  <2>1. Len(s3) = H + 8 /\ H \in Nat /\ Len(r) = 2
    BY <1>9, <1>15, <1>6
  <2>2. IsSeq(s4) /\ Len(s4) = H + 10 /\ \A x \in 1 .. H + 8 : s4[x] = s3[x]
    BY <2>1, <1>16 DEF IsConcat
  <2>3. \A y \in 1 .. 2 : s4[H + 8 + y] = r[y]
    BY <2>1, <1>16 DEF IsConcat
  <2>4. s4[H + 9] = r[1] /\ s4[H + 10] = r[2]
    <3>1. s4[H + 8 + 1] = r[1] /\ s4[H + 8 + 2] = r[2]
      BY <2>3
    <3>2. H + 8 + 1 = H + 9 /\ H + 8 + 2 = H + 10
      BY <2>1
    <3> QED BY <3>1, <3>2
  <2>5. \A x \in 1 .. H : s4[x] = s3[x]
    BY <2>1, <2>2
  <2>6. \A k \in 1 .. 8 : s4[H + k] = s3[H + k]
    BY <2>1, <2>2
  <2> QED BY <2>2, <2>4, <2>5, <2>6
<1>18. IsConcat(b, s4, e)
  BY <1>17, <1>7, <1>2, ConcatAt
<1>19. /\ IsSeq(b) /\ Len(b) = H + 11 /\ \A x \in 1 .. H : b[x] = s4[x]
       /\ b[H + 1] = s4[H + 1] /\ b[H + 2] = s4[H + 2] /\ b[H + 3] = s4[H + 3] /\ b[H + 4] = s4[H + 4]
       /\ b[H + 5] = s4[H + 5] /\ b[H + 6] = s4[H + 6] /\ b[H + 7] = s4[H + 7] /\ b[H + 8] = s4[H + 8]
       /\ b[H + 9] = s4[H + 9] /\ b[H + 10] = s4[H + 10] /\ b[H + 11] = e[1]
  <2>1. Len(s4) = H + 10 /\ IsConcat(b, s4, e) /\ H \in Nat /\ Len(e) = 1
    BY <1>9, <1>17, <1>7, <1>18
  <2> QED BY <1>17, <2>1 DEF IsConcat
<1>20. b[1] = LoadFast(v) /\ \A x \in 1 .. Len(w) : b[1 + x] = w[x]
  <2>1. 1 \in 1 .. H /\ \A x \in 1 .. Len(w) : 1 + x \in 1 .. H
    BY <1>8, <1>9
  <2> QED BY <1>11, <1>13, <1>15, <1>17, <1>19, <2>1
<1>21. /\ b[H + 1] = Copy /\ b[H + 2] = LoadConst(NoneV) /\ b[H + 3] = Is
       /\ b[H + 4] = IfTrue(dl) /\ b[H + 5] = Pop /\ b[H + 6] = Jump(el)
       /\ b[H + 7] = Label(dl) /\ b[H + 8] = Pop /\ b[H + 9] = LoadConst(d)
       /\ b[H + 10] = Return /\ b[H + 11] = Label(el)
  BY <1>4, <1>5, <1>6, <1>7, <1>11, <1>13, <1>15, <1>17, <1>19
<1>22. /\ Walks(w, dl, place) /\ H = Len(w) + 1 /\ IsSeq(b) /\ Len(b) = H + 11
  BY <1>1, <1>9, <1>19
<1>23. IsWalkBlock(b, w, place, H, v, d, dl, el)
  BY <1>20, <1>21, <1>22 DEF IsWalkBlock
<1> QED BY <1>23 DEF b, dl, el

(* The depth at the k-th instruction of a step. *)
StepDepth(k) == IF k \in {1, 5} THEN 1 ELSE IF k = 3 THEN 3 ELSE 2

LEMMA WalkReturns ==
  ASSUME NEW b, NEW w, NEW place, NEW H, NEW v, NEW d, NEW dl, NEW el, IsWalkBlock(b, w, place, H, v, d, dl, el),
         dl # el, NEW n, dl[2][1] = n, el[2][1] = n, NEW u, IsType(u), v \in u.bound, NEW rets, u.depth + 1 \in rets
  PROVE  Guards(b, u, rets, n)
<1> DEFINE tail == <<1, 2, 3, 2, 1, 0, 1, 1, 0, 1, 0, 0>>
           h == [x \in 1 .. H + 12 |-> IF x = 1 THEN 0 ELSE IF x <= H THEN StepDepth(place[x - 1]) ELSE tail[x - H]]
           g == [x \in 1 .. H + 12 |-> {}]
           W == Len(w)
<1>1. /\ Walks(w, dl, place) /\ H = W + 1 /\ IsSeq(b) /\ Len(b) = H + 11 /\ b[1] = LoadFast(v)
      /\ \A x \in 1 .. W : b[1 + x] = w[x]
  BY DEF IsWalkBlock
<1>2. b[H + 1] = Copy /\ b[H + 2] = LoadConst(NoneV) /\ b[H + 3] = Is /\ b[H + 4] = IfTrue(dl) /\ b[H + 5] = Pop /\ b[H + 6] = Jump(el)
  BY DEF IsWalkBlock
<1>3. b[H + 7] = Label(dl) /\ b[H + 8] = Pop /\ b[H + 9] = LoadConst(d) /\ b[H + 10] = Return /\ b[H + 11] = Label(el)
  BY DEF IsWalkBlock
<1>4. W \in Nat \ {0} /\ H \in Nat /\ H > 1
  BY <1>1, SeqFacts DEF Walks
<1>5. /\ h[1] = 0 /\ \A x \in 1 .. W : h[1 + x] = StepDepth(place[x])
      /\ \A x \in 1 .. H + 12 : g[x] = {}
  <2>1. ASSUME NEW x \in 1 .. W PROVE 1 + x \in 1 .. H + 12 /\ 1 + x # 1 /\ 1 + x <= H /\ (1 + x) - 1 = x
    BY <1>1, <1>4
  <2>2. 1 \in 1 .. H + 12
    BY <1>4
  <2> HIDE DEF tail
  <2> QED BY <2>1, <2>2
<1>6. h[H + 1] = 1 /\ h[H + 2] = 2 /\ h[H + 3] = 3 /\ h[H + 4] = 2 /\ h[H + 5] = 1 /\ h[H + 6] = 0 /\ h[H + 7] = 1 /\ h[H + 8] = 1 /\ h[H + 9] = 0 /\ h[H + 10] = 1 /\ h[H + 11] = 0 /\ h[H + 12] = 0
  <2>1. ASSUME NEW k \in 1 .. 12 PROVE h[H + k] = tail[k]
    <3>1. H + k \in 1 .. H + 12 /\ H + k # 1 /\ ~(H + k <= H) /\ (H + k) - H = k
      BY <1>4
    <3> HIDE DEF tail
    <3> QED BY <3>1
  <2>2. tail[1] = 1 /\ tail[2] = 2 /\ tail[3] = 3 /\ tail[4] = 2 /\ tail[5] = 1 /\ tail[6] = 0 /\ tail[7] = 1 /\ tail[8] = 1 /\ tail[9] = 0 /\ tail[10] = 1 /\ tail[11] = 0 /\ tail[12] = 0
    OBVIOUS
  <2> HIDE DEF h, tail
  <2> QED BY <2>1, <2>2
<1> HIDE DEF h, g, W
<1>7. Plain(b[H + 1], 1, 2) /\ Plain(b[H + 2], 0, 1) /\ Plain(b[H + 3], 2, 1) /\ Plain(b[H + 5], 1, 0) /\ IsBranch(b[H + 4], dl)
      /\ IsJump(b[H + 6], el)
  BY <1>2, Effects, Controls
<1>8. /\ IsLabel(b[H + 7], dl) /\ Plain(b[H + 8], 1, 0) /\ Plain(b[H + 9], 0, 1) /\ IsReturn(b[H + 10])
      /\ IsLabel(b[H + 11], el) /\ IsLoad(b[1], v)
  BY <1>1, <1>3, Effects, Controls
(* Which position is which. *)
<1>9. ASSUME NEW k \in 1 .. H + 11
      PROVE  \/ k = 1 \/ \E x \in 1 .. W : k = 1 + x
             \/ k \in {H + 1, H + 2, H + 3, H + 4, H + 5, H + 6} \/ k \in {H + 7, H + 8, H + 9, H + 10, H + 11}
  <2>1. CASE k <= H /\ k # 1
    <3>1. k - 1 \in 1 .. W /\ k = 1 + (k - 1)
      BY <1>1, <1>4, <2>1 DEF W
    <3> QED BY <3>1
  <2>2. CASE k > H
    BY <1>4, <2>2
  <2> QED BY <1>4, <2>1, <2>2
<1>10. ASSUME NEW x \in 1 .. W
       PROVE  /\ place[x] \in {1, 2, 3, 4, 5}
              /\ place[x] = 1 => Plain(b[1 + x], 1, 2)
              /\ place[x] = 2 => Plain(b[1 + x], 0, 1)
              /\ place[x] = 3 => Plain(b[1 + x], 2, 1)
              /\ place[x] = 4 => IsBranch(b[1 + x], dl)
              /\ place[x] = 5 => Plain(b[1 + x], 1, 1)
  <2>1. WalkAt(w, dl, x, place[x]) /\ b[1 + x] = w[x]
    BY <1>1 DEF Walks, W
  <2>2. CASE place[x] = 5
    <3>1. PICK a : b[1 + x] = LoadAttr(a)
      BY <2>1, <2>2 DEF WalkAt
    <3> QED BY <2>2, <3>1, Effects
  <2> QED BY <2>1, <2>2, Effects, Controls DEF WalkAt
<1>11. ASSUME NEW x \in 1 .. W PROVE h[1 + (1 + x)] = IF place[x] = 5 THEN 1 ELSE StepDepth(place[x] + 1)
  <2>1. CASE x + 1 \in 1 .. W
    <3>1. place[x + 1] = IF place[x] = 5 THEN 1 ELSE place[x] + 1
      BY <1>1, <2>1 DEF Walks, W
    <3>2. h[1 + (x + 1)] = StepDepth(place[x + 1]) /\ 1 + (x + 1) = 1 + (1 + x)
      BY <1>5, <2>1
    <3> QED BY <3>1, <3>2 DEF StepDepth
  <2>2. CASE x = W
    <3>1. place[x] = 5 /\ 1 + (1 + x) = H + 1
      BY <1>1, <1>4, <2>2 DEF Walks, W
    <3> QED BY <1>6, <3>1
  <2> QED BY <1>4, <2>1, <2>2
<1>12. ASSUME NEW k \in 1 .. H + 11
       PROVE  /\ Op(b[k]) \notin {"TRY_BEGIN", "TRY_END"}
              /\ Op(b[k]) = "LABEL" => k = H + 7 \/ k = H + 11
  <2>1. CASE \E x \in 1 .. W : k = 1 + x
    BY <1>10, <2>1 DEF Plain, IsBranch
  <2>2. CASE k = 1 \/ k \in {H + 1, H + 2, H + 3, H + 4, H + 5, H + 6}
    BY <1>7, <1>8, <2>2 DEF Plain, IsBranch, IsJump, IsLoad
  <2>3. CASE k \in {H + 7, H + 8, H + 9, H + 10, H + 11}
    BY <1>8, <2>3 DEF Plain, IsLabel, IsReturn
  <2> QED BY <1>9, <2>1, <2>2, <2>3
<1>13. At(b, dl, H + 7) /\ At(b, el, H + 11)
  <2>1. H + 7 \in 1 .. Len(b) /\ H + 11 \in 1 .. Len(b) /\ Len(b) = H + 11
    BY <1>1, <1>4
  <2>2. ASSUME NEW j \in 1 .. H + 11, NEW l, b[j] = Label(l)
        PROVE  (j = H + 7 /\ l = dl) \/ (j = H + 11 /\ l = el)
    <3>1. Op(Label(l)) = "LABEL" /\ Arg(Label(l)) = l
      BY DEF Label, Op, Arg
    <3>2. j = H + 7 \/ j = H + 11
      BY <1>12, <2>2, <3>1
    <3>3. Arg(b[H + 7]) = dl /\ Arg(b[H + 11]) = el
      BY <1>8 DEF IsLabel
    <3> QED BY <2>2, <3>1, <3>2, <3>3
  <2>3. b[H + 7] = Label(dl) /\ b[H + 11] = Label(el)
    BY <1>3
  <2> QED BY <2>1, <2>2, <2>3 DEF At
<1>14. u.depth \in Nat /\ u = [depth |-> u.depth, bound |-> u.bound]
  BY DEF IsType
<1>15. ASSUME NEW k \in 1 .. H + 11 PROVE k \in 1 .. H + 12 /\ k + 1 \in 1 .. H + 12
  BY <1>4
<1>16. Sound(b, u, h, g, rets, 1)
  <2>1. h[1] = 0 /\ h[1 + 1] = 1
    <3>1. 1 \in 1 .. W /\ place[1] = 1
      BY <1>1, <1>4 DEF Walks
    <3> QED BY <1>5, <3>1 DEF StepDepth
  <2>2. g[1] = {} /\ g[1 + 1] = {}
    BY <1>4, <1>5
  <2> QED BY <1>8, <1>14, <2>1, <2>2 DEF Sound, IsLoad
<1>17. ASSUME NEW x \in 1 .. W PROVE Sound(b, u, h, g, rets, 1 + x)
  <2>1. h[1 + x] = StepDepth(place[x]) /\ h[(1 + x) + 1] = IF place[x] = 5 THEN 1 ELSE StepDepth(place[x] + 1)
    <3>1. (1 + x) + 1 = 1 + (1 + x)
      OBVIOUS
    <3> QED BY <1>5, <1>11, <3>1
  <2>2. g[1 + x] = {} /\ g[(1 + x) + 1] = {} /\ g[H + 7] = {} /\ h[H + 7] = 1 /\ H + 7 > 1 + x
    <3>1. 1 + x \in 1 .. H + 12 /\ (1 + x) + 1 \in 1 .. H + 12 /\ H + 7 \in 1 .. H + 12 /\ H + 7 > 1 + x
      BY <1>1, <1>4 DEF W
    <3> QED BY <1>5, <1>6, <3>1
  <2> DEFINE k == 1 + x
             j == k + 1
  <2>3. /\ h[k] = StepDepth(place[x]) /\ h[k + 1] = IF place[x] = 5 THEN 1 ELSE StepDepth(place[x] + 1)
        /\ g[k] = {} /\ g[k + 1] = {}
    BY <2>1, <2>2
  <2>4. /\ place[x] \in {1, 2, 3, 4, 5}
        /\ place[x] = 1 => Plain(b[k], 1, 2)
        /\ place[x] = 2 => Plain(b[k], 0, 1)
        /\ place[x] = 3 => Plain(b[k], 2, 1)
        /\ place[x] = 4 => IsBranch(b[k], dl)
        /\ place[x] = 5 => Plain(b[k], 1, 1)
    BY <1>10
  <2>5. H + 7 > k
    BY <2>2
  <2> SUFFICES Sound(b, u, h, g, rets, k)
    OBVIOUS
  <2>20. k \in Nat
    OBVIOUS
  <2> HIDE DEF k
  <2>6. CASE place[x] = 1
    <3>1. h[k] = 1 /\ h[k + 1] = 2 /\ Plain(b[k], 1, 2)
      BY <2>3, <2>4, <2>6 DEF StepDepth
    <3> QED BY <1>14, <2>3, <3>1, <2>20 DEF Sound, Plain
  <2>7. CASE place[x] = 2
    <3>1. h[k] = 2 /\ h[k + 1] = 3 /\ Plain(b[k], 0, 1)
      BY <2>3, <2>4, <2>7 DEF StepDepth
    <3> QED BY <1>14, <2>3, <3>1, <2>20 DEF Sound, Plain
  <2>8. CASE place[x] = 3
    <3>1. h[k] = 3 /\ h[k + 1] = 2 /\ Plain(b[k], 2, 1)
      BY <2>3, <2>4, <2>8 DEF StepDepth
    <3> QED BY <1>14, <2>3, <3>1, <2>20 DEF Sound, Plain
  <2>9. CASE place[x] = 4
    <3>1. h[k] = 2 /\ h[k + 1] = 1 /\ IsBranch(b[k], dl)
      BY <2>3, <2>4, <2>9 DEF StepDepth
    <3> QED BY <1>13, <1>14, <2>2, <2>3, <2>5, <2>20, <3>1 DEF Sound, IsBranch
  <2>10. CASE place[x] = 5
    <3>1. h[k] = 1 /\ h[k + 1] = 1 /\ Plain(b[k], 1, 1)
      BY <2>3, <2>4, <2>10 DEF StepDepth
    <3> QED BY <1>14, <2>3, <3>1, <2>20 DEF Sound, Plain
  <2> QED BY <2>4, <2>6, <2>7, <2>8, <2>9, <2>10
<1>18. Sound(b, u, h, g, rets, H + 1)
  <2>1. h[H + 1] = 1 /\ h[(H + 1) + 1] = 2
    <3>1. (H + 1) + 1 = H + 2
      BY <1>4
    <3> QED BY <1>6, <3>1
  <2>2. g[H + 1] = {} /\ g[(H + 1) + 1] = {}
    <3>1. H + 1 \in 1 .. H + 12 /\ (H + 1) + 1 \in 1 .. H + 12
      BY <1>4
    <3> QED BY <1>5, <3>1
  <2> QED BY <1>4, <1>7, <1>14, <2>1, <2>2 DEF Sound, Plain
<1>19. Sound(b, u, h, g, rets, H + 2)
  <2>1. h[H + 2] = 2 /\ h[(H + 2) + 1] = 3
    <3>1. (H + 2) + 1 = H + 3
      BY <1>4
    <3> QED BY <1>6, <3>1
  <2>2. g[H + 2] = {} /\ g[(H + 2) + 1] = {}
    <3>1. H + 2 \in 1 .. H + 12 /\ (H + 2) + 1 \in 1 .. H + 12
      BY <1>4
    <3> QED BY <1>5, <3>1
  <2> QED BY <1>4, <1>7, <1>14, <2>1, <2>2 DEF Sound, Plain
<1>20. Sound(b, u, h, g, rets, H + 3)
  <2>1. h[H + 3] = 3 /\ h[(H + 3) + 1] = 2
    <3>1. (H + 3) + 1 = H + 4
      BY <1>4
    <3> QED BY <1>6, <3>1
  <2>2. g[H + 3] = {} /\ g[(H + 3) + 1] = {}
    <3>1. H + 3 \in 1 .. H + 12 /\ (H + 3) + 1 \in 1 .. H + 12
      BY <1>4
    <3> QED BY <1>5, <3>1
  <2> QED BY <1>4, <1>7, <1>14, <2>1, <2>2 DEF Sound, Plain
<1>21. Sound(b, u, h, g, rets, H + 4)
  <2>1. h[H + 4] = 2 /\ h[(H + 4) + 1] = 1
    <3>1. (H + 4) + 1 = H + 5
      BY <1>4
    <3> QED BY <1>6, <3>1
  <2>2. g[H + 4] = {} /\ g[(H + 4) + 1] = {}
    <3>1. H + 4 \in 1 .. H + 12 /\ (H + 4) + 1 \in 1 .. H + 12
      BY <1>4
    <3> QED BY <1>5, <3>1
  <2>3. h[H + 7] = 1 /\ g[H + 7] = {} /\ H + 7 > H + 4
    <3>1. H + 7 \in 1 .. H + 12 /\ H + 7 > H + 4
      BY <1>4
    <3> QED BY <1>5, <1>6, <3>1
  <2> QED BY <1>4, <1>7, <1>13, <1>14, <2>1, <2>2, <2>3 DEF Sound, IsBranch
<1>22. Sound(b, u, h, g, rets, H + 5)
  <2>1. h[H + 5] = 1 /\ h[(H + 5) + 1] = 0
    <3>1. (H + 5) + 1 = H + 6
      BY <1>4
    <3> QED BY <1>6, <3>1
  <2>2. g[H + 5] = {} /\ g[(H + 5) + 1] = {}
    <3>1. H + 5 \in 1 .. H + 12 /\ (H + 5) + 1 \in 1 .. H + 12
      BY <1>4
    <3> QED BY <1>5, <3>1
  <2> QED BY <1>4, <1>7, <1>14, <2>1, <2>2 DEF Sound, Plain
<1>23. Sound(b, u, h, g, rets, H + 6)
  <2>1. h[H + 6] = 0 /\ h[(H + 6) + 1] = 1
    <3>1. (H + 6) + 1 = H + 7
      BY <1>4
    <3> QED BY <1>6, <3>1
  <2>2. g[H + 6] = {} /\ g[(H + 6) + 1] = {}
    <3>1. H + 6 \in 1 .. H + 12 /\ (H + 6) + 1 \in 1 .. H + 12
      BY <1>4
    <3> QED BY <1>5, <3>1
  <2>3. h[H + 11] = 0 /\ g[H + 11] = {} /\ H + 11 > H + 6
    <3>1. H + 11 \in 1 .. H + 12 /\ H + 11 > H + 6
      BY <1>4
    <3> QED BY <1>5, <1>6, <3>1
  <2> QED BY <1>4, <1>7, <1>13, <1>14, <2>1, <2>2, <2>3 DEF Sound, IsJump
<1>24. Sound(b, u, h, g, rets, H + 7)
  <2>1. h[H + 7] = 1 /\ h[(H + 7) + 1] = 1
    <3>1. (H + 7) + 1 = H + 8
      BY <1>4
    <3> QED BY <1>6, <3>1
  <2>2. g[H + 7] = {} /\ g[(H + 7) + 1] = {}
    <3>1. H + 7 \in 1 .. H + 12 /\ (H + 7) + 1 \in 1 .. H + 12
      BY <1>4
    <3> QED BY <1>5, <3>1
  <2> QED BY <1>4, <1>8, <1>14, <2>1, <2>2 DEF Sound, IsLabel
<1>25. Sound(b, u, h, g, rets, H + 8)
  <2>1. h[H + 8] = 1 /\ h[(H + 8) + 1] = 0
    <3>1. (H + 8) + 1 = H + 9
      BY <1>4
    <3> QED BY <1>6, <3>1
  <2>2. g[H + 8] = {} /\ g[(H + 8) + 1] = {}
    <3>1. H + 8 \in 1 .. H + 12 /\ (H + 8) + 1 \in 1 .. H + 12
      BY <1>4
    <3> QED BY <1>5, <3>1
  <2> QED BY <1>4, <1>8, <1>14, <2>1, <2>2 DEF Sound, Plain
<1>26. Sound(b, u, h, g, rets, H + 9)
  <2>1. h[H + 9] = 0 /\ h[(H + 9) + 1] = 1
    <3>1. (H + 9) + 1 = H + 10
      BY <1>4
    <3> QED BY <1>6, <3>1
  <2>2. g[H + 9] = {} /\ g[(H + 9) + 1] = {}
    <3>1. H + 9 \in 1 .. H + 12 /\ (H + 9) + 1 \in 1 .. H + 12
      BY <1>4
    <3> QED BY <1>5, <3>1
  <2> QED BY <1>4, <1>8, <1>14, <2>1, <2>2 DEF Sound, Plain
<1>27. Sound(b, u, h, g, rets, H + 10)
  <2>1. h[H + 10] = 1 /\ h[(H + 10) + 1] = 0
    <3>1. (H + 10) + 1 = H + 11
      BY <1>4
    <3> QED BY <1>6, <3>1
  <2>2. g[H + 10] = {} /\ g[(H + 10) + 1] = {}
    <3>1. H + 10 \in 1 .. H + 12 /\ (H + 10) + 1 \in 1 .. H + 12
      BY <1>4
    <3> QED BY <1>5, <3>1
  <2> QED BY <1>4, <1>8, <1>14, <2>1, <2>2 DEF Sound, IsReturn
<1>28. Sound(b, u, h, g, rets, H + 11)
  <2>1. h[H + 11] = 0 /\ h[(H + 11) + 1] = 0
    <3>1. (H + 11) + 1 = H + 12
      BY <1>4
    <3> QED BY <1>6, <3>1
  <2>2. g[H + 11] = {} /\ g[(H + 11) + 1] = {}
    <3>1. H + 11 \in 1 .. H + 12 /\ (H + 11) + 1 \in 1 .. H + 12
      BY <1>4
    <3> QED BY <1>5, <3>1
  <2> QED BY <1>4, <1>8, <1>14, <2>1, <2>2 DEF Sound, IsLabel
<1>29. ASSUME NEW k \in 1 .. H + 11 PROVE Sound(b, u, h, g, rets, k)
  <2>1. CASE k \in {H + 1, H + 2, H + 3, H + 4, H + 5, H + 6}
    BY <2>1, <1>18, <1>19, <1>20, <1>21, <1>22, <1>23
  <2>2. CASE k \in {H + 7, H + 8, H + 9, H + 10, H + 11}
    BY <2>2, <1>24, <1>25, <1>26, <1>27, <1>28
  <2> QED BY <1>9, <1>16, <1>17, <2>1, <2>2
<1>30. Does(b, Nothing, u, rets, Typing(b, u, h, g))
  <2> DEFINE N == H + 11
  <2>1. N \in Nat \ {0} /\ Len(b) = N /\ IsSeq(b) /\ h[1] = 0 /\ g[1] = {}
    BY <1>1, <1>4, <1>5
  <2>2. \A k \in 1 .. N : Sound(b, u, h, g, rets, k)
    BY <1>29
  <2>3. /\ Falls(Nothing) /\ Takes(Nothing) \in Int /\ h[N + 1] = Gives(Nothing) - Takes(Nothing)
        /\ Binds(Nothing) = {}
    <3>1. N + 1 = H + 12
      BY <1>4
    <3> QED BY <1>6, <3>1, NothingDone
  <2> HIDE DEF N
  <2> QED BY <1>14, <2>1, <2>2, <2>3, SoundDoes
<1>31. Labelled(b, n)
  <2>1. Arg(b[H + 7]) = dl /\ Arg(b[H + 11]) = el /\ Len(b) = H + 11 /\ H + 11 > 1
    BY <1>1, <1>4, <1>8 DEF IsLabel
  <2> QED BY <1>12, <2>1 DEF Labelled
<1> QED BY <1>1, <1>4, <1>30, <1>31 DEF Guards

----------------------------------------------------------------------------
(* Guards in the place of any number of instructions.                       *)

(* A longer block makes the code longer. *)
LEMMA FlattenGrows ==
  ASSUME NEW s, Sequences(s), \A i \in 1 .. Len(s) : Len(s[i]) # 0, NEW d, NEW start, NEW of,
         Flattened(d, s, start, of), NEW g \in 1 .. Len(s) + 1, g \in 1 .. Len(s) => Len(s[g]) > 1
  PROVE  Len(d) >= Len(s) /\ (g <= Len(s) => Len(d) > Len(s))
<1> DEFINE N == Len(s)
           P(i) == start[i] + Len(s[i]) >= i /\ (i >= g => start[i] + Len(s[i]) > i)
           S == {i \in 1 .. N : ~P(i)}
<1>1. N \in Nat \ {0} /\ g \in Nat
  BY SeqFacts DEF Sequences
<1>2. ASSUME NEW i \in 1 .. N
      PROVE  start[i] \in Nat /\ Len(s[i]) \in Nat \ {0} /\ (i = g => Len(s[i]) > 1)
  BY SeqFacts DEF Sequences, Flattened
<1>3. start[1] = 0
  BY DEF Flattened
<1>4. ASSUME NEW i \in 1 .. N, i + 1 \in 1 .. N PROVE start[i + 1] = start[i] + Len(s[i])
  BY <1>4 DEF Flattened
<1>5. ASSUME S # {} PROVE FALSE
  <2>1. PICK x \in S : \A y \in S : x <= y
    <3>1. S \in SUBSET Nat
      BY <1>1
    <3> HIDE DEF S
    <3> QED BY <1>5, <3>1, LeastOf
  <2>2. x \in 1 .. N /\ ~P(x)
    OBVIOUS
  <2>3. CASE x = 1
    BY <1>1, <1>2, <1>3, <2>2, <2>3
  <2>4. CASE x # 1
    <3> DEFINE k == x - 1
    <3>1. k \in 1 .. N /\ k + 1 = x /\ k < x /\ k + 1 \in 1 .. N
      BY <1>1, <2>2, <2>4
    <3>2. P(k)
      BY <2>1, <3>1
    <3>3. start[x] = start[k] + Len(s[k])
      BY <1>4, <3>1
    <3>4. start[k] \in Nat /\ Len(s[k]) \in Nat /\ Len(s[x]) \in Nat \ {0} /\ (x = g => Len(s[x]) > 1)
      BY <1>2, <2>2, <3>1
    <3> HIDE DEF S, k
    <3> QED BY <1>1, <2>2, <3>1, <3>2, <3>3, <3>4
  <2> QED BY <2>3, <2>4
<1>6. P(N)
  <2>1. N \in 1 .. N
    BY <1>1
  <2> QED BY <1>5, <2>1
<1>7. Len(d) = start[N] + Len(s[N])
  BY DEF Flattened
<1> QED BY <1>1, <1>6, <1>7

(* Code with the blocks of a guard in the places of G. *)
Guarded(c, G, blocks) ==
  /\ IsSeq(blocks) /\ Len(blocks) = Len(c)
  /\ \A i \in (1 .. Len(c)) \ G : blocks[i] = <<c[i]>>
  /\ \A i \in G :
       /\ i \in 1 .. Len(c) /\ Op(c[i]) \notin Marks \cup {"RESUME"} /\ ~Jumps(c[i])
       /\ IsSeq(blocks[i]) /\ Len(blocks[i]) > 1
       /\ \A k \in 1 .. Len(blocks[i]) :
            /\ Op(blocks[i][k]) \notin {"TRY_BEGIN", "TRY_END"}
            /\ Op(blocks[i][k]) = "LABEL" => Arg(blocks[i][k])[2] = <<Len(c), i>>

LEMMA GuardedRewrites ==
  ASSUME NEW c, Ready(c), NEW G, NEW blocks, Guarded(c, G, blocks)
  PROVE  /\ Ready(FlattenSeq(blocks))
         /\ \E start, of : Rewritten(c, blocks, FlattenSeq(blocks), start, of)
<1> DEFINE N == Len(c)
           d == FlattenSeq(blocks)
<1>1. N \in Nat \ {0} /\ IsSeq(c) /\ Numbered(c) /\ Op(c[1]) = "RESUME" /\ Len(blocks) = N
  BY SeqFacts DEF Ready, Guarded
<1>2. ASSUME NEW i \in 1 .. N
      PROVE  /\ IsSeq(blocks[i]) /\ Len(blocks[i]) \in Nat \ {0}
             /\ i \notin G => Len(blocks[i]) = 1 /\ blocks[i][1] = c[i]
  <2>1. CASE i \in G
    BY <2>1, SeqFacts DEF Guarded
  <2>2. CASE i \notin G
    <3>1. blocks[i] = <<c[i]>>
      BY <2>2 DEF Guarded
    <3>2. IsSeq(<<c[i]>>) /\ Len(<<c[i]>>) = 1 /\ <<c[i]>>[1] = c[i]
      BY AloneIsSeq
    <3> QED BY <2>2, <3>1, <3>2
  <2> QED BY <2>1, <2>2
<1>3. Sequences(blocks)
  BY <1>1, <1>2 DEF Sequences, Guarded
<1>4. PICK start, of : Flattened(d, blocks, start, of)
  BY <1>3, FlattenLays
<1> HIDE DEF d
<1>5. Len(d) >= N /\ (G # {} => Len(d) > N)
  <2>1. \A i \in 1 .. Len(blocks) : Len(blocks[i]) # 0
    BY <1>1, <1>2
  <2>2. Len(d) >= N
    <3>1. N + 1 \in 1 .. Len(blocks) + 1 /\ ~(N + 1 \in 1 .. Len(blocks))
      BY <1>1
    <3> QED BY <1>1, <1>3, <1>4, <2>1, <3>1, FlattenGrows
  <2>3. ASSUME NEW g \in G PROVE Len(d) > N
    <3>1. g \in 1 .. Len(blocks) + 1 /\ g <= N /\ Len(blocks[g]) > 1
      BY <1>1 DEF Guarded
    <3> QED BY <1>1, <1>3, <1>4, <2>1, <3>1, FlattenGrows
  <2> QED BY <2>2, <2>3
<1>6. /\ IsSeq(d) /\ start[1] = 0
      /\ \A i \in 1 .. N :
           /\ start[i] \in Nat
           /\ i + 1 \in 1 .. N => start[i + 1] = start[i] + Len(blocks[i])
           /\ \A j \in 1 .. N : i < j => start[i] + Len(blocks[i]) <= start[j]
           /\ \A k \in 1 .. Len(blocks[i]) : start[i] + k \in 1 .. Len(d) /\ d[start[i] + k] = blocks[i][k]
      /\ \A n \in 1 .. Len(d) : of[n] \in 1 .. N /\ n - start[of[n]] \in 1 .. Len(blocks[of[n]])
  BY <1>1, <1>4 DEF Flattened
<1>7. Ordered(c, blocks, start) /\ Complete(c, blocks, d, start, of)
  BY <1>6 DEF Ordered, Complete
<1>8. ASSUME NEW n \in 1 .. Len(d)
      PROVE  \E i \in 1 .. N : \E k \in 1 .. Len(blocks[i]) : i = of[n] /\ d[n] = blocks[i][k] /\ n = start[i] + k
  <2> DEFINE i == of[n]
             k == n - start[i]
  <2>1. i \in 1 .. N /\ k \in 1 .. Len(blocks[i]) /\ start[i] \in Nat
    BY <1>6
  <2>2. start[i] + k = n /\ Len(d) \in Nat
    BY <1>6, <2>1, SeqFacts
  <2> HIDE DEF i, k
  <2>3. d[n] = blocks[i][k]
    BY <1>6, <2>1, <2>2
  <2> QED BY <2>1, <2>2, <2>3 DEF i
<1>9. ASSUME NEW i \in 1 .. N, NEW k \in 1 .. Len(blocks[i]) PROVE of[start[i] + k] = i
  <2> DEFINE n == start[i] + k
             j == of[n]
  <2>1. n \in 1 .. Len(d) /\ j \in 1 .. N /\ n - start[j] \in 1 .. Len(blocks[j])
    BY <1>6
  <2>2. /\ start[i] \in Nat /\ start[j] \in Nat /\ Len(blocks[i]) \in Nat /\ Len(blocks[j]) \in Nat
        /\ i < j => start[i] + Len(blocks[i]) <= start[j]
        /\ j < i => start[j] + Len(blocks[j]) <= start[i]
    BY <1>2, <1>6, <2>1
  <2> HIDE DEF j
  <2>3. i = j
    BY <2>1, <2>2
  <2> QED BY <2>3 DEF j
<1>10. Placed(c, blocks, d, start, of)
  BY <1>2, <1>6, <1>9 DEF Placed
<1>11. ASSUME NEW i \in 1 .. N, NEW k \in 1 .. Len(blocks[i]), Op(blocks[i][k]) = "LABEL"
       PROVE  /\ i \in G => Arg(blocks[i][k])[2] = <<N, i>>
              /\ i \notin G => Arg(blocks[i][k])[2][1] \in Nat /\ Arg(blocks[i][k])[2][1] < N
  <2>1. CASE i \in G
    BY <1>11, <2>1 DEF Guarded
  <2>2. CASE i \notin G
    <3>1. blocks[i][k] = c[i]
      BY <1>2, <2>2
    <3> QED BY <1>1, <1>11, <2>2, <3>1 DEF Numbered
  <2> QED BY <2>1, <2>2
<1>12. Separate(c, blocks, d, of)
  <2>1. ASSUME NEW i \in 1 .. N, ~Kept(c, blocks, i)
        PROVE  /\ Op(c[i]) \notin Marks /\ ~Jumps(c[i])
               /\ \A k \in 1 .. Len(blocks[i]) :
                    /\ Op(blocks[i][k]) \notin {"TRY_BEGIN", "TRY_END"}
                    /\ Op(blocks[i][k]) = "LABEL" => \A n \in 1 .. Len(d) : d[n] = blocks[i][k] => of[n] = i
    <3>1. i \in G
      BY <2>1 DEF Guarded, Kept
    <3>2. ASSUME NEW k \in 1 .. Len(blocks[i]), Op(blocks[i][k]) = "LABEL", NEW n \in 1 .. Len(d), d[n] = blocks[i][k]
          PROVE  of[n] = i
      <4>1. PICK j \in 1 .. N : \E m \in 1 .. Len(blocks[j]) : j = of[n] /\ d[n] = blocks[j][m]
        BY <1>8
      <4>2. Arg(d[n])[2] = <<N, i>>
        BY <1>11, <3>1, <3>2
      <4>3. j \in G => Arg(d[n])[2] = <<N, j>>
        BY <1>11, <3>2, <4>1
      <4>4. j \notin G => Arg(d[n])[2][1] < N
        BY <1>11, <3>2, <4>1
      <4>5. <<N, i>>[1] = N /\ (<<N, i>> = <<N, j>> => i = j) /\ ~(N < N)
        BY <1>1
      <4> QED BY <4>1, <4>2, <4>3, <4>4, <4>5
    <3> QED BY <3>1, <3>2 DEF Guarded
  <2> QED BY <2>1 DEF Separate
<1>13. Rewritten(c, blocks, d, start, of)
  BY <1>1, <1>6, <1>7, <1>10, <1>12 DEF Rewritten
<1>14. Ready(d)
  <2>1. Len(d) \in Nat /\ Len(d) # 0
    BY <1>1, <1>5, <1>6, SeqFacts
  <2>2. Op(d[1]) = "RESUME"
    <3>1. 1 \in 1 .. N /\ 1 \notin G
      BY <1>1 DEF Guarded
    <3>2. Len(blocks[1]) = 1 /\ blocks[1][1] = c[1] /\ 1 \in 1 .. 1 /\ 0 + 1 = 1
      BY <1>2, <3>1
    <3>3. d[0 + 1] = blocks[1][1]
      BY <1>6, <3>1, <3>2
    <3> QED BY <1>1, <3>2, <3>3
  <2>3. ASSUME NEW n \in 1 .. Len(d), Op(d[n]) = "LABEL"
        PROVE  Arg(d[n])[2][1] \in Nat /\ Arg(d[n])[2][1] < Len(d)
    <3>1. PICK i \in 1 .. N : \E k \in 1 .. Len(blocks[i]) : d[n] = blocks[i][k]
      BY <1>8
    <3>2. CASE i \in G
      <4>1. Arg(d[n])[2] = <<N, i>> /\ <<N, i>>[1] = N /\ Len(d) > N
        BY <1>5, <1>11, <2>3, <3>1, <3>2
      <4> QED BY <1>1, <4>1
    <3>3. CASE i \notin G
      <4>1. Arg(d[n])[2][1] \in Nat /\ Arg(d[n])[2][1] < N
        BY <1>11, <2>3, <3>1, <3>3
      <4> QED BY <1>1, <1>5, <2>1, <4>1
    <3> QED BY <3>2, <3>3
  <2> QED BY <1>6, <2>1, <2>2, <2>3 DEF Ready, Numbered
<1> QED BY <1>13, <1>14 DEF d

LEMMA GuardedFits ==
  ASSUME NEW c, Ready(c), NEW G, NEW blocks, Guarded(c, G, blocks),
         NEW params, NEW rets, NEW ty, Fits(c, params, rets, ty),
         \A i \in G : i \in DOMAIN ty => \E bt : Does(blocks[i], c[i], ty[i], rets, bt)
  PROVE  Ready(FlattenSeq(blocks)) /\ \E ty2 : Fits(FlattenSeq(blocks), params, rets, ty2)
<1> DEFINE d == FlattenSeq(blocks)
           bts == [i \in 1 .. Len(c) |-> CHOOSE bt : Does(blocks[i], c[i], ty[i], rets, bt)]
<1>1. PICK start, of : Rewritten(c, blocks, d, start, of)
  BY GuardedRewrites
<1>2. ASSUME NEW i \in DOMAIN ty PROVE Kept(c, blocks, i) \/ Does(blocks[i], c[i], ty[i], rets, bts[i])
  <2>1. i \in 1 .. Len(c)
    BY SeqFacts DEF Fits, IsTyping, Ready
  <2>2. CASE i \in G
    BY <2>1, <2>2
  <2>3. CASE i \notin G
    BY <2>1, <2>3 DEF Guarded, Kept
  <2> QED BY <2>2, <2>3
<1> HIDE DEF d, bts
<1>3. Fits(d, params, rets, Spread(c, blocks, d, start, of, ty, bts))
  BY <1>1, <1>2, RewrittenFits
<1>4. Ready(d)
  BY GuardedRewrites DEF d
<1> QED BY <1>3, <1>4 DEF d

----------------------------------------------------------------------------
(* Flow finds a typing wherever there is one.                               *)

(* One step of Flow. *)
PassBound(c, ty, n, m) == ty[n].bound \cup IF m \in Handlers(c, n) THEN {} ELSE Binds(c[n])
Pass(c, ty, n) ==
  [m \in DOMAIN ty \cup Follows(c, n) \cup Handlers(c, n) |->
     IF m \notin Follows(c, n) \cup Handlers(c, n) THEN ty[m]
     ELSE IF m \in DOMAIN ty THEN [ty[m] EXCEPT !.bound = @ \cap PassBound(c, ty, n, m)]
     ELSE [depth |-> IF m \in Handlers(c, n) THEN 0 ELSE ty[n].depth - Takes(c[n]) + Gives(c[n]),
           bound |-> PassBound(c, ty, n, m)]]
PassOn(c, ty, n) == IF n \in DOMAIN ty THEN Pass(c, ty, n) ELSE ty
FirstType(params) == [m \in {1} |-> [depth |-> 0, bound |-> params]]
Flows(f, c, params, n) == f = [i \in 0 .. n |-> IF i = 0 THEN FirstType(params) ELSE PassOn(c, f[i - 1], i)]

LEMMA FlowsAt ==
  ASSUME NEW c, NEW params, NEW n \in Nat
  PROVE  \E f : Flows(f, c, params, n)
<1> SUFFICES ASSUME ~\E f : Flows(f, c, params, n) PROVE FALSE
  OBVIOUS
<1> DEFINE S == {m \in Nat : ~\E f : Flows(f, c, params, m)}
<1>1. PICK m \in S : \A y \in S : m <= y
  <2>1. S \in SUBSET Nat /\ S # {}
    OBVIOUS
  <2> HIDE DEF S
  <2> QED BY <2>1, LeastOf
<1>2. m \in Nat /\ ~\E f : Flows(f, c, params, m)
  OBVIOUS
<1>3. CASE m = 0
  <2> DEFINE f == [i \in 0 .. 0 |-> FirstType(params)]
  <2>1. f = [i \in 0 .. 0 |-> IF i = 0 THEN FirstType(params) ELSE PassOn(c, f[i - 1], i)]
    OBVIOUS
  <2> HIDE DEF f
  <2>2. Flows(f, c, params, 0)
    BY <2>1 DEF Flows
  <2> QED BY <1>2, <1>3, <2>2
<1>4. CASE m # 0
  <2> DEFINE k == m - 1
  <2>1. k \in Nat /\ k < m
    BY <1>2, <1>4
  <2>2. PICK f : Flows(f, c, params, k)
    BY <1>1, <2>1
  <2> DEFINE g == [i \in 0 .. m |-> IF i = 0 THEN FirstType(params) ELSE PassOn(c, f[i - 1], i)]
  <2>3. ASSUME NEW i \in 0 .. m, i # 0 PROVE g[i - 1] = f[i - 1]
    <3>1. i - 1 \in 0 .. k /\ i - 1 \in 0 .. m
      BY <1>2, <2>3
    <3>2. f[i - 1] = IF i - 1 = 0 THEN FirstType(params) ELSE PassOn(c, f[(i - 1) - 1], i - 1)
      BY <2>2, <3>1 DEF Flows
    <3>3. g[i - 1] = IF i - 1 = 0 THEN FirstType(params) ELSE PassOn(c, f[(i - 1) - 1], i - 1)
      BY <3>1
    <3> QED BY <3>2, <3>3
  <2>4. g = [i \in 0 .. m |-> IF i = 0 THEN FirstType(params) ELSE PassOn(c, g[i - 1], i)]
    <3>1. ASSUME NEW i \in 0 .. m
          PROVE  (IF i = 0 THEN FirstType(params) ELSE PassOn(c, f[i - 1], i))
                   = IF i = 0 THEN FirstType(params) ELSE PassOn(c, g[i - 1], i)
      BY <2>3
    <3> HIDE DEF g
    <3>2. g = [i \in 0 .. m |-> IF i = 0 THEN FirstType(params) ELSE PassOn(c, f[i - 1], i)]
      BY DEF g
    <3> QED BY <3>1, <3>2
  <2>5. Flows(g, c, params, m)
    <3> HIDE DEF g
    <3> QED BY <2>4 DEF Flows
  <2> QED BY <1>2, <2>5
<1> QED BY <1>3, <1>4

LEMMA FlowFlows ==
  ASSUME NEW c, NEW params, Len(c) \in Nat
  PROVE  \E f : Flows(f, c, params, Len(c)) /\ Flow(c, params) = f[Len(c)]
<1> DEFINE F == CHOOSE f : Flows(f, c, params, Len(c))
<1>1. Flows(F, c, params, Len(c))
  BY FlowsAt
<1>2. Flow(c, params) = F[Len(c)]
  BY DEF Flow, Flows, PassOn, Pass, PassBound, FirstType
<1> QED BY <1>1, <1>2

(* A flow through the first n positions, if code c has the typing ty. *)
Flowing(c, params, ty, F, n) ==
  /\ DOMAIN F \subseteq DOMAIN ty /\ 1 \in DOMAIN F /\ F[1].depth = 0 /\ F[1].bound = params
  /\ \A m \in DOMAIN F : /\ F[m] = [depth |-> ty[m].depth, bound |-> F[m].bound]
                         /\ ty[m].bound \cup params \subseteq F[m].bound
  /\ \A k \in DOMAIN F : k <= n =>
       /\ \A m \in Follows(c, k) : m \in DOMAIN F /\ F[m].bound \subseteq F[k].bound \cup Binds(c[k])
       /\ \A h \in Handlers(c, k) : h \in DOMAIN F /\ F[h].bound \subseteq F[k].bound

LEMMA FlowsOn ==
  ASSUME NEW c, NEW params, NEW ty, IsTyping(c, params, ty), IsSeq(c), NEW n \in 1 .. Len(c),
         NEW F, Flowing(c, params, ty, F, n - 1)
  PROVE  Flowing(c, params, ty, PassOn(c, F, n), n)
<1> DEFINE G == Pass(c, F, n)
           E == Follows(c, n) \cup Handlers(c, n)
           P(m) == PassBound(c, F, n, m)
<1>1. DOMAIN c = 1 .. Len(c) /\ Len(c) \in Nat /\ DOMAIN ty \subseteq 1 .. Len(c) /\ DOMAIN F \subseteq DOMAIN ty
  BY SeqFacts DEF IsTyping, Flowing
<1>2. CASE n \notin DOMAIN F
  <2>1. PassOn(c, F, n) = F
    BY <1>2 DEF PassOn
  <2>2. ASSUME NEW k \in DOMAIN F, k <= n PROVE k <= n - 1
    BY <1>1, <1>2, <2>2
  <2> QED BY <2>1, <2>2 DEF Flowing
<1>3. CASE n \in DOMAIN F
  <2>1. PassOn(c, F, n) = G /\ n \in DOMAIN ty
    BY <1>1, <1>3 DEF PassOn
  <2>2. /\ \A m \in Follows(c, n) :
             /\ m \in DOMAIN ty /\ m > n /\ ty[m].depth = ty[n].depth - Takes(c[n]) + Gives(c[n])
             /\ ty[m].bound \subseteq ty[n].bound \cup Binds(c[n])
        /\ \A h \in Handlers(c, n) :
             h \in DOMAIN ty /\ h > n /\ ty[h].depth = 0 /\ ty[h].bound \subseteq ty[n].bound
    BY <2>1 DEF IsTyping
  <2>3. /\ F[1].depth = 0 /\ F[1].bound = params /\ 1 \in DOMAIN F
        /\ \A m \in DOMAIN F : /\ F[m] = [depth |-> ty[m].depth, bound |-> F[m].bound]
                               /\ ty[m].bound \cup params \subseteq F[m].bound
    BY DEF Flowing
  <2>4. /\ DOMAIN G = DOMAIN F \cup E
        /\ \A m \in DOMAIN F : m \notin E => G[m] = F[m]
    BY DEF Pass
  <2>5. ASSUME NEW m \in DOMAIN F, m \in E
        PROVE  G[m] = [depth |-> ty[m].depth, bound |-> F[m].bound \cap P(m)]
    <3>1. G[m] = [F[m] EXCEPT !.bound = @ \cap P(m)]
      BY <2>5 DEF Pass
    <3>2. F[m] = [depth |-> ty[m].depth, bound |-> F[m].bound]
      BY <2>3
    <3> HIDE DEF G, P
    <3> DEFINE y == ty[m].depth
               z == P(m)
               w == F[m].bound
    <3> HIDE DEF y, z, w
    <3>3. F[m] = [depth |-> y, bound |-> w] /\ G[m] = [F[m] EXCEPT !.bound = @ \cap z]
      BY <3>1, <3>2 DEF y, z, w
    <3>4. [[depth |-> y, bound |-> w] EXCEPT !.bound = @ \cap z] = [depth |-> y, bound |-> w \cap z]
      <4>1. ASSUME NEW e PROVE [[depth |-> y, bound |-> w] EXCEPT !.bound = e] = [depth |-> y, bound |-> e]
        OBVIOUS
      <4>2. [depth |-> y, bound |-> w].bound = w
        OBVIOUS
      <4> QED BY <4>1, <4>2
    <3> QED BY <3>3, <3>4 DEF y, z, w
  <2>6. F[n].depth = ty[n].depth
    BY <1>3, <2>3
  <2>7. ASSUME NEW m \in E, m \notin DOMAIN F
        PROVE  G[m] = [depth |-> ty[m].depth, bound |-> P(m)]
    <3>1. G[m] = [depth |-> IF m \in Handlers(c, n) THEN 0 ELSE F[n].depth - Takes(c[n]) + Gives(c[n]),
                  bound |-> P(m)]
      BY <2>7 DEF Pass
    <3> HIDE DEF G, P
    <3>2. ty[m].depth = IF m \in Handlers(c, n) THEN 0 ELSE F[n].depth - Takes(c[n]) + Gives(c[n])
      BY <2>2, <2>6, <2>7
    <3> QED BY <3>1, <3>2
  <2>8. ASSUME NEW m \in E PROVE m \in DOMAIN ty /\ m > n /\ ty[m].bound \cup params \subseteq P(m)
    BY <1>3, <2>2, <2>3, <2>8 DEF PassBound
  <2> HIDE DEF G
  <2>9. ASSUME NEW m \in DOMAIN G
        PROVE  /\ G[m] = [depth |-> ty[m].depth, bound |-> G[m].bound]
               /\ ty[m].bound \cup params \subseteq G[m].bound
               /\ m \in DOMAIN F => G[m].bound \subseteq F[m].bound
               /\ m \in E => G[m].bound \subseteq P(m)
    <3>1. CASE m \in DOMAIN F /\ m \notin E
      BY <2>3, <2>4, <3>1
    <3>2. CASE m \in DOMAIN F /\ m \in E
      <4> DEFINE X == F[m].bound \cap P(m)
      <4>1. G[m] = [depth |-> ty[m].depth, bound |-> X]
        BY <2>5, <3>2
      <4>2. ty[m].bound \cup params \subseteq X /\ X \subseteq F[m].bound /\ X \subseteq P(m)
        BY <2>3, <2>8, <3>2
      <4> HIDE DEF X, P
      <4> QED BY <4>1, <4>2
    <3>3. CASE m \notin DOMAIN F
      <4>1. m \in E
        BY <2>4, <3>3
      <4>2. G[m] = [depth |-> ty[m].depth, bound |-> P(m)] /\ ty[m].bound \cup params \subseteq P(m)
        BY <2>7, <2>8, <3>3, <4>1
      <4> HIDE DEF P
      <4> QED BY <3>3, <4>2
    <3> QED BY <3>1, <3>2, <3>3
  <2>10. ASSUME NEW k \in DOMAIN G, k <= n PROVE k \in DOMAIN F /\ G[k] = F[k]
    <3>1. k \notin E
      BY <1>1, <2>8, <2>10
    <3> QED BY <2>4, <3>1
  <2>11. ASSUME NEW k \in DOMAIN G, k <= n
         PROVE  /\ \A m \in Follows(c, k) : m \in DOMAIN G /\ G[m].bound \subseteq G[k].bound \cup Binds(c[k])
                /\ \A h \in Handlers(c, k) : h \in DOMAIN G /\ G[h].bound \subseteq G[k].bound
    <3>1. k \in DOMAIN F /\ G[k] = F[k]
      BY <2>10, <2>11
    <3>2. CASE k = n
      <4>1. ASSUME NEW m \in Follows(c, n) PROVE m \in DOMAIN G /\ G[m].bound \subseteq F[n].bound \cup Binds(c[n])
        <5>1. m \in E /\ P(m) \subseteq F[n].bound \cup Binds(c[n])
          BY DEF PassBound
        <5>2. m \in DOMAIN G /\ G[m].bound \subseteq P(m)
          BY <2>4, <2>9, <5>1
        <5> QED BY <5>1, <5>2
      <4>2. ASSUME NEW m \in Handlers(c, n) PROVE m \in DOMAIN G /\ G[m].bound \subseteq F[n].bound
        <5>1. m \in E /\ P(m) \subseteq F[n].bound
          BY DEF PassBound
        <5>2. m \in DOMAIN G /\ G[m].bound \subseteq P(m)
          BY <2>4, <2>9, <5>1
        <5> QED BY <5>1, <5>2
      <4> QED BY <3>1, <3>2, <4>1, <4>2
    <3>3. CASE k # n
      <4>1. k <= n - 1
        BY <1>1, <2>11, <3>1, <3>3
      <4>2. /\ \A m \in Follows(c, k) : m \in DOMAIN F /\ F[m].bound \subseteq F[k].bound \cup Binds(c[k])
            /\ \A h \in Handlers(c, k) : h \in DOMAIN F /\ F[h].bound \subseteq F[k].bound
        BY <3>1, <4>1 DEF Flowing
      <4>3. ASSUME NEW m \in DOMAIN F PROVE m \in DOMAIN G /\ G[m].bound \subseteq F[m].bound
        BY <2>4, <2>9
      <4> QED BY <3>1, <4>2, <4>3
    <3> QED BY <3>2, <3>3
  <2>12. DOMAIN G \subseteq DOMAIN ty
    BY <1>1, <2>4, <2>8
  <2>13. 1 \in DOMAIN G /\ G[1] = F[1]
    <3>1. 1 \in DOMAIN G /\ 1 <= n
      BY <2>3, <2>4
    <3> QED BY <2>10, <3>1
  <2>14. Flowing(c, params, ty, G, n)
    BY <2>3, <2>9, <2>11, <2>12, <2>13 DEF Flowing
  <2> QED BY <2>1, <2>14
<1> QED BY <1>2, <1>3

(* The typing that TLC computes from front to back stands for all of them:  *)
(* code is sound on all its paths exactly if Flow gives it a sound typing,  *)
(* so that what the run checks of a code is what the proofs need of it.     *)
THEOREM FlowFits ==
  ASSUME NEW c, IsSeq(c), NEW params, NEW rets, NEW ty, Fits(c, params, rets, ty)
  PROVE  /\ Fits(c, params, rets, Flow(c, params))
         /\ \A m \in DOMAIN Flow(c, params) : /\ IsType(Flow(c, params)[m])
                                              /\ params \subseteq Flow(c, params)[m].bound
<1> DEFINE N == Len(c)
           F == Flow(c, params)
<1>1. N \in Nat /\ DOMAIN c = 1 .. N /\ IsTyping(c, params, ty) /\ DOMAIN ty \subseteq 1 .. N
  BY SeqFacts DEF Fits, IsTyping
<1>2. PICK f : Flows(f, c, params, N) /\ F = f[N]
  BY <1>1, FlowFlows
<1>3. ASSUME NEW i \in 0 .. N PROVE f[i] = IF i = 0 THEN FirstType(params) ELSE PassOn(c, f[i - 1], i)
  BY <1>2 DEF Flows
<1>4. Flowing(c, params, ty, f[0], 0)
  <2>1. f[0] = FirstType(params)
    BY <1>1, <1>3
  <2>2. 1 \in DOMAIN ty /\ ty[1].depth = 0 /\ ty[1].bound \subseteq params
    BY <1>1 DEF IsTyping
  <2>3. ASSUME NEW m \in DOMAIN FirstType(params) PROVE m = 1 /\ FirstType(params)[m] = [depth |-> 0, bound |-> params]
    BY DEF FirstType
  <2>4. DOMAIN FirstType(params) = {1}
    BY DEF FirstType
  <2> QED BY <2>1, <2>2, <2>3, <2>4 DEF Flowing
<1> DEFINE S == {i \in 0 .. N : ~Flowing(c, params, ty, f[i], i)}
<1>5. ASSUME S # {} PROVE FALSE
  <2>1. PICK x \in S : \A y \in S : x <= y
    <3>1. S \in SUBSET Nat
      BY <1>1
    <3> HIDE DEF S
    <3> QED BY <1>5, <3>1, LeastOf
  <2>2. x \in 0 .. N /\ ~Flowing(c, params, ty, f[x], x)
    OBVIOUS
  <2>3. x \in 1 .. N /\ x - 1 \in 0 .. N /\ x - 1 < x /\ x # 0
    BY <1>1, <1>4, <2>2
  <2>4. Flowing(c, params, ty, f[x - 1], x - 1)
    BY <2>1, <2>3
  <2> HIDE DEF S
  <2>5. f[x] = PassOn(c, f[x - 1], x)
    BY <1>3, <2>2, <2>3
  <2>6. Flowing(c, params, ty, PassOn(c, f[x - 1], x), x)
    BY <1>1, <2>3, <2>4, FlowsOn
  <2> QED BY <2>2, <2>5, <2>6
<1>6. Flowing(c, params, ty, F, N)
  <2>1. N \in 0 .. N
    BY <1>1
  <2> QED BY <1>2, <1>5, <2>1
<1> HIDE DEF F
<1>7. ASSUME NEW n \in DOMAIN F
      PROVE  /\ n \in DOMAIN ty /\ n \in 1 .. N /\ n <= N
             /\ F[n] = [depth |-> ty[n].depth, bound |-> F[n].bound]
             /\ F[n].depth = ty[n].depth /\ ty[n].bound \cup params \subseteq F[n].bound
  BY <1>1, <1>6 DEF Flowing
<1>8. ASSUME NEW n \in DOMAIN F
      PROVE  /\ ty[n].depth \in Nat /\ Takes(c[n]) \in 0 .. ty[n].depth
             /\ Op(c[n]) = "LOAD_FAST" => Arg(c[n]) \in ty[n].bound
             /\ Jumps(c[n]) => HasGoal(c, Arg(c[n]))
             /\ \A m \in Follows(c, n) : m > n /\ ty[m].depth = ty[n].depth - Takes(c[n]) + Gives(c[n])
             /\ \A h \in Handlers(c, n) : h > n /\ ty[h].depth = 0
             /\ Op(c[n]) = "RETURN_VALUE" => ty[n].depth \in rets
  BY <1>1, <1>7 DEF IsTyping, Fits
<1>9. ASSUME NEW n \in DOMAIN F
      PROVE  /\ \A m \in Follows(c, n) : m \in DOMAIN F /\ F[m].bound \subseteq F[n].bound \cup Binds(c[n])
             /\ \A h \in Handlers(c, n) : h \in DOMAIN F /\ F[h].bound \subseteq F[n].bound
  BY <1>6, <1>7 DEF Flowing
<1>10. ASSUME NEW n \in DOMAIN F
       PROVE  /\ F[n].depth \in Nat /\ Takes(c[n]) \in 0 .. F[n].depth
              /\ Op(c[n]) = "LOAD_FAST" => Arg(c[n]) \in F[n].bound
              /\ Jumps(c[n]) => HasGoal(c, Arg(c[n]))
              /\ \A m \in Follows(c, n) :
                   /\ m \in DOMAIN F /\ m > n /\ F[m].depth = F[n].depth - Takes(c[n]) + Gives(c[n])
                   /\ F[m].bound \subseteq F[n].bound \cup Binds(c[n])
              /\ \A h \in Handlers(c, n) :
                   h \in DOMAIN F /\ h > n /\ F[h].depth = 0 /\ F[h].bound \subseteq F[n].bound
              /\ Op(c[n]) = "RETURN_VALUE" => F[n].depth \in rets
  BY <1>7, <1>8, <1>9
<1>11. \A n \in DOMAIN c : Op(c[n]) = "TRY_BEGIN" => HasGoal(c, Arg(c[n])[1])
  BY <1>1 DEF IsTyping
<1>12. 1 \in DOMAIN F /\ F[1].depth = 0 /\ F[1].bound \subseteq params /\ DOMAIN F \subseteq DOMAIN c
  BY <1>1, <1>6, <1>7 DEF Flowing
<1>13. IsTyping(c, params, F)
  BY <1>10, <1>11, <1>12 DEF IsTyping
<1>14. Fits(c, params, rets, F)
  BY <1>10, <1>13 DEF Fits
<1>15. ASSUME NEW m \in DOMAIN F PROVE IsType(F[m]) /\ params \subseteq F[m].bound
  BY <1>7, <1>10 DEF IsType
<1> QED BY <1>14, <1>15 DEF F

----------------------------------------------------------------------------
(* The guards of Build keep code sound.                                     *)

(* Where Build looks for a place behind which a guard can go. *)
IsPlace(c, n) == n \in 1 .. Len(c) /\ Op(c[n]) \in {"RESUME", "STORE_FAST"}

LEMMA ResumeIsFirst == ASSUME NEW c, Ready(c) PROVE AfterResume(c) = 1 /\ IsPlace(c, 1)
<1> DEFINE I == {i \in 1 .. Len(c) : Op(c[i]) = "RESUME"}
<1>1. Len(c) \in Nat \ {0}
  BY SeqFacts DEF Ready
<1>2. 1 \in I
  BY <1>1 DEF Ready
<1>3. I \in SUBSET Nat
  OBVIOUS
<1>4. Min(I) \in I /\ Min(I) <= 1
  <2> HIDE DEF I
  <2> QED BY <1>2, <1>3, MinOf
<1>5. AfterResume(c) = Min(I)
  BY <1>2 DEF AfterResume, SelectInSeq
<1>6. Min(I) = 1
  <2> DEFINE m == Min(I)
  <2>1. m \in Nat /\ m >= 1 /\ m <= 1
    BY <1>4
  <2> HIDE DEF m
  <2>2. m = 1
    BY <2>1
  <2> QED BY <2>2 DEF m
<1> QED BY <1>2, <1>5, <1>6 DEF IsPlace

LEMMA StoreIsPlace == ASSUME NEW c, NEW v, NEW n \in 1 .. Len(c), c[n] = StoreFast(v) PROVE IsPlace(c, n)
BY DEF IsPlace, StoreFast, Op

LEMMA FirstStoreIsPlace ==
  ASSUME NEW c, Ready(c), NEW v, FirstStore(c, v) # 0 PROVE IsPlace(c, FirstStore(c, v)) /\ FirstStore(c, v) > 0
<1> DEFINE I == {i \in 1 .. Len(c) : c[i] = StoreFast(v)}
<1>1. I # {} /\ FirstStore(c, v) = Min(I)
  BY DEF FirstStore, SelectInSeq
<1>2. I \in SUBSET Nat
  BY SeqFacts DEF Ready
<1>3. Min(I) \in I
  <2> HIDE DEF I
  <2> QED BY <1>1, <1>2, MinOf
<1> QED BY <1>1, <1>3, StoreIsPlace

LEMMA LastStoreIs ==
  ASSUME NEW c, Ready(c), NEW v
  PROVE  LastStore(c, v) \in 0 .. Len(c) /\ (LastStore(c, v) # 0 => IsPlace(c, LastStore(c, v)))
<1> DEFINE I == {i \in 1 .. Len(c) : c[i] = StoreFast(v)}
<1>1. Len(c) \in Nat
  BY SeqFacts DEF Ready
<1>2. LastStore(c, v) = IF I # {} THEN Max(I) ELSE 0
  BY DEF LastStore, SelectLastInSeq
<1>3. I \in SUBSET (0 .. Len(c))
  BY <1>1
<1>4. I # {} => Max(I) \in I
  <2> HIDE DEF I
  <2> QED BY <1>1, <1>3, MaxOf
<1>5. CASE I = {}
  BY <1>1, <1>2, <1>5
<1>6. CASE I # {}
  BY <1>1, <1>2, <1>4, <1>6, StoreIsPlace
<1> QED BY <1>5, <1>6

LEMMA BeforeUseIsPlace ==
  ASSUME NEW c, Ready(c), NEW v, StoreBeforeUse(c, v) # 0
  PROVE  IsPlace(c, StoreBeforeUse(c, v)) /\ StoreBeforeUse(c, v) > 0
<1> DEFINE uses == {i \in 1 .. Len(c) - 1 : c[i] = LoadFast(v) /\ Op(c[i + 1]) \in MethodOps}
           end  == IF uses = {} THEN Len(c) + 1 ELSE Min(uses)
           I == {i \in 1 .. end - 1 : c[i] = StoreFast(v)}
<1>1. Len(c) \in Nat
  BY SeqFacts DEF Ready
<1>2. I # {} /\ StoreBeforeUse(c, v) = Max(I)
  BY DEF StoreBeforeUse, SelectLastInSubSeq
<1>3. end \in 0 .. Len(c) + 1
  <2>1. uses \in SUBSET Nat /\ uses \subseteq 1 .. Len(c) - 1
    BY <1>1
  <2>2. uses # {} => Min(uses) \in uses
    <3> HIDE DEF uses
    <3> QED BY <2>1, MinOf
  <2> QED BY <1>1, <2>1, <2>2
<1>4. \A i \in I : i \in 1 .. Len(c) /\ c[i] = StoreFast(v)
  <2> HIDE DEF end
  <2> QED BY <1>1, <1>3
<1> HIDE DEF end
<1>5. Max(I) \in I
  <2>1. I \in SUBSET (0 .. Len(c))
    BY <1>1, <1>4
  <2> HIDE DEF I
  <2> QED BY <1>1, <1>2, <2>1, MaxOf
<1> QED BY <1>1, <1>2, <1>4, <1>5, StoreIsPlace

LEMMA LastOrResumeIsPlace ==
  ASSUME NEW c, Ready(c), NEW V, V # {}
  PROVE  IsPlace(c, LastStoreOrResume(c, V)) /\ LastStoreOrResume(c, V) # 0
<1> DEFINE stores == {LastStore(c, v) : v \in V}
<1>1. Len(c) \in Nat
  BY SeqFacts DEF Ready
<1>2. LastStoreOrResume(c, V) = IF stores = {0} THEN AfterResume(c) ELSE Max(stores)
  BY DEF LastStoreOrResume
<1>3. \A x \in stores : x \in 0 .. Len(c) /\ (x # 0 => IsPlace(c, x))
  BY LastStoreIs
<1>4. stores # {}
  OBVIOUS
<1> HIDE DEF stores
<1>5. CASE stores = {0}
  BY <1>2, <1>5, ResumeIsFirst
<1>6. CASE stores # {0}
  <2>1. stores \in SUBSET (0 .. Len(c))
    BY <1>3
  <2>2. Max(stores) \in stores /\ \A y \in stores : Max(stores) >= y
    BY <1>1, <1>4, <2>1, MaxOf
  <2>3. PICK y \in stores : y # 0
    BY <1>4, <1>6
  <2>4. Max(stores) # 0
    BY <1>1, <1>3, <2>2, <2>3
  <2> QED BY <1>2, <1>3, <1>6, <2>2, <2>4
<1> QED BY <1>5, <1>6

(* p is a guard for code of length n that reads these variables. *)
GuardFor(p, variables, returns, n) ==
  \A u, rets : IsType(u) /\ variables \subseteq u.bound /\ (returns => u.depth + 1 \in rets) => Guards(p, u, rets, n)

LEMMA FittingFlow ==
  ASSUME NEW c, NEW params, NEW rets, Fitting(c, params, rets)
  PROVE  Fits(c, params, rets, Flow(c, params))
BY FlowFits DEF Fitting, Ready

LEMMA InsertFitting ==
  ASSUME NEW c, NEW params, NEW rets, Fitting(c, params, rets), NEW n, IsPlace(c, n), NEW p, NEW variables,
         NEW returns \in BOOLEAN, GuardFor(p, variables, returns, Len(c)), Behind(c, n, variables, returns, params, rets)
  PROVE  Fitting(Insert(c, n, p), params, rets)
<1> DEFINE ty == Flow(c, params)
<1>1. Ready(c) /\ Fits(c, params, rets, ty) /\ n \in 1 .. Len(c) /\ Op(c[n]) \in {"RESUME", "STORE_FAST"}
  BY FittingFlow DEF Fitting, IsPlace
<1>2. IsSeq(p) /\ Len(p) # 0 /\ Labelled(p, Len(c))
  <2> DEFINE u == [depth |-> 0, bound |-> variables]
  <2>1. IsType(u) /\ variables \subseteq u.bound /\ u.depth + 1 \in Nat
    BY DEF IsType
  <2> HIDE DEF u
  <2>2. Guards(p, u, Nat, Len(c))
    BY <2>1 DEF GuardFor
  <2> QED BY <2>2 DEF Guards
<1>3. n \in DOMAIN ty => \E pt : Does(p, Nothing, After(c[n], ty[n]), rets, pt)
  <2> SUFFICES ASSUME n \in DOMAIN ty PROVE \E pt : Does(p, Nothing, After(c[n], ty[n]), rets, pt)
    OBVIOUS
  <2> DEFINE u == After(c[n], ty[n])
  <2>1. ty[n].depth \in Nat /\ Takes(c[n]) \in 0 .. ty[n].depth
    BY <1>1 DEF Fits, IsTyping
  <2>2. variables \subseteq ty[n].bound \cup Binds(c[n]) /\ (returns => ty[n].depth - Takes(c[n]) + 1 \in rets)
    BY DEF Behind
  <2>3. Gives(c[n]) = 0
    BY <1>1 DEF Gives, JumpOps
  <2> HIDE DEF ty
  <2>4. /\ u.depth = ty[n].depth - Takes(c[n]) /\ u.bound = ty[n].bound \cup Binds(c[n])
        /\ u = [depth |-> u.depth, bound |-> u.bound] /\ u.depth \in Nat
    BY <2>1, <2>3 DEF After
  <2> HIDE DEF u
  <2>5. Guards(p, u, rets, Len(c))
    BY <2>2, <2>4 DEF GuardFor, IsType
  <2> QED BY <2>5 DEF Guards, u
<1> HIDE DEF ty
<1> QED BY <1>1, <1>2, <1>3, InsertFits DEF Fitting

LEMMA NewOf == \A c, i : New(c, i)[1] = Len(c)
BY DEF New

LEMMA EntryFits ==
  ASSUME NEW c, NEW params, NEW rets, Fitting(c, params, rets), NEW v, NEW d,
         Behind(c, AfterResume(c), {v}, TRUE, params, rets)
  PROVE  Fitting(EntryPointNullGuard(c, v, d), params, rets)
<1> DEFINE l == <<"skip", New(c, 0)>>
           p == IfNone(v, l, ReturnConst(d))
<1>1. IsPlace(c, AfterResume(c))
  BY ResumeIsFirst DEF Fitting
<1>2. GuardFor(p, {v}, TRUE, Len(c))
  <2>1. l[2][1] = Len(c)
    BY NewOf
  <2> HIDE DEF l
  <2> QED BY <2>1, NoneReturns DEF GuardFor
<1> HIDE DEF p
<1>3. Fitting(Insert(c, AfterResume(c), p), params, rets)
  BY <1>1, <1>2, InsertFitting
<1> QED BY <1>3 DEF p, EntryPointNullGuard

LEMMA StoredRootFits ==
  ASSUME NEW c, NEW params, NEW rets, Fitting(c, params, rets), NEW v, NEW d,
         Behind(c, StoreBeforeUse(c, v), {v}, TRUE, params, rets)
  PROVE  Fitting(StoredRootGuard(c, v, d), params, rets)
<1> DEFINE l == <<"skip", New(c, 0)>>
           p == IfNone(v, l, ReturnConst(d))
<1>1. IsPlace(c, StoreBeforeUse(c, v))
  BY BeforeUseIsPlace DEF Fitting, Behind
<1>2. GuardFor(p, {v}, TRUE, Len(c))
  <2>1. l[2][1] = Len(c)
    BY NewOf
  <2> HIDE DEF l
  <2> QED BY <2>1, NoneReturns DEF GuardFor
<1> HIDE DEF p
<1>3. Fitting(Insert(c, StoreBeforeUse(c, v), p), params, rets)
  BY <1>1, <1>2, InsertFitting
<1> QED BY <1>3 DEF p, StoredRootGuard

LEMMA IndexFits ==
  ASSUME NEW c, NEW params, NEW rets, Fitting(c, params, rets), NEW v, NEW list, NEW d,
         Behind(c, LastStoreOrResume(c, {v, list}), {v, list}, TRUE, params, rets)
  PROVE  Fitting(IndexGuard(c, v, list, d), params, rets)
<1> DEFINE l == <<"skip", New(c, 0)>>
           p == IndexBlock(v, list, l, d)
           n == LastStoreOrResume(c, {v, list})
<1>1. IsPlace(c, n)
  BY LastOrResumeIsPlace DEF Fitting
<1>2. GuardFor(p, {v, list}, TRUE, Len(c))
  <2>1. l[2][1] = Len(c)
    BY NewOf
  <2> HIDE DEF l
  <2> QED BY <2>1, IndexReturns DEF GuardFor
<1>4. Insert(c, n, p) = IndexGuard(c, v, list, d)
  BY DEF IndexGuard, IndexBlock
<1> HIDE DEF p, n
<1>3. Fitting(Insert(c, n, p), params, rets)
  BY <1>1, <1>2, InsertFitting DEF n
<1> QED BY <1>3, <1>4

LEMMA ListBoundFits ==
  ASSUME NEW c, NEW params, NEW rets, Fitting(c, params, rets), NEW v, NEW i, NEW d,
         Behind(c, LastStoreOrResume(c, {v}), {v}, TRUE, params, rets)
  PROVE  Fitting(ListBoundGuard(c, v, i, d), params, rets)
<1> DEFINE l == <<"skip", New(c, 0)>>
           p == ListBoundBlock(v, i, l, d)
           n == LastStoreOrResume(c, {v})
<1>1. IsPlace(c, n)
  BY LastOrResumeIsPlace DEF Fitting
<1>2. GuardFor(p, {v}, TRUE, Len(c))
  <2>1. l[2][1] = Len(c)
    BY NewOf
  <2> HIDE DEF l
  <2> QED BY <2>1, BoundReturns DEF GuardFor
<1>4. Insert(c, n, p) = ListBoundGuard(c, v, i, d)
  BY DEF ListBoundGuard, ListBoundBlock
<1> HIDE DEF p, n
<1>3. Fitting(Insert(c, n, p), params, rets)
  BY <1>1, <1>2, InsertFitting DEF n
<1> QED BY <1>3, <1>4

LEMMA FileFits ==
  ASSUME NEW c, NEW params, NEW rets, Fitting(c, params, rets), NEW v, NEW d,
         Behind(c, LastStoreOrResume(c, {v}), {v}, TRUE, params, rets)
  PROVE  Fitting(FileGuard(c, v, d), params, rets)
<1> DEFINE l == <<"skip", New(c, 0)>>
           p == FileBlock(v, l, d)
           n == LastStoreOrResume(c, {v})
<1>1. IsPlace(c, n)
  BY LastOrResumeIsPlace DEF Fitting
<1>2. GuardFor(p, {v}, TRUE, Len(c))
  <2>1. l[2][1] = Len(c)
    BY NewOf
  <2> HIDE DEF l
  <2> QED BY <2>1, FileReturns DEF GuardFor
<1>4. Insert(c, n, p) = FileGuard(c, v, d)
  BY DEF FileGuard, FileBlock
<1> HIDE DEF p, n
<1>3. Fitting(Insert(c, n, p), params, rets)
  BY <1>1, <1>2, InsertFitting DEF n
<1> QED BY <1>3, <1>4

LEMMA StrCoerceFits ==
  ASSUME NEW c, NEW params, NEW rets, Fitting(c, params, rets), NEW v,
         Behind(c, LastStoreOrResume(c, {v}), {v}, FALSE, params, rets)
  PROVE  Fitting(StrCoerceGuard(c, v), params, rets)
<1> DEFINE l == <<"skip", New(c, 0)>>
           p == StrCoerceBlock(v, l)
           n == LastStoreOrResume(c, {v})
<1>1. IsPlace(c, n)
  BY LastOrResumeIsPlace DEF Fitting
<1>2. GuardFor(p, {v}, FALSE, Len(c))
  <2>1. l[2][1] = Len(c)
    BY NewOf
  <2> HIDE DEF l
  <2> QED BY <2>1, TextAssigns DEF GuardFor
<1>4. Insert(c, n, p) = StrCoerceGuard(c, v)
  BY DEF StrCoerceGuard, StrCoerceBlock
<1> HIDE DEF p, n
<1>3. Fitting(Insert(c, n, p), params, rets)
  BY <1>1, <1>2, InsertFitting DEF n
<1> QED BY <1>3, <1>4

LEMMA TypeCoercionFits ==
  ASSUME NEW c, NEW params, NEW rets, Fitting(c, params, rets), NEW v, NEW d,
         Behind(c, IF FirstStore(c, v) > 0 THEN FirstStore(c, v) ELSE AfterResume(c), {v}, FALSE, params, rets)
  PROVE  Fitting(TypeCoercionGuard(c, v, d), params, rets)
<1> DEFINE l == <<"skip", New(c, 0)>>
           l2 == <<"digits", New(c, 0)>>
           p == IF d[1] = "int" THEN NumberBlock(v, l, l2, d) ELSE IfNone(v, l, AssignConst(v, d))
           n == IF FirstStore(c, v) > 0 THEN FirstStore(c, v) ELSE AfterResume(c)
<1>1. IsPlace(c, n)
  <2>1. CASE FirstStore(c, v) > 0
    <3>1. FirstStore(c, v) # 0
      BY <2>1
    <3> QED BY <2>1, <3>1, FirstStoreIsPlace DEF Fitting
  <2>2. CASE ~(FirstStore(c, v) > 0)
    BY <2>2, ResumeIsFirst DEF Fitting
  <2> QED BY <2>1, <2>2
<1>2. GuardFor(p, {v}, FALSE, Len(c))
  <2>1. l[2][1] = Len(c) /\ l2[2][1] = Len(c) /\ l2 # l
    BY NewOf
  <2> HIDE DEF l, l2
  <2> QED BY <2>1, NumberAssigns, NoneAssigns DEF GuardFor
<1>4. Insert(c, n, p) = TypeCoercionGuard(c, v, d)
  BY DEF TypeCoercionGuard, NumberBlock
<1> HIDE DEF p, n
<1>3. Fitting(Insert(c, n, p), params, rets)
  BY <1>1, <1>2, InsertFitting DEF n
<1> QED BY <1>3, <1>4

LEMMA ChainWalkFits ==
  ASSUME NEW c, NEW params, NEW rets, Fitting(c, params, rets), NEW v, NEW attrs, IsSeq(attrs), attrs # <<>>, NEW d,
         Behind(c, AfterResume(c), {v}, TRUE, params, rets)
  PROVE  Fitting(ChainWalkGuard(c, v, attrs, d), params, rets)
<1> DEFINE n == New(c, 0)
           p == WalkBlock(v, attrs, d, n)
<1>1. IsPlace(c, AfterResume(c))
  BY ResumeIsFirst DEF Fitting
<1>2. GuardFor(p, {v}, TRUE, Len(c))
  <2>1. n[1] = Len(c)
    BY NewOf
  <2>2. Len(attrs) # 0
    BY SeqFacts
  <2> DEFINE dl == <<"default", n>>
             el == <<"end", n>>
  <2>3. PICK w, place, H : IsWalkBlock(p, w, place, H, v, d, dl, el)
    <3> HIDE DEF n
    <3> QED BY <2>2, WalkBlockIs
  <2>4. dl # el /\ dl[2][1] = Len(c) /\ el[2][1] = Len(c)
    BY <2>1
  <2> HIDE DEF p, dl, el
  <2> QED BY <2>3, <2>4, WalkReturns DEF GuardFor
<1>4. Insert(c, AfterResume(c), p) = ChainWalkGuard(c, v, attrs, d)
  BY DEF ChainWalkGuard, WalkBlock, WalkStep, WalkTest
<1> HIDE DEF p
<1>3. Fitting(Insert(c, AfterResume(c), p), params, rets)
  BY <1>1, <1>2, InsertFitting
<1> QED BY <1>3, <1>4

(* The same with a block in the place of instruction n. *)
LEMMA SpliceFitting ==
  ASSUME NEW c, NEW params, NEW rets, Fitting(c, params, rets), NEW n \in 2 .. Len(c), NEW b, IsSeq(b), Len(b) # 0,
         Labelled(b, Len(c)), NEW d, Spliced(d, c, n, b), Op(c[n]) \notin Marks, ~Jumps(c[n]),
         \A ty : Fits(c, params, rets, ty) /\ n \in DOMAIN ty /\ IsType(ty[n]) => \E bt : Does(b, c[n], ty[n], rets, bt)
  PROVE  Fitting(d, params, rets)
<1> DEFINE ty == Flow(c, params)
<1>1. Ready(c) /\ Fits(c, params, rets, ty) /\ IsSeq(c)
  BY FittingFlow DEF Fitting, Ready
<1>2. \A m \in DOMAIN ty : IsType(ty[m])
  BY <1>1, FlowFits
<1> HIDE DEF ty
<1>3. n \in 1 .. Len(c) /\ n # 1
  OBVIOUS
<1>4. Ready(d)
  BY <1>1, <1>3, SplicedReady
<1>5. Foreign(b, c)
  BY <1>1, LabelledForeign DEF Ready
<1>6. PICK bt : n \in DOMAIN ty => Does(b, c[n], ty[n], rets, bt)
  BY <1>1, <1>2
<1>7. \E ty2 : Fits(d, params, rets, ty2)
  BY <1>1, <1>3, <1>5, <1>6, SplicedFits
<1> QED BY <1>4, <1>7 DEF Fitting

LEMMA ConstantDoes ==
  ASSUME NEW d, NEW x, NEW u, IsType(u), NEW rets
  PROVE  \E bt : Does(<<LoadConst(d)>>, LoadConst(x), u, rets, bt)
<1> DEFINE b == <<LoadConst(d)>>
           h == [k \in 1 .. 2 |-> k - 1]
           g == [k \in 1 .. 2 |-> {}]
<1>1. IsSeq(b) /\ Len(b) = 1 /\ b[1] = LoadConst(d)
  BY ShortSeqs
<1>2. h[1] = 0 /\ h[2] = 1 /\ g[1] = {} /\ g[2] = {} /\ h[1 + 1] = 1 /\ g[1 + 1] = {}
  OBVIOUS
<1>3. Plain(LoadConst(d), 0, 1) /\ Plain(LoadConst(x), 0, 1)
  BY Effects
<1>4. Binds(LoadConst(x)) = {}
  BY DEF Binds, LoadConst, Op
<1>5. u.depth \in Nat /\ u = [depth |-> u.depth, bound |-> u.bound]
  BY DEF IsType
<1> DEFINE i == LoadConst(x)
<1>6. Plain(i, 0, 1) /\ Binds(i) = {} /\ Plain(b[1], 0, 1)
  BY <1>1, <1>3, <1>4
<1> HIDE DEF b, h, g, i
<1>7. Sound(b, u, h, g, rets, 1)
  BY <1>2, <1>5, <1>6 DEF Sound, Plain
<1>8. \A k \in 1 .. 1 : Sound(b, u, h, g, rets, k)
  BY <1>7
<1>9. Falls(i) /\ Takes(i) = 0 /\ Gives(i) = 1
  BY <1>6 DEF Plain
<1>11. Falls(b[1]) => /\ Falls(i) /\ Takes(i) \in Int /\ h[1 + 1] = Gives(i) - Takes(i) /\ Binds(i) = {}
  BY <1>2, <1>6, <1>9
<1>12. 1 \in Nat \ {0}
  OBVIOUS
<1>10. Does(b, i, u, rets, Typing(b, u, h, g))
  BY <1>1, <1>2, <1>5, <1>8, <1>11, <1>12, SoundDoes
<1> QED BY <1>10 DEF b, i

LEMMA NullFits ==
  ASSUME NEW c, NEW params, NEW rets, Fitting(c, params, rets), NEW v, NEW d,
         \/ \E i \in 1 .. Len(c) - 1 : c[i] = LoadConst(NoneV) /\ c[i + 1] = StoreFast(v)
         \/ Behind(c, IF StoreBeforeUse(c, v) > 0 THEN StoreBeforeUse(c, v) ELSE AfterResume(c), {v}, FALSE, params, rets)
  PROVE  Fitting(NullGuard(c, v, d), params, rets)
<1> DEFINE init == {i \in 1 .. Len(c) - 1 : c[i] = LoadConst(NoneV) /\ c[i + 1] = StoreFast(v)}
           at == IF StoreBeforeUse(c, v) > 0 THEN StoreBeforeUse(c, v) ELSE AfterResume(c)
           l == <<"skip", New(c, 0)>>
           p == IfNone(v, l, AssignConst(v, d))
<1>1. Ready(c) /\ IsSeq(c) /\ Len(c) \in Nat \ {0}
  BY SeqFacts DEF Fitting, Ready
<1>2. CASE init # {}
  <2> DEFINE n == Min(init)
             b == <<LoadConst(d)>>
             e == Replaced(c, n, LoadConst(d))
  <2>1. n \in init
    <3>1. init \in SUBSET Nat
      BY <1>1
    <3> HIDE DEF init
    <3> QED BY <1>2, <3>1, MinOf
  <2>2. NullGuard(c, v, d) = e
    BY <1>2 DEF NullGuard, Replaced
  <2>3. n \in 1 .. Len(c) /\ c[n] = LoadConst(NoneV)
    BY <1>1, <2>1
  <2> HIDE DEF n
  <2>4. n \in 2 .. Len(c)
    <3>1. Op(LoadConst(NoneV)) # "RESUME"
      BY DEF LoadConst, Op
    <3>2. n # 1
      BY <1>1, <2>3, <3>1 DEF Ready
    <3> QED BY <1>1, <2>3, <3>2
  <2>5. IsSeq(b) /\ Len(b) = 1 /\ b[1] = LoadConst(d)
    BY ShortSeqs
  <2>6. IsSeq(e) /\ Len(e) = Len(c) /\ e[n] = LoadConst(d) /\ \A j \in 1 .. Len(c) : j # n => e[j] = c[j]
    BY <1>1, <2>3, ExceptIsSeq
  <2> HIDE DEF e, b
  <2>7. Spliced(e, c, n, b)
    <3>1. \A k \in 1 .. 1 : n - 1 + k = n
      BY <2>4
    <3>2. \A j \in n + 1 .. Len(c) : j - 1 + 1 = j /\ j # n /\ j \in 1 .. Len(c)
      BY <1>1, <2>4
    <3>3. \A j \in 1 .. n - 1 : j # n /\ j \in 1 .. Len(c)
      BY <1>1, <2>4
    <3>4. Len(e) = Len(c) - 1 + Len(b)
      BY <1>1, <2>5, <2>6
    <3>5. \A k \in 1 .. Len(b) : e[n - 1 + k] = b[k]
      BY <2>5, <2>6, <3>1
    <3>6. \A j \in n + 1 .. Len(c) : e[j - 1 + Len(b)] = c[j]
      BY <2>5, <2>6, <3>2
    <3>7. \A j \in 1 .. n - 1 : e[j] = c[j]
      BY <2>6, <3>3
    <3> QED BY <2>6, <3>4, <3>5, <3>6, <3>7 DEF Spliced
  <2>8. Plain(LoadConst(NoneV), 0, 1) /\ Plain(LoadConst(d), 0, 1)
    BY Effects
  <2>9. Labelled(b, Len(c))
    <3>1. Plain(b[1], 0, 1)
      BY <2>5, <2>8
    <3>2. Op(b[1]) \notin {"LABEL", "TRY_BEGIN", "TRY_END"}
      BY <3>1 DEF Plain
    <3>3. \A k \in 1 .. Len(b) : k = 1
      BY <2>5
    <3> QED BY <3>2, <3>3 DEF Labelled
  <2>10. Op(c[n]) \notin Marks /\ ~Jumps(c[n])
    BY <2>3, <2>8 DEF Plain, Marks
  <2>11. \A ty : Fits(c, params, rets, ty) /\ n \in DOMAIN ty /\ IsType(ty[n]) => \E bt : Does(b, c[n], ty[n], rets, bt)
    BY <2>3, ConstantDoes DEF b
  <2>12. Len(b) # 0
    BY <2>5
  <2>13. Fitting(e, params, rets)
    BY <2>4, <2>5, <2>7, <2>9, <2>10, <2>11, <2>12, SpliceFitting
  <2> QED BY <2>2, <2>13
<1>3. CASE init = {}
  <2>1. IsPlace(c, at)
    <3>1. CASE StoreBeforeUse(c, v) > 0
      <4>1. StoreBeforeUse(c, v) # 0
        BY <3>1
      <4> QED BY <1>1, <3>1, <4>1, BeforeUseIsPlace
    <3>2. CASE ~(StoreBeforeUse(c, v) > 0)
      BY <1>1, <3>2, ResumeIsFirst
    <3> QED BY <3>1, <3>2
  <2>2. GuardFor(p, {v}, FALSE, Len(c))
    <3>1. l[2][1] = Len(c)
      BY NewOf
    <3> HIDE DEF l
    <3> QED BY <3>1, NoneAssigns DEF GuardFor
  <2>3. Behind(c, at, {v}, FALSE, params, rets)
    BY <1>3
  <2>4. Insert(c, at, p) = NullGuard(c, v, d)
    BY <1>3 DEF NullGuard
  <2> HIDE DEF p, at
  <2>5. Fitting(Insert(c, at, p), params, rets)
    BY <2>1, <2>2, <2>3, InsertFitting
  <2> QED BY <2>4, <2>5
<1> QED BY <1>2, <1>3

LEMMA SubscriptFits ==
  ASSUME NEW c, NEW params, NEW rets, Fitting(c, params, rets), NEW key, NEW d
  PROVE  Fitting(SubscriptGuard(c, key, d), params, rets)
<1> DEFINE S == {i \in DOMAIN c : Op(c[i]) = "BINARY_SUBSCR"
                                  /\ (key # <<>> => i > 1 /\ KeyMatches(c[i - 1], key[1]))}
           n == SubscriptSite(c, key)
           m == New(c, n)
           b == SafeSubscript(m, d)
           e == Between(c, n - 1, b, n + 1)
           labels == {<<"not_none", m>>, <<"dict", m>>, <<"end", m>>}
<1>1. Ready(c) /\ IsSeq(c) /\ Len(c) \in Nat \ {0} /\ DOMAIN c = 1 .. Len(c)
  BY SeqFacts DEF Fitting, Ready
<1>2. n = IF S = {} THEN 0 ELSE Min(S)
  BY DEF SubscriptSite
<1>3. S # {} => Min(S) \in S
  <2>1. S \in SUBSET Nat
    BY <1>1
  <2> HIDE DEF S
  <2> QED BY <2>1, MinOf
<1>4. CASE S = {}
  <2>1. n = 0
    BY <1>2, <1>4
  <2>2. SubscriptGuard(c, key, d) = c
    BY <2>1 DEF SubscriptGuard
  <2> QED BY <2>2
<1>5. CASE S # {}
  <2>1. n \in 1 .. Len(c) /\ Op(c[n]) = "BINARY_SUBSCR"
    BY <1>1, <1>2, <1>3, <1>5
  <2>2. SubscriptGuard(c, key, d) = e
    <3>1. n # 0
      BY <2>1
    <3> QED BY <3>1 DEF SubscriptGuard, Between
  <2>3. m[1] = Len(c)
    BY NewOf
  <2> HIDE DEF n, m
  <2>4. n \in 2 .. Len(c)
    <3>1. n # 1
      BY <1>1, <2>1 DEF Ready
    <3> QED BY <1>1, <2>1, <3>1
  <2>5. \A l \in labels : l[2][1] = Len(c)
    BY <2>3
  <2>6. \A u, r : IsType(u) /\ u.depth \geq 2 => Replaces(b, c[n], u, r, labels)
    <3> HIDE DEF b
    <3>1. \A u, r : IsType(u) /\ u.depth \geq 2 => Replaces(b, c[n], u, r, {<<"not_none", m>>, <<"dict", m>>, <<"end", m>>})
      BY <2>1, SubscriptReplaces DEF b
    <3> QED BY <3>1
  <2> HIDE DEF b, labels
  <2>7. IsSeq(b) /\ Len(b) > 1 /\ Labelled(b, Len(c))
    <3> DEFINE u == [depth |-> 2, bound |-> {}]
    <3>1. IsType(u) /\ u.depth \geq 2
      BY DEF IsType
    <3> HIDE DEF u
    <3>2. Replaces(b, c[n], u, rets, labels)
      BY <2>6, <3>1
    <3> QED BY <2>5, <3>2 DEF Replaces, Marked, Labelled
  <2>8. Len(b) # 0 /\ Op(c[n]) \notin Marks /\ ~Jumps(c[n])
    BY <2>1, <2>7 DEF Marks, Jumps, JumpOps
  <2>9. ASSUME NEW ty, Fits(c, params, rets, ty), n \in DOMAIN ty, IsType(ty[n])
        PROVE  \E bt : Does(b, c[n], ty[n], rets, bt)
    <3>1. Takes(c[n]) = 2 /\ ty[n].depth \in Nat /\ Takes(c[n]) \in 0 .. ty[n].depth
      BY <2>1, <2>9, SubscriptDone DEF Fits, IsTyping
    <3>2. ty[n].depth \geq 2
      BY <3>1
    <3>3. Replaces(b, c[n], ty[n], rets, labels)
      BY <2>6, <2>9, <3>2
    <3> QED BY <3>3 DEF Replaces
  <2>10. Spliced(e, c, n, b)
    <3> HIDE DEF e
    <3> QED BY <1>1, <2>1, <2>7, BetweenIsSplice DEF e
  <2> HIDE DEF e
  <2>11. Fitting(e, params, rets)
    BY <2>4, <2>7, <2>8, <2>9, <2>10, SpliceFitting
  <2> QED BY <2>2, <2>11
<1> QED BY <1>4, <1>5

(* The same with a block in the place of each of the instructions G. *)
LEMMA BlocksFitting ==
  ASSUME NEW c, NEW params, NEW rets, Fitting(c, params, rets), NEW G, NEW blocks, Guarded(c, G, blocks),
         \A ty : Fits(c, params, rets, ty) =>
           \A i \in G : i \in DOMAIN ty /\ IsType(ty[i]) => \E bt : Does(blocks[i], c[i], ty[i], rets, bt)
  PROVE  Fitting(FlattenSeq(blocks), params, rets)
<1> DEFINE ty == Flow(c, params)
<1>1. Ready(c) /\ Fits(c, params, rets, ty) /\ IsSeq(c)
  BY FittingFlow DEF Fitting, Ready
<1>2. \A m \in DOMAIN ty : IsType(ty[m])
  BY <1>1, FlowFits
<1> HIDE DEF ty
<1>3. \A i \in G : i \in DOMAIN ty => \E bt : Does(blocks[i], c[i], ty[i], rets, bt)
  BY <1>1, <1>2
<1> QED BY <1>1, <1>3, GuardedFits DEF Fitting

LEMMA BlocksAre ==
  ASSUME NEW n \in Nat, NEW blocks, DOMAIN blocks = 1 .. n, blocks = [i \in 1 .. n |-> blocks[i]]
  PROVE  IsSeq(blocks) /\ Len(blocks) = n
<1> DEFINE S == {blocks[i] : i \in 1 .. n}
<1>1. blocks \in [1 .. n -> S]
  OBVIOUS
<1> HIDE DEF S
<1>2. blocks \in Seq(S) /\ Len(blocks) = n
  BY <1>1
<1> QED BY <1>2 DEF IsSeq

LEMMA DivisionFits ==
  ASSUME NEW c, NEW params, NEW rets, Fitting(c, params, rets), NEW d
  PROVE  Fitting(DivisionGuard(c, d), params, rets)
<1> DEFINE skip(i) == <<"skip", New(c, i)>>
           blocks == [i \in DOMAIN c |-> IF c[i] = Divide THEN DivisionBlock(d, skip(i)) ELSE <<c[i]>>]
           G == {i \in DOMAIN c : c[i] = Divide}
<1>1. Ready(c) /\ IsSeq(c) /\ Len(c) \in Nat \ {0} /\ DOMAIN c = 1 .. Len(c)
  BY SeqFacts DEF Fitting, Ready
<1>2. DivisionGuard(c, d) = FlattenSeq(blocks)
  <2>1. \A i \in DOMAIN c : c[i] = Divide =>
          DivisionBlock(d, skip(i)) = <<Copy, LoadConst(IntV(0)), Compare("!="), IfTrue(skip(i)), Pop, LoadConst(d),
                                        Label(skip(i)), c[i]>>
    BY DEF DivisionBlock
  <2>2. blocks = [i \in DOMAIN c |-> IF c[i] = <<"BINARY_OP", "/">>
                    THEN <<Copy, LoadConst(IntV(0)), Compare("!="), IfTrue(skip(i)), Pop, LoadConst(d),
                           Label(skip(i)), c[i]>> ELSE <<c[i]>>]
    BY <2>1 DEF Divide
  <2> HIDE DEF blocks
  <2> QED BY <2>2 DEF DivisionGuard
<1>3. /\ DOMAIN blocks = 1 .. Len(c) /\ blocks = [i \in 1 .. Len(c) |-> blocks[i]]
      /\ \A i \in 1 .. Len(c) : IF c[i] = Divide THEN blocks[i] = DivisionBlock(d, skip(i)) ELSE blocks[i] = <<c[i]>>
  BY <1>1
<1>4. \A i \in G : i \in 1 .. Len(c) /\ c[i] = Divide
  BY <1>1
<1>5. \A i \in (1 .. Len(c)) \ G : c[i] # Divide
  BY <1>1
<1>6. \A i : skip(i)[2] = <<Len(c), i>>
  BY DEF New
<1> HIDE DEF blocks, G, skip
<1>7. ASSUME NEW i \in G PROVE \A u, r : IsType(u) /\ u.depth \geq 2 => Replaces(blocks[i], c[i], u, r, {skip(i)})
  <2>1. blocks[i] = DivisionBlock(d, skip(i)) /\ c[i] = Divide
    BY <1>3, <1>4
  <2> QED BY <2>1, DivisionReplaces
<1>8. ASSUME NEW i \in G
      PROVE  /\ IsSeq(blocks[i]) /\ Len(blocks[i]) > 1
             /\ \A k \in 1 .. Len(blocks[i]) :
                  /\ Op(blocks[i][k]) \notin {"TRY_BEGIN", "TRY_END"}
                  /\ Op(blocks[i][k]) = "LABEL" => Arg(blocks[i][k])[2] = <<Len(c), i>>
  <2> DEFINE u == [depth |-> 2, bound |-> {}]
  <2>1. IsType(u) /\ u.depth \geq 2
    BY DEF IsType
  <2> HIDE DEF u
  <2>2. Replaces(blocks[i], c[i], u, rets, {skip(i)})
    BY <1>7, <2>1
  <2> QED BY <1>6, <2>2 DEF Replaces, Marked
<1>9. Op(Divide) \notin Marks \cup {"RESUME"} /\ ~Jumps(Divide) /\ Takes(Divide) = 2
  BY DEF Divide, Op, Marks, Jumps, JumpOps, Takes
<1>10. Guarded(c, G, blocks)
  BY <1>1, <1>3, <1>4, <1>5, <1>8, <1>9, BlocksAre DEF Guarded
<1>11. ASSUME NEW ty, Fits(c, params, rets, ty), NEW i \in G, i \in DOMAIN ty, IsType(ty[i])
       PROVE  \E bt : Does(blocks[i], c[i], ty[i], rets, bt)
  <2>1. Takes(c[i]) = 2 /\ ty[i].depth \in Nat /\ Takes(c[i]) \in 0 .. ty[i].depth
    BY <1>4, <1>9, <1>11 DEF Fits, IsTyping
  <2>2. ty[i].depth \geq 2
    BY <2>1
  <2>3. Replaces(blocks[i], c[i], ty[i], rets, {skip(i)})
    BY <1>7, <1>11, <2>2
  <2> QED BY <2>3 DEF Replaces
<1>12. Fitting(FlattenSeq(blocks), params, rets)
  BY <1>10, <1>11, BlocksFitting
<1> QED BY <1>2, <1>12

LEMMA ReturnFits ==
  ASSUME NEW c, NEW params, NEW rets, Fitting(c, params, rets), NEW d
  PROVE  Fitting(ReturnGuard(c, d), params, rets)
<1> DEFINE skip(i) == <<"skip", New(c, i)>>
           blocks == [i \in DOMAIN c |-> IF Op(c[i]) = "RETURN_VALUE" THEN ReturnBlock(d, skip(i), c[i]) ELSE <<c[i]>>]
           G == {i \in DOMAIN c : Op(c[i]) = "RETURN_VALUE"}
<1>1. Ready(c) /\ IsSeq(c) /\ Len(c) \in Nat \ {0} /\ DOMAIN c = 1 .. Len(c)
  BY SeqFacts DEF Fitting, Ready
<1>2. ReturnGuard(c, d) = FlattenSeq(blocks)
  BY DEF ReturnGuard, ReturnBlock
<1>3. /\ DOMAIN blocks = 1 .. Len(c) /\ blocks = [i \in 1 .. Len(c) |-> blocks[i]]
      /\ \A i \in 1 .. Len(c) : IF Op(c[i]) = "RETURN_VALUE" THEN blocks[i] = ReturnBlock(d, skip(i), c[i])
                                ELSE blocks[i] = <<c[i]>>
  BY <1>1
<1>4. \A i \in G : i \in 1 .. Len(c) /\ Op(c[i]) = "RETURN_VALUE"
  BY <1>1
<1>5. \A i \in (1 .. Len(c)) \ G : Op(c[i]) # "RETURN_VALUE"
  BY <1>1
<1>6. \A i : skip(i)[2] = <<Len(c), i>>
  BY DEF New
<1> HIDE DEF blocks, G, skip
<1>7. ASSUME NEW i \in G
      PROVE  \A u, r : IsType(u) /\ u.depth \geq 1 /\ u.depth \in r => Replaces(blocks[i], c[i], u, r, {skip(i)})
  <2>1. blocks[i] = ReturnBlock(d, skip(i), c[i]) /\ Op(c[i]) = "RETURN_VALUE"
    BY <1>3, <1>4
  <2> QED BY <2>1, ReturnReplaces
<1>8. ASSUME NEW i \in G
      PROVE  /\ IsSeq(blocks[i]) /\ Len(blocks[i]) > 1
             /\ \A k \in 1 .. Len(blocks[i]) :
                  /\ Op(blocks[i][k]) \notin {"TRY_BEGIN", "TRY_END"}
                  /\ Op(blocks[i][k]) = "LABEL" => Arg(blocks[i][k])[2] = <<Len(c), i>>
  <2> DEFINE u == [depth |-> 1, bound |-> {}]
  <2>1. IsType(u) /\ u.depth \geq 1 /\ u.depth \in Nat
    BY DEF IsType
  <2> HIDE DEF u
  <2>2. Replaces(blocks[i], c[i], u, Nat, {skip(i)})
    BY <1>7, <2>1
  <2> QED BY <1>6, <2>2 DEF Replaces, Marked
<1>9. \A i \in G : Op(c[i]) \notin Marks \cup {"RESUME"} /\ ~Jumps(c[i]) /\ Takes(c[i]) = 1
  BY <1>4 DEF Marks, Jumps, JumpOps, Takes
<1>10. Guarded(c, G, blocks)
  BY <1>1, <1>3, <1>4, <1>5, <1>8, <1>9, BlocksAre DEF Guarded
<1>11. ASSUME NEW ty, Fits(c, params, rets, ty), NEW i \in G, i \in DOMAIN ty, IsType(ty[i])
       PROVE  \E bt : Does(blocks[i], c[i], ty[i], rets, bt)
  <2>1. Takes(c[i]) = 1 /\ ty[i].depth \in Nat /\ Takes(c[i]) \in 0 .. ty[i].depth /\ ty[i].depth \in rets
    BY <1>4, <1>9, <1>11 DEF Fits, IsTyping
  <2>2. ty[i].depth \geq 1
    BY <2>1
  <2>3. Replaces(blocks[i], c[i], ty[i], rets, {skip(i)})
    BY <1>7, <1>11, <2>1, <2>2
  <2> QED BY <2>3 DEF Replaces
<1>12. Fitting(FlattenSeq(blocks), params, rets)
  BY <1>10, <1>11, BlocksFitting
<1> QED BY <1>2, <1>12

(* Every guard that _synthesize_* makes, put where Build puts it, keeps any  *)
(* code sound: each path through the new code finds its operands, loads     *)
(* variables that are bound and returns one value, if the guard has what it *)
(* reads where it goes (HasPlace).  The guard for a chain of subscripts is  *)
(* left out, as it takes out instructions that others may jump over.        *)
THEOREM BuildFits ==
  ASSUME NEW c, NEW params, NEW rets, Fitting(c, params, rets), NEW spec, HasPlace(c, spec, params, rets),
         spec.strategy # "chain_subscript_guard" \/ InsideTryBlock(c)
  PROVE  Fitting(Build(c, spec), params, rets)
<1> DEFINE v == spec.var
           d == spec.default
           k == spec.key
           s == spec.strategy
           entry == AfterResume(c)
<1>1. CASE s \in InlineStrategies /\ InsideTryBlock(c)
  <2>1. Build(c, spec) = EntryPointNullGuard(c, v, d)
    BY <1>1 DEF Build, InlineStrategies
  <2>2. Behind(c, entry, {v}, TRUE, params, rets)
    BY <1>1 DEF HasPlace, InlineStrategies
  <2> QED BY <2>1, <2>2, EntryFits
<1>2. CASE s \in {"subscript_guard", "key_guard"} /\ ~InsideTryBlock(c)
  <2>1. Build(c, spec) = SubscriptGuard(c, k, d)
    BY <1>2 DEF Build, InlineStrategies
  <2> QED BY <2>1, SubscriptFits
<1>3. CASE s = "division_guard" /\ ~InsideTryBlock(c)
  <2>1. Build(c, spec) = DivisionGuard(c, d)
    BY <1>3 DEF Build, InlineStrategies
  <2> QED BY <2>1, DivisionFits
<1>4. CASE s = "null_guard" /\ k # <<>>
  <2>1. Build(c, spec) = AttrNullGuard(c, v, k, d)
    BY <1>4 DEF Build, InlineStrategies
  <2>2. /\ k \in Seq(ToSet(k))
        /\ Behind(c, IF LastStore(c, v) > 0 THEN StoreBeforeUse(c, v) ELSE entry, {v}, TRUE, params, rets)
    BY <1>4 DEF HasPlace, InlineStrategies
  <2>3. IsSeq(k)
    BY <2>2 DEF IsSeq
  <2>4. CASE LastStore(c, v) > 0
    <3>1. Fitting(StoredRootGuard(c, v, d), params, rets)
      BY <2>2, <2>4, StoredRootFits
    <3> QED BY <2>1, <2>4, <3>1 DEF AttrNullGuard
  <2>5. CASE ~(LastStore(c, v) > 0)
    <3>1. Fitting(ChainWalkGuard(c, v, k, d), params, rets)
      BY <1>4, <2>2, <2>3, <2>5, ChainWalkFits
    <3> QED BY <2>1, <2>5, <3>1 DEF AttrNullGuard
  <2> QED BY <2>4, <2>5
<1>5. CASE s = "null_guard" /\ k = <<>>
  <2>1. Build(c, spec) = NullGuard(c, v, d)
    BY <1>5 DEF Build, InlineStrategies
  <2>2. \/ \E i \in 1 .. Len(c) - 1 : c[i] = LoadConst(NoneV) /\ c[i + 1] = StoreFast(v)
        \/ Behind(c, IF StoreBeforeUse(c, v) > 0 THEN StoreBeforeUse(c, v) ELSE entry, {v}, FALSE, params, rets)
    BY <1>5 DEF HasPlace, InlineStrategies
  <2> QED BY <2>1, <2>2, NullFits
<1>6. CASE s = "index_guard"
  <2>1. Build(c, spec) = IndexGuard(c, v, spec.list, d)
    BY <1>6 DEF Build, InlineStrategies
  <2>2. Behind(c, LastStoreOrResume(c, {v, spec.list}), {v, spec.list}, TRUE, params, rets)
    BY <1>6 DEF HasPlace, InlineStrategies
  <2> QED BY <2>1, <2>2, IndexFits
<1>7. CASE s = "list_bound_guard"
  <2>1. Build(c, spec) = ListBoundGuard(c, v, k[1], d)
    BY <1>7 DEF Build, InlineStrategies
  <2>2. Behind(c, LastStoreOrResume(c, {v}), {v}, TRUE, params, rets)
    BY <1>7 DEF HasPlace, InlineStrategies
  <2> QED BY <2>1, <2>2, ListBoundFits
<1>8. CASE s = "file_guard"
  <2>1. Build(c, spec) = FileGuard(c, v, d)
    BY <1>8 DEF Build, InlineStrategies
  <2>2. Behind(c, LastStoreOrResume(c, {v}), {v}, TRUE, params, rets)
    BY <1>8 DEF HasPlace, InlineStrategies
  <2> QED BY <2>1, <2>2, FileFits
<1>9. CASE s = "str_coerce_guard"
  <2>1. Build(c, spec) = StrCoerceGuard(c, v)
    BY <1>9 DEF Build, InlineStrategies
  <2>2. Behind(c, LastStoreOrResume(c, {v}), {v}, FALSE, params, rets)
    BY <1>9 DEF HasPlace, InlineStrategies
  <2> QED BY <2>1, <2>2, StrCoerceFits
<1>10. CASE s = "type_coercion_guard"
  <2>1. Build(c, spec) = TypeCoercionGuard(c, v, d)
    BY <1>10 DEF Build, InlineStrategies
  <2>2. Behind(c, IF FirstStore(c, v) > 0 THEN FirstStore(c, v) ELSE entry, {v}, FALSE, params, rets)
    BY <1>10 DEF HasPlace, InlineStrategies
  <2> QED BY <2>1, <2>2, TypeCoercionFits
<1>11. CASE s = "return_guard"
  <2>1. Build(c, spec) = ReturnGuard(c, d)
    BY <1>11 DEF Build, InlineStrategies
  <2> QED BY <2>1, ReturnFits
<1>12. \/ s \in InlineStrategies
       \/ s \in {"null_guard", "index_guard", "list_bound_guard", "file_guard", "str_coerce_guard",
                 "type_coercion_guard", "return_guard"}
  BY DEF HasPlace
<1> QED BY <1>1, <1>2, <1>3, <1>4, <1>5, <1>6, <1>7, <1>8, <1>9, <1>10, <1>11, <1>12 DEF InlineStrategies

----------------------------------------------------------------------------
(* One frame.                                                              *)

(* The operands are there. *)
LEMMA Enough ==
  ASSUME NEW f, NEW params, NEW presumed, NEW rets, Stands(f, 0, params, presumed, rets)
  PROVE  LET i == f.code[f.pc] IN
         /\ f.pc \in DOMAIN f.code /\ IsSeq(f.stack) /\ Len(f.stack) \in Nat
         /\ Takes(i) \in 0 .. Len(f.stack)
         /\ Op(i) = "RETURN_VALUE" => Len(f.stack) \in rets
         /\ Op(i) = "LOAD_FAST" => Arg(i) \in DOMAIN f.locals \cup presumed
         /\ Jumps(i) => HasGoal(f.code, Arg(i))
<1>1. PICK ty : /\ Fits(f.code, params \cup presumed, rets, ty)
                /\ f.pc \in DOMAIN ty /\ ty[f.pc].bound \subseteq DOMAIN f.locals \cup presumed
                /\ IsSeq(f.stack) /\ Len(f.stack) + 0 = ty[f.pc].depth
  BY DEF Stands
<1>2. Len(f.stack) \in Nat
  BY <1>1, SeqFacts
<1>3. Len(f.stack) = ty[f.pc].depth
  BY <1>1, <1>2
<1> QED BY <1>1, <1>2, <1>3 DEF Fits, IsTyping

(* The next instruction, on any of the paths.                              *)
LEMMA Moves ==
  ASSUME NEW f, NEW params, NEW presumed, NEW rets, Stands(f, 0, params, presumed, rets),
         NEW g, NEW w \in Nat, g.code = f.code, g.pc \in Follows(f.code, f.pc), IsSeq(g.stack),
         Len(g.stack) + w = Len(f.stack) - Takes(f.code[f.pc]) + Gives(f.code[f.pc]),
         DOMAIN f.locals \cup Binds(f.code[f.pc]) \subseteq DOMAIN g.locals
  PROVE  Stands(g, w, params, presumed, rets)
<1>1. PICK ty : /\ Fits(f.code, params \cup presumed, rets, ty)
                /\ f.pc \in DOMAIN ty /\ ty[f.pc].bound \subseteq DOMAIN f.locals \cup presumed
                /\ Len(f.stack) + 0 = ty[f.pc].depth
  BY DEF Stands
<1>2. Len(f.stack) \in Nat
  BY Enough
<1>3. /\ g.pc \in DOMAIN ty
      /\ ty[g.pc].depth = ty[f.pc].depth - Takes(f.code[f.pc]) + Gives(f.code[f.pc])
      /\ ty[g.pc].bound \subseteq ty[f.pc].bound \cup Binds(f.code[f.pc])
  BY <1>1 DEF Fits, IsTyping
<1>4. Len(g.stack) + w = ty[g.pc].depth
  BY <1>1, <1>2, <1>3
<1>5. ty[g.pc].bound \subseteq DOMAIN g.locals \cup presumed
  BY <1>1, <1>3
<1>6. Fits(g.code, params \cup presumed, rets, ty)
  BY <1>1
<1>20. Ready(g.code)
  BY DEF Stands
<1> QED BY <1>20, <1>3, <1>4, <1>5, <1>6 DEF Stands

(* The handler of a try range around the instruction.                      *)
LEMMA Caught ==
  ASSUME NEW f, NEW params, NEW presumed, NEW rets, Stands(f, 0, params, presumed, rets),
         NEW g, g.code = f.code, g.pc \in Handlers(f.code, f.pc), g.stack = <<>>, g.locals = f.locals
  PROVE  Stands(g, 0, params, presumed, rets)
<1>1. PICK ty : /\ Fits(f.code, params \cup presumed, rets, ty)
                /\ f.pc \in DOMAIN ty /\ ty[f.pc].bound \subseteq DOMAIN f.locals \cup presumed
  BY DEF Stands
<1>2. g.pc \in DOMAIN ty /\ ty[g.pc].depth = 0 /\ ty[g.pc].bound \subseteq ty[f.pc].bound
  BY <1>1 DEF Fits, IsTyping
<1>3. IsSeq(g.stack) /\ Len(g.stack) = 0
  BY EmptyIsSeq
<1>4. Len(g.stack) + 0 = ty[g.pc].depth
  BY <1>2, <1>3
<1>5. Fits(g.code, params \cup presumed, rets, ty)
  BY <1>1
<1>20. Ready(g.code)
  BY DEF Stands
<1> QED BY <1>20, <1>1, <1>2, <1>3, <1>4, <1>5 DEF Stands

(* The result of a getter comes back. *)
LEMMA Returned ==
  ASSUME NEW f, NEW params, NEW presumed, NEW rets, Stands(f, 1, params, presumed, rets),
         NEW g, NEW x, g.code = f.code, g.pc = f.pc, g.stack = Append(f.stack, x), g.locals = f.locals
  PROVE  Stands(g, 0, params, presumed, rets)
<1>1. PICK ty : /\ Fits(f.code, params \cup presumed, rets, ty)
                /\ f.pc \in DOMAIN ty /\ ty[f.pc].bound \subseteq DOMAIN f.locals \cup presumed
                /\ IsSeq(f.stack) /\ Len(f.stack) + 1 = ty[f.pc].depth
  BY DEF Stands
<1>2. IsSeq(g.stack) /\ Len(g.stack) = Len(f.stack) + 1
  BY <1>1, AppendIsSeq
<1>3. Len(g.stack) + 0 = ty[g.pc].depth
  BY <1>1, <1>2, SeqFacts
<1>4. Fits(g.code, params \cup presumed, rets, ty)
  BY <1>1
<1>20. Ready(g.code)
  BY DEF Stands
<1> QED BY <1>20, <1>1, <1>2, <1>3, <1>4 DEF Stands

(* A call begins, with all its parameters. *)
LEMMA Begins ==
  ASSUME NEW f, NEW params, NEW presumed, NEW rets, NEW ty,
         Ready(f.code), Fits(f.code, params \cup presumed, rets, ty),
         f.pc = 1, f.stack = <<>>, params \subseteq DOMAIN f.locals
  PROVE  Stands(f, 0, params, presumed, rets)
<1>1. f.pc \in DOMAIN ty /\ ty[f.pc].depth = 0 /\ ty[f.pc].bound \subseteq params \cup presumed
  BY DEF Fits, IsTyping
<1>2. IsSeq(f.stack) /\ Len(f.stack) + 0 = ty[f.pc].depth
  BY <1>1, EmptyIsSeq
<1> QED BY <1>1, <1>2 DEF Stands

(* More patches let more pass. *)
LEMMA Weaker ==
  ASSUME NEW f, NEW w, NEW params, NEW presumed, NEW rets, Stands(f, w, params, presumed, rets),
         NEW more, presumed \subseteq more, NEW rets2, rets \subseteq rets2
  PROVE  Stands(f, w, params, more, rets2)
<1>1. PICK ty : /\ Fits(f.code, params \cup presumed, rets, ty)
                /\ f.pc \in DOMAIN ty /\ ty[f.pc].bound \subseteq DOMAIN f.locals \cup presumed
                /\ IsSeq(f.stack) /\ Len(f.stack) + w = ty[f.pc].depth
  BY DEF Stands
<1>2. IsTyping(f.code, params \cup more, ty)
  BY <1>1 DEF Fits, IsTyping
<1>3. Fits(f.code, params \cup more, rets2, ty)
  BY <1>1, <1>2 DEF Fits
<1>4. ty[f.pc].bound \subseteq DOMAIN f.locals \cup more
  BY <1>1
<1>20. Ready(f.code)
  BY DEF Stands
<1> QED BY <1>20, <1>1, <1>3, <1>4 DEF Stands

----------------------------------------------------------------------------
(* The frames of the running call.                                         *)

LEMMA SameEngine ==
  ASSUME UNCHANGED <<source, patches>>
  PROVE  Presumed' = Presumed /\ ReturnDepths' = ReturnDepths /\ source' = source
BY DEF Presumed, ReturnDepths, Neat

LEMMA TopStands ==
  ASSUME Inv, phase # "idle"
  PROVE  /\ Len(frames) \in Nat \ {0} /\ IsFrame(Top) /\ Top = frames[Len(frames)]
         /\ Stands(Top, 0, ParamsOf(source, Top.fn), Presumed, ReturnDepths)
         /\ Top.pc \in DOMAIN Top.code /\ IsSeq(Top.stack) /\ Depth \in Nat
         /\ Takes(Current) \in 0 .. Depth
         /\ Op(Current) = "RETURN_VALUE" => Depth \in ReturnDepths
         /\ Op(Current) = "LOAD_FAST" => Arg(Current) \in DOMAIN Top.locals \cup Presumed
         /\ Jumps(Current) => HasGoal(Top.code, Arg(Current))
<1>1. Len(frames) \in Nat \ {0}
  BY SeqFacts DEF Inv, Shape, FramesFit
<1>2. Len(frames) \in 1 .. Len(frames)
  BY <1>1
<1>3. IsFrame(Top) /\ Stands(Top, 0, ParamsOf(source, Top.fn), Presumed, ReturnDepths)
  BY <1>2 DEF Inv, FramesFit, Top
<1> QED BY <1>1, <1>3, Enough DEF Top, Current, Depth

LEMMA SetTopFits ==
  ASSUME Inv, phase # "idle", UNCHANGED <<source, patches>>,
         NEW g, SetTop(g), IsFrame(g), g.fn = Top.fn,
         Stands(g, 0, ParamsOf(source, Top.fn), Presumed, ReturnDepths)
  PROVE  FramesFit' /\ frames' # <<>>
<1> DEFINE n == Len(frames)
<1>1. n \in Nat \ {0} /\ n \in 1 .. n /\ IsSeq(frames)
  BY TopStands DEF Inv, FramesFit
<1>2. IsSeq(frames') /\ Len(frames') = n /\ \A i \in 1 .. n : frames'[i] = IF i = n THEN g ELSE frames[i]
  <2> DEFINE F == Replaced(frames, n, g)
  <2>1. frames' = F
    BY DEF SetTop, Replaced
  <2>2. IsSeq(F) /\ Len(F) = n /\ \A i \in 1 .. n : F[i] = IF i = n THEN g ELSE frames[i]
    BY <1>1, ExceptIsSeq
  <2> HIDE DEF F, n
  <2> QED BY <2>1, <2>2
<1>3. ASSUME NEW i \in 1 .. n
      PROVE  /\ IsFrame(frames'[i])
             /\ frames'[i].fn = IF i = 1 THEN "function" ELSE "getter"
             /\ Stands(frames'[i], IF i = n THEN 0 ELSE 1, ParamsOf(source, frames'[i].fn),
                       Presumed, ReturnDepths)
  <2>1. CASE i = n
    BY <2>1, <1>1, <1>2 DEF Inv, FramesFit, Top
  <2>2. CASE i # n
    BY <2>2, <1>2 DEF Inv, FramesFit
  <2> QED BY <2>1, <2>2
<1>4. frames' # <<>>
  BY <1>1, <1>2, SeqFacts
<1> QED BY <1>2, <1>3, <1>4, SameEngine DEF FramesFit

(* The fields of an updated frame. *)
LEMMA MovedFrame ==
  ASSUME NEW f, IsFrame(f), NEW p, NEW s
  PROVE  LET g == Moved(f, p, s) IN
         IsFrame(g) /\ g.fn = f.fn /\ g.code = f.code /\ g.pc = p /\ g.stack = s /\ g.locals = f.locals
<1> DEFINE F(a, b, c, d, e) == [fn |-> a, code |-> b, pc |-> c, stack |-> d, locals |-> e]
<1>1. ASSUME NEW a, NEW b, NEW c, NEW d, NEW e, f = F(a, b, c, d, e)
      PROVE  Moved(f, p, s) = F(a, b, p, s, e)
  <2>1. [F(a, b, c, d, e) EXCEPT !.pc = p] = F(a, b, p, d, e)
    OBVIOUS
  <2>2. [F(a, b, p, d, e) EXCEPT !.stack = s] = F(a, b, p, s, e)
    OBVIOUS
  <2>3. Moved(f, p, s) = [[f EXCEPT !.pc = p] EXCEPT !.stack = s]
    BY Zenon DEF Moved
  <2> HIDE DEF F
  <2> QED BY <1>1, <2>1, <2>2, <2>3
<1>2. Moved(f, p, s) = F(f.fn, f.code, p, s, f.locals)
  <2> f = F(f.fn, f.code, f.pc, f.stack, f.locals)
    BY DEF IsFrame
  <2> HIDE DEF F
  <2> QED BY <1>1
<1> QED BY <1>2 DEF IsFrame

LEMMA StoredFrame ==
  ASSUME NEW f, IsFrame(f), NEW v
  PROVE  LET g == [f EXCEPT !.locals = v] IN
         IsFrame(g) /\ g.fn = f.fn /\ g.code = f.code /\ g.pc = f.pc /\ g.stack = f.stack /\ g.locals = v
<1> DEFINE F(a, b, c, d, e) == [fn |-> a, code |-> b, pc |-> c, stack |-> d, locals |-> e]
<1>1. ASSUME NEW a, NEW b, NEW c, NEW d, NEW e, f = F(a, b, c, d, e)
      PROVE  [f EXCEPT !.locals = v] = F(a, b, c, d, v)
  BY <1>1
<1>2. [f EXCEPT !.locals = v] = F(f.fn, f.code, f.pc, f.stack, v)
  <2> f = F(f.fn, f.code, f.pc, f.stack, f.locals)
    BY DEF IsFrame
  <2> HIDE DEF F
  <2> QED BY <1>1
<1> QED BY <1>2 DEF IsFrame

(* To the next instruction, with another stack. *)
LEMMA ContinueFits ==
  ASSUME Inv, phase # "idle", UNCHANGED <<source, patches>>,
         Op(Current) \notin {"RETURN_VALUE", "JUMP_FORWARD"}, Binds(Current) = {},
         NEW s, IsSeq(s), Len(s) = Depth - Takes(Current) + Gives(Current), Continue(s)
  PROVE  FramesFit' /\ frames' # <<>>
<1> DEFINE g == Moved(Top, Top.pc + 1, s)
<1>1. SetTop(g)
  BY DEF Continue
<1>2. /\ IsFrame(g) /\ g.fn = Top.fn /\ g.code = Top.code /\ g.pc = Top.pc + 1 /\ g.stack = s
      /\ g.locals = Top.locals
  <2> IsFrame(Top)
    BY TopStands
  <2> QED BY MovedFrame
<1>3. g.pc \in Follows(Top.code, Top.pc)
  BY <1>2 DEF Follows, Current
<1>4. Len(g.stack) + 0 = Len(Top.stack) - Takes(Top.code[Top.pc]) + Gives(Top.code[Top.pc])
  BY <1>2, SeqFacts DEF Depth, Current
<1>5. Stands(g, 0, ParamsOf(source, Top.fn), Presumed, ReturnDepths)
  <2> HIDE DEF g
  <2> QED BY <1>2, <1>3, <1>4, TopStands, Moves DEF Current
<1> HIDE DEF g
<1> QED BY <1>1, <1>2, <1>5, SetTopFits

----------------------------------------------------------------------------
(* The instructions.                                                       *)

LEMMA CallGoesOn ==
  ASSUME Inv, UNCHANGED <<source, code, patches, calls>>, FramesFit', frames' # <<>>,
         phase' \in {"run", "raised", "unwind"}
  PROVE  Inv'
<1>1. Shape'
  BY DEF Inv, Shape
<1>2. CodeStands'
  BY SameEngine DEF Inv, CodeStands, FitsAt
<1> QED BY <1>1, <1>2 DEF Inv

LEMMA RaiseKeeps ==
  ASSUME Inv, phase # "idle", NEW e, Raise(e), Quiet
  PROVE  Inv'
<1>1. FramesFit' /\ frames' # <<>>
  BY SameEngine DEF Inv, Shape, FramesFit, Raise, Quiet
<1> QED BY <1>1, CallGoesOn DEF Raise, Quiet

LEMMA ContinueKeeps ==
  ASSUME Inv, phase = "run", Op(Current) \notin {"RETURN_VALUE", "JUMP_FORWARD"}, Binds(Current) = {},
         NEW s, IsSeq(s), Len(s) = Depth - Takes(Current) + Gives(Current), Continue(s), Running, Quiet
  PROVE  Inv'
<1>1. FramesFit' /\ frames' # <<>>
  BY ContinueFits DEF Quiet
<1> QED BY <1>1, CallGoesOn DEF Running, Quiet

LEMMA PushKeeps ==
  ASSUME Inv, phase = "run", Op(Current) \notin {"RETURN_VALUE", "JUMP_FORWARD"}, Binds(Current) = {},
         NEW n, n \in 0 .. Depth, n - 1 = Takes(Current) - Gives(Current), NEW v, Push(n, v), Running, Quiet
  PROVE  Inv'
<1> DEFINE s == Append(Under(n), v)
<1>1. IsSeq(s) /\ Len(s) = Depth - n + 1
  BY TopStands, PushIsSeq DEF Under, Depth
<1>2. Takes(Current) \in Int /\ Gives(Current) \in Int /\ Depth \in Int
  BY TopStands DEF Gives
<1>3. Len(s) = Depth - Takes(Current) + Gives(Current)
  BY <1>1, <1>2
<1>4. Continue(s)
  BY DEF Push
<1> HIDE DEF s
<1> QED BY <1>1, <1>3, <1>4, ContinueKeeps

LEMMA DeliverKeeps ==
  ASSUME Inv, phase = "run", Op(Current) \notin {"RETURN_VALUE", "JUMP_FORWARD"}, Binds(Current) = {},
         NEW n, n \in 0 .. Depth, n - 1 = Takes(Current) - Gives(Current), NEW v, Deliver(n, v), Quiet
  PROVE  Inv'
<1>1. CASE Push(n, v) /\ Running
  BY <1>1, PushKeeps
<1>2. CASE Raise(<<v[2], v[3]>>)
  BY <1>2, RaiseKeeps
<1> QED BY <1>1, <1>2 DEF Deliver

LEMMA NopKeeps == ASSUME Inv, Nop PROVE Inv'
<1>1. /\ phase = "run" /\ Op(Current) \in {"RESUME", "PRECALL", "NOP", "LABEL", "TRY_BEGIN", "TRY_END"}
      /\ Continue(Top.stack) /\ Running /\ Quiet
  BY DEF Nop, Runs, Marks
<1>2. Takes(Current) = 0 /\ Gives(Current) = 0 /\ Binds(Current) = {}
  BY <1>1 DEF Takes, Gives, Binds, JumpOps
<1>3. IsSeq(Top.stack) /\ Len(Top.stack) = Depth - Takes(Current) + Gives(Current)
  BY <1>1, <1>2, TopStands DEF Depth
<1> QED BY <1>1, <1>2, <1>3, ContinueKeeps

LEMMA LoadKeeps == ASSUME Inv, Load PROVE Inv'
<1>1. phase = "run" /\ Op(Current) \in {"LOAD_FAST", "LOAD_CONST", "LOAD_GLOBAL"} /\ Quiet
  BY DEF Load, Runs
<1>2. Takes(Current) = 0 /\ Binds(Current) = {} /\ 0 \in 0 .. Depth
  BY <1>1, TopStands DEF Takes, Binds, JumpOps
<1>3. ASSUME NEW v, Push(0, v), Running, Gives(Current) = 1 PROVE Inv'
  BY <1>1, <1>2, <1>3, PushKeeps
<1>4. CASE Op(Current) = "LOAD_CONST"
  <2>1. Push(0, Arg(Current)) /\ Running /\ Gives(Current) = 1
    BY <1>4 DEF Load, Gives
  <2> QED BY <2>1, <1>3
<1>5. CASE Op(Current) = "LOAD_FAST"
  <2>1. Gives(Current) = 1
    BY <1>5 DEF Gives
  <2>2. CASE Name(Current) \in DOMAIN Top.locals
    <3>1. Push(0, Top.locals[Name(Current)]) /\ Running
      BY <1>5, <2>2 DEF Load
    <3> QED BY <3>1, <2>1, <1>3
  <2>3. CASE Name(Current) \notin DOMAIN Top.locals
    <3>1. Raise(<<"UnboundLocalError", Name(Current)>>)
      BY <1>5, <2>3 DEF Load
    <3> QED BY <3>1, <1>1, RaiseKeeps
  <2> QED BY <2>2, <2>3
<1>6. CASE Op(Current) = "LOAD_GLOBAL"
  <2>1. CASE Builtin(Name(Current)) = NullV
    <3>1. Raise(<<"NameError", Name(Current)>>)
      BY <1>6, <2>1 DEF Load
    <3> QED BY <3>1, <1>1, RaiseKeeps
  <2>2. CASE Builtin(Name(Current)) # NullV
    <3> DEFINE null == IF Arg(Current)[1] THEN <<NullV>> ELSE <<>>
               s == Top.stack \o null \o <<Builtin(Name(Current))>>
    <3>1. Continue(s) /\ Running
      BY <1>6, <2>2 DEF Load
    <3>2. /\ IsSeq(null) /\ Len(null) = IF Arg(Current)[1] THEN 1 ELSE 0
          /\ IsSeq(<<Builtin(Name(Current))>>) /\ Len(<<Builtin(Name(Current))>>) = 1
      BY EmptyIsSeq, AloneIsSeq
    <3>3. Gives(Current) = IF Arg(Current)[1] THEN 2 ELSE 1
      BY <1>6 DEF Gives
    <3>4. IsSeq(s) /\ Len(s) = Depth + Len(null) + 1
      <4>1. IsSeq(Top.stack \o null) /\ Len(Top.stack \o null) = Depth + Len(null)
        BY <1>1, <3>2, TopStands, ConcatIsSeq DEF Depth
      <4> HIDE DEF null
      <4> QED BY <4>1, <3>2, ConcatIsSeq
    <3>5. Len(s) = Depth - Takes(Current) + Gives(Current)
      <4> HIDE DEF s, null
      <4> QED BY <1>1, <1>2, <3>2, <3>3, <3>4, TopStands
    <3> HIDE DEF s
    <3> QED BY <1>1, <1>2, <1>6, <3>1, <3>4, <3>5, ContinueKeeps
  <2> QED BY <2>1, <2>2
<1> QED BY <1>1, <1>4, <1>5, <1>6

LEMMA StoreKeeps == ASSUME Inv, Store PROVE Inv'
<1> DEFINE v == [n \in DOMAIN Top.locals \cup {Arg(Current)} |->
                   IF n = Arg(Current) THEN Peek(0) ELSE Top.locals[n]]
           f == Moved(Top, Top.pc + 1, Under(1))
           g == [f EXCEPT !.locals = v]
<1>1. phase = "run" /\ Op(Current) = "STORE_FAST" /\ Running /\ Quiet
  BY DEF Store, Runs
<1>2. Takes(Current) = 1 /\ Gives(Current) = 0 /\ Binds(Current) = {Arg(Current)}
  BY <1>1 DEF Takes, Gives, Binds, JumpOps
<1>3. /\ IsFrame(f) /\ f.fn = Top.fn /\ f.code = Top.code /\ f.pc = Top.pc + 1
      /\ f.stack = Under(1) /\ f.locals = Top.locals
  <2> IsFrame(Top)
    BY <1>1, TopStands
  <2> QED BY MovedFrame
<1>4. SetTop(g)
  <2>1. SetTop([f EXCEPT !.locals = [n \in DOMAIN f.locals \cup {Arg(Current)} |->
                                       IF n = Arg(Current) THEN Peek(0) ELSE f.locals[n]]])
    BY DEF Store
  <2> HIDE DEF f
  <2> QED BY <2>1, <1>3
<1>5. IsSeq(Under(1)) /\ Len(Under(1)) = Depth - 1
  BY <1>1, <1>2, TopStands, PushIsSeq DEF Under, Depth
<1> HIDE DEF f
<1>6. /\ IsFrame(g) /\ g.fn = Top.fn /\ g.code = Top.code /\ g.pc = Top.pc + 1
      /\ g.stack = Under(1) /\ g.locals = v
  BY <1>3, StoredFrame
<1>7. g.pc \in Follows(Top.code, Top.pc)
  BY <1>1, <1>6 DEF Follows, Current
<1>8. DOMAIN Top.locals \cup Binds(Top.code[Top.pc]) \subseteq DOMAIN g.locals
  BY <1>2, <1>6 DEF Current
<1>9. Len(g.stack) + 0 = Len(Top.stack) - Takes(Top.code[Top.pc]) + Gives(Top.code[Top.pc])
  BY <1>1, <1>2, <1>5, <1>6, TopStands DEF Depth, Current
<1> HIDE DEF g
<1>10. Stands(g, 0, ParamsOf(source, Top.fn), Presumed, ReturnDepths)
  BY <1>1, <1>5, <1>6, <1>7, <1>8, <1>9, TopStands, Moves
<1>11. FramesFit' /\ frames' # <<>>
  BY <1>1, <1>4, <1>6, <1>10, SetTopFits DEF Quiet
<1> QED BY <1>1, <1>11, CallGoesOn DEF Running, Quiet

LEMMA ComputeKeeps == ASSUME Inv, Compute PROVE Inv'
<1>1. /\ phase = "run" /\ Op(Current) \in {"BINARY_SUBSCR", "BINARY_OP", "COMPARE_OP", "IS_OP"}
      /\ Quiet /\ \E v : Deliver(2, v)
  BY DEF Compute, Runs
<1>2. Takes(Current) = 2 /\ Gives(Current) = 1 /\ Binds(Current) = {}
  BY <1>1 DEF Takes, Gives, Binds, JumpOps
<1>3. 2 \in 0 .. Depth
  BY <1>1, <1>2, TopStands
<1> QED BY <1>1, <1>2, <1>3, DeliverKeeps

LEMMA ArrangeKeeps == ASSUME Inv, Arrange PROVE Inv'
<1>1. phase = "run" /\ Running /\ Quiet
  BY DEF Arrange, Runs
<1>2. CASE Op(Current) = "PUSH_NULL" /\ Push(0, NullV)
  <2>1. Takes(Current) = 0 /\ Gives(Current) = 1 /\ Binds(Current) = {} /\ 0 \in 0 .. Depth
    BY <1>1, <1>2, TopStands DEF Takes, Gives, Binds, JumpOps
  <2> QED BY <1>1, <1>2, <2>1, PushKeeps
<1>3. CASE Op(Current) = "COPY" /\ Push(0, Peek(0))
  <2>1. Takes(Current) = 1 /\ Gives(Current) = 2 /\ Binds(Current) = {} /\ 0 \in 0 .. Depth
    BY <1>1, <1>3, TopStands DEF Takes, Gives, Binds, JumpOps
  <2> QED BY <1>1, <1>3, <2>1, PushKeeps
<1>4. CASE Op(Current) = "POP_TOP" /\ Continue(Under(1))
  <2>1. Takes(Current) = 1 /\ Gives(Current) = 0 /\ Binds(Current) = {}
    BY <1>4 DEF Takes, Gives, Binds, JumpOps
  <2>2. IsSeq(Under(1)) /\ Len(Under(1)) = Depth - Takes(Current) + Gives(Current)
    BY <1>1, <2>1, TopStands, PushIsSeq DEF Under, Depth
  <2> QED BY <1>1, <1>4, <2>1, <2>2, ContinueKeeps
<1> QED BY <1>2, <1>3, <1>4 DEF Arrange, Runs

LEMMA CallOpKeeps == ASSUME Inv, CallOp PROVE Inv'
<1>1. phase = "run" /\ Op(Current) = "CALL" /\ Quiet /\ \E v : Deliver(Arg(Current) + 2, v)
  BY DEF CallOp, Runs
<1>2. Takes(Current) = Arg(Current) + 2 /\ Gives(Current) = 1 /\ Binds(Current) = {}
  BY <1>1 DEF Takes, Gives, Binds, JumpOps
<1>3. Arg(Current) + 2 \in 0 .. Depth
  BY <1>1, <1>2, TopStands
<1> QED BY <1>1, <1>2, <1>3, DeliverKeeps

(* A jump goes to its label or on. *)
LEMMA JumpKeeps ==
  ASSUME Inv, phase = "run", Running, Quiet, NEW n, n \in Follows(Top.code, Top.pc),
         NEW s, IsSeq(s), Len(s) = Depth - Takes(Current) + Gives(Current), Binds(Current) = {},
         SetTop(Moved(Top, n, s))
  PROVE  Inv'
<1> DEFINE g == Moved(Top, n, s)
<1>1. /\ IsFrame(g) /\ g.fn = Top.fn /\ g.code = Top.code /\ g.pc = n /\ g.stack = s
      /\ g.locals = Top.locals
  <2> IsFrame(Top)
    BY TopStands
  <2> QED BY MovedFrame
<1> HIDE DEF g
<1>2. Len(g.stack) + 0 = Len(Top.stack) - Takes(Top.code[Top.pc]) + Gives(Top.code[Top.pc])
  BY <1>1, SeqFacts DEF Depth, Current
<1>3. Stands(g, 0, ParamsOf(source, Top.fn), Presumed, ReturnDepths)
  BY <1>1, <1>2, TopStands, Moves DEF Current
<1>4. FramesFit' /\ frames' # <<>>
  BY <1>1, <1>3, SetTopFits DEF Quiet, g
<1> QED BY <1>4, CallGoesOn DEF Running, Quiet

LEMMA BranchKeeps == ASSUME Inv, Branch PROVE Inv'
<1>1. phase = "run" /\ Running /\ Quiet
  BY DEF Branch, Runs
<1>2. CASE Op(Current) = "JUMP_FORWARD" /\ SetTop(Moved(Top, Target(Arg(Current)), Top.stack))
  <2>1. Takes(Current) = 0 /\ Gives(Current) = 0 /\ Binds(Current) = {}
    BY <1>2 DEF Takes, Gives, Binds, JumpOps
  <2>2. Target(Arg(Current)) \in Follows(Top.code, Top.pc)
    BY <1>2 DEF Follows, Target, Jumps, JumpOps, Current
  <2>3. IsSeq(Top.stack) /\ Len(Top.stack) = Depth - Takes(Current) + Gives(Current)
    BY <1>1, <2>1, TopStands DEF Depth
  <2> QED BY <1>1, <1>2, <2>1, <2>2, <2>3, JumpKeeps
<1>3. ASSUME NEW n, Op(Current) \in JumpOps, n \in {Target(Arg(Current)), Top.pc + 1},
             SetTop(Moved(Top, n, Under(1)))
      PROVE  Inv'
  <2>1. Takes(Current) = 1 /\ Gives(Current) = 0 /\ Binds(Current) = {}
    BY <1>3 DEF Takes, Gives, Binds, JumpOps
  <2>2. n \in Follows(Top.code, Top.pc)
    BY <1>3 DEF Follows, Target, Jumps, JumpOps, Current
  <2>3. IsSeq(Under(1)) /\ Len(Under(1)) = Depth - Takes(Current) + Gives(Current)
    BY <1>1, <2>1, TopStands, PushIsSeq DEF Under, Depth
  <2> QED BY <1>1, <1>3, <2>1, <2>2, <2>3, JumpKeeps
<1>4. CASE /\ Op(Current) \in JumpOps
           /\ \E n \in {Target(Arg(Current)), Top.pc + 1} : SetTop(Moved(Top, n, Under(1)))
  BY <1>3, <1>4
<1> QED BY <1>2, <1>4 DEF Branch, Runs

(* A new frame is at the beginning of its code. *)
LEMMA FrameBegins ==
  ASSUME Inv, NEW fn \in {"function", "getter"}, NEW l, ParamsOf(source, fn) \subseteq DOMAIN l
  PROVE  LET f == Frame(fn, l) IN
         /\ IsFrame(f) /\ f.fn = fn
         /\ Stands(f, 0, ParamsOf(source, f.fn), Presumed, ReturnDepths)
<1> DEFINE f == Frame(fn, l)
<1>1. /\ IsFrame(f) /\ f.fn = fn /\ f.code = code[fn] /\ f.pc = 1 /\ f.stack = <<>> /\ f.locals = l
  BY DEF Frame, IsFrame
<1>2. PICK ty : Ready(code[fn]) /\ Fits(code[fn], ParamsOf(source, fn) \cup Presumed, ReturnDepths, ty)
  BY DEF Inv, CodeStands, FitsAt, Fitting
<1> HIDE DEF f
<1>3. Stands(f, 0, ParamsOf(source, f.fn), Presumed, ReturnDepths)
  BY <1>1, <1>2, Begins
<1> QED BY <1>1, <1>3 DEF f

(* The frame of a getter goes on top of one that waits for its result.     *)
LEMMA GetterFits ==
  ASSUME Inv, phase = "run", Op(Current) = "LOAD_ATTR", UNCHANGED <<source, patches>>,
         NEW l, ParamsOf(source, "getter") \subseteq DOMAIN l,
         frames' = Nested(frames, Len(frames), Moved(Top, Top.pc + 1, Under(1)), Frame("getter", l))
  PROVE  FramesFit' /\ frames' # <<>>
<1> DEFINE n == Len(frames)
           g == Moved(Top, Top.pc + 1, Under(1))
           f == Frame("getter", l)
<1>1. n \in Nat \ {0} /\ n \in 1 .. n /\ IsSeq(frames)
  BY TopStands DEF Inv, FramesFit
<1>2. frames' = Nested(frames, n, g, f)
  OBVIOUS
<1>3. /\ IsFrame(g) /\ g.fn = Top.fn /\ g.code = Top.code /\ g.pc = Top.pc + 1 /\ g.stack = Under(1)
      /\ g.locals = Top.locals
  <2> IsFrame(Top)
    BY TopStands
  <2> QED BY MovedFrame
<1>4. Takes(Current) = 1 /\ Gives(Current) = 1 /\ Binds(Current) = {}
  BY DEF Takes, Gives, Binds, JumpOps
<1>5. IsSeq(Under(1)) /\ Len(Under(1)) = Depth - 1
  BY <1>4, TopStands, PushIsSeq DEF Under, Depth
<1>6. /\ IsFrame(f) /\ f.fn = "getter"
      /\ Stands(f, 0, ParamsOf(source, f.fn), Presumed, ReturnDepths)
  BY FrameBegins
<1> HIDE DEF g
<1>7. Stands(g, 1, ParamsOf(source, g.fn), Presumed, ReturnDepths)
  <2>1. g.pc \in Follows(Top.code, Top.pc)
    BY <1>3 DEF Follows, Current
  <2>2. Len(g.stack) + 1 = Len(Top.stack) - Takes(Top.code[Top.pc]) + Gives(Top.code[Top.pc])
    BY <1>3, <1>4, <1>5, TopStands DEF Depth, Current
  <2> QED BY <1>3, <1>4, <1>5, <2>1, <2>2, TopStands, Moves DEF Current
<1>8. g.fn = IF n = 1 THEN "function" ELSE "getter"
  BY <1>1, <1>3 DEF Inv, FramesFit, Top
<1>9. /\ IsSeq(frames') /\ Len(frames') = n + 1
      /\ \A i \in 1 .. n : frames'[i] = IF i = n THEN g ELSE frames[i]
      /\ frames'[n + 1] = f
  <2> DEFINE t == Nested(frames, n, g, f)
  <2> HIDE DEF f
  <2>1. /\ IsSeq(t) /\ Len(t) = n + 1 /\ t[n + 1] = f
        /\ \A i \in 1 .. n : t[i] = IF i = n THEN g ELSE frames[i]
    BY <1>1, NestedIsSeq
  <2>2. frames' = t
    BY <1>2
  <2> HIDE DEF t, n
  <2> QED BY <2>1, <2>2
<1> HIDE DEF f, n
<1>10. ASSUME NEW i \in 1 .. n + 1
       PROVE  /\ IsFrame(frames'[i])
              /\ frames'[i].fn = IF i = 1 THEN "function" ELSE "getter"
              /\ Stands(frames'[i], IF i = n + 1 THEN 0 ELSE 1, ParamsOf(source, frames'[i].fn),
                        Presumed, ReturnDepths)
  <2>1. CASE i = n + 1
    BY <2>1, <1>1, <1>6, <1>9
  <2>2. CASE i = n
    <3>1. frames'[i] = g /\ i # n + 1
      BY <2>2, <1>1, <1>9
    <3> QED BY <2>2, <3>1, <1>3, <1>7, <1>8, TopStands
  <2>3. CASE i \notin {n, n + 1}
    <3>1. i \in 1 .. n /\ frames'[i] = frames[i] /\ i # n /\ i # n + 1
      BY <2>3, <1>1, <1>9
    <3> QED BY <3>1 DEF Inv, FramesFit, n
  <2> QED BY <2>1, <2>2, <2>3
<1>11. frames' # <<>>
  BY <1>1, <1>9, SeqFacts
<1> QED BY <1>9, <1>10, <1>11, SameEngine DEF FramesFit

LEMMA AttrKeeps == ASSUME Inv, Attr PROVE Inv'
<1>1. phase = "run" /\ Quiet
  BY DEF Attr, Runs
<1>2. ASSUME NEW o, Op(Current) = "LOAD_ATTR", Running,
             frames' = Append([frames EXCEPT ![Len(frames)] = Moved(@, Top.pc + 1, Under(1))],
                              Frame("getter", [self |-> o]))
      PROVE  Inv'
  <2> DEFINE l == [self |-> o]
  <2>1. ParamsOf(source, "getter") \subseteq DOMAIN l
    BY DEF ParamsOf
  <2>2. frames' = Nested(frames, Len(frames), Moved(Top, Top.pc + 1, Under(1)), Frame("getter", l))
    BY <1>2 DEF Top, Nested, Replaced
  <2> HIDE DEF l
  <2>3. FramesFit' /\ frames' # <<>>
    BY <1>1, <1>2, <2>1, <2>2, GetterFits DEF Quiet
  <2> QED BY <1>1, <1>2, <2>3, CallGoesOn DEF Running, Quiet
<1>3. ASSUME NEW v, Op(Current) = "LOAD_ATTR", Deliver(1, v) PROVE Inv'
  <2>1. Takes(Current) = 1 /\ Gives(Current) = 1 /\ Binds(Current) = {} /\ 1 \in 0 .. Depth
    BY <1>1, <1>3, TopStands DEF Takes, Gives, Binds, JumpOps
  <2> QED BY <1>1, <1>3, <2>1, DeliverKeeps
<1>4. ASSUME NEW v, NEW w, Op(Current) = "LOAD_METHOD", Continue(Under(1) \o <<v, w>>), Running
      PROVE  Inv'
  <2>1. Takes(Current) = 1 /\ Gives(Current) = 2 /\ Binds(Current) = {}
    BY <1>4 DEF Takes, Gives, Binds, JumpOps
  <2>2. IsSeq(Under(1)) /\ Len(Under(1)) = Depth - 1
    BY <1>1, <2>1, TopStands, PushIsSeq DEF Under, Depth
  <2>3. IsSeq(<<v, w>>) /\ Len(<<v, w>>) = 2
    <3>1. <<v, w>> \in Seq({v, w})
      OBVIOUS
    <3> QED BY <3>1 DEF IsSeq
  <2> DEFINE s == Under(1) \o <<v, w>>
  <2>4. IsSeq(s) /\ Len(s) = Depth - 1 + 2
    BY <2>2, <2>3, ConcatIsSeq
  <2>5. Len(s) = Depth - Takes(Current) + Gives(Current)
    BY <1>1, <2>1, <2>4, TopStands
  <2> HIDE DEF s
  <2> QED BY <1>1, <1>4, <2>1, <2>4, <2>5, ContinueKeeps DEF s
<1>5. ASSUME Op(Current) = "STORE_ATTR", Continue(Under(2)), Running PROVE Inv'
  <2>1. Takes(Current) = 2 /\ Gives(Current) = 0 /\ Binds(Current) = {}
    BY <1>5 DEF Takes, Gives, Binds, JumpOps
  <2>2. IsSeq(Under(2)) /\ Len(Under(2)) = Depth - Takes(Current) + Gives(Current)
    BY <1>1, <2>1, TopStands, PushIsSeq DEF Under, Depth
  <2> QED BY <1>1, <1>5, <2>1, <2>2, ContinueKeeps
<1>6. ASSUME NEW e, Raise(e) PROVE Inv'
  BY <1>1, <1>6, RaiseKeeps
<1>7. CASE Op(Current) = "LOAD_ATTR"
  <2>1. CASE IsProperty(Peek(0), Arg(Current))
    BY <1>7, <2>1, <1>2 DEF Attr, Runs
  <2>2. CASE ~IsProperty(Peek(0), Arg(Current))
    BY <1>7, <2>2, <1>3 DEF Attr, Runs
  <2> QED BY <2>1, <2>2
<1>8. CASE Op(Current) = "LOAD_METHOD"
  <2>1. \/ \E v, w : Continue(Under(1) \o <<v, w>>) /\ Running
        \/ \E e : Raise(e)
    BY <1>8 DEF Attr, Runs
  <2> QED BY <1>8, <2>1, <1>4, <1>6
<1>9. CASE Op(Current) = "STORE_ATTR"
  BY <1>9, <1>5, <1>6 DEF Attr, Runs
<1> QED BY <1>7, <1>8, <1>9 DEF Attr, Runs

LEMMA EndKeeps == ASSUME Inv, NEW r, End(r) PROVE Inv'
<1>1. FramesFit'
  <2>1. frames' = <<>> /\ IsSeq(<<>>) /\ Len(<<>>) = 0
    BY EmptyIsSeq DEF End
  <2> QED BY <2>1 DEF FramesFit
<1>2. Shape'
  BY DEF Inv, Shape, End
<1>3. CodeStands'
  BY SameEngine DEF Inv, CodeStands, FitsAt, End
<1> QED BY <1>1, <1>2, <1>3 DEF Inv

LEMMA ReturnKeeps == ASSUME Inv, ReturnOp PROVE Inv'
<1> DEFINE n == Len(frames)
           c == frames[n - 1]
           l == Append(c.stack, Peek(0))
           g == Moved(c, c.pc, l)
<1>1. phase = "run" /\ n \in Nat \ {0} /\ IsSeq(frames)
  BY TopStands DEF ReturnOp, Runs, Inv, FramesFit
<1>2. CASE n = 1
  <2>1. End(<<"value", Peek(0)>>)
    BY <1>2 DEF ReturnOp
  <2> QED BY <2>1, EndKeeps
<1>3. CASE n # 1
  <2>1. n > 1 /\ n - 1 \in 1 .. n /\ n - 1 # n
    BY <1>1, <1>3
  <2>2. frames' = Dropped(frames, g) /\ Running /\ Quiet
    <3>1. SubSeq(frames, 1, n - 1)[n - 1] = c
      BY <1>1, <2>1, FrontIsSeq
    <3>2. /\ frames' = [SubSeq(frames, 1, n - 1) EXCEPT
                          ![n - 1] = Moved(SubSeq(frames, 1, n - 1)[n - 1],
                                           SubSeq(frames, 1, n - 1)[n - 1].pc,
                                           Append(SubSeq(frames, 1, n - 1)[n - 1].stack, Peek(0)))]
          /\ Running /\ Quiet
      BY <1>3 DEF ReturnOp
    <3> HIDE DEF c
    <3> QED BY <3>1, <3>2 DEF Dropped, Replaced
  <2>3. /\ IsFrame(c) /\ c.fn = IF n - 1 = 1 THEN "function" ELSE "getter"
        /\ Stands(c, 1, ParamsOf(source, c.fn), Presumed, ReturnDepths)
    BY <2>1 DEF Inv, FramesFit
  <2> HIDE DEF c
  <2>4. /\ IsFrame(g) /\ g.fn = c.fn /\ g.code = c.code /\ g.pc = c.pc
        /\ g.stack = Append(c.stack, Peek(0)) /\ g.locals = c.locals
    <3>1. l = Append(c.stack, Peek(0))
      OBVIOUS
    <3> HIDE DEF l
    <3>2. /\ IsFrame(g) /\ g.fn = c.fn /\ g.code = c.code /\ g.pc = c.pc
          /\ g.stack = l /\ g.locals = c.locals
      BY <2>3, MovedFrame
    <3> HIDE DEF g
    <3> QED BY <3>1, <3>2
  <2> HIDE DEF g
  <2>5. Stands(g, 0, ParamsOf(source, g.fn), Presumed, ReturnDepths)
    BY <2>3, <2>4, Returned
  <2>6. /\ IsSeq(frames') /\ Len(frames') = n - 1
        /\ \A i \in 1 .. n - 1 : frames'[i] = IF i = n - 1 THEN g ELSE frames[i]
    <3> DEFINE t == Dropped(frames, g)
    <3>1. /\ IsSeq(t) /\ Len(t) = n - 1
          /\ \A i \in 1 .. n - 1 : t[i] = IF i = n - 1 THEN g ELSE frames[i]
      BY <1>1, <2>1, DroppedIsSeq
    <3>2. frames' = t
      BY <2>2
    <3> HIDE DEF t, n
    <3> QED BY <3>1, <3>2
  <2> HIDE DEF n
  <2>7. ASSUME NEW i \in 1 .. n - 1
        PROVE  /\ IsFrame(frames'[i])
               /\ frames'[i].fn = IF i = 1 THEN "function" ELSE "getter"
               /\ Stands(frames'[i], IF i = n - 1 THEN 0 ELSE 1, ParamsOf(source, frames'[i].fn),
                         Presumed, ReturnDepths)
    <3>1. CASE i = n - 1
      BY <3>1, <2>3, <2>4, <2>5, <2>6
    <3>2. CASE i # n - 1
      <4>1. i \in 1 .. n /\ i # n /\ frames'[i] = frames[i]
        BY <3>2, <1>1, <2>6
      <4> QED BY <3>2, <4>1 DEF Inv, FramesFit, n
    <3> QED BY <3>1, <3>2
  <2>8. frames' # <<>>
    BY <1>1, <2>1, <2>6, SeqFacts
  <2>9. FramesFit'
    BY <2>2, <2>6, <2>7, SameEngine DEF FramesFit, Quiet
  <2> QED BY <1>1, <2>2, <2>8, <2>9, CallGoesOn DEF Running, Quiet
<1> QED BY <1>2, <1>3

(* A patch adds to what is presumed; it never makes a frame stricter.      *)
LEMMA PatchesLetMore ==
  ASSUME Inv, NEW p, patches' = patches \/ patches' = Append(patches, p), source' = source
  PROVE  /\ IsSeq(patches') /\ Presumed \subseteq Presumed' /\ ReturnDepths \subseteq ReturnDepths'
         /\ Len(patches') = Len(patches) \/ Len(patches') = Len(patches) + 1
<1>1. /\ IsSeq(patches') /\ \A i \in DOMAIN patches : i \in DOMAIN patches' /\ patches'[i] = patches[i]
      /\ Len(patches') = Len(patches) \/ Len(patches') = Len(patches) + 1
  <2>1. CASE patches' = patches
    BY <2>1 DEF Inv, Shape
  <2>2. CASE patches' = Append(patches, p)
    <3> DEFINE q == Append(patches, p)
    <3>1. IsSeq(patches) /\ Len(patches) \in Nat /\ DOMAIN patches = 1 .. Len(patches)
      BY SeqFacts DEF Inv, Shape
    <3>2. /\ IsSeq(q) /\ Len(q) = Len(patches) + 1 /\ \A i \in 1 .. Len(patches) : q[i] = patches[i]
      BY <3>1, AppendIsSeq
    <3> HIDE DEF q
    <3>3. DOMAIN q = 1 .. Len(q)
      BY <3>2, SeqFacts
    <3>4. patches' = q
      BY <2>2 DEF q
    <3>5. \A i \in DOMAIN patches : i \in DOMAIN q /\ q[i] = patches[i]
      BY <3>1, <3>2, <3>3
    <3>6. IsSeq(patches') /\ Len(patches') = Len(patches) + 1
      BY <3>2, <3>4
    <3> QED BY <3>4, <3>5, <3>6
  <2> QED BY <2>1, <2>2
<1>2. ToSet(patches) \subseteq ToSet(patches')
  BY <1>1 DEF ToSet
<1>3. Presumed \subseteq Presumed'
  BY <1>2 DEF Presumed
<1>4. ReturnDepths \subseteq ReturnDepths'
  BY <1>2 DEF ReturnDepths, Neat
<1> QED BY <1>1, <1>3, <1>4

----------------------------------------------------------------------------
(* A patch.                                                                *)

LEMMA CompiledReady == ASSUME NEW c, Compiled(c) PROVE Ready(c)
<1>1. IsSeq(c)
  BY DEF Compiled, IsSeq
<1>2. Len(c) \in Nat /\ DOMAIN c = 1 .. Len(c) /\ Len(c) # 0
  BY <1>1, SeqFacts DEF Compiled
<1>3. ASSUME NEW j \in 1 .. Len(c), Op(c[j]) = "LABEL"
      PROVE  Arg(c[j])[2][1] \in Nat /\ Arg(c[j])[2][1] < Len(c)
  <2>1. Arg(c[j])[2][1] \in 0 .. Len(c) - 1
    BY <1>2, <1>3 DEF Compiled
  <2> QED BY <1>2, <2>1
<1> QED BY <1>1, <1>2, <1>3 DEF Ready, Numbered, Compiled

(* The check of a text is exact. *)
LEMMA SoundFits ==
  \A fn \in {"function", "getter"} : Compiled(code[fn]) /\ SoundCode(fn) => FitsAt(fn)
<1> SUFFICES ASSUME NEW fn \in {"function", "getter"}, Compiled(code[fn]), SoundCode(fn) PROVE FitsAt(fn)
  OBVIOUS
<1>1. Bound(fn) = ParamsOf(source, fn) \cup Presumed
  BY DEF Bound, Params, ParamsOf
<1>2. PICK ty : IsTyping(code[fn], Bound(fn), ty) /\ (Neat => ReturnsClean(code[fn], ty))
  BY DEF SoundCode
<1>3. \A n \in DOMAIN ty : ty[n].depth \in Nat
  BY <1>2 DEF IsTyping
<1>4. Fits(code[fn], Bound(fn), ReturnDepths, ty)
  BY <1>2, <1>3 DEF Fits, ReturnDepths, ReturnsClean
<1> QED BY <1>1, <1>4, CompiledReady DEF FitsAt, Fitting

LEMMA FitsSound ==
  \A fn \in {"function", "getter"} : FitsAt(fn) => SoundCode(fn)
<1> SUFFICES ASSUME NEW fn \in {"function", "getter"}, FitsAt(fn) PROVE SoundCode(fn)
  OBVIOUS
<1>1. Bound(fn) = ParamsOf(source, fn) \cup Presumed
  BY DEF Bound, Params, ParamsOf
<1> DEFINE ty == Flow(code[fn], Bound(fn))
<1>2. Fits(code[fn], Bound(fn), ReturnDepths, ty)
  BY <1>1, FittingFlow DEF FitsAt
<1> HIDE DEF ty
<1>3. IsTyping(code[fn], Bound(fn), ty) /\ (Neat => ReturnsClean(code[fn], ty))
  BY <1>2 DEF Fits, ReturnDepths, ReturnsClean
<1> QED BY <1>3 DEF SoundCode, ty

LEMMA FittingWeaker ==
  ASSUME NEW c, NEW params, NEW rets, Fitting(c, params, rets), NEW more, params \subseteq more,
         NEW rets2, rets \subseteq rets2
  PROVE  Fitting(c, more, rets2)
<1>1. PICK ty : Fits(c, params, rets, ty)
  BY DEF Fitting
<1>2. IsTyping(c, more, ty)
  BY <1>1 DEF Fits, IsTyping
<1>3. Fits(c, more, rets2, ty)
  BY <1>1, <1>2 DEF Fits
<1> QED BY <1>3 DEF Fitting

Changed(c, t, x) == [c EXCEPT ![t] = x]

LEMMA EngineChanged ==
  ASSUME NEW c, IsEngine(c), NEW t, NEW x
  PROVE  /\ IsEngine(Changed(c, t, x))
         /\ \A fn \in {"function", "getter"} : Changed(c, t, x)[fn] = IF fn = t THEN x ELSE c[fn]
<1>1. DOMAIN c = {"function", "getter"}
  BY DEF IsEngine
<1>2. Changed(c, t, x) = [fn \in {"function", "getter"} |-> IF fn = t THEN x ELSE c[fn]]
  BY <1>1 DEF Changed
<1> QED BY <1>2 DEF IsEngine

LEMMA PatchStands ==
  ASSUME Inv, GuardsPlaced, GuardsPlaced', phase = "raised", phase' = "unwind", source' = source,
         NEW spec, NEW old, old = IF spec.target = "getter" THEN code.getter ELSE Top.code,
         NEW new, new = Build(old, spec), code' = [code EXCEPT ![spec.target] = new],
         NEW p, p.spec = spec, p.old = old, patches' = Append(patches, p)
  PROVE  CodeStands'
<1> DEFINE t == spec.target
           params(fn) == ParamsOf(source, fn) \cup Presumed'
           last == patches'[Len(patches')]
<1>1. Presumed \subseteq Presumed' /\ ReturnDepths \subseteq ReturnDepths'
  BY PatchesLetMore
<1>2. ASSUME NEW fn \in {"function", "getter"} PROVE Fitting(code[fn], params(fn), ReturnDepths')
  <2>1. Fitting(code[fn], ParamsOf(source, fn) \cup Presumed, ReturnDepths)
    BY DEF Inv, CodeStands, FitsAt
  <2>2. ParamsOf(source, fn) \cup Presumed \subseteq params(fn)
    BY <1>1
  <2> HIDE DEF params
  <2> QED BY <1>1, <2>1, <2>2, FittingWeaker
<1>3. Fitting(Top.code, params("function"), ReturnDepths')
  <2>1. Top.fn = "function"
    BY DEF GuardsPlaced
  <2>2. Stands(Top, 0, ParamsOf(source, "function"), Presumed, ReturnDepths)
    BY <2>1, TopStands
  <2>3. Fitting(Top.code, ParamsOf(source, "function") \cup Presumed, ReturnDepths)
    BY <2>2 DEF Stands, Fitting
  <2>4. ParamsOf(source, "function") \cup Presumed \subseteq params("function")
    BY <1>1
  <2> HIDE DEF params
  <2> QED BY <1>1, <2>3, <2>4, FittingWeaker
<1>4. IsEngine(code') /\ \A fn \in {"function", "getter"} : code'[fn] = IF fn = t THEN new ELSE code[fn]
  <2>1. IsEngine(code)
    BY DEF Inv, CodeStands
  <2>2. code' = Changed(code, t, new)
    BY DEF Changed
  <2> HIDE DEF t
  <2>3. IsEngine(Changed(code, t, new))
    BY <2>1, EngineChanged
  <2>4. \A fn \in {"function", "getter"} : Changed(code, t, new)[fn] = IF fn = t THEN new ELSE code[fn]
    BY <2>1, EngineChanged
  <2> QED BY <2>2, <2>3, <2>4
<1>5. last = p /\ patches' # <<>>
  <2>1. IsSeq(patches) /\ Len(patches) \in Nat
    BY SeqFacts DEF Inv, Shape
  <2> DEFINE q == Append(patches, p)
  <2>2. IsSeq(q) /\ Len(q) = Len(patches) + 1 /\ q[Len(patches) + 1] = p
    BY <2>1, AppendIsSeq
  <2>3. patches' = q
    OBVIOUS
  <2> HIDE DEF q
  <2>4. q # <<>>
    BY <2>1, <2>2, SeqFacts
  <2> QED BY <2>2, <2>3, <2>4
<1>6. ASSUME t \in {"function", "getter"} PROVE Fitting(new, params(t), ReturnDepths')
  <2>1. IF spec.strategy = "chain_subscript_guard" /\ ~InsideTryBlock(old)
        THEN Compiled(code'[t]) /\ SoundCode(t)'
        ELSE HasPlace(old, spec, Bound(t)', IF Neat' THEN {1} ELSE Nat)
    BY <1>5 DEF GuardsPlaced
  <2>2. Bound(t)' = params(t)
    BY DEF Bound, Params, ParamsOf
  <2>3. ReturnDepths' = IF Neat' THEN {1} ELSE Nat
    BY DEF ReturnDepths
  <2>4. Fitting(old, params(t), ReturnDepths')
    <3>1. CASE t = "getter"
      BY <1>2, <3>1
    <3>2. CASE t = "function"
      BY <1>3, <3>2
    <3> QED BY <1>6, <3>1, <3>2
  <2>5. CASE spec.strategy = "chain_subscript_guard" /\ ~InsideTryBlock(old)
    <3>1. FitsAt(t)'
      <4>1. (\A fn \in {"function", "getter"} : Compiled(code[fn]) /\ SoundCode(fn) => FitsAt(fn))'
        BY SoundFits, PTL
      <4>2. \A fn \in {"function", "getter"} : Compiled(code'[fn]) /\ SoundCode(fn)' => FitsAt(fn)'
        BY <4>1
      <4> QED BY <1>6, <2>1, <2>5, <4>2
    <3>2. Fitting(code'[t], params(t), ReturnDepths')
      BY <3>1 DEF FitsAt
    <3> QED BY <1>4, <1>6, <3>2
  <2>6. CASE ~(spec.strategy = "chain_subscript_guard" /\ ~InsideTryBlock(old))
    <3>1. HasPlace(old, spec, params(t), ReturnDepths')
      BY <2>1, <2>2, <2>3, <2>6
    <3> HIDE DEF params
    <3> QED BY <2>4, <2>6, <3>1, BuildFits
  <2> QED BY <2>5, <2>6
<1>7. ASSUME NEW fn \in {"function", "getter"} PROVE FitsAt(fn)'
  <2>1. Fitting(code'[fn], params(fn), ReturnDepths')
    <3>1. CASE fn = t
      BY <1>4, <1>6, <3>1
    <3>2. CASE fn # t
      BY <1>2, <1>4, <3>2
    <3> QED BY <3>1, <3>2
  <2> QED BY <2>1 DEF FitsAt
<1> QED BY <1>4, <1>7 DEF CodeStands

LEMMA HealKeeps == ASSUME Inv, GuardsPlaced, GuardsPlaced', Heal PROVE Inv'
<1>1. /\ phase = "raised" /\ phase' = "unwind" /\ source' = source /\ frames' = frames /\ calls' = calls
  BY DEF Heal
<1>10. PICK spec : \E old \in {IF spec.target = "getter" THEN code.getter ELSE Top.code} :
                     Apply(spec, old, Synthesize(old, spec))
  BY DEF Heal
<1>11. PICK old : /\ old = IF spec.target = "getter" THEN code.getter ELSE Top.code
                  /\ Apply(spec, old, Synthesize(old, spec))
  BY <1>10
<1>12. PICK p : \/ UNCHANGED <<code, patches>>
                \/ /\ patches' = Append(patches, p) /\ Len(patches) # MaxPatches
                   /\ p.spec = spec /\ p.old = old /\ Synthesize(old, spec) # Rejected
                   /\ code' = [code EXCEPT ![spec.target] = Synthesize(old, spec)]
  <2> DEFINE new == Synthesize(old, spec)
             r == [spec |-> spec, fingerprint |-> Fingerprint(Top, exc),
                   old |-> old, new |-> new, at |-> Top.pc, exc |-> exc, args |-> args,
                   call |-> calls, fresh |-> spec = Analysis(Top, exc)]
  <2>1. \/ UNCHANGED <<code, patches>>
        \/ /\ patches' = Append(patches, r) /\ Len(patches) # MaxPatches /\ new # Rejected
           /\ code' = [code EXCEPT ![spec.target] = new]
    BY <1>11 DEF Apply
  <2>2. r.spec = spec /\ r.old = old
    OBVIOUS
  <2> HIDE DEF r
  <2> QED BY <2>1, <2>2
<1>2. patches' = patches \/ (patches' = Append(patches, p) /\ Len(patches) # MaxPatches)
  BY <1>12
<1>3. /\ IsSeq(patches') /\ Presumed \subseteq Presumed' /\ ReturnDepths \subseteq ReturnDepths'
  BY <1>1, <1>2, PatchesLetMore
<1>4. Len(patches') <= MaxPatches
  <2>1. CASE patches' = patches
    BY <2>1 DEF Inv, Shape
  <2>2. CASE patches' = Append(patches, p) /\ Len(patches) # MaxPatches
    <3>1. MaxPatches \in Nat /\ Len(patches) \in Nat /\ Len(patches) <= MaxPatches
      BY GuardedCallsAssumption, SeqFacts DEF Inv, Shape
    <3> DEFINE q == Append(patches, p)
    <3>2. Len(q) = Len(patches) + 1
      BY AppendIsSeq DEF Inv, Shape
    <3>3. patches' = q
      BY <2>2
    <3> HIDE DEF q
    <3> QED BY <2>2, <3>1, <3>2, <3>3
  <2> QED BY <1>2, <2>1, <2>2
<1>5. Shape'
  BY <1>1, <1>3, <1>4 DEF Inv, Shape
<1>6. FramesFit'
  <2>1. ASSUME NEW i \in 1 .. Len(frames)
        PROVE  Stands(frames[i], IF i = Len(frames) THEN 0 ELSE 1, ParamsOf(source, frames[i].fn),
                      Presumed', ReturnDepths')
    <3>1. Stands(frames[i], IF i = Len(frames) THEN 0 ELSE 1, ParamsOf(source, frames[i].fn),
                 Presumed, ReturnDepths)
      BY DEF Inv, FramesFit
    <3> QED BY <3>1, <1>3, Weaker
  <2> QED BY <1>1, <2>1 DEF Inv, FramesFit
<1>7. CodeStands'
  <2>1. CASE UNCHANGED <<code, patches>>
    BY <1>1, <2>1, SameEngine DEF Inv, CodeStands, FitsAt
  <2>2. CASE /\ patches' = Append(patches, p) /\ p.spec = spec /\ p.old = old
             /\ Synthesize(old, spec) # Rejected
             /\ code' = [code EXCEPT ![spec.target] = Synthesize(old, spec)]
    <3>1. Synthesize(old, spec) = Build(old, spec)
      BY <2>2 DEF Synthesize
    <3> QED BY <1>1, <1>11, <2>2, <3>1, PatchStands
  <2> QED BY <1>12, <2>1, <2>2
<1> QED BY <1>5, <1>6, <1>7 DEF Inv

LEMMA UnwindKeeps == ASSUME Inv, Unwind PROVE Inv'
<1>1. phase = "unwind"
  BY DEF Unwind
<1>2. CASE End(<<"raised", exc>>)
  BY <1>2, EndKeeps
<1>3. ASSUME NEW i \in 1 .. Top.pc, Op(Top.code[i]) = "TRY_BEGIN",
             \A j \in i .. Top.pc : Op(Top.code[j]) # "TRY_END",
             SetTop(Moved(Top, Target(Arg(Top.code[i])[1]), <<>>)), phase' = "run", Quiet
      PROVE  Inv'
  <2> DEFINE h == Target(Arg(Top.code[i])[1])
             g == Moved(Top, h, <<>>)
  <2>1. h \in Handlers(Top.code, Top.pc)
    BY <1>3 DEF Handlers, Target
  <2>2. /\ IsFrame(g) /\ g.fn = Top.fn /\ g.code = Top.code /\ g.pc = h /\ g.stack = <<>>
        /\ g.locals = Top.locals
    <3> IsFrame(Top)
      BY <1>1, TopStands
    <3> HIDE DEF h
    <3> QED BY MovedFrame
  <2> HIDE DEF h
  <2>3. Stands(g, 0, ParamsOf(source, Top.fn), Presumed, ReturnDepths)
    <3> HIDE DEF g
    <3> QED BY <1>1, <2>1, <2>2, TopStands, Caught
  <2>4. SetTop(g)
    BY <1>3 DEF h
  <2> HIDE DEF g
  <2>5. FramesFit' /\ frames' # <<>>
    BY <1>1, <1>3, <2>2, <2>3, <2>4, SetTopFits DEF Quiet
  <2> QED BY <1>3, <2>5, CallGoesOn DEF Quiet
<1> QED BY <1>2, <1>3 DEF Unwind

LEMMA CallKeeps == ASSUME Inv, NEW a \in Sources[source].inputs, Call(a) PROVE Inv'
<1> DEFINE l == Restrict(a, DOMAIN a \cap Locals(Sources[source].code))
           f == Frame("function", l)
<1>1. /\ frames' = <<f>> /\ phase' = "run" /\ calls' = calls + 1 /\ calls < MaxCalls
      /\ UNCHANGED <<source, code, patches>>
  BY DEF Call
<1>2. ParamsOf(source, "function") \subseteq DOMAIN l
  BY DEF ParamsOf, Restrict
<1> HIDE DEF l
<1>3. /\ IsFrame(f) /\ f.fn = "function"
      /\ Stands(f, 0, ParamsOf(source, f.fn), Presumed, ReturnDepths)
  BY <1>2, FrameBegins
<1> HIDE DEF f
<1>4. IsSeq(frames') /\ Len(frames') = 1 /\ frames'[1] = f
  <2> DEFINE t == <<f>>
  <2>1. IsSeq(t) /\ Len(t) = 1 /\ t[1] = f
    BY AloneIsSeq
  <2>2. frames' = t
    BY <1>1
  <2> HIDE DEF t
  <2> QED BY <2>1, <2>2
<1>5. FramesFit'
  BY <1>1, <1>3, <1>4, SameEngine DEF FramesFit
<1>6. frames' # <<>>
  BY <1>4, SeqFacts
<1>7. Shape'
  BY <1>1, <1>6, GuardedCallsAssumption DEF Inv, Shape
<1>8. CodeStands'
  BY <1>1, SameEngine DEF Inv, CodeStands, FitsAt
<1> QED BY <1>5, <1>7, <1>8 DEF Inv

----------------------------------------------------------------------------
LEMMA InvInit == Init /\ GuardsPlaced => Inv
<1> SUFFICES ASSUME Init, GuardsPlaced PROVE Inv
  OBVIOUS
<1>1. CodeStands
  <2>1. \A fn \in {"function", "getter"} : Compiled(code[fn]) /\ SoundCode(fn)
    BY DEF Init, GuardsPlaced
  <2>2. IsEngine(code)
    BY DEF Init, IsEngine
  <2> QED BY <2>1, <2>2, SoundFits DEF CodeStands
<1>2. FramesFit
  BY EmptyIsSeq DEF Init, FramesFit
<1>3. Shape
  BY EmptyIsSeq, GuardedCallsAssumption DEF Init, Shape
<1> QED BY <1>1, <1>2, <1>3 DEF Inv

LEMMA InvNext == Inv /\ GuardsPlaced /\ GuardsPlaced' /\ [Next]_vars => Inv'
<1> SUFFICES ASSUME Inv, GuardsPlaced, GuardsPlaced', [Next]_vars PROVE Inv'
  OBVIOUS
<1>1. CASE UNCHANGED vars
  BY <1>1, SameEngine DEF vars, Inv, Shape, FramesFit, CodeStands, FitsAt
<1>2. CASE Step
  BY <1>2, NopKeeps, LoadKeeps, StoreKeeps, AttrKeeps, ComputeKeeps, ArrangeKeeps, BranchKeeps,
     CallOpKeeps, ReturnKeeps, HealKeeps, UnwindKeeps DEF Step
<1>3. ASSUME NEW a \in Sources[source].inputs, Call(a) PROVE Inv'
  BY <1>3, CallKeeps
<1> QED BY <1>1, <1>2, <1>3 DEF Next

LEMMA InvFits == Inv /\ GuardsPlaced => StackFits
<1> SUFFICES ASSUME Inv, GuardsPlaced PROVE StackFits
  OBVIOUS
<1>1. TypeOK
  <2>1. DOMAIN frames = 1 .. Len(frames)
    BY SeqFacts DEF Inv, FramesFit
  <2>2. ASSUME NEW i \in 1 .. Len(frames) PROVE frames[i].pc \in DOMAIN frames[i].code
    <3>1. PICK ty : IsTyping(frames[i].code, ParamsOf(source, frames[i].fn) \cup Presumed, ty)
                    /\ frames[i].pc \in DOMAIN ty
      BY DEF Inv, FramesFit, Stands, Fits
    <3> QED BY <3>1 DEF IsTyping
  <2> QED BY <2>1, <2>2 DEF Inv, Shape, FramesFit, TypeOK
<1>2. RunFits
  BY TopStands DEF RunFits, ReturnDepths
<1>3. CodeFits
  BY FitsSound DEF Inv, CodeStands, CodeFits
<1> QED BY <1>1, <1>2, <1>3 DEF StackFits

(* Guards, as _synthesize_* write them into any code, for any functions and  *)
(* arguments and any patches one after another, leave the code sound on all *)
(* paths and every call that runs it or the code of before: each only has   *)
(* to get a place where it has what it reads.  Patches of a function in the *)
(* middle of a call, of getters and of functions with handlers disturb no  *)
(* frame that is under way.                                                *)
THEOREM GuardedCodeRuns == Spec /\ []GuardsPlaced => []StackFits
<1>1. Init /\ GuardsPlaced => Inv
  BY InvInit
<1>2. Inv /\ GuardsPlaced /\ GuardsPlaced' /\ [Next]_vars => Inv'
  BY InvNext
<1>3. Inv /\ GuardsPlaced => StackFits
  BY InvFits
<1> QED BY <1>1, <1>2, <1>3, PTL DEF Spec
=============================================================================
