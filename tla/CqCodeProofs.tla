---------------------------- MODULE CqCodeProofs ----------------------------
(***************************************************************************)
(* What TLAPS proves of CqCode: every message is read as it was written    *)
(* and every string without codes is kept, however long they are.          *)
(*                                                                         *)
(* What FlattenSeq and Normals compute is proved by induction over the     *)
(* length (SetInduction, which rests on NatLessThanWellFounded and WFMin). *)
(* Parsing is the invariant of the reader: what is left of the string is   *)
(* the rest of one text, type, key or value, followed by what the writer   *)
(* puts after it; what has been read and what is left of that node make    *)
(* the node; and the nodes before it are those of the message.             *)
(***************************************************************************)
EXTENDS CqCode, SequenceTheorems, FiniteSetTheorems, WellFoundedInduction, TLAPS

LEMMA SetInduction ==
  ASSUME NEW S, 0 \in S, \A n \in Nat : n \in S => n + 1 \in S
  PROVE  \A n \in Nat : n \in S
<1> DEFINE R == {p \in Nat \X Nat : p[1] < p[2]}
<1>1. IsWellFoundedOn(R, Nat)
    BY NatLessThanWellFounded DEF OpToRel
<1> SUFFICES ASSUME Nat \ S # {} PROVE FALSE
    OBVIOUS
<1>2. PICK x \in Nat \ S : \A y \in Nat \ S : <<y, x>> \notin R
  <2> HIDE DEF R
  <2> QED BY <1>1, WFMin
<1>3. x - 1 \in Nat \ S
    OBVIOUS
<1>4. <<x - 1, x>> \in Nat \X Nat /\ x - 1 < x
    BY <1>3
<1> QED BY <1>2, <1>3, <1>4

(***************************************************************************)
(* FlattenSeq.                                                             *)
(***************************************************************************)

\* f is the function FlattenSeq(P) is defined by, up to n.
Flattens(f, P, n) ==
  f = [k \in 1..n |-> IF k = 1 THEN P[k] ELSE f[k - 1] \o P[k]]

LEMMA FlattensExists ==
  ASSUME NEW P, NEW n \in Nat PROVE \E f : Flattens(f, P, n)
<1> DEFINE S == {m \in Nat : \E f : Flattens(f, P, m)}
<1>1. 0 \in S
  <2> Flattens([k \in 1..0 |-> 0], P, 0)
      BY DEF Flattens
  <2> QED OBVIOUS
<1>2. ASSUME NEW m \in Nat, m \in S PROVE m + 1 \in S
  <2>1. PICK f : Flattens(f, P, m)
      BY <1>2
  <2> DEFINE g == [k \in 1..(m + 1) |->
                     IF k = m + 1 THEN IF k = 1 THEN P[k] ELSE f[k - 1] \o P[k] ELSE f[k]]
  <2>2. \A k \in 1..m : g[k] = f[k]
      OBVIOUS
  <2>3. \A k \in 1..(m + 1) :
          g[k] = IF k = 1 THEN P[k] ELSE g[k - 1] \o P[k]
    <3> TAKE k \in 1..(m + 1)
    <3>1. CASE k = m + 1
      <4>1. k # 1 => k - 1 \in 1..m
          BY <3>1
      <4> QED BY <3>1, <4>1, <2>2
    <3>2. CASE k # m + 1
      <4>1. k \in 1..m /\ (k # 1 => k - 1 \in 1..m)
          BY <3>2
      <4>2. f[k] = IF k = 1 THEN P[k] ELSE f[k - 1] \o P[k]
          BY <2>1, <4>1 DEF Flattens
      <4> HIDE DEF g
      <4> QED BY <4>1, <4>2, <2>2
    <3> QED BY <3>1, <3>2
  <2>4. g = [k \in 1..(m + 1) |-> g[k]]
      OBVIOUS
  <2>5. Flattens(g, P, m + 1)
    <3> HIDE DEF g
    <3> QED BY <2>3, <2>4 DEF Flattens
  <2> QED BY <2>5
<1> HIDE DEF S
<1>3. n \in S
    BY <1>1, <1>2, SetInduction
<1> QED BY <1>3 DEF S

\* It depends on the beginning of the sequence only.
Same(P, Q, n) == \A k \in 1..n : P[k] = Q[k]

LEMMA FlattensAgree ==
  ASSUME NEW P, NEW Q, NEW m \in Nat, NEW n \in Nat, NEW f, NEW g, m <= n,
         Flattens(f, P, m), Flattens(g, Q, n), Same(P, Q, m)
  PROVE  Same(f, g, m)
<1> DEFINE S == {k \in Nat : k \in 1..m => f[k] = g[k]}
<1>0. \A k \in 1..m : /\ f[k] = IF k = 1 THEN P[k] ELSE f[k - 1] \o P[k]
                      /\ g[k] = IF k = 1 THEN Q[k] ELSE g[k - 1] \o Q[k]
  <2> TAKE k \in 1..m
  <2>1. k \in 1..n
      OBVIOUS
  <2>2. f[k] = IF k = 1 THEN P[k] ELSE f[k - 1] \o P[k]
      BY DEF Flattens
  <2>3. g[k] = IF k = 1 THEN Q[k] ELSE g[k - 1] \o Q[k]
      BY <2>1 DEF Flattens
  <2> QED BY <2>2, <2>3
<1>1. 0 \in S
    OBVIOUS
<1>2. ASSUME NEW k \in Nat, k \in S PROVE k + 1 \in S
  <2> SUFFICES ASSUME k + 1 \in 1..m PROVE f[k + 1] = g[k + 1]
      OBVIOUS
  <2>1. k + 1 = 1 \/ k \in 1..m
      OBVIOUS
  <2>2. (k + 1) - 1 = k
      OBVIOUS
  <2>3. k \in 1..m => f[k] = g[k]
      BY <1>2
  <2> QED BY <1>0, <2>1, <2>2, <2>3 DEF Same
<1>3. \A k \in Nat : k \in S
  <2> HIDE DEF S
  <2> QED BY <1>1, <1>2, SetInduction
<1> QED BY <1>3 DEF Same

LEMMA FlattenIs ==
  ASSUME NEW S, NEW P \in Seq(S), P # <<>>
  PROVE  \E f : Flattens(f, P, Len(P)) /\ FlattenSeq(P) = f[Len(P)]
<1> DEFINE f == CHOOSE h : h = [k \in 1..Len(P) |-> IF k = 1 THEN P[k] ELSE h[k - 1] \o P[k]]
<1>1. \E h : Flattens(h, P, Len(P))
  <2> Len(P) \in Nat
      OBVIOUS
  <2> QED BY FlattensExists
<1>2. Flattens(f, P, Len(P))
    BY <1>1 DEF Flattens
<1>3. FlattenSeq(P) = f[Len(P)]
    BY DEF FlattenSeq
<1> QED BY <1>2, <1>3

LEMMA FlattenEmpty == FlattenSeq(<<>>) = <<>>
  BY DEF FlattenSeq

\* One sequence more at the end.
LEMMA FlattenLonger ==
  ASSUME NEW T, NEW P \in Seq(Seq(T)), NEW Q \in Seq(Seq(T)), NEW n \in Nat \ {0},
         Len(P) = n, Len(Q) = n + 1, Same(P, Q, n)
  PROVE  FlattenSeq(Q) = FlattenSeq(P) \o Q[n + 1]
<1>1. P # <<>> /\ Q # <<>>
    OBVIOUS
<1>2. PICK f : Flattens(f, P, n) /\ FlattenSeq(P) = f[n]
    BY <1>1, FlattenIs
<1>3. PICK g : Flattens(g, Q, n + 1) /\ FlattenSeq(Q) = g[n + 1]
    BY <1>1, FlattenIs
<1>4. g[n + 1] = g[n] \o Q[n + 1]
  <2> n + 1 \in 1..(n + 1) /\ (n + 1) - 1 = n /\ n + 1 # 1
      OBVIOUS
  <2> QED BY <1>3 DEF Flattens
<1>5. Same(f, g, n)
  <2> n \in Nat /\ n + 1 \in Nat /\ n <= n + 1
      OBVIOUS
  <2> QED BY <1>2, <1>3, FlattensAgree
<1>6. f[n] = g[n]
    BY <1>5 DEF Same
<1> QED BY <1>2, <1>3, <1>4, <1>6

LEMMA FlattenOne ==
  ASSUME NEW T, NEW s \in Seq(T) PROVE FlattenSeq(<<s>>) = s
<1>1. <<s>> \in Seq(Seq(T)) /\ <<s>> # <<>> /\ Len(<<s>>) = 1 /\ <<s>>[1] = s
    OBVIOUS
<1>2. PICK f : Flattens(f, <<s>>, 1) /\ FlattenSeq(<<s>>) = f[1]
  <2> DEFINE P == <<s>>
  <2>1. P \in Seq(Seq(T)) /\ P # <<>> /\ Len(P) = 1
      BY <1>1
  <2> HIDE DEF P
  <2>2. \E f : Flattens(f, P, 1) /\ FlattenSeq(P) = f[1]
      BY <2>1, FlattenIs
  <2> QED BY <2>2 DEF P
<1>3. f[1] = <<s>>[1]
    BY <1>2 DEF Flattens
<1> QED BY <1>1, <1>2, <1>3

LEMMA FlattenAppend ==
  ASSUME NEW T, NEW P \in Seq(Seq(T)), NEW s \in Seq(T)
  PROVE  FlattenSeq(Append(P, s)) = IF P = <<>> THEN s ELSE FlattenSeq(P) \o s
<1> DEFINE Q == Append(P, s)
<1>1. /\ Q \in Seq(Seq(T)) /\ Len(Q) = Len(P) + 1 /\ Len(P) \in Nat
      /\ Same(P, Q, Len(P))
      /\ Q[Len(P) + 1] = s
    BY AppendProperties DEF Same
<1>2. CASE P = <<>>
  <2> Q = <<s>>
      BY <1>2
  <2> QED BY <1>2, FlattenOne
<1>3. CASE P # <<>>
  <2>1. Len(P) # 0
      BY <1>3
  <2> HIDE DEF Q
  <2>2. FlattenSeq(Q) = FlattenSeq(P) \o Q[Len(P) + 1]
      BY <1>1, <2>1, FlattenLonger
  <2> QED BY <1>1, <1>3, <2>2 DEF Q
<1> QED BY <1>2, <1>3

LEMMA FlattenType ==
  ASSUME NEW T, NEW P \in Seq(Seq(T)) PROVE FlattenSeq(P) \in Seq(T)
<1> DEFINE S == {n \in Nat : \A Q \in Seq(Seq(T)) : Len(Q) = n => FlattenSeq(Q) \in Seq(T)}
<1>1. 0 \in S
  <2> SUFFICES ASSUME NEW Q \in Seq(Seq(T)), Len(Q) = 0 PROVE FlattenSeq(Q) \in Seq(T)
      OBVIOUS
  <2> Q = <<>>
      OBVIOUS
  <2> QED BY FlattenEmpty, EmptySeq
<1>2. ASSUME NEW n \in Nat, n \in S PROVE n + 1 \in S
  <2> SUFFICES ASSUME NEW Q \in Seq(Seq(T)), Len(Q) = n + 1 PROVE FlattenSeq(Q) \in Seq(T)
      OBVIOUS
  <2>1. PICK R \in Seq(Seq(T)), s \in Seq(T) : Q = Append(R, s)
    <3> Q # <<>>
        OBVIOUS
    <3> QED BY SequenceEmptyOrAppend
  <2>2. Len(R) = n
      BY <2>1
  <2>3. FlattenSeq(R) \in Seq(T)
      BY <1>2, <2>2
  <2> QED BY <2>1, <2>3, FlattenAppend, ConcatProperties
<1> HIDE DEF S
<1>3. Len(P) \in S
    BY <1>1, <1>2, SetInduction, SMTT(30)
<1> QED BY <1>3 DEF S

\* \o, for steps whose hypotheses about sequences of sequences have nothing to
\* do with what is concatenated.
Cat(s, t) == s \o t

LEMMA CatAssociative ==
  ASSUME NEW T, NEW s \in Seq(T), NEW t \in Seq(T), NEW u \in Seq(T)
  PROVE  Cat(Cat(s, t), u) = Cat(s, Cat(t, u))
BY ConcatAssociative DEF Cat

LEMMA ConsAppend ==
  ASSUME NEW E, NEW e \in E, NEW R \in Seq(E), NEW t \in E
  PROVE  /\ <<e>> \in Seq(E) /\ <<e>> \o R \in Seq(E)
         /\ <<e>> \o R # <<>>
         /\ <<e>> \o Append(R, t) = Append(<<e>> \o R, t)
OBVIOUS

\* One sequence more at the beginning.
LEMMA FlattenCons ==
  ASSUME NEW T, NEW P \in Seq(Seq(T)), NEW s \in Seq(T)
  PROVE  FlattenSeq(<<s>> \o P) = s \o FlattenSeq(P)
<1> DEFINE Holds(n) == \A Q \in Seq(Seq(T)) :
                         Len(Q) = n => FlattenSeq(<<s>> \o Q) = s \o FlattenSeq(Q)
<1> DEFINE S == {n \in Nat : Holds(n)}
<1>1. Holds(0)
  <2> SUFFICES ASSUME NEW Q \in Seq(Seq(T)), Len(Q) = 0
               PROVE  FlattenSeq(<<s>> \o Q) = s \o FlattenSeq(Q)
      OBVIOUS
  <2>1. Q = <<>>
      OBVIOUS
  <2>2. <<s>> \o Q = Append(Q, s)
      BY <2>1
  <2>3. FlattenSeq(<<s>> \o Q) = s
      BY <2>1, <2>2, FlattenAppend
  <2> QED BY <2>1, <2>3, FlattenEmpty, ConcatEmptySeq
<1>2. ASSUME NEW n \in Nat, Holds(n) PROVE Holds(n + 1)
  <2> SUFFICES ASSUME NEW Q \in Seq(Seq(T)), Len(Q) = n + 1
               PROVE  FlattenSeq(<<s>> \o Q) = s \o FlattenSeq(Q)
      OBVIOUS
  <2>1. PICK R \in Seq(Seq(T)), t \in Seq(T) : Q = Append(R, t)
    <3> Q # <<>>
        OBVIOUS
    <3> QED BY SequenceEmptyOrAppend
  <2>2. Len(R) = n
      BY <2>1
  <2>3. FlattenSeq(<<s>> \o R) = s \o FlattenSeq(R)
      BY <1>2, <2>2
  <2> HIDE DEF Holds
  <2>4. /\ <<s>> \in Seq(Seq(T)) /\ <<s>> \o R \in Seq(Seq(T))
        /\ <<s>> \o R # <<>>
        /\ <<s>> \o Q = Append(<<s>> \o R, t)
      BY <2>1, ConsAppend
  <2>5. FlattenSeq(<<s>> \o Q) = (s \o FlattenSeq(R)) \o t
    <3> DEFINE V == <<s>> \o R
    <3>1. V \in Seq(Seq(T)) /\ V # <<>>
        BY <2>4
    <3> HIDE DEF V
    <3>2. FlattenSeq(Append(V, t)) = FlattenSeq(V) \o t
        BY <3>1, FlattenAppend
    <3> QED BY <2>3, <2>4, <3>2 DEF V
  <2>6. FlattenSeq(Q) = FlattenSeq(R) \o t
    <3>1. CASE R = <<>>
      <4> FlattenSeq(Q) = t /\ FlattenSeq(R) = <<>>
          BY <3>1, <2>1, FlattenAppend, FlattenEmpty
      <4> QED BY ConcatEmptySeq
    <3>2. CASE R # <<>>
        BY <3>2, <2>1, FlattenAppend
    <3> QED BY <3>1, <3>2
  <2>7. FlattenSeq(R) \in Seq(T)
      BY FlattenType
  <2>8. (s \o FlattenSeq(R)) \o t = s \o (FlattenSeq(R) \o t)
    <3> DEFINE u == FlattenSeq(R)
    <3>1. u \in Seq(T)
        BY <2>7
    <3> HIDE DEF u
    <3>2. Cat(Cat(s, u), t) = Cat(s, Cat(u, t))
        BY <3>1, CatAssociative
    <3>3. (s \o u) \o t = s \o (u \o t)
        BY <3>2, Zenon DEF Cat
    <3> QED BY <3>3 DEF u
  <2> QED BY <2>5, <2>6, <2>8
<1>3. \A n \in Nat : Holds(n)
  <2> HIDE DEF Holds
  <2> 0 \in S /\ \A n \in Nat : n \in S => n + 1 \in S
      BY <1>1, <1>2
  <2> HIDE DEF S
  <2> \A n \in Nat : n \in S
      BY SetInduction
  <2> QED BY DEF S
<1>4. Len(P) \in Nat
    OBVIOUS
<1> QED BY <1>3, <1>4

\* What is left of a flattened sequence from place n on.
LEMMA FlattenFrom ==
  ASSUME NEW T, NEW P \in Seq(Seq(T)), NEW n \in 1..Len(P)
  PROVE  FlattenSeq(SubSeq(P, n, Len(P))) = P[n] \o FlattenSeq(SubSeq(P, n + 1, Len(P)))
<1>1. Len(P) \in n..Len(P)
    OBVIOUS
<1>2. SubSeq(P, n, Len(P)) = <<P[n]>> \o SubSeq(P, n + 1, Len(P))
    BY <1>1, SubSeqRecursiveFirst
<1>3. SubSeq(P, n + 1, Len(P)) \in Seq(Seq(T)) /\ P[n] \in Seq(T)
    OBVIOUS
<1> QED BY <1>2, <1>3, FlattenCons

(***************************************************************************)
(* Normals.                                                                *)
(***************************************************************************)
Joins(f, arr, n) ==
  f = [k \in 0..n |-> IF k = 0 THEN <<>> ELSE Joined(f[k - 1], arr[k])]

LEMMA JoinsExists ==
  ASSUME NEW arr, NEW n \in Nat PROVE \E f : Joins(f, arr, n)
<1> DEFINE S == {m \in Nat : \E f : Joins(f, arr, m)}
<1>1. 0 \in S
  <2> DEFINE g == [k \in 0..0 |-> <<>>]
  <2>1. g = [k \in 0..0 |-> IF k = 0 THEN <<>> ELSE Joined(g[k - 1], arr[k])]
      OBVIOUS
  <2>2. Joins(g, arr, 0)
      BY <2>1 DEF Joins
  <2> QED BY <2>2
<1>2. ASSUME NEW m \in Nat, m \in S PROVE m + 1 \in S
  <2>1. PICK f : Joins(f, arr, m)
      BY <1>2
  <2> DEFINE g == [k \in 0..(m + 1) |->
                     IF k = m + 1 THEN Joined(f[m], arr[k]) ELSE f[k]]
  <2>2. \A k \in 0..m : g[k] = f[k]
      OBVIOUS
  <2>3. \A k \in 0..(m + 1) :
          g[k] = IF k = 0 THEN <<>> ELSE Joined(g[k - 1], arr[k])
    <3> TAKE k \in 0..(m + 1)
    <3>1. CASE k = m + 1
      <4>1. g[k] = Joined(f[m], arr[k]) /\ k # 0 /\ k - 1 = m
          BY <3>1
      <4>2. g[m] = f[m]
          BY <2>2
      <4> QED BY <4>1, <4>2
    <3>2. CASE k # m + 1
      <4>1. k \in 0..m /\ (k # 0 => k - 1 \in 0..m)
          BY <3>2
      <4>2. f[k] = IF k = 0 THEN <<>> ELSE Joined(f[k - 1], arr[k])
          BY <2>1, <4>1 DEF Joins
      <4> HIDE DEF g
      <4> QED BY <4>1, <4>2, <2>2
    <3> QED BY <3>1, <3>2
  <2>4. g = [k \in 0..(m + 1) |-> g[k]]
      OBVIOUS
  <2>5. Joins(g, arr, m + 1)
    <3> HIDE DEF g
    <3> QED BY <2>3, <2>4 DEF Joins
  <2> QED BY <2>5
<1> HIDE DEF S
<1>3. n \in S
    BY <1>1, <1>2, SetInduction
<1> QED BY <1>3 DEF S

LEMMA NormalsStep ==
  ASSUME NEW arr, Len(arr) \in Nat
  PROVE  /\ Normals(arr)[0] = <<>>
         /\ \A n \in 0..(Len(arr) - 1) :
               Normals(arr)[n + 1] = Joined(Normals(arr)[n], arr[n + 1])
<1>1. \E f : Joins(f, arr, Len(arr))
    BY JoinsExists
<1>2. Joins(Normals(arr), arr, Len(arr))
    BY <1>1 DEF Joins, Normals
<1> DEFINE f == Normals(arr)
<1>3. Joins(f, arr, Len(arr))
    BY <1>2
<1> HIDE DEF f
<1>4. f[0] = <<>>
    BY <1>3 DEF Joins
<1>5. ASSUME NEW n \in 0..(Len(arr) - 1) PROVE f[n + 1] = Joined(f[n], arr[n + 1])
  <2>1. n + 1 \in 0..Len(arr) /\ n + 1 # 0 /\ (n + 1) - 1 = n
      OBVIOUS
  <2> QED BY <1>3, <2>1 DEF Joins
<1> QED BY <1>4, <1>5 DEF f

(***************************************************************************)
(* Escapes.                                                                *)
(***************************************************************************)
Escape(c) == (CHOOSE e \in Escapes : e[2] = c)[1]
Enc(c, chars) == IF c \notin chars THEN <<c>> ELSE <<"&", Escape(c)>>
Escapable == {"&", "[", "]", ","}

LEMMA EscapesAre ==
  ASSUME NEW e \in Escapes
  PROVE  e = <<e[1], e[2]>> /\ e[1] \in Tokens /\ e[2] \in Escapable
<1>1. /\ "amp;" \in Tokens /\ "#91;" \in Tokens /\ "#93;" \in Tokens
      /\ "#44;" \in Tokens
    BY TokenAssumption
<1>2. CASE e = <<"amp;", "&">>
    BY <1>1, <1>2 DEF Escapable
<1>3. CASE e = <<"#91;", "[">>
    BY <1>1, <1>3 DEF Escapable
<1>4. CASE e = <<"#93;", "]">>
    BY <1>1, <1>4 DEF Escapable
<1>5. CASE e = <<"#44;", ",">>
    BY <1>1, <1>5 DEF Escapable
<1> QED BY <1>2, <1>3, <1>4, <1>5 DEF Escapes

LEMMA EscapeIs ==
  ASSUME NEW c \in Escapable
  PROVE  <<Escape(c), c>> \in Escapes /\ Escape(c) \in Tokens
<1>1. \E e \in Escapes : e[2] = c
    BY DEF Escapes, Escapable
<1>2. PICK e \in Escapes : e = (CHOOSE d \in Escapes : d[2] = c) /\ e[2] = c
    BY <1>1
<1>3. e = <<e[1], e[2]>> /\ e[1] \in Tokens
    BY EscapesAre
<1> QED BY <1>2, <1>3 DEF Escape

LEMMA EncType ==
  ASSUME NEW c \in Tokens, NEW chars \in SUBSET Escapable
  PROVE  Enc(c, chars) \in Seq(Tokens)
<1>1. CASE c \notin chars
    BY <1>1 DEF Enc
<1>2. CASE c \in chars
  <2>1. Escape(c) \in Tokens /\ "&" \in Tokens
      BY <1>2, EscapeIs, TokenAssumption
  <2> QED BY <1>2, <2>1 DEF Enc
<1> QED BY <1>1, <1>2

Encs(s, chars) == [k \in DOMAIN s |-> Enc(s[k], chars)]

LEMMA EscapedIs == \A s, chars : Escaped(s, chars) = FlattenSeq(Encs(s, chars))
  BY DEF Escaped, Encs, Enc, Escape

LEMMA EncsType ==
  ASSUME NEW s \in Seq(Tokens), NEW chars \in SUBSET Escapable
  PROVE  /\ Encs(s, chars) \in Seq(Seq(Tokens))
         /\ Len(Encs(s, chars)) = Len(s)
         /\ \A k \in 1..Len(s) : Encs(s, chars)[k] = Enc(s[k], chars)
<1>1. DOMAIN s = 1..Len(s) /\ Len(s) \in Nat
    OBVIOUS
<1>2. \A k \in 1..Len(s) : Enc(s[k], chars) \in Seq(Tokens)
    BY EncType
<1> DEFINE f == Encs(s, chars)
<1>3. f \in [1..Len(s) -> Seq(Tokens)] /\ \A k \in 1..Len(s) : f[k] = Enc(s[k], chars)
    BY <1>1, <1>2 DEF Encs
<1> HIDE DEF f
<1>4. f \in Seq(Seq(Tokens)) /\ Len(f) = Len(s)
    BY <1>1, <1>3
<1> QED BY <1>3, <1>4 DEF f

LEMMA EscapedType ==
  ASSUME NEW s \in Seq(Tokens), NEW chars \in SUBSET Escapable
  PROVE  Escaped(s, chars) \in Seq(Tokens)
  BY EncsType, EscapedIs, FlattenType

LEMMA EscapedEmpty == \A chars : Escaped(<<>>, chars) = <<>>
<1> TAKE chars
<1>1. Encs(<<>>, chars) = <<>>
    BY DEF Encs
<1> QED BY <1>1, EscapedIs, FlattenEmpty

LEMMA EscapedCons ==
  ASSUME NEW c \in Tokens, NEW s \in Seq(Tokens), NEW chars \in SUBSET Escapable
  PROVE  Escaped(<<c>> \o s, chars) = Enc(c, chars) \o Escaped(s, chars)
<1> DEFINE u == <<c>> \o s
<1>1. /\ u \in Seq(Tokens) /\ Len(u) = Len(s) + 1 /\ u[1] = c
      /\ \A k \in 1..Len(s) : u[k + 1] = s[k]
    OBVIOUS
<1> HIDE DEF u
<1> DEFINE E == Encs(s, chars)
<1> DEFINE F == Encs(u, chars)
<1> DEFINE e == Enc(c, chars)
<1>2. /\ E \in Seq(Seq(Tokens)) /\ Len(E) = Len(s)
      /\ \A k \in 1..Len(s) : E[k] = Enc(s[k], chars)
    BY EncsType
<1>3. /\ F \in Seq(Seq(Tokens)) /\ Len(F) = Len(s) + 1
      /\ \A k \in 1..(Len(s) + 1) : F[k] = Enc(u[k], chars)
    BY <1>1, EncsType
<1>4. e \in Seq(Tokens)
    BY EncType
<1>5. F[1] = e /\ \A k \in 1..Len(s) : F[k + 1] = E[k]
  <2>1. F[1] = e
      BY <1>1, <1>3
  <2>2. ASSUME NEW k \in 1..Len(s) PROVE F[k + 1] = E[k]
    <3> k + 1 \in 1..(Len(s) + 1) /\ u[k + 1] = s[k]
        BY <1>1
    <3> QED BY <1>2, <1>3
  <2> QED BY <2>1, <2>2
<1> HIDE DEF E, F, e
<1>6. F = <<e>> \o E
  <2>1. /\ <<e>> \o E \in Seq(Seq(Tokens)) /\ Len(<<e>> \o E) = Len(s) + 1
        /\ (<<e>> \o E)[1] = e
        /\ \A k \in 1..Len(s) : (<<e>> \o E)[k + 1] = E[k]
      BY <1>2, <1>4
  <2> DEFINE V == <<e>> \o E
  <2>2. /\ V \in Seq(Seq(Tokens)) /\ Len(V) = Len(s) + 1 /\ V[1] = e
        /\ \A k \in 1..Len(s) : V[k + 1] = E[k]
      BY <2>1
  <2> HIDE DEF V
  <2>3. \A k \in 1..Len(F) : F[k] = V[k]
    <3> TAKE k \in 1..Len(F)
    <3>1. k = 1 \/ (k - 1 \in 1..Len(s) /\ (k - 1) + 1 = k)
        BY <1>3
    <3> QED BY <3>1, <1>5, <2>2
  <2>4. F = V
      BY <1>3, <2>2, <2>3, SeqEqual
  <2> QED BY <2>4 DEF V
<1>7. FlattenSeq(F) = e \o FlattenSeq(E)
    BY <1>2, <1>4, <1>6, FlattenCons
<1> QED BY <1>7, EscapedIs DEF E, F, e, u

(***************************************************************************)
(* What a node is written as.                                              *)
(***************************************************************************)
LEMMA TextTypes == Text \in Seq(Tokens)
<1> "text" \in Tokens
    BY TokenAssumption
<1> QED BY DEF Text

LEMMA CharSets ==
  /\ {"&", "[", "]"} \in SUBSET Escapable /\ {"&", "[", "]", ","} \in SUBSET Escapable
  /\ "&" \in Tokens /\ "[" \in Tokens /\ "]" \in Tokens /\ "," \in Tokens
  /\ "=" \in Tokens /\ "CQ:" \in Tokens
  BY TokenAssumption DEF Escapable

LEMMA Strings ==
  /\ <<>> \in Seq(Tokens)
  /\ \A a \in Tokens : <<a>> \in Seq(Tokens)
  /\ \A a, b \in Tokens : <<a, b>> \in Seq(Tokens)
  OBVIOUS

LEMMA Concats ==
  /\ \A s, t \in Seq(Tokens) : s \o t \in Seq(Tokens)
  /\ \A s, t, u \in Seq(Tokens) : (s \o t) \o u = s \o (t \o u)
<1>1. \A s, t \in Seq(Tokens) : s \o t \in Seq(Tokens)
    OBVIOUS
<1> QED BY <1>1, ConcatAssociative

LEMMA Pairs ==
  ASSUME NEW a \in Tokens, NEW b \in Tokens, NEW s \in Seq(Tokens)
  PROVE  <<a, b>> \o s = <<a>> \o (<<b>> \o s) /\ <<b>> \o s \in Seq(Tokens)
<1> DEFINE V == <<a>> \o <<b>>
<1>1. V \in Seq(Tokens) /\ Len(V) = 2 /\ V[1] = a /\ V[2] = b
    OBVIOUS
<1>2. <<a, b>> = V
  <2> HIDE DEF V
  <2> QED BY <1>1
<1> QED BY <1>2, Strings, Concats

LEMMA EscapeTypes ==
  ASSUME NEW s \in Seq(Tokens)
  PROVE  EscapeText(s) \in Seq(Tokens) /\ EscapeCode(s) \in Seq(Tokens)
  BY CharSets, EscapedType DEF EscapeText, EscapeCode

LEMMA NodeTypes ==
  ASSUME NEW node \in Nodes
  PROVE  /\ node.type \in Seq(Tokens)
         /\ IsFiniteSet(Fields(node.data))
         /\ Fields(node.data) \subseteq DOMAIN node.data
         /\ Fields(node.data) \subseteq Seq(Tokens)
         /\ \A k \in Fields(node.data) : node.data[k] \in Seq(Tokens)
<1>1. /\ node.type \in Seq(Tokens)
      /\ IsFiniteSet(DOMAIN node.data) /\ DOMAIN node.data \subseteq Seq(Tokens)
      /\ \A k \in DOMAIN node.data : node.data[k] \in Seq(Tokens) \cup {Null}
    BY MessageAssumption
<1>2. Fields(node.data) \in SUBSET DOMAIN node.data
    BY DEF Fields
<1>3. IsFiniteSet(Fields(node.data))
    BY <1>1, <1>2, FS_Subset
<1>4. \A k \in Fields(node.data) : node.data[k] \in Seq(Tokens)
    BY <1>1 DEF Fields
<1> QED BY <1>1, <1>2, <1>3, <1>4

\* Each field is written once.
LEMMA KeysAre ==
  ASSUME NEW node \in Nodes
  PROVE  /\ Keys(node) \in Seq(Fields(node.data))
         /\ \A k \in Fields(node.data) : \E n \in 1..Len(Keys(node)) : Keys(node)[n] = k
         /\ \A m, n \in 1..Len(Keys(node)) : Keys(node)[m] = Keys(node)[n] => m = n
<1> DEFINE S == Fields(node.data)
<1> DEFINE N == Cardinality(S)
<1>1. IsFiniteSet(S)
    BY NodeTypes
<1> HIDE DEF S
<1>2. N \in Nat /\ ExistsBijection(1..N, S)
    BY <1>1, FS_CardinalityType
<1>3. \E f \in [1..N -> S] : IsInjective(f)
    BY <1>2 DEF ExistsBijection, Bijection, Injection
<1> DEFINE f == SetToSeq(S)
<1>4. f \in [1..N -> S] /\ IsInjective(f)
    BY <1>3 DEF SetToSeq
<1> HIDE DEF f
<1>5. f \in Injection(1..N, S)
    BY <1>4 DEF Injection
<1>6. IsFiniteSet(1..N) /\ Cardinality(1..N) = N
  <2> HIDE DEF N
  <2> QED BY <1>2, FS_Interval
<1>7. f \in Surjection(1..N, S)
    BY <1>1, <1>5, <1>6, FS_Injection
<1>8. \A k \in S : \E n \in 1..N : f[n] = k
    BY <1>7 DEF Surjection
<1> HIDE DEF N
<1>9. f \in Seq(S) /\ Len(f) = N
    BY <1>2, <1>4
<1>10. \A m, n \in 1..N : f[m] = f[n] => m = n
    BY <1>4 DEF IsInjective
<1> QED BY <1>8, <1>9, <1>10 DEF f, S, Keys

LEMMA ParamType ==
  ASSUME NEW node \in Nodes, NEW k \in Fields(node.data)
  PROVE  Param(node, k) \in Seq(Tokens)
<1>1. k \in Seq(Tokens) /\ EscapeCode(node.data[k]) \in Seq(Tokens)
    BY NodeTypes, EscapeTypes
<1>2. <<",">> \in Seq(Tokens) /\ <<"=">> \in Seq(Tokens)
    BY CharSets, Strings
<1> QED BY <1>1, <1>2, Concats DEF Param

LEMMA ParamsAre ==
  ASSUME NEW node \in Nodes
  PROVE  /\ Params(node) \in Seq(Seq(Tokens)) /\ Len(Params(node)) = Len(Keys(node))
         /\ \A n \in 1..Len(Keys(node)) : Params(node)[n] = Param(node, Keys(node)[n])
<1> DEFINE K == Keys(node)
<1>1. K \in Seq(Fields(node.data))
    BY KeysAre
<1> DEFINE P == Params(node)
<1>2. P = [n \in DOMAIN K |-> Param(node, K[n])]
    BY DEF Params
<1> HIDE DEF K, P
<1>3. DOMAIN K = 1..Len(K) /\ Len(K) \in Nat
    BY <1>1
<1>4. \A n \in 1..Len(K) : Param(node, K[n]) \in Seq(Tokens)
    BY <1>1, ParamType
<1>5. P \in [1..Len(K) -> Seq(Tokens)] /\ \A n \in 1..Len(K) : P[n] = Param(node, K[n])
    BY <1>2, <1>3, <1>4
<1>6. P \in Seq(Seq(Tokens)) /\ Len(P) = Len(K)
    BY <1>3, <1>5
<1> QED BY <1>5, <1>6 DEF K, P

\* The parameters from the n-th on.
ParamsFrom(node, n) == FlattenSeq(SubSeq(Params(node), n, Len(Params(node))))

LEMMA ParamsFromAre ==
  ASSUME NEW node \in Nodes
  PROVE  /\ \A n \in 1..(Len(Keys(node)) + 1) : ParamsFrom(node, n) \in Seq(Tokens)
         /\ \A n \in 1..Len(Keys(node)) :
              ParamsFrom(node, n) = Param(node, Keys(node)[n]) \o ParamsFrom(node, n + 1)
         /\ ParamsFrom(node, Len(Keys(node)) + 1) = <<>>
         /\ ParamsFrom(node, 1) = FlattenSeq(Params(node))
<1> DEFINE P == Params(node)
<1>1. P \in Seq(Seq(Tokens)) /\ Len(P) = Len(Keys(node))
      /\ \A n \in 1..Len(P) : P[n] = Param(node, Keys(node)[n])
    BY ParamsAre
<1> HIDE DEF P
<1>2. \A n \in 1..(Len(P) + 1) : FlattenSeq(SubSeq(P, n, Len(P))) \in Seq(Tokens)
  <2> TAKE n \in 1..(Len(P) + 1)
  <2>1. SubSeq(P, n, Len(P)) \in Seq(Seq(Tokens))
      BY <1>1
  <2> QED BY <2>1, FlattenType
<1>3. \A n \in 1..Len(P) :
        FlattenSeq(SubSeq(P, n, Len(P))) = P[n] \o FlattenSeq(SubSeq(P, n + 1, Len(P)))
    BY <1>1, FlattenFrom
<1>4. SubSeq(P, Len(P) + 1, Len(P)) = <<>> /\ SubSeq(P, 1, Len(P)) = P
    BY <1>1, SubSeqFull
<1> QED BY <1>1, <1>2, <1>3, <1>4, FlattenEmpty DEF P, ParamsFrom

IsCode(node) == node.type # <<>> /\ node.type # Text
TextOf(node) ==
  IF node.type = Text /\ Has(node.data, Text) THEN node.data[Text] ELSE <<>>

LEMMA TextOfType ==
  ASSUME NEW node \in Nodes PROVE TextOf(node) \in Seq(Tokens)
<1>1. Has(node.data, Text) => Text \in Fields(node.data)
    BY DEF Has, Fields
<1> QED BY <1>1, NodeTypes, EmptySeq DEF TextOf

LEMMA NodeStrIs ==
  ASSUME NEW node \in Nodes
  PROVE  /\ NodeStr(node) \in Seq(Tokens)
         /\ ~IsCode(node) => NodeStr(node) = EscapeText(TextOf(node))
         /\ IsCode(node) =>
              NodeStr(node) = <<"[", "CQ:">> \o (EscapeCode(node.type)
                                \o (ParamsFrom(node, 1) \o <<"]">>))
<1>1. EscapeText(<<>>) = <<>>
    BY EscapedEmpty DEF EscapeText
<1>2. ASSUME ~IsCode(node)
      PROVE  NodeStr(node) = EscapeText(TextOf(node)) /\ NodeStr(node) \in Seq(Tokens)
  <2>1. NodeStr(node) = EscapeText(TextOf(node))
    <3>1. <<>> # Text
        BY DEF Text
    <3> QED BY <1>1, <1>2, <3>1 DEF NodeStr, TextOf, IsCode
  <2> QED BY <2>1, TextOfType, EscapeTypes
<1>3. ASSUME IsCode(node)
      PROVE  /\ NodeStr(node) = <<"[", "CQ:">> \o (EscapeCode(node.type)
                                \o (ParamsFrom(node, 1) \o <<"]">>))
             /\ NodeStr(node) \in Seq(Tokens)
  <2> DEFINE a == <<"[", "CQ:">>
  <2> DEFINE b == EscapeCode(node.type)
  <2> DEFINE c == FlattenSeq(Params(node))
  <2> DEFINE d == <<"]">>
  <2>1. a \in Seq(Tokens) /\ d \in Seq(Tokens)
      BY CharSets, Strings
  <2>2. b \in Seq(Tokens)
      BY NodeTypes, EscapeTypes
  <2>3. c \in Seq(Tokens) /\ c = ParamsFrom(node, 1)
    <3> Len(Keys(node)) \in Nat
        BY KeysAre
    <3> QED BY ParamsFromAre
  <2>4. NodeStr(node) = ((a \o b) \o c) \o d
      BY <1>3 DEF NodeStr, IsCode, CodeStr
  <2> HIDE DEF a, b, c, d
  <2>5. a \o b \in Seq(Tokens) /\ c \o d \in Seq(Tokens) /\ b \o (c \o d) \in Seq(Tokens)
        /\ a \o (b \o (c \o d)) \in Seq(Tokens)
      BY <2>1, <2>2, <2>3
  <2>6. ((a \o b) \o c) \o d = (a \o b) \o (c \o d)
      BY <2>1, <2>2, <2>3, <2>5, Concats, SMTT(30)
  <2>7. (a \o b) \o (c \o d) = a \o (b \o (c \o d))
    <3> DEFINE e == c \o d
    <3>1. e \in Seq(Tokens)
        BY <2>5
    <3> HIDE DEF e
    <3>2. (a \o b) \o e = a \o (b \o e)
        BY <2>1, <2>2, <3>1, Concats
    <3> QED BY <3>2 DEF e
  <2> QED BY <2>3, <2>4, <2>5, <2>6, <2>7 DEF a, b, d
<1> QED BY <1>2, <1>3

\* The strings of the nodes of a message, and what comes after the first n.
NodeStrs(arr) == [n \in 1..Len(arr) |-> NodeStr(arr[n])]
StrAfter(arr, n) == FlattenSeq(SubSeq(NodeStrs(arr), n + 1, Len(arr)))

LEMMA NodeStrsAre ==
  ASSUME NEW arr \in Seq(Nodes)
  PROVE  /\ NodeStrs(arr) \in Seq(Seq(Tokens)) /\ Len(NodeStrs(arr)) = Len(arr)
         /\ \A n \in 1..Len(arr) : NodeStrs(arr)[n] = NodeStr(arr[n])
<1>1. Len(arr) \in Nat /\ \A n \in 1..Len(arr) : NodeStr(arr[n]) \in Seq(Tokens)
    BY NodeStrIs
<1> DEFINE P == NodeStrs(arr)
<1>2. P \in [1..Len(arr) -> Seq(Tokens)] /\ \A n \in 1..Len(arr) : P[n] = NodeStr(arr[n])
    BY <1>1 DEF NodeStrs
<1> HIDE DEF P
<1>3. P \in Seq(Seq(Tokens)) /\ Len(P) = Len(arr)
    BY <1>1, <1>2
<1> QED BY <1>2, <1>3 DEF P

LEMMA StrAfterIs ==
  ASSUME NEW arr \in Seq(Nodes)
  PROVE  /\ \A n \in 0..Len(arr) : StrAfter(arr, n) \in Seq(Tokens)
         /\ \A n \in 0..(Len(arr) - 1) :
              StrAfter(arr, n) = NodeStr(arr[n + 1]) \o StrAfter(arr, n + 1)
         /\ StrAfter(arr, Len(arr)) = <<>>
         /\ StrAfter(arr, 0) = FlattenSeq(NodeStrs(arr))
<1> DEFINE P == NodeStrs(arr)
<1>1. P \in Seq(Seq(Tokens)) /\ Len(P) = Len(arr) /\ Len(arr) \in Nat
      /\ \A n \in 1..Len(P) : P[n] = NodeStr(arr[n])
    BY NodeStrsAre
<1> HIDE DEF P
<1>2. \A n \in 0..Len(P) : FlattenSeq(SubSeq(P, n + 1, Len(P))) \in Seq(Tokens)
  <2> TAKE n \in 0..Len(P)
  <2>1. SubSeq(P, n + 1, Len(P)) \in Seq(Seq(Tokens))
      BY <1>1
  <2> QED BY <2>1, FlattenType
<1>3. \A n \in 0..(Len(P) - 1) :
        FlattenSeq(SubSeq(P, n + 1, Len(P))) =
          P[n + 1] \o FlattenSeq(SubSeq(P, (n + 1) + 1, Len(P)))
  <2> TAKE n \in 0..(Len(P) - 1)
  <2> n + 1 \in 1..Len(P)
      BY <1>1
  <2> QED BY <1>1, FlattenFrom
<1>4. SubSeq(P, Len(P) + 1, Len(P)) = <<>> /\ SubSeq(P, 1, Len(P)) = P /\ 0 + 1 = 1
    BY <1>1, SubSeqFull
<1>5. \A n \in 0..(Len(P) - 1) : n + 1 \in 1..Len(P)
    BY <1>1
<1> QED BY <1>1, <1>2, <1>3, <1>4, <1>5, FlattenEmpty DEF P, StrAfter

(***************************************************************************)
(* Where the reader stands, and what it does there.                        *)
(***************************************************************************)
Rest == SubSeq(cq_str, i, Len(cq_str))

Place == cq_str \in Seq(Tokens) /\ i \in 1..(Len(cq_str) + 1)

LEMMA RestIs ==
  ASSUME Place
  PROVE  /\ Rest \in Seq(Tokens) /\ Len(Rest) = Len(cq_str) + 1 - i /\ Len(cq_str) \in Nat
         /\ \A n \in 1..Len(Rest) : Rest[n] = cq_str[i + n - 1]
  BY DEF Place, Rest

LEMMA PrefixOne ==
  ASSUME NEW a \in Tokens, NEW R \in Seq(Tokens), Len(R) >= 1
  PROVE  IsPrefix(<<a>>, R) <=> R[1] = a
<1> DEFINE s == <<a>>
<1>1. s \in Seq(Tokens) /\ Len(s) = 1 /\ s[1] = a
    OBVIOUS
<1> HIDE DEF s
<1> DEFINE u == SubSeq(s, 1, 1)
<1> DEFINE v == SubSeq(R, 1, 1)
<1>2. u \in Seq(Tokens) /\ Len(u) = 1 /\ u[1] = a
    BY <1>1
<1>3. v \in Seq(Tokens) /\ Len(v) = 1 /\ v[1] = R[1]
    OBVIOUS
<1>4. IsPrefix(s, R) <=> u = v
    BY <1>1 DEF IsPrefix
<1> HIDE DEF u, v
<1>5. u = v <=> a = R[1]
    BY <1>2, <1>3, SeqEqual
<1> QED BY <1>4, <1>5 DEF s

LEMMA PrefixTwo ==
  ASSUME NEW a \in Tokens, NEW b \in Tokens, NEW R \in Seq(Tokens)
  PROVE  IsPrefix(<<a, b>>, R) <=> Len(R) >= 2 /\ R[1] = a /\ R[2] = b
<1> DEFINE s == <<a, b>>
<1>1. s \in Seq(Tokens) /\ Len(s) = 2 /\ s[1] = a /\ s[2] = b
    OBVIOUS
<1> HIDE DEF s
<1> DEFINE u == SubSeq(s, 1, 2)
<1> DEFINE v == SubSeq(R, 1, 2)
<1>2. u \in Seq(Tokens) /\ Len(u) = 2 /\ u[1] = a /\ u[2] = b
    BY <1>1
<1>3. Len(R) >= 2 => v \in Seq(Tokens) /\ Len(v) = 2 /\ v[1] = R[1] /\ v[2] = R[2]
    OBVIOUS
<1>4. IsPrefix(s, R) <=> Len(R) >= 2 /\ u = v
    BY <1>1 DEF IsPrefix
<1> HIDE DEF u, v
<1>5. Len(R) >= 2 => (u = v <=> a = R[1] /\ b = R[2])
  <2> SUFFICES ASSUME Len(R) >= 2 PROVE u = v <=> a = R[1] /\ b = R[2]
      OBVIOUS
  <2>1. ASSUME a = R[1], b = R[2] PROVE u = v
    <3>1. \A n \in 1..2 : u[n] = v[n]
      <4> TAKE n \in 1..2
      <4> n = 1 \/ n = 2
          OBVIOUS
      <4> QED BY <1>2, <1>3, <2>1
    <3> QED BY <1>2, <1>3, <3>1, SeqEqual
  <2> QED BY <1>2, <1>3, <2>1
<1> QED BY <1>4, <1>5 DEF s

LEMMA LooksOne ==
  ASSUME Place, NEW a \in Tokens
  PROVE  Looks(<<a>>) <=> Reading /\ cq_str[i] = a
<1> SUFFICES ASSUME Reading PROVE IsPrefix(<<a>>, Rest) <=> cq_str[i] = a
    BY DEF Looks, Rest
<1>1. /\ Rest \in Seq(Tokens) /\ Len(Rest) \in Nat /\ Len(Rest) >= 1 /\ Rest[1] = cq_str[i]
    BY RestIs DEF Place, Reading
<1> DEFINE R == Rest
<1>2. R \in Seq(Tokens) /\ Len(R) \in Nat /\ Len(R) >= 1 /\ R[1] = cq_str[i]
    BY <1>1
<1> HIDE DEF R
<1>3. IsPrefix(<<a>>, R) <=> R[1] = a
    BY <1>2, PrefixOne
<1> QED BY <1>2, <1>3 DEF R

LEMMA LooksTwo ==
  ASSUME Place, NEW a \in Tokens, NEW b \in Tokens
  PROVE  Looks(<<a, b>>) <=>
           Reading /\ i + 1 <= Len(cq_str) /\ cq_str[i] = a /\ cq_str[i + 1] = b
<1> SUFFICES ASSUME Reading
             PROVE  IsPrefix(<<a, b>>, Rest) <=>
                      i + 1 <= Len(cq_str) /\ cq_str[i] = a /\ cq_str[i + 1] = b
    BY DEF Looks, Rest
<1> DEFINE R == Rest
<1>1. /\ R \in Seq(Tokens) /\ Len(R) \in Nat /\ Len(R) >= 1 /\ R[1] = cq_str[i]
      /\ Len(R) >= 2 <=> i + 1 <= Len(cq_str)
      /\ Len(R) >= 2 => R[2] = cq_str[i + 1]
    BY RestIs DEF Place, Reading
<1> HIDE DEF R
<1>2. IsPrefix(<<a, b>>, R) <=> Len(R) >= 2 /\ R[1] = a /\ R[2] = b
    BY <1>1, PrefixTwo
<1> QED BY <1>1, <1>2 DEF R

LEMMA RestOne ==
  ASSUME Place, NEW a \in Tokens, NEW R \in Seq(Tokens), Rest = <<a>> \o R
  PROVE  /\ i <= Len(cq_str) /\ cq_str[i] = a
         /\ SubSeq(cq_str, i + 1, Len(cq_str)) = R
<1>1. i \in 1..Len(cq_str) /\ Len(cq_str) \in Nat
  <2> Len(Rest) >= 1
      OBVIOUS
  <2> QED BY RestIs DEF Place
<1>2. Rest = <<cq_str[i]>> \o SubSeq(cq_str, i + 1, Len(cq_str))
    BY <1>1, SubSeqRecursiveFirst DEF Place, Rest
<1> DEFINE V == SubSeq(cq_str, i + 1, Len(cq_str))
<1>3. V \in Seq(Tokens) /\ cq_str[i] \in Tokens
    BY <1>1 DEF Place
<1> HIDE DEF V
<1>4. <<cq_str[i]>> \o V = <<a>> \o R
    BY <1>2 DEF V
<1>5. cq_str[i] = a /\ V = R
  <2> DEFINE c == cq_str[i]
  <2>1. c \in Tokens /\ <<c>> \o V = <<a>> \o R
      BY <1>3, <1>4
  <2> HIDE DEF c
  <2>2. Head(<<c>> \o V) = c /\ Tail(<<c>> \o V) = V
      BY <1>3, <2>1
  <2>3. Head(<<a>> \o R) = a /\ Tail(<<a>> \o R) = R
      OBVIOUS
  <2>4. c = a /\ V = R
      BY <2>1, <2>2, <2>3
  <2> QED BY <2>4 DEF c
<1> QED BY <1>1, <1>5 DEF V

LEMMA RestTwo ==
  ASSUME Place, NEW a \in Tokens, NEW b \in Tokens, NEW R \in Seq(Tokens),
         Rest = <<a, b>> \o R
  PROVE  /\ i + 1 <= Len(cq_str) /\ cq_str[i] = a /\ cq_str[i + 1] = b
         /\ SubSeq(cq_str, i + 2, Len(cq_str)) = R
<1>1. <<a, b>> \o R = <<a>> \o (<<b>> \o R) /\ <<b>> \o R \in Seq(Tokens)
    BY Pairs
<1>2. /\ i <= Len(cq_str) /\ cq_str[i] = a
      /\ SubSeq(cq_str, i + 1, Len(cq_str)) = <<b>> \o R
    BY <1>1, RestOne
<1> DEFINE V == SubSeq(cq_str, i + 1, Len(cq_str))
<1>3. i + 1 \in 1..Len(cq_str) /\ Len(cq_str) \in Nat
  <2>1. Len(<<b>> \o R) >= 1
      OBVIOUS
  <2> QED BY <1>2, <2>1 DEF Place
<1>4. V = <<cq_str[i + 1]>> \o SubSeq(cq_str, (i + 1) + 1, Len(cq_str))
    BY <1>3, SubSeqRecursiveFirst DEF Place
<1> DEFINE W == SubSeq(cq_str, i + 2, Len(cq_str))
<1> DEFINE c == cq_str[i + 1]
<1>5. W \in Seq(Tokens) /\ c \in Tokens /\ <<c>> \o W = <<b>> \o R
  <2> (i + 1) + 1 = i + 2
      BY <1>3 DEF Place
  <2> QED BY <1>2, <1>3, <1>4, SMTT(30) DEF Place
<1> HIDE DEF W, c
<1>6. Head(<<c>> \o W) = c /\ Tail(<<c>> \o W) = W
    BY <1>5
<1>7. Head(<<b>> \o R) = b /\ Tail(<<b>> \o R) = R
    OBVIOUS
<1>8. c = b /\ W = R
    BY <1>5, <1>6, <1>7
<1> QED BY <1>2, <1>3, <1>8 DEF W, c

LEMMA TokensAre ==
  /\ "&" \in Tokens /\ "[" \in Tokens /\ "]" \in Tokens /\ "," \in Tokens
  /\ "=" \in Tokens /\ "CQ:" \in Tokens
  /\ \A e \in Escapes : e[1] \in Tokens /\ e[2] \in Tokens
<1>1. \A e \in Escapes : e[1] \in Tokens /\ e[2] \in Escapable
    BY EscapesAre
<1> QED BY <1>1, CharSets DEF Escapable

\* The reader looks at c.
LooksAt(c) ==
  /\ Looks(<<"&">>) <=> c = "&"
  /\ Looks(<<",">>) <=> c = ","
  /\ Looks(<<"=">>) <=> c = "="
  /\ Looks(<<"]">>) <=> c = "]"
  /\ Looks(<<"[", "CQ:">>) => c = "["
  /\ \A e \in Escapes : Looks(<<"&", e[1]>>) => c = "&"

LEMMA First ==
  ASSUME Place, ~Writing, NEW c \in Tokens, NEW R \in Seq(Tokens), Rest = <<c>> \o R
  PROVE  /\ Reading /\ cq_str[i] = c /\ LooksAt(c)
         /\ SubSeq(cq_str, i + 1, Len(cq_str)) = R
<1>1. /\ i <= Len(cq_str) /\ cq_str[i] = c
      /\ SubSeq(cq_str, i + 1, Len(cq_str)) = R
    BY RestOne
<1>2. Reading
    BY <1>1 DEF Reading
<1>3. \A a \in Tokens : Looks(<<a>>) <=> a = c
    BY <1>1, <1>2, LooksOne
<1>4. \A a, b \in Tokens : Looks(<<a, b>>) => a = c
    BY <1>1, LooksTwo
<1>5. LooksAt(c)
  <2>1. /\ Looks(<<"&">>) <=> "&" = c
        /\ Looks(<<",">>) <=> "," = c
        /\ Looks(<<"=">>) <=> "=" = c
        /\ Looks(<<"]">>) <=> "]" = c
      BY <1>3, TokensAre
  <2>2. Looks(<<"[", "CQ:">>) => "[" = c
      BY <1>4, TokensAre
  <2>3. ASSUME NEW e \in Escapes PROVE Looks(<<"&", e[1]>>) => "&" = c
      BY <1>4, TokensAre
  <2> QED BY <2>1, <2>2, <2>3 DEF LooksAt
<1> QED BY <1>1, <1>2, <1>5

LEMMA EscapesDiffer ==
  ASSUME NEW d \in Escapes, NEW e \in Escapes, d[1] = e[1] PROVE d = e
<1>1. ASSUME NEW x \in Escapes
      PROVE  \/ x[1] = "amp;" /\ x = <<"amp;", "&">>
             \/ x[1] = "#91;" /\ x = <<"#91;", "[">>
             \/ x[1] = "#93;" /\ x = <<"#93;", "]">>
             \/ x[1] = "#44;" /\ x = <<"#44;", ",">>
  <2>1. CASE x = <<"amp;", "&">>
      BY <2>1
  <2>2. CASE x = <<"#91;", "[">>
      BY <2>2
  <2>3. CASE x = <<"#93;", "]">>
      BY <2>3
  <2>4. CASE x = <<"#44;", ",">>
      BY <2>4
  <2> QED BY <2>1, <2>2, <2>3, <2>4 DEF Escapes
<1>2. /\ \/ d[1] = "amp;" /\ d = <<"amp;", "&">>
         \/ d[1] = "#91;" /\ d = <<"#91;", "[">>
         \/ d[1] = "#93;" /\ d = <<"#93;", "]">>
         \/ d[1] = "#44;" /\ d = <<"#44;", ",">>
      /\ \/ e[1] = "amp;" /\ e = <<"amp;", "&">>
         \/ e[1] = "#91;" /\ e = <<"#91;", "[">>
         \/ e[1] = "#93;" /\ e = <<"#93;", "]">>
         \/ e[1] = "#44;" /\ e = <<"#44;", ",">>
    BY <1>1
<1>3. d = e
  <2>1. CASE d[1] = "amp;"
      BY <1>2, <2>1
  <2>2. CASE d[1] = "#91;"
      BY <1>2, <2>2
  <2>3. CASE d[1] = "#93;"
      BY <1>2, <2>3
  <2>4. CASE d[1] = "#44;"
      BY <1>2, <2>4
  <2> QED BY <1>2, <2>1, <2>2, <2>3, <2>4
<1> QED BY <1>3

\* The tokens that mean something under each stat, "[" among them only before
\* a "CQ:".
Marks(n) == IF n = 0 THEN {"&", "["} ELSE IF n = 1 THEN {"&", ","}
            ELSE IF n = 2 THEN {"&", "="} ELSE {"&", "]", ","}

LEMMA Stats ==
  /\ \A n \in 0..3 : n = 0 \/ n = 1 \/ n = 2 \/ n = 3
  /\ \A n \in 1..3 : n # 0 /\ n \in 0..3
  OBVIOUS

LEMMA MarksAre ==
  /\ Marks(0) = {"&", "["} /\ Marks(1) = {"&", ","}
  /\ Marks(2) = {"&", "="} /\ Marks(3) = {"&", "]", ","}
  BY DEF Marks

\* What a step of the reader leaves alone, and that it goes on by n tokens.
Goes(n) == /\ i' = i + n
           /\ UNCHANGED <<message, written, cq_str>>

LEMMA ReadEscape ==
  ASSUME Place, ~Writing, Next, stat \in 0..3, NEW e \in Escapes, stat = 0 => e[2] # ",",
         NEW R \in Seq(Tokens), Rest = <<"&", e[1]>> \o R
  PROVE  /\ buf' = [buf EXCEPT ![stat] = Append(@, e[2])]
         /\ Goes(2) /\ UNCHANGED <<stat, cqcode, jsonarr>>
         /\ Rest' = R
<1>0. e[1] \in Tokens /\ "&" \in Tokens
    BY TokensAre
<1>1. /\ i + 1 <= Len(cq_str) /\ cq_str[i] = "&" /\ cq_str[i + 1] = e[1]
      /\ SubSeq(cq_str, i + 2, Len(cq_str)) = R
    BY <1>0, RestTwo
<1>2. Rest = <<"&">> \o (<<e[1]>> \o R) /\ <<e[1]>> \o R \in Seq(Tokens)
    BY <1>0, Pairs
<1>3. /\ Reading
      /\ LooksAt("&")
    BY <1>0, <1>2, First
<1>4. Looks(<<"&", e[1]>>)
    BY <1>0, <1>1, <1>3, LooksTwo
<1>5. Unescape
  <2>1. ~BeginCode /\ ~EndType /\ ~EndKey /\ ~EndVal /\ ~EndCode
      BY <1>3 DEF LooksAt, BeginCode, EndType, EndKey, EndVal, EndCode
  <2>2. ~WriteNode
      BY DEF WriteNode
  <2>3. ~BareAmp
      BY <1>4 DEF BareAmp, Bare
  <2>4. ~NormalChar
    <3> Looks(<<"&">>)
        BY <1>3 DEF LooksAt
    <3> stat = 0 \/ stat = 1 \/ stat = 2 \/ stat = 3
        BY Stats
    <3> QED BY DEF NormalChar, Special
  <2> QED BY <2>1, <2>2, <2>3, <2>4 DEF Next
<1>6. PICK d \in Escapes :
        /\ Looks(<<"&", d[1]>>)
        /\ buf' = [buf EXCEPT ![stat] = Append(@, d[2])]
    BY <1>5 DEF Unescape
<1>7. d = e
  <2>1. d[1] \in Tokens
      BY TokensAre
  <2>2. cq_str[i + 1] = d[1]
      BY <1>0, <1>6, <2>1, LooksTwo
  <2> QED BY <1>1, <2>2, EscapesDiffer
<1>8. Goes(2) /\ UNCHANGED <<stat, cqcode, jsonarr>>
    BY <1>5 DEF Unescape, Goes, writeVars
<1>9. Rest' = R
    BY <1>1, <1>8 DEF Rest, Goes
<1> QED BY <1>6, <1>7, <1>8, <1>9

LEMMA ReadNormal ==
  ASSUME Place, ~Writing, Next, stat \in 0..3, NEW c \in Tokens, c \notin Marks(stat),
         NEW R \in Seq(Tokens), Rest = <<c>> \o R
  PROVE  /\ buf' = [buf EXCEPT ![stat] = Append(@, c)]
         /\ Goes(1) /\ UNCHANGED <<stat, cqcode, jsonarr>>
         /\ Rest' = R
<1>1. /\ Reading /\ cq_str[i] = c
      /\ LooksAt(c)
      /\ SubSeq(cq_str, i + 1, Len(cq_str)) = R
    BY First
<1>2. c # "&"
    BY DEF Marks
<1>3. ~Looks(<<"&">>) /\ \A e \in Escapes : ~Looks(<<"&", e[1]>>)
    BY <1>1, <1>2 DEF LooksAt
<1>4. ~Unescape /\ ~BareAmp /\ ~WriteNode
    BY <1>3 DEF Unescape, BareAmp, Bare, WriteNode
<1>5. stat # 0 \/ c # "["
    BY MarksAre
<1>6. stat # 1 \/ c # ","
    BY MarksAre
<1>7. stat # 2 \/ c # "="
    BY MarksAre
<1>8. stat # 3 \/ (c # "]" /\ c # ",")
    BY MarksAre
<1>12. /\ stat # 0 \/ ~Looks(<<"[", "CQ:">>)
       /\ stat # 1 \/ ~Looks(<<",">>)
       /\ stat # 2 \/ ~Looks(<<"=">>)
       /\ stat # 3 \/ (~Looks(<<"]">>) /\ ~Looks(<<",">>))
    BY <1>1, <1>5, <1>6, <1>7, <1>8 DEF LooksAt
<1>13. ~BeginCode /\ ~EndType /\ ~EndKey /\ ~EndVal /\ ~EndCode
    BY <1>12 DEF BeginCode, EndType, EndKey, EndVal, EndCode
<1>9. NormalChar
    BY <1>4, <1>13 DEF Next
<1>10. Goes(1) /\ UNCHANGED <<stat, cqcode, jsonarr>>
    BY <1>9 DEF NormalChar, Goes, writeVars
<1>11. Rest' = R
    BY <1>1, <1>10 DEF Rest, Goes
<1> QED BY <1>1, <1>9, <1>10, <1>11 DEF NormalChar

LEMMA ReadBegin ==
  ASSUME Place, ~Writing, Next, stat = 0,
         NEW R \in Seq(Tokens), Rest = <<"[", "CQ:">> \o R
  PROVE  BeginCode /\ Goes(2) /\ Rest' = R
<1>0. "[" \in Tokens /\ "CQ:" \in Tokens
    BY TokensAre
<1>1. /\ i + 1 <= Len(cq_str) /\ cq_str[i] = "[" /\ cq_str[i + 1] = "CQ:"
      /\ SubSeq(cq_str, i + 2, Len(cq_str)) = R
    BY <1>0, RestTwo
<1>2. Rest = <<"[">> \o (<<"CQ:">> \o R) /\ <<"CQ:">> \o R \in Seq(Tokens)
    BY <1>0, Pairs
<1>3. /\ Reading
      /\ LooksAt("[")
    BY <1>0, <1>2, First
<1>4. Looks(<<"[", "CQ:">>)
    BY <1>0, <1>1, <1>3, LooksTwo
<1>5. ~Looks(<<"&">>) /\ \A e \in Escapes : ~Looks(<<"&", e[1]>>)
    BY <1>3 DEF LooksAt
<1>6. BeginCode
  <2>1. ~Unescape /\ ~BareAmp /\ ~WriteNode
      BY <1>5 DEF Unescape, BareAmp, Bare, WriteNode
  <2>2. ~EndType /\ ~EndKey /\ ~EndVal /\ ~EndCode
      BY DEF EndType, EndKey, EndVal, EndCode
  <2>3. ~NormalChar
      BY <1>4 DEF NormalChar, Special
  <2> QED BY <2>1, <2>2, <2>3 DEF Next
<1>7. Goes(2)
    BY <1>6 DEF BeginCode, Goes, writeVars
<1>8. Rest' = R
    BY <1>1, <1>7 DEF Rest, Goes
<1> QED BY <1>6, <1>7, <1>8

\* The end of a type, a key, a value or a code.
LEMMA ReadEnd ==
  ASSUME Place, ~Writing, Next, stat \in 1..3, NEW c \in Tokens, c # "&", c \in Marks(stat),
         NEW R \in Seq(Tokens), Rest = <<c>> \o R
  PROVE  /\ stat = 1 => EndType
         /\ stat = 2 => EndKey
         /\ stat = 3 /\ c = "," => EndVal
         /\ stat = 3 /\ c = "]" => EndCode
         /\ Goes(1) /\ Rest' = R
<1>1. /\ Reading /\ cq_str[i] = c
      /\ LooksAt(c)
      /\ SubSeq(cq_str, i + 1, Len(cq_str)) = R
    BY First
<1>2. ~Looks(<<"&">>) /\ \A e \in Escapes : ~Looks(<<"&", e[1]>>)
    BY <1>1 DEF LooksAt
<1>3. ~Unescape /\ ~BareAmp /\ ~WriteNode /\ ~BeginCode
    BY <1>2, Stats DEF Unescape, BareAmp, Bare, WriteNode, BeginCode
<1>4. ~NormalChar
  <2>1. /\ stat = 1 => c = ","
        /\ stat = 2 => c = "="
        /\ stat = 3 => c = "]" \/ c = ","
      BY MarksAre
  <2>2. /\ stat = 1 => Looks(<<",">>)
        /\ stat = 2 => Looks(<<"=">>)
        /\ stat = 3 => Looks(<<"]">>) \/ Looks(<<",">>)
      BY <1>1, <2>1 DEF LooksAt
  <2>3. stat = 1 \/ stat = 2 \/ stat = 3
      BY Stats
  <2> QED BY <2>2, <2>3 DEF NormalChar, Special
<1>5. EndType \/ EndKey \/ EndVal \/ EndCode
    BY <1>3, <1>4 DEF Next
<1>6. Goes(1)
    BY <1>5 DEF EndType, EndKey, EndVal, EndCode, Goes, writeVars
<1>7. Rest' = R
    BY <1>1, <1>6 DEF Rest, Goes
<1>8. EndVal => Looks(<<",">>)
    BY DEF EndVal
<1>9. EndCode => Looks(<<"]">>)
    BY DEF EndCode
<1>10. /\ EndType => stat = 1
       /\ EndKey => stat = 2
       /\ EndVal => stat = 3
       /\ EndCode => stat = 3
    BY DEF EndType, EndKey, EndVal, EndCode
<1>11. /\ EndVal => c = ","
       /\ EndCode => c = "]"
    BY <1>1, <1>8, <1>9 DEF LooksAt
<1>12. "," # "]" /\ 1 # 2 /\ 2 # 3 /\ 1 # 3
    OBVIOUS
<1>13. /\ stat = 1 => EndType
       /\ stat = 2 => EndKey
       /\ stat = 3 /\ c = "," => EndVal
       /\ stat = 3 /\ c = "]" => EndCode
    BY <1>5, <1>10, <1>11, <1>12
<1> QED BY <1>6, <1>7, <1>13

(***************************************************************************)
(* Types.                                                                  *)
(***************************************************************************)
Datas  == UNION {[S -> Seq(Tokens)] : S \in SUBSET Seq(Tokens)}
Parsed == [type : Seq(Tokens), data : Datas]

\* What is read stays within the string.
Typed ==
  /\ message \in Messages \cup {<<>>} /\ message \in Seq(Nodes)
  /\ written \in 0..Len(message)
  /\ Place
  /\ stat \in 0..3
  /\ buf \in [0..3 -> Seq(Tokens)]
  /\ cqcode \in Datas
  /\ jsonarr \in Seq(Parsed)

\* A text and a code are never read at the same time.
Apart ==
  /\ stat = 0 => cqcode = NoCode /\ \A n \in 1..3 : buf[n] = <<>>
  /\ stat # 0 => buf[0] = <<>>

\* Nothing is read before all is written, and it is written node by node.
InTurn ==
  /\ Writing => i = 1 /\ stat = 0 /\ buf[0] = <<>> /\ jsonarr = <<>>
  /\ message # <<>> => cq_str = FlattenSeq(SubSeq(NodeStrs(message), 1, written))

TypeInv == Typed /\ Apart /\ InTurn

LEMMA DatasAre ==
  /\ NoCode \in Datas
  /\ \A s \in Seq(Tokens) : TextNode(s) \in Parsed
<1>1. NoCode \in [{} -> Seq(Tokens)]
    BY DEF NoCode
<1>2. ASSUME NEW s \in Seq(Tokens) PROVE TextNode(s) \in Parsed
  <2>1. [k \in {Text} |-> s] \in [{Text} -> Seq(Tokens)]
      OBVIOUS
  <2>2. {Text} \in SUBSET Seq(Tokens)
      BY TextTypes
  <2>3. [k \in {Text} |-> s] \in Datas
      BY <2>1, <2>2 DEF Datas
  <2> QED BY <2>3, TextTypes DEF TextNode, Parsed
<1> QED BY <1>1, <1>2 DEF Datas

LEMMA StoredType == Typed => Stored \in Datas
<1> SUFFICES ASSUME Typed PROVE Stored \in Datas
    OBVIOUS
<1>1. PICK S \in SUBSET Seq(Tokens) : cqcode \in [S -> Seq(Tokens)]
    BY DEF Typed, Datas
<1>2. buf[2] \in Seq(Tokens) /\ buf[3] \in Seq(Tokens)
    BY DEF Typed
<1>3. Stored \in [S \cup {buf[2]} -> Seq(Tokens)]
    BY <1>1, <1>2 DEF Stored
<1> QED BY <1>2, <1>3 DEF Datas

LEMMA WithTextType == Typed => WithText(jsonarr) \in Seq(Parsed)
<1> SUFFICES ASSUME Typed PROVE WithText(jsonarr) \in Seq(Parsed)
    OBVIOUS
<1>1. TextNode(buf[0]) \in Parsed
    BY DatasAre DEF Typed
<1> DEFINE n == TextNode(buf[0])
<1>2. n \in Parsed
    BY <1>1
<1> HIDE DEF n
<1>3. Append(jsonarr, n) \in Seq(Parsed)
    BY <1>2 DEF Typed
<1> QED BY <1>3 DEF WithText, Typed, n

LEMMA InitTyped == Init => TypeInv
<1> SUFFICES ASSUME Init PROVE TypeInv
    OBVIOUS
<1>1. /\ message \in Messages \cup {<<>>} /\ message \in Seq(Nodes)
      /\ cq_str \in Seq(Tokens) /\ (message # <<>> => cq_str = <<>>)
    BY MessageAssumption, EmptySeq DEF Init
<1>2. /\ written = 0 /\ i = 1 /\ stat = 0 /\ buf = [n \in 0..3 |-> <<>>]
      /\ cqcode = NoCode /\ jsonarr = <<>>
    BY DEF Init
<1>3. buf \in [0..3 -> Seq(Tokens)] /\ \A n \in 0..3 : buf[n] = <<>>
    BY <1>2
<1>4. Typed
    BY <1>1, <1>2, <1>3, DatasAre DEF Typed, Place
<1>5. Apart
    BY <1>2, <1>3 DEF Apart
<1>6. InTurn
  <2>1. SubSeq(NodeStrs(message), 1, 0) = <<>>
      BY SubSeqEmpty
  <2>2. FlattenSeq(SubSeq(NodeStrs(message), 1, written)) = <<>>
      BY <1>2, <2>1, FlattenEmpty
  <2>3. buf[0] = <<>>
      BY <1>3
  <2> QED BY <1>1, <1>2, <2>2, <2>3 DEF InTurn
<1> QED BY <1>4, <1>5, <1>6 DEF TypeInv

LEMMA WriteNodeTyped ==
  ASSUME TypeInv, WriteNode
  PROVE  /\ Typed' /\ InTurn'
<1> DEFINE n == written
<1>1. message \in Seq(Nodes) /\ Len(message) \in Nat /\ n \in 0..(Len(message) - 1)
    BY DEF TypeInv, Typed, WriteNode, Writing
<1>2. n + 1 \in 1..Len(message) /\ message[n + 1] \in Nodes
    BY <1>1
<1> DEFINE s == NodeStr(message[n + 1])
<1>3. s \in Seq(Tokens)
    BY <1>2, NodeStrIs
<1>4. cq_str \in Seq(Tokens) /\ cq_str' = cq_str \o s /\ i \in 1..(Len(cq_str) + 1)
    BY DEF TypeInv, Typed, Place, WriteNode
<1>5. UNCHANGED <<message, i, stat, buf, cqcode, jsonarr>> /\ written' = n + 1
    BY DEF WriteNode, readVars
<1>6. Typed'
  <2>1. cq_str' \in Seq(Tokens) /\ i' \in 1..(Len(cq_str') + 1)
    <3> HIDE DEF s
    <3> QED BY <1>3, <1>4, <1>5
  <2> QED BY <1>1, <1>2, <1>5, <2>1 DEF TypeInv, Typed, Place
<1>7. cq_str' = FlattenSeq(SubSeq(NodeStrs(message), 1, n + 1))
  <2> DEFINE P == NodeStrs(message)
  <2>1. P \in Seq(Seq(Tokens)) /\ Len(P) = Len(message) /\ P[n + 1] = s
      BY <1>1, <1>2, NodeStrsAre
  <2> HIDE DEF s, P
  <2> DEFINE Q == SubSeq(P, 1, n)
  <2>2. Q \in Seq(Seq(Tokens)) /\ SubSeq(P, 1, n + 1) = Append(Q, s)
      BY <1>1, <1>2, <2>1
  <2> HIDE DEF Q
  <2>3. FlattenSeq(Append(Q, s)) = IF Q = <<>> THEN s ELSE FlattenSeq(Q) \o s
      BY <1>3, <2>2, FlattenAppend
  <2>4. FlattenSeq(Append(Q, s)) = FlattenSeq(Q) \o s
      BY <1>3, <2>3, FlattenEmpty, ConcatEmptySeq
  <2>5. message # <<>>
      BY <1>1, <1>2
  <2>6. cq_str = FlattenSeq(Q)
      BY <2>5 DEF TypeInv, InTurn, Q, P
  <2> QED BY <1>4, <2>2, <2>4, <2>6 DEF P, s
<1>8. InTurn'
  <2>1. Writing
      BY DEF WriteNode
  <2>2. i = 1 /\ stat = 0 /\ buf[0] = <<>> /\ jsonarr = <<>>
      BY <2>1 DEF TypeInv, InTurn
  <2>3. cq_str' = FlattenSeq(SubSeq(NodeStrs(message), 1, written))'
      BY <1>5, <1>7 DEF NodeStrs
  <2> QED BY <1>5, <2>2, <2>3 DEF InTurn
<1> QED BY <1>6, <1>8

\* How far a step of the reader goes.
LEMMA Within ==
  ASSUME Typed
  PROVE  /\ \A c \in Tokens : Looks(<<c>>) => i <= Len(cq_str)
         /\ \A c, d \in Tokens : Looks(<<c, d>>) => i + 1 <= Len(cq_str)
         /\ Reading => cq_str[i] \in Tokens /\ i <= Len(cq_str)
<1>1. Place
    BY DEF Typed
<1>2. Reading => i \in 1..Len(cq_str)
    BY <1>1 DEF Place, Reading
<1> QED BY <1>1, <1>2, LooksOne, LooksTwo DEF Place, Reading

LEMMA ReaderTyped ==
  ASSUME Typed,
         \/ BeginCode \/ Unescape \/ BareAmp \/ NormalChar
         \/ EndType \/ EndKey \/ EndVal \/ EndCode
  PROVE  Typed'
<1>0. /\ Place /\ i \in Nat /\ Len(cq_str) \in Nat /\ stat \in 0..3
      /\ buf \in [0..3 -> Seq(Tokens)] /\ cqcode \in Datas /\ jsonarr \in Seq(Parsed)
    BY DEF Typed, Place
<1> DEFINE Moves == /\ UNCHANGED writeVars
                    /\ \/ i' = i + 1 /\ i <= Len(cq_str)
                       \/ i' = i + 2 /\ i + 1 <= Len(cq_str)
<1>1. Moves /\ stat' \in 0..3 /\ buf' \in [0..3 -> Seq(Tokens)] /\ cqcode' \in Datas
        /\ jsonarr' \in Seq(Parsed) => Typed'
  <2> SUFFICES ASSUME Moves, stat' \in 0..3, buf' \in [0..3 -> Seq(Tokens)], cqcode' \in Datas,
                      jsonarr' \in Seq(Parsed)
               PROVE  Typed'
      OBVIOUS
  <2>1. message' = message /\ written' = written /\ cq_str' = cq_str
      BY DEF writeVars
  <2>2. i' \in 1..(Len(cq_str) + 1)
    <3>1. i \in Nat /\ i >= 1 /\ Len(cq_str) \in Nat
        BY <1>0 DEF Place
    <3>2. CASE i' = i + 1 /\ i <= Len(cq_str)
        BY <3>1, <3>2
    <3>3. CASE i' = i + 2 /\ i + 1 <= Len(cq_str)
        BY <3>1, <3>3
    <3> QED BY <3>2, <3>3
  <2> QED BY <2>1, <2>2 DEF Typed, Place
<1>2. /\ \A t \in Tokens : \A n \in 0..3 : Append(buf[n], t) \in Seq(Tokens)
      /\ <<>> \in Seq(Tokens)
    BY <1>0, EmptySeq
<1>3. CASE BeginCode
  <2>1. Moves
      BY <1>3, Within, TokensAre DEF BeginCode
  <2>2. jsonarr' \in Seq(Parsed)
      BY <1>3, WithTextType DEF BeginCode
  <2>3. stat' \in 0..3 /\ buf' \in [0..3 -> Seq(Tokens)] /\ cqcode' \in Datas
      BY <1>0, <1>2, <1>3 DEF BeginCode
  <2> QED BY <1>1, <2>1, <2>2, <2>3
<1>4. CASE Unescape
  <2>1. PICK e \in Escapes : /\ Looks(<<"&", e[1]>>)
                             /\ buf' = [buf EXCEPT ![stat] = Append(@, e[2])]
      BY <1>4 DEF Unescape
  <2>2. e[1] \in Tokens /\ e[2] \in Tokens
      BY TokensAre
  <2>3. Moves
      BY <1>4, <2>1, <2>2, Within, TokensAre DEF Unescape
  <2>4. Append(buf[stat], e[2]) \in Seq(Tokens)
      BY <1>0, <1>2, <2>2
  <2>5. buf' \in [0..3 -> Seq(Tokens)]
      BY <1>0, <2>1, <2>4
  <2> QED BY <1>0, <1>1, <1>4, <2>3, <2>5 DEF Unescape
<1>5. CASE BareAmp
  <2>1. Moves
      BY <1>5, Within, TokensAre DEF BareAmp, Bare
  <2>2. Append(buf[0], "&") \in Seq(Tokens)
    <3> 0 \in 0..3
        OBVIOUS
    <3> QED BY <1>2, TokensAre
  <2>3. buf' \in [0..3 -> Seq(Tokens)]
      BY <1>0, <1>5, <2>2 DEF BareAmp
  <2> QED BY <1>0, <1>1, <1>5, <2>1, <2>3 DEF BareAmp
<1>6. CASE NormalChar
  <2>1. Moves
      BY <1>6, Within DEF NormalChar
  <2>2. Append(buf[stat], cq_str[i]) \in Seq(Tokens)
      BY <1>0, <1>2, <1>6, Within DEF NormalChar
  <2>3. buf' \in [0..3 -> Seq(Tokens)]
      BY <1>0, <1>6, <2>2 DEF NormalChar
  <2> QED BY <1>0, <1>1, <1>6, <2>1, <2>3 DEF NormalChar
<1>7. CASE EndType
  <2>1. Moves
      BY <1>7, Within, TokensAre DEF EndType
  <2>2. stat' = 2 /\ UNCHANGED <<buf, cqcode, jsonarr>>
      BY <1>7 DEF EndType
  <2>3. stat' \in 0..3
      BY <2>2
  <2> QED BY <1>0, <1>1, <2>1, <2>2, <2>3
<1>8. CASE EndKey
  <2>1. Moves
      BY <1>8, Within, TokensAre DEF EndKey
  <2>2. stat' = 3 /\ UNCHANGED <<buf, cqcode, jsonarr>>
      BY <1>8 DEF EndKey
  <2>3. stat' \in 0..3
      BY <2>2
  <2> QED BY <1>0, <1>1, <2>1, <2>2, <2>3
<1>9. CASE EndVal
  <2>1. Moves
      BY <1>9, Within, TokensAre DEF EndVal
  <2>2. cqcode' \in Datas
      BY <1>9, StoredType DEF EndVal
  <2>3. stat' = 2 /\ jsonarr' = jsonarr /\ buf' = [buf EXCEPT ![2] = <<>>, ![3] = <<>>]
      BY <1>9 DEF EndVal
  <2>4. buf' \in [0..3 -> Seq(Tokens)]
      BY <1>0, <1>2, <2>3
  <2>5. stat' \in 0..3
      BY <2>3
  <2> QED BY <1>0, <1>1, <2>1, <2>2, <2>3, <2>4, <2>5
<1>10. CASE EndCode
  <2>1. Moves
      BY <1>10, Within, TokensAre DEF EndCode
  <2> DEFINE node == [type |-> buf[1], data |-> Stored]
  <2>2. node \in Parsed
      BY <1>0, StoredType DEF Parsed
  <2> HIDE DEF node
  <2>3. Append(jsonarr, node) \in Seq(Parsed)
      BY <1>0, <2>2
  <2>4. jsonarr' \in Seq(Parsed)
      BY <1>10, <2>3 DEF EndCode, node
  <2>5. /\ stat' = 0 /\ cqcode' = NoCode
        /\ buf' = [buf EXCEPT ![1] = <<>>, ![2] = <<>>, ![3] = <<>>]
      BY <1>10 DEF EndCode
  <2>6. buf' \in [0..3 -> Seq(Tokens)]
      BY <1>0, <1>2, <2>5
  <2>7. stat' \in 0..3
      BY <2>5
  <2> QED BY <1>1, <2>1, <2>4, <2>5, <2>6, <2>7, DatasAre
<1> QED BY <1>3, <1>4, <1>5, <1>6, <1>7, <1>8, <1>9, <1>10

LEMMA ReaderApart ==
  ASSUME Typed, Apart,
         \/ BeginCode \/ Unescape \/ BareAmp \/ NormalChar
         \/ EndType \/ EndKey \/ EndVal \/ EndCode
  PROVE  Apart'
<1>0. buf \in [0..3 -> Seq(Tokens)] /\ stat \in 0..3
    BY DEF Typed
<1>1. CASE BeginCode
  <2>1. stat' = 1 /\ buf' = [buf EXCEPT ![0] = <<>>]
      BY <1>1 DEF BeginCode
  <2> QED BY <1>0, <2>1 DEF Apart
<1>2. ASSUME UNCHANGED <<stat, cqcode>>, NEW s, buf' = [buf EXCEPT ![stat] = s] PROVE Apart'
    BY <1>0, <1>2 DEF Apart
<1>3. CASE Unescape
  <2>1. PICK e : buf' = [buf EXCEPT ![stat] = Append(@, e)]
      BY <1>3 DEF Unescape
  <2>2. buf' = [buf EXCEPT ![stat] = Append(buf[stat], e)]
      BY <2>1
  <2> QED BY <1>2, <1>3, <2>2 DEF Unescape
<1>4. CASE BareAmp
  <2>1. CASE stat = 0
      BY <1>2, <1>4, <2>1 DEF BareAmp
  <2>2. CASE stat # 0
      BY <1>4, <2>2 DEF BareAmp, Apart
  <2> QED BY <2>1, <2>2
<1>5. CASE NormalChar
    BY <1>2, <1>5 DEF NormalChar
<1>6. CASE EndType
  <2>1. stat = 1 /\ stat' = 2 /\ UNCHANGED <<buf, cqcode>>
      BY <1>6 DEF EndType
  <2> QED BY <2>1 DEF Apart
<1>7. CASE EndKey
    BY <1>7 DEF EndKey, Apart
<1>8. CASE EndVal
  <2>1. stat = 3 /\ stat' = 2 /\ buf' = [buf EXCEPT ![2] = <<>>, ![3] = <<>>]
      BY <1>8 DEF EndVal
  <2>2. buf'[0] = buf[0]
      BY <1>0, <2>1
  <2> QED BY <2>1, <2>2 DEF Apart
<1>9. CASE EndCode
  <2>1. /\ stat' = 0 /\ cqcode' = NoCode
        /\ buf' = [buf EXCEPT ![1] = <<>>, ![2] = <<>>, ![3] = <<>>]
      BY <1>9 DEF EndCode
  <2>2. \A n \in 1..3 : buf'[n] = <<>>
      BY <1>0, <2>1
  <2> QED BY <2>1, <2>2 DEF Apart
<1> QED BY <1>1, <1>3, <1>4, <1>5, <1>6, <1>7, <1>8, <1>9

LEMMA ReaderInTurn ==
  ASSUME InTurn,
         \/ BeginCode \/ Unescape \/ BareAmp \/ NormalChar
         \/ EndType \/ EndKey \/ EndVal \/ EndCode
  PROVE  InTurn' /\ ~Writing /\ ~Writing'
<1>1. UNCHANGED <<message, written, cq_str>>
    BY DEF BeginCode, Unescape, BareAmp, NormalChar, EndType, EndKey, EndVal, EndCode, writeVars
<1>2. Reading
    BY DEF BeginCode, Unescape, BareAmp, Bare, NormalChar, EndType, EndKey, EndVal, EndCode, Looks
<1>3. ~Writing /\ ~Writing'
    BY <1>1, <1>2 DEF Reading, Writing
<1> QED BY <1>1, <1>3 DEF InTurn, NodeStrs

LEMMA NextTyped == TypeInv /\ [Next]_vars => TypeInv'
<1> SUFFICES ASSUME TypeInv, [Next]_vars PROVE TypeInv'
    OBVIOUS
<1>1. CASE UNCHANGED vars
    BY <1>1 DEF vars, writeVars, readVars, TypeInv, Typed, Apart, InTurn, Place, Writing, NodeStrs
<1>2. CASE WriteNode
  <2>1. Apart'
      BY <1>2 DEF WriteNode, readVars, TypeInv, Apart
  <2> QED BY <1>2, <2>1, WriteNodeTyped DEF TypeInv
<1>3. CASE \/ BeginCode \/ Unescape \/ BareAmp \/ NormalChar
           \/ EndType \/ EndKey \/ EndVal \/ EndCode
    BY <1>3, ReaderTyped, ReaderApart, ReaderInTurn DEF TypeInv
<1> QED BY <1>1, <1>2, <1>3 DEF Next

(* The reader of cq_str_to_jsonarr stays within the string, and outside a  *)
(* code nothing of the last one is left over.                              *)
THEOREM CodeTypeCorrect == Spec => []TypeOK
<1>1. TypeInv => TypeOK
  <2> SUFFICES ASSUME TypeInv PROVE TypeOK
      OBVIOUS
  <2>1. DOMAIN buf = 0..3
      BY DEF TypeInv, Typed
  <2> QED BY <2>1 DEF TypeInv, Typed, Apart, Place, TypeOK
<1> QED BY InitTyped, NextTyped, <1>1, PTL DEF Spec

(***************************************************************************)
(* A string nobody wrote.                                                  *)
(***************************************************************************)
Kept ==
  message = <<>> /\ Plain(cq_str) =>
    stat = 0 /\ jsonarr = <<>> /\ buf[0] = SubSeq(cq_str, 1, i - 1)

LEMMA InitKept == Init => Kept
<1> SUFFICES ASSUME Init PROVE Kept
    OBVIOUS
<1>1. stat = 0 /\ jsonarr = <<>> /\ i = 1 /\ buf[0] = <<>>
    BY DEF Init
<1>2. SubSeq(cq_str, 1, 0) = <<>>
    BY SubSeqEmpty
<1>3. i - 1 = 0
    BY <1>1
<1> QED BY <1>1, <1>2, <1>3 DEF Kept

\* One token is taken as it is.
LEMMA TakesOne ==
  ASSUME Typed, Reading, stat = 0, buf[0] = SubSeq(cq_str, 1, i - 1),
         buf' = [buf EXCEPT ![0] = Append(@, cq_str[i])], i' = i + 1, UNCHANGED cq_str
  PROVE  buf'[0] = SubSeq(cq_str', 1, i' - 1)
<1>1. cq_str \in Seq(Tokens) /\ i \in 1..Len(cq_str)
    BY DEF Typed, Place, Reading
<1>2. SubSeq(cq_str, 1, i) = Append(SubSeq(cq_str, 1, i - 1), cq_str[i])
    BY <1>1
<1>3. buf'[0] = Append(SubSeq(cq_str, 1, i - 1), cq_str[i])
    BY DEF Typed
<1>4. (i + 1) - 1 = i
    BY <1>1
<1> QED BY <1>2, <1>3, <1>4

LEMMA NextKept == TypeInv /\ Kept /\ [Next]_vars => Kept'
<1> SUFFICES ASSUME TypeInv, Kept, [Next]_vars, message' = <<>>, Plain(cq_str')
             PROVE  stat' = 0 /\ jsonarr' = <<>> /\ buf'[0] = SubSeq(cq_str', 1, i' - 1)
    BY DEF Kept
<1>1. CASE UNCHANGED vars
    BY <1>1 DEF vars, writeVars, readVars, Kept
<1>2. CASE WriteNode
  <2>1. message = <<>> /\ written \in 0..Len(message)
      BY <1>2 DEF WriteNode, TypeInv, Typed
  <2>2. ~Writing
      BY <2>1 DEF Writing
  <2> QED BY <1>2, <2>2 DEF WriteNode
<1>3. CASE \/ BeginCode \/ Unescape \/ BareAmp \/ NormalChar
           \/ EndType \/ EndKey \/ EndVal \/ EndCode
  <2>1. UNCHANGED <<message, written, cq_str>>
      BY <1>3 DEF BeginCode, Unescape, BareAmp, NormalChar, EndType, EndKey, EndVal, EndCode,
                  writeVars
  <2>2. stat = 0 /\ jsonarr = <<>> /\ buf[0] = SubSeq(cq_str, 1, i - 1)
      BY <2>1 DEF Kept
  <2>3. Reading
      BY <1>3 DEF BeginCode, Unescape, BareAmp, Bare, NormalChar, EndType, EndKey, EndVal,
                  EndCode, Looks
  <2>4. i \in DOMAIN cq_str
      BY <2>3 DEF TypeInv, Typed, Place, Reading
  <2>5. Plain(cq_str)
      BY <2>1
  <2>6. ~Looks(<<"[", "CQ:">>)
      BY <2>4, <2>5 DEF Looks, Plain, Occurs
  <2>7. \A e \in Escapes : e[2] # "," => ~Looks(<<"&", e[1]>>)
      BY <2>4, <2>5 DEF Looks, Plain, Occurs
  <2>8. ~BeginCode /\ ~Unescape
      BY <2>2, <2>6, <2>7 DEF BeginCode, Unescape
  <2>9. ~EndType /\ ~EndKey /\ ~EndVal /\ ~EndCode
      BY <2>2 DEF EndType, EndKey, EndVal, EndCode
  <2>10. CASE BareAmp
    <3>1. cq_str[i] = "&"
        BY <2>10, TokensAre, LooksOne DEF BareAmp, Bare, TypeInv, Typed
    <3>2. buf' = [buf EXCEPT ![0] = Append(@, cq_str[i])]
        BY <2>2, <2>10, <3>1 DEF BareAmp
    <3>3. UNCHANGED <<stat, jsonarr>> /\ i' = i + 1
        BY <2>10 DEF BareAmp
    <3> QED BY <2>1, <2>2, <2>3, <3>2, <3>3, TakesOne DEF TypeInv
  <2>11. CASE NormalChar
    <3>1. buf' = [buf EXCEPT ![0] = Append(@, cq_str[i])]
        BY <2>2, <2>11 DEF NormalChar
    <3>2. UNCHANGED <<stat, jsonarr>> /\ i' = i + 1
        BY <2>11 DEF NormalChar
    <3> QED BY <2>1, <2>2, <2>3, <3>1, <3>2, TakesOne DEF TypeInv
  <2> QED BY <1>3, <2>8, <2>9, <2>10, <2>11
<1> QED BY <1>1, <1>2, <1>3 DEF Next

LEMMA KeptIsKept == TypeInv /\ Kept => RawTextKept
<1> SUFFICES ASSUME TypeInv, Kept, Done, message = <<>>, cq_str # <<>>, Plain(cq_str)
             PROVE  Returned = <<TextNode(cq_str)>>
    BY DEF RawTextKept
<1>1. stat = 0 /\ jsonarr = <<>> /\ buf[0] = SubSeq(cq_str, 1, i - 1)
    BY DEF Kept
<1>2. cq_str \in Seq(Tokens) /\ i - 1 = Len(cq_str)
    BY DEF Done, Reading, TypeInv, Typed, Place
<1>3. buf[0] = cq_str
    BY <1>1, <1>2, SubSeqFull
<1>4. \A x : Append(<<>>, x) = <<x>>
    OBVIOUS
<1> QED BY <1>1, <1>3, <1>4 DEF Returned, WithText

(* A string of a plugin without codes and escapes is read as one text.     *)
THEOREM RawTextIsKept == Spec => []RawTextKept
BY InitTyped, NextTyped, InitKept, NextKept, KeptIsKept, PTL DEF Spec

(***************************************************************************)
(* A message that was written, while it is read: after node k.             *)
(***************************************************************************)
TextAfter(arr, t) == IF t = <<>> THEN arr ELSE Append(arr, TextNode(t))

\* p of a text is still to be read.
InText(k, p) ==
  /\ k \in 0..Len(message) /\ p \in Seq(Tokens)
  /\ stat = 0
  /\ Rest = EscapeText(p) \o StrAfter(message, k)
  /\ jsonarr # <<>> => Last(jsonarr).type # Text
  /\ Normals(message)[k] = TextAfter(jsonarr, buf[0] \o p)

\* The code k, from its m-th parameter on, and what comes after it.
Ahead(k, m) == ParamsFrom(message[k], m) \o (<<"]">> \o StrAfter(message, k))

InCode(k) ==
  /\ k \in 1..Len(message) /\ IsCode(message[k])
  /\ jsonarr = Normals(message)[k - 1]

\* q of its type is still to be read.
InType(k, q) ==
  /\ InCode(k) /\ q \in Seq(Tokens)
  /\ stat = 1 /\ cqcode = NoCode /\ buf[2] = <<>> /\ buf[3] = <<>>
  /\ buf[1] \o q = message[k].type
  /\ Rest = EscapeCode(q) \o Ahead(k, 1)

\* The parameters before the m-th have been read.
Until(node, m) == [x \in {Keys(node)[n] : n \in 1..(m - 1)} |-> node.data[x]]
InParams(k, m) ==
  /\ InCode(k) /\ m \in 1..Len(Keys(message[k]))
  /\ buf[1] = message[k].type
  /\ cqcode = Until(message[k], m)

\* q of the m-th key is still to be read.
InKey(k, m, q) ==
  /\ InParams(k, m) /\ q \in Seq(Tokens)
  /\ stat = 2 /\ buf[3] = <<>>
  /\ buf[2] \o q = Keys(message[k])[m]
  /\ Rest = q \o (<<"=">> \o (EscapeCode(message[k].data[Keys(message[k])[m]])
                    \o Ahead(k, m + 1)))

\* q of the m-th value is still to be read.
InVal(k, m, q) ==
  /\ InParams(k, m) /\ q \in Seq(Tokens)
  /\ stat = 3 /\ buf[2] = Keys(message[k])[m]
  /\ buf[3] \o q = message[k].data[Keys(message[k])[m]]
  /\ Rest = EscapeCode(q) \o Ahead(k, m + 1)

Parsing ==
  \/ \E k \in Nat, p \in Seq(Tokens) : InText(k, p)
  \/ \E k \in Nat, q \in Seq(Tokens) : InType(k, q)
  \/ \E k \in Nat, m \in Nat, q \in Seq(Tokens) : InKey(k, m, q)
  \/ \E k \in Nat, m \in Nat, q \in Seq(Tokens) : InVal(k, m, q)

AllReadable == \A n \in DOMAIN message : Readable(message[n])
Surviving == ~Writing /\ message # <<>> /\ AllReadable => Parsing

LEMMA EndsWith ==
  ASSUME NEW P, NEW arr \in Seq(P), NEW x \in P
  PROVE  /\ Append(arr, x) # <<>>
         /\ Last(Append(arr, x)) = x /\ Front(Append(arr, x)) = arr
<1> DEFINE B == Append(arr, x)
<1>1. B \in Seq(P) /\ Len(B) = Len(arr) + 1 /\ B[Len(arr) + 1] = x /\ Len(arr) \in Nat
    OBVIOUS
<1>2. SubSeq(B, 1, Len(arr)) = arr
  <2>1. SubSeq(B, 1, Len(arr)) \in Seq(P) /\ Len(SubSeq(B, 1, Len(arr))) = Len(arr)
        /\ \A n \in 1..Len(arr) : SubSeq(B, 1, Len(arr))[n] = arr[n]
      OBVIOUS
  <2> DEFINE V == SubSeq(B, 1, Len(arr))
  <2>2. V \in Seq(P) /\ Len(V) = Len(arr) /\ \A n \in 1..Len(V) : V[n] = arr[n]
      BY <2>1
  <2> HIDE DEF V
  <2>3. V = arr
      BY <2>2, SeqEqual
  <2> QED BY <2>3 DEF V
<1> HIDE DEF B
<1>3. B # <<>> /\ Last(B) = x /\ Front(B) = arr
    BY <1>1, <1>2 DEF Last, Front
<1> QED BY <1>3 DEF B

LEMMA TextNodeIs == \A s : TextNode(s).type = Text /\ TextNode(s).data[Text] = s
  BY DEF TextNode

\* What is empty.
LEMMA Empties ==
  /\ \A s \in Seq(Tokens) : s \o <<>> = s /\ <<>> \o s = s
  /\ \A s, t \in Seq(Tokens) : s \o t = <<>> <=> s = <<>> /\ t = <<>>
  OBVIOUS

LEMMA JoinText ==
  ASSUME NEW node \in Nodes, ~IsCode(node), NEW arr \in Seq(Parsed), NEW s \in Seq(Tokens),
         arr # <<>> => Last(arr).type # Text
  PROVE  Joined(TextAfter(arr, s), node) = TextAfter(arr, s \o TextOf(node))
<1> DEFINE t == TextOf(node)
<1>1. t \in Seq(Tokens)
    BY TextOfType
<1>2. <<>> # Text
    BY DEF Text
<1>3. CASE t = <<>>
  <2>1. Joined(TextAfter(arr, s), node) = TextAfter(arr, s)
      BY <1>2, <1>3 DEF Joined, TextOf, IsCode
  <2> QED BY <1>3, <2>1, Empties
<1>4. CASE t # <<>>
  <2>1. node.type = Text /\ Has(node.data, Text) /\ t = node.data[Text]
      BY <1>4 DEF TextOf
  <2>2. \A a : Joined(a, node) =
          IF a # <<>> /\ Last(a).type = Text
            THEN Append(Front(a), TextNode(Last(a).data[Text] \o t))
          ELSE Append(a, TextNode(t))
      BY <1>2, <1>4, <2>1 DEF Joined
  <2> HIDE DEF t
  <2>3. s \o t # <<>> /\ (s = <<>> => s \o t = t)
      BY <1>1, <1>4, Empties
  <2>4. CASE s = <<>>
    <3>1. Joined(arr, node) = Append(arr, TextNode(t))
        BY <2>2
    <3> QED BY <2>3, <2>4, <3>1 DEF TextAfter, t
  <2>5. CASE s # <<>>
    <3> DEFINE x == TextNode(s)
    <3>1. x \in Parsed /\ x.type = Text /\ x.data[Text] = s
        BY DatasAre, TextNodeIs
    <3> HIDE DEF x
    <3> DEFINE a == Append(arr, x)
    <3>2. a # <<>> /\ Last(a) = x /\ Front(a) = arr
        BY <3>1, EndsWith
    <3> HIDE DEF a
    <3>3. Joined(a, node) = Append(arr, TextNode(s \o t))
        BY <2>2, <3>1, <3>2
    <3> QED BY <2>3, <2>5, <3>3 DEF TextAfter, a, x, t
  <2> QED BY <2>4, <2>5
<1> QED BY <1>3, <1>4

LEMMA JoinCode ==
  ASSUME NEW node \in Nodes, IsCode(node)
  PROVE  \A arr : Joined(arr, node) =
           Append(arr, [type |-> node.type,
                        data |-> Restrict(node.data, Fields(node.data))])
  BY DEF Joined, IsCode

\* The step of the reader at a character, escaped or not.
LEMMA ReadChar ==
  ASSUME Place, ~Writing, Next, stat \in 0..3, NEW chars \in SUBSET Escapable,
         stat = 0 => "," \notin chars, Marks(stat) \subseteq chars,
         NEW c \in Tokens, NEW s \in Seq(Tokens), NEW R \in Seq(Tokens),
         Rest = Escaped(<<c>> \o s, chars) \o R
  PROVE  /\ buf' = [buf EXCEPT ![stat] = Append(@, c)]
         /\ UNCHANGED <<message, written, cq_str, stat, cqcode, jsonarr>>
         /\ Rest' = Escaped(s, chars) \o R
<1> DEFINE e == Enc(c, chars)
<1> DEFINE t == Escaped(s, chars)
<1>1. e \in Seq(Tokens) /\ t \in Seq(Tokens) /\ t \o R \in Seq(Tokens)
    BY EncType, EscapedType, Concats
<1>2. Rest = e \o (t \o R)
  <2>1. Rest = (e \o t) \o R
      BY EscapedCons
  <2> HIDE DEF e, t
  <2> QED BY <1>1, <2>1, Concats
<1>3. CASE c \notin chars
  <2>1. e = <<c>> /\ c \notin Marks(stat)
      BY <1>3 DEF Enc
  <2> HIDE DEF t
  <2>2. Rest = <<c>> \o (t \o R)
      BY <1>2, <2>1
  <2>3. /\ buf' = [buf EXCEPT ![stat] = Append(@, c)]
        /\ Goes(1) /\ UNCHANGED <<stat, cqcode, jsonarr>>
        /\ Rest' = t \o R
      BY <1>1, <2>1, <2>2, ReadNormal
  <2> QED BY <2>3 DEF Goes, t
<1>4. CASE c \in chars
  <2> DEFINE x == <<Escape(c), c>>
  <2>1. x \in Escapes /\ x[1] = Escape(c) /\ x[2] = c
      BY <1>4, EscapeIs
  <2>2. e = <<"&", x[1]>>
      BY <1>4, <2>1 DEF Enc
  <2>3. stat = 0 => x[2] # ","
      BY <1>4, <2>1
  <2> HIDE DEF t, x
  <2>4. Rest = <<"&", x[1]>> \o (t \o R)
      BY <1>2, <2>2
  <2>5. /\ buf' = [buf EXCEPT ![stat] = Append(@, x[2])]
        /\ Goes(2) /\ UNCHANGED <<stat, cqcode, jsonarr>>
        /\ Rest' = t \o R
      BY <1>1, <2>1, <2>3, <2>4, ReadEscape
  <2> QED BY <2>1, <2>5 DEF Goes, t
<1> QED BY <1>3, <1>4

\* A string is empty or begins with a character.
LEMMA Begins ==
  ASSUME NEW s \in Seq(Tokens), s # <<>>
  PROVE  \E c \in Tokens, t \in Seq(Tokens) : s = <<c>> \o t
<1>1. 1 \in 1..Len(s) /\ Len(s) \in 1..Len(s)
    OBVIOUS
<1>2. SubSeq(s, 1, Len(s)) = <<s[1]>> \o SubSeq(s, 1 + 1, Len(s))
    BY <1>1, SubSeqRecursiveFirst
<1>3. SubSeq(s, 1 + 1, Len(s)) \in Seq(Tokens) /\ s[1] \in Tokens
    BY <1>1
<1> QED BY <1>2, <1>3, SubSeqFull

\* A character goes from what is ahead to what has been read.
LEMMA Moved ==
  ASSUME NEW c \in Tokens, NEW s \in Seq(Tokens), NEW t \in Seq(Tokens)
  PROVE  Append(s, c) \o t = s \o (<<c>> \o t)
<1>1. Append(s, c) = s \o <<c>>
    OBVIOUS
<1> QED BY <1>1, Strings, Concats

\* A text that is read, or a node that says nothing, leads to the next node:
\* there is text to read, or a code, or nothing.
Settled(k, p) == p # <<>> \/ k = Len(message) \/ IsCode(message[k + 1])

LEMMA NextNode ==
  ASSUME Typed, NEW k \in Nat, InText(k, <<>>), ~Settled(k, <<>>)
  PROVE  InText(k + 1, TextOf(message[k + 1]))
<1> DEFINE node == message[k + 1]
<1> DEFINE t == TextOf(node)
<1>1. /\ message \in Seq(Nodes) /\ Len(message) \in Nat /\ k \in 0..(Len(message) - 1)
      /\ ~IsCode(node)
    BY DEF Typed, InText, Settled
<1>2. node \in Nodes /\ k + 1 \in 0..Len(message)
    BY <1>1
<1>3. t \in Seq(Tokens)
    BY <1>2, TextOfType
<1>4. Rest = EscapeText(t) \o StrAfter(message, k + 1)
  <2>1. Rest = StrAfter(message, k)
    <3>1. StrAfter(message, k) \in Seq(Tokens) /\ EscapeText(<<>>) = <<>>
        BY <1>1, StrAfterIs, EscapedEmpty DEF EscapeText
    <3>2. Rest = EscapeText(<<>>) \o StrAfter(message, k)
        BY DEF InText
    <3> QED BY <3>1, <3>2, Empties
  <2>2. StrAfter(message, k) = NodeStr(node) \o StrAfter(message, k + 1)
      BY <1>1, StrAfterIs
  <2> QED BY <1>1, <1>2, <2>1, <2>2, NodeStrIs
<1>5. Normals(message)[k + 1] = TextAfter(jsonarr, buf[0] \o t)
  <2>1. buf[0] \in Seq(Tokens)
      BY DEF Typed
  <2>2. Normals(message)[k] = TextAfter(jsonarr, buf[0])
      BY <2>1, Empties DEF InText
  <2>3. Normals(message)[k + 1] = Joined(Normals(message)[k], node)
      BY <1>1, NormalsStep
  <2>4. jsonarr \in Seq(Parsed) /\ (jsonarr # <<>> => Last(jsonarr).type # Text)
      BY DEF Typed, InText
  <2>5. Joined(TextAfter(jsonarr, buf[0]), node) = TextAfter(jsonarr, buf[0] \o t)
      BY <1>1, <1>2, <2>1, <2>4, JoinText
  <2> QED BY <2>2, <2>3, <2>5
<1> QED BY <1>2, <1>3, <1>4, <1>5 DEF InText

LEMMA Settles ==
  ASSUME Typed, NEW k \in Nat, NEW p \in Seq(Tokens), InText(k, p)
  PROVE  \E l \in Nat, q \in Seq(Tokens) : InText(l, q) /\ Settled(l, q)
<1> DEFINE Ends == \E l \in Nat, q \in Seq(Tokens) : InText(l, q) /\ Settled(l, q)
<1> DEFINE Holds(n) == \A l \in Nat, q \in Seq(Tokens) :
                         Len(message) - l = n /\ InText(l, q) => Ends
<1> DEFINE S == {n \in Nat : Holds(n)}
<1>0. Len(message) \in Nat
    BY DEF Typed
<1>1. Holds(0)
  <2> SUFFICES ASSUME NEW l \in Nat, NEW q \in Seq(Tokens), Len(message) - l = 0, InText(l, q)
               PROVE  Ends
      OBVIOUS
  <2>1. l = Len(message)
      BY <1>0
  <2> QED BY <2>1 DEF Settled
<1>2. ASSUME NEW n \in Nat, Holds(n) PROVE Holds(n + 1)
  <2> SUFFICES ASSUME NEW l \in Nat, NEW q \in Seq(Tokens),
                      Len(message) - l = n + 1, InText(l, q), ~Settled(l, q)
               PROVE  Ends
      OBVIOUS
  <2>1. q = <<>>
      BY DEF Settled
  <2>2. InText(l + 1, TextOf(message[l + 1]))
      BY <2>1, NextNode
  <2>3. Len(message) - (l + 1) = n /\ l + 1 \in Nat
      BY <1>0
  <2>4. TextOf(message[l + 1]) \in Seq(Tokens)
      BY <2>2 DEF InText
  <2> HIDE DEF Ends
  <2> QED BY <1>2, <2>2, <2>3, <2>4
<1>3. \A n \in Nat : Holds(n)
  <2> HIDE DEF Holds
  <2>1. 0 \in S /\ \A n \in Nat : n \in S => n + 1 \in S
      BY <1>1, <1>2
  <2> HIDE DEF S
  <2>2. \A n \in Nat : n \in S
      BY <2>1, SetInduction
  <2> QED BY <2>2 DEF S
<1>4. Len(message) - k \in Nat
    BY <1>0 DEF InText
<1> HIDE DEF Ends
<1>5. Ends
    BY <1>3, <1>4
<1> QED BY <1>5 DEF Ends

\* What is known of each code there is to read.
LEMMA CodeIs ==
  ASSUME Typed, AllReadable, NEW k \in 1..Len(message), IsCode(message[k])
  PROVE  /\ message[k] \in Nodes /\ message[k].type \in Seq(Tokens)
         /\ Len(Keys(message[k])) \in Nat \ {0}
         /\ \A m \in 1..Len(Keys(message[k])) :
              /\ Keys(message[k])[m] \in Seq(Tokens)
              /\ {"=", "&"} \cap Range(Keys(message[k])[m]) = {}
              /\ message[k].data[Keys(message[k])[m]] \in Seq(Tokens)
         /\ StrAfter(message, k) \in Seq(Tokens)
         /\ \A m \in 1..(Len(Keys(message[k])) + 1) : Ahead(k, m) \in Seq(Tokens)
         /\ \A m \in 1..Len(Keys(message[k])) :
              Ahead(k, m) = <<",">> \o (Keys(message[k])[m] \o (<<"=">> \o
                (EscapeCode(message[k].data[Keys(message[k])[m]]) \o Ahead(k, m + 1))))
         /\ Ahead(k, Len(Keys(message[k])) + 1) = <<"]">> \o StrAfter(message, k)
<1> DEFINE node == message[k]
<1> DEFINE K == Keys(node)
<1>1. message \in Seq(Nodes) /\ node \in Nodes /\ k \in DOMAIN message
    BY DEF Typed
<1>2. /\ Fields(node.data) # {}
      /\ \A x \in Fields(node.data) : {"=", "&"} \cap Range(x) = {}
    BY <1>1 DEF AllReadable, Readable, IsCode
<1>3. K \in Seq(Fields(node.data)) /\ \A x \in Fields(node.data) : \E n \in 1..Len(K) : K[n] = x
    BY <1>1, KeysAre
<1>4. Len(K) \in Nat \ {0}
  <2> HIDE DEF K
  <2> QED BY <1>2, <1>3
<1>5. /\ node.type \in Seq(Tokens) /\ Fields(node.data) \subseteq Seq(Tokens)
      /\ \A x \in Fields(node.data) : node.data[x] \in Seq(Tokens)
    BY <1>1, NodeTypes
<1>6. \A m \in 1..Len(K) : K[m] \in Fields(node.data)
  <2> HIDE DEF K
  <2> QED BY <1>3
<1>7. StrAfter(message, k) \in Seq(Tokens)
  <2>1. k \in 0..Len(message)
      OBVIOUS
  <2> QED BY <1>1, <2>1, StrAfterIs
<1> DEFINE z == <<"]">> \o StrAfter(message, k)
<1>8. z \in Seq(Tokens)
    BY <1>7, CharSets, Strings, Concats
<1> HIDE DEF z
<1>9. /\ \A m \in 1..(Len(K) + 1) : ParamsFrom(node, m) \in Seq(Tokens)
      /\ \A m \in 1..Len(K) : ParamsFrom(node, m) = Param(node, K[m]) \o ParamsFrom(node, m + 1)
      /\ ParamsFrom(node, Len(K) + 1) = <<>>
    BY <1>1, ParamsFromAre
<1>10. \A m : Ahead(k, m) = ParamsFrom(node, m) \o z
    BY DEF Ahead, z
<1> HIDE DEF node, K
<1>11. \A m \in 1..(Len(K) + 1) : Ahead(k, m) \in Seq(Tokens)
  <2> TAKE m \in 1..(Len(K) + 1)
  <2> DEFINE r == ParamsFrom(node, m)
  <2>1. r \in Seq(Tokens)
      BY <1>9
  <2>2. Ahead(k, m) = r \o z
      BY <1>10
  <2> HIDE DEF r
  <2>3. r \o z \in Seq(Tokens)
      BY <1>8, <2>1, Concats
  <2> QED BY <2>2, <2>3
<1>12. Ahead(k, Len(K) + 1) = z
    BY <1>8, <1>9, <1>10, Empties
<1>13. ASSUME NEW m \in 1..Len(K)
       PROVE  Ahead(k, m) = <<",">> \o (K[m] \o (<<"=">> \o
                (EscapeCode(node.data[K[m]]) \o Ahead(k, m + 1))))
  <2> DEFINE a == <<",">>
  <2> DEFINE b == K[m]
  <2> DEFINE c == <<"=">>
  <2> DEFINE d == EscapeCode(node.data[b])
  <2> DEFINE r == ParamsFrom(node, m + 1)
  <2>1. a \in Seq(Tokens)
      BY CharSets, Strings
  <2>2. c \in Seq(Tokens)
      BY CharSets, Strings
  <2>3. b \in Seq(Tokens)
      BY <1>5, <1>6
  <2>4. d \in Seq(Tokens)
      BY <1>5, <1>6, EscapeTypes
  <2>5. r \in Seq(Tokens)
    <3> m + 1 \in 1..(Len(K) + 1)
        BY <1>4
    <3> QED BY <1>9
  <2>6. Ahead(k, m) = ((((a \o b) \o c) \o d) \o r) \o z
      BY <1>9, <1>10 DEF Param
  <2>7. Ahead(k, m + 1) = r \o z
      BY <1>10
  <2> HIDE DEF a, b, c, d, r
  <2> DEFINE ab == a \o b
  <2> DEFINE abc == ab \o c
  <2> DEFINE abcd == abc \o d
  <2> DEFINE rz == r \o z
  <2> DEFINE drz == d \o rz
  <2> DEFINE cdrz == c \o drz
  <2>8. ab \in Seq(Tokens)
      BY <2>1, <2>3, Concats
  <2>9. abc \in Seq(Tokens)
    <3> HIDE DEF ab
    <3> QED BY <2>2, <2>8, Concats
  <2>10. abcd \in Seq(Tokens)
    <3> HIDE DEF abc
    <3> QED BY <2>4, <2>9, Concats
  <2>11. rz \in Seq(Tokens)
      BY <1>8, <2>5, Concats
  <2>12. drz \in Seq(Tokens)
    <3> HIDE DEF rz
    <3> QED BY <2>4, <2>11, Concats
  <2>13. cdrz \in Seq(Tokens)
    <3> HIDE DEF drz
    <3> QED BY <2>2, <2>12, Concats
  <2>14. (abcd \o r) \o z = abcd \o rz
    <3> HIDE DEF abcd
    <3> QED BY <1>8, <2>5, <2>10, Concats
  <2>15. abcd \o rz = abc \o drz
    <3> HIDE DEF abc, rz
    <3> QED BY <2>4, <2>9, <2>11, Concats
  <2>16. abc \o drz = ab \o cdrz
    <3> HIDE DEF ab, drz
    <3> QED BY <2>2, <2>8, <2>12, Concats
  <2>17. ab \o cdrz = a \o (b \o cdrz)
    <3> HIDE DEF cdrz
    <3> QED BY <2>1, <2>3, <2>13, Concats
  <2> HIDE DEF abc, abcd
  <2>18. Ahead(k, m) = a \o (b \o cdrz)
    <3> HIDE DEF ab, rz, drz, cdrz
    <3> QED BY <2>6, <2>14, <2>15, <2>16, <2>17 DEF ab, abc, abcd
  <2> QED BY <2>7, <2>18 DEF a, b, c, d, rz, drz, cdrz
<1> QED BY <1>1, <1>2, <1>4, <1>5, <1>6, <1>7, <1>11, <1>12, <1>13 DEF z, node, K

LEMMA StepText ==
  ASSUME TypeInv, ~Writing, Next, NEW k \in Nat, NEW p \in Seq(Tokens), InText(k, p), p # <<>>
  PROVE  \E t \in Seq(Tokens) : InText(k, t)'
<1>1. PICK c \in Tokens, t \in Seq(Tokens) : p = <<c>> \o t
    BY Begins
<1> DEFINE chars == {"&", "[", "]"}
<1>2. /\ chars \in SUBSET Escapable
      /\ stat = 0 => "," \notin chars
      /\ Marks(0) \subseteq chars
    BY CharSets, MarksAre
<1>3. stat = 0 /\ k \in 0..Len(message)
    BY DEF InText
<1>4. StrAfter(message, k) \in Seq(Tokens)
    BY <1>3, StrAfterIs DEF TypeInv, Typed
<1>5. Rest = Escaped(<<c>> \o t, chars) \o StrAfter(message, k)
    BY <1>1 DEF InText, EscapeText
<1>6. Place /\ buf \in [0..3 -> Seq(Tokens)]
    BY DEF TypeInv, Typed
<1> DEFINE R == StrAfter(message, k)
<1> HIDE DEF chars, R
<1>7. /\ buf' = [buf EXCEPT ![0] = Append(@, c)]
      /\ UNCHANGED <<message, written, cq_str, stat, cqcode, jsonarr>>
      /\ Rest' = Escaped(t, chars) \o R
  <2>1. Rest = Escaped(<<c>> \o t, chars) \o R /\ R \in Seq(Tokens)
      BY <1>4, <1>5 DEF R
  <2>2. stat \in 0..3 /\ Marks(stat) \subseteq chars
    <3>1. stat = 0 => Marks(stat) = Marks(0) /\ stat \in 0..3
        OBVIOUS
    <3> QED BY <1>2, <1>3, <3>1
  <2>3. /\ buf' = [buf EXCEPT ![stat] = Append(@, c)]
        /\ UNCHANGED <<message, written, cq_str, stat, cqcode, jsonarr>>
        /\ Rest' = Escaped(t, chars) \o R
      BY <1>2, <1>6, <2>1, <2>2, ReadChar
  <2> QED BY <1>3, <2>3
<1>8. Rest' = EscapeText(t) \o StrAfter(message', k)
    BY <1>7 DEF chars, R, EscapeText
<1>9. Normals(message)[k] = TextAfter(jsonarr, buf'[0] \o t)
  <2>1. buf'[0] = Append(buf[0], c) /\ buf[0] \in Seq(Tokens)
      BY <1>6, <1>7
  <2>2. Append(buf[0], c) \o t = buf[0] \o (<<c>> \o t)
      BY <2>1, Moved
  <2>3. Normals(message)[k] = TextAfter(jsonarr, buf[0] \o p)
      BY DEF InText
  <2> QED BY <1>1, <2>1, <2>2, <2>3
<1>10. /\ stat' = 0 /\ k \in 0..Len(message')
       /\ jsonarr' # <<>> => Last(jsonarr').type # Text
    BY <1>3, <1>7 DEF InText
<1>11. Normals(message')[k] = TextAfter(jsonarr', buf'[0] \o t)
    BY <1>7, <1>9
<1>12. InText(k, t)'
    BY <1>8, <1>10, <1>11 DEF InText
<1> QED BY <1>12

LEMMA StepCode ==
  ASSUME TypeInv, ~Writing, Next, AllReadable,
         NEW k \in Nat, InText(k, <<>>), k # Len(message), IsCode(message[k + 1])
  PROVE  \E l \in Nat, q \in Seq(Tokens) : InType(l, q)'
<1> DEFINE node == message[k + 1]
<1>1. /\ message \in Seq(Nodes) /\ k \in 0..(Len(message) - 1) /\ k + 1 \in 1..Len(message)
      /\ stat = 0 /\ (k + 1) - 1 = k
    BY DEF TypeInv, Typed, InText
<1>2. node \in Nodes /\ node.type \in Seq(Tokens) /\ Ahead(k + 1, 1) \in Seq(Tokens)
  <2>1. Len(Keys(node)) \in Nat
      BY <1>1, CodeIs DEF TypeInv
  <2>2. 1 \in 1..(Len(Keys(node)) + 1)
      BY <2>1
  <2> QED BY <1>1, <2>2, CodeIs DEF TypeInv
<1> DEFINE R == EscapeCode(node.type) \o Ahead(k + 1, 1)
<1>3. R \in Seq(Tokens)
    BY <1>2, EscapeTypes, Concats, SMTT(30)
<1>4. Rest = <<"[", "CQ:">> \o R
  <2>1. Rest = StrAfter(message, k)
    <3>1. StrAfter(message, k) \in Seq(Tokens) /\ EscapeText(<<>>) = <<>>
        BY <1>1, StrAfterIs, EscapedEmpty DEF EscapeText
    <3>2. Rest = EscapeText(<<>>) \o StrAfter(message, k)
        BY DEF InText
    <3> QED BY <3>1, <3>2, Empties
  <2> DEFINE u == EscapeCode(node.type)
  <2> DEFINE v == ParamsFrom(node, 1)
  <2> DEFINE w == StrAfter(message, k + 1)
  <2> DEFINE o == <<"[", "CQ:">>
  <2> DEFINE z == <<"]">>
  <2>2. StrAfter(message, k) = (o \o (u \o (v \o z))) \o w
      BY <1>1, <1>2, StrAfterIs, NodeStrIs
  <2>3. Ahead(k + 1, 1) = v \o (z \o w)
      BY DEF Ahead
  <2>4. u \in Seq(Tokens)
      BY <1>2, EscapeTypes
  <2>5. v \in Seq(Tokens)
    <3> Len(Keys(node)) \in Nat /\ 1 \in 1..(Len(Keys(node)) + 1)
        BY <1>2, KeysAre
    <3> QED BY <1>2, ParamsFromAre
  <2>6. w \in Seq(Tokens)
      BY <1>1, StrAfterIs
  <2>7. z \in Seq(Tokens)
      BY CharSets, Strings
  <2>8. o \in Seq(Tokens)
      BY CharSets, Strings
  <2> HIDE DEF u, v, w, o, z
  <2> DEFINE vz == v \o z
  <2> DEFINE uvz == u \o vz
  <2>9. vz \in Seq(Tokens)
      BY <2>5, <2>7, Concats
  <2>10. uvz \in Seq(Tokens)
    <3> HIDE DEF vz
    <3> QED BY <2>4, <2>9, Concats
  <2>11. (o \o uvz) \o w = o \o (uvz \o w)
    <3> HIDE DEF uvz
    <3> QED BY <2>6, <2>8, <2>10, Concats
  <2>12. uvz \o w = u \o (vz \o w)
    <3> HIDE DEF vz
    <3> QED BY <2>4, <2>6, <2>9, Concats
  <2>13. vz \o w = v \o (z \o w)
      BY <2>5, <2>6, <2>7, Concats
  <2>14. (o \o uvz) \o w = o \o (u \o (v \o (z \o w)))
    <3> HIDE DEF vz, uvz
    <3> QED BY <2>11, <2>12, <2>13
  <2> QED BY <2>1, <2>2, <2>3, <2>14 DEF u, o
<1> HIDE DEF R
<1>5. BeginCode /\ Goes(2) /\ Rest' = R
    BY <1>1, <1>3, <1>4, ReadBegin DEF TypeInv, Typed
<1>6. /\ UNCHANGED <<message, cqcode>> /\ stat' = 1
      /\ jsonarr' = WithText(jsonarr) /\ buf' = [buf EXCEPT ![0] = <<>>]
    BY <1>5 DEF BeginCode, writeVars
<1>7. buf \in [0..3 -> Seq(Tokens)]
    BY DEF TypeInv, Typed
<1>8. /\ cqcode' = NoCode /\ buf'[1] = <<>> /\ buf'[2] = <<>> /\ buf'[3] = <<>>
    BY <1>1, <1>6, <1>7 DEF TypeInv, Apart
<1>9. jsonarr' = Normals(message')[(k + 1) - 1]
  <2>1. buf[0] \o <<>> = buf[0]
      BY <1>7, Empties
  <2>2. Normals(message)[k] = TextAfter(jsonarr, buf[0])
      BY <2>1 DEF InText
  <2> QED BY <1>1, <1>6, <2>2 DEF WithText, TextAfter
<1>10. InCode(k + 1)'
    BY <1>1, <1>6, <1>9 DEF InCode
<1>11. Rest' = EscapeCode(node.type) \o Ahead(k + 1, 1)'
    BY <1>5, <1>6 DEF R, Ahead
<1>12. buf'[1] \o node.type = message'[k + 1].type
    BY <1>2, <1>6, <1>8, Empties
<1>13. PICK q \in Seq(Tokens) : q = node.type
    BY <1>2
<1>14. Rest' = EscapeCode(q) \o Ahead(k + 1, 1)' /\ buf'[1] \o q = message'[k + 1].type
    BY <1>11, <1>12, <1>13
<1>15. InType(k + 1, q)'
    BY <1>6, <1>8, <1>10, <1>14 DEF InType
<1> QED BY <1>1, <1>15

LEMMA StepType ==
  ASSUME TypeInv, ~Writing, Next, AllReadable, NEW k \in Nat, NEW q \in Seq(Tokens), InType(k, q)
  PROVE  \/ \E t \in Seq(Tokens) : InType(k, t)'
         \/ \E t \in Seq(Tokens) : InKey(k, 1, t)'
<1> DEFINE node == message[k]
<1>0. /\ Place /\ buf \in [0..3 -> Seq(Tokens)] /\ stat = 1 /\ InCode(k)
      /\ k \in 1..Len(message) /\ IsCode(message[k]) /\ Typed
    BY DEF TypeInv, Typed, InType, InCode
<1>1. Len(Keys(node)) \in Nat /\ 1 \in 1..Len(Keys(node)) /\ 1 \in 1..(Len(Keys(node)) + 1)
  <2>1. Len(Keys(node)) \in Nat \ {0}
      BY <1>0, CodeIs
  <2> QED BY <2>1
<1>2. Ahead(k, 1) \in Seq(Tokens)
    BY <1>0, <1>1, CodeIs
<1>3. CASE q # <<>>
  <2>1. PICK c \in Tokens, t \in Seq(Tokens) : q = <<c>> \o t
      BY <1>3, Begins
  <2> DEFINE chars == {"&", "[", "]", ","}
  <2>2. chars \in SUBSET Escapable /\ Marks(1) \subseteq chars
      BY CharSets, MarksAre
  <2>3. Rest = Escaped(<<c>> \o t, chars) \o Ahead(k, 1)
      BY <2>1 DEF InType, EscapeCode
  <2> DEFINE R == Ahead(k, 1)
  <2> HIDE DEF chars, R
  <2>4. /\ buf' = [buf EXCEPT ![1] = Append(@, c)]
        /\ UNCHANGED <<message, written, cq_str, stat, cqcode, jsonarr>>
        /\ Rest' = Escaped(t, chars) \o R
    <3>1. stat = 1 => stat # 0 /\ stat \in 0..3 /\ Marks(stat) = Marks(1)
        OBVIOUS
    <3>2. stat # 0 /\ stat \in 0..3 /\ Marks(stat) \subseteq chars
        BY <1>0, <2>2, <3>1
    <3>3. Rest = Escaped(<<c>> \o t, chars) \o R /\ R \in Seq(Tokens)
        BY <1>2, <2>3 DEF R
    <3>4. /\ buf' = [buf EXCEPT ![stat] = Append(@, c)]
          /\ UNCHANGED <<message, written, cq_str, stat, cqcode, jsonarr>>
          /\ Rest' = Escaped(t, chars) \o R
        BY <1>0, <2>2, <3>2, <3>3, ReadChar
    <3> QED BY <1>0, <3>4
  <2>5. Rest' = EscapeCode(t) \o Ahead(k, 1)'
      BY <2>4 DEF chars, R, EscapeCode, Ahead
  <2>6. /\ buf'[1] = Append(buf[1], c) /\ buf[1] \in Seq(Tokens)
        /\ buf'[2] = buf[2] /\ buf'[3] = buf[3]
      BY <1>0, <2>4
  <2>7. buf'[1] \o t = message'[k].type
    <3>1. Append(buf[1], c) \o t = buf[1] \o (<<c>> \o t)
        BY <2>6, Moved
    <3>2. buf[1] \o q = message[k].type
        BY DEF InType
    <3> QED BY <2>1, <2>4, <2>6, <3>1, <3>2
  <2>8. InType(k, t)'
      BY <1>0, <2>4, <2>5, <2>6, <2>7 DEF InType, InCode
  <2> QED BY <2>8
<1>4. CASE q = <<>>
  <2> DEFINE x == Keys(node)[1]
  <2> DEFINE d == EscapeCode(node.data[x]) \o Ahead(k, 1 + 1)
  <2>1. /\ x \in Seq(Tokens) /\ node.data[x] \in Seq(Tokens) /\ node.type \in Seq(Tokens)
        /\ Ahead(k, 1) = <<",">> \o (x \o (<<"=">> \o d))
      BY <1>0, <1>1, CodeIs
  <2>2. Ahead(k, 1 + 1) \in Seq(Tokens)
    <3> 1 + 1 \in 1..(Len(Keys(node)) + 1)
        BY <1>1
    <3> QED BY <1>0, CodeIs
  <2>3. d \in Seq(Tokens)
    <3> DEFINE e == Ahead(k, 1 + 1)
    <3> DEFINE v == EscapeCode(node.data[x])
    <3>1. e \in Seq(Tokens) /\ v \in Seq(Tokens)
        BY <2>1, <2>2, EscapeTypes
    <3> HIDE DEF e, v
    <3>2. v \o e \in Seq(Tokens)
        BY <3>1, Concats
    <3> QED BY <3>2, SMTT(30) DEF v, e
  <2> HIDE DEF d
  <2> DEFINE R == x \o (<<"=">> \o d)
  <2>4. R \in Seq(Tokens)
    <3>1. <<"=">> \o d \in Seq(Tokens)
        BY <2>3, CharSets, Strings, Concats
    <3> HIDE DEF x
    <3> QED BY <2>1, <3>1, Concats
  <2>5. Rest = <<",">> \o R
    <3>1. Rest = EscapeCode(<<>>) \o Ahead(k, 1) /\ EscapeCode(<<>>) = <<>>
        BY <1>4, EscapedEmpty DEF InType, EscapeCode
    <3>2. Rest = Ahead(k, 1)
        BY <1>2, <3>1, Empties
    <3> QED BY <2>1, <3>2
  <2> HIDE DEF R
  <2>6. EndType /\ Goes(1) /\ Rest' = R
    <3>1. stat \in 1..3 /\ "," \in Marks(stat) /\ "," # "&" /\ "," \in Tokens
      <4>1. stat = 1 => stat \in 1..3 /\ Marks(stat) = Marks(1)
          OBVIOUS
      <4>2. "," \in Marks(1) /\ "," # "&"
          BY MarksAre
      <4> QED BY <1>0, <4>1, <4>2, CharSets
    <3> QED BY <1>0, <2>4, <2>5, <3>1, ReadEnd
  <2>7. UNCHANGED <<message, buf, cqcode, jsonarr>> /\ stat' = 2
      BY <2>6 DEF EndType, writeVars
  <2>8. buf[1] = node.type /\ buf[2] = <<>> /\ buf[3] = <<>> /\ cqcode = NoCode
    <3>1. buf[1] \in Seq(Tokens)
        BY <1>0
    <3>2. buf[1] \o <<>> = node.type
        BY <1>4 DEF InType
    <3> QED BY <3>1, <3>2, Empties DEF InType
  <2>9. NoCode = Until(node, 1)
      BY DEF NoCode, Until
  <2>10. InParams(k, 1)'
      BY <1>0, <1>1, <2>7, <2>8, <2>9 DEF InParams, InCode
  <2>11. buf'[2] \o x = Keys(message'[k])[1]
      BY <2>1, <2>7, <2>8, Empties
  <2>12. Rest' = x \o (<<"=">> \o (EscapeCode(message'[k].data[Keys(message'[k])[1]])
                    \o Ahead(k, 1 + 1)'))
      BY <2>6, <2>7 DEF R, d, Ahead
  <2>13. PICK t \in Seq(Tokens) : t = x
      BY <2>1
  <2>14. InKey(k, 1, t)'
      BY <2>7, <2>8, <2>10, <2>11, <2>12, <2>13 DEF InKey
  <2> QED BY <2>14
<1> QED BY <1>3, <1>4

LEMMA StepKey ==
  ASSUME TypeInv, ~Writing, Next, AllReadable,
         NEW k \in Nat, NEW m \in Nat, NEW q \in Seq(Tokens), InKey(k, m, q)
  PROVE  \/ \E t \in Seq(Tokens) : InKey(k, m, t)'
         \/ \E t \in Seq(Tokens) : InVal(k, m, t)'
<1> DEFINE node == message[k]
<1> DEFINE x == Keys(node)[m]
<1> DEFINE d == EscapeCode(node.data[x]) \o Ahead(k, m + 1)
<1>0. /\ Place /\ buf \in [0..3 -> Seq(Tokens)] /\ stat = 2 /\ InParams(k, m) /\ InCode(k)
      /\ k \in 1..Len(message) /\ IsCode(message[k]) /\ Typed /\ m \in 1..Len(Keys(node))
    BY DEF TypeInv, Typed, InKey, InParams, InCode
<1>1. /\ x \in Seq(Tokens) /\ {"=", "&"} \cap Range(x) = {}
      /\ node.data[x] \in Seq(Tokens) /\ Len(Keys(node)) \in Nat
    BY <1>0, CodeIs
<1>2. d \in Seq(Tokens)
  <2> DEFINE e == Ahead(k, m + 1)
  <2> DEFINE v == EscapeCode(node.data[x])
  <2>1. m + 1 \in 1..(Len(Keys(node)) + 1)
      BY <1>0, <1>1, SMTT(30)
  <2>2. e \in Seq(Tokens) /\ v \in Seq(Tokens)
      BY <1>0, <1>1, <2>1, CodeIs, EscapeTypes
  <2> HIDE DEF e, v
  <2>3. v \o e \in Seq(Tokens)
      BY <2>2, Concats, SMTT(30)
  <2> QED BY <2>3 DEF v, e
<1>3. Rest = q \o (<<"=">> \o d) /\ buf[2] \o q = x /\ buf[3] = <<>>
    BY DEF InKey
<1>4. CASE q # <<>>
  <2>1. PICK c \in Tokens, t \in Seq(Tokens) : q = <<c>> \o t
      BY <1>4, Begins
  <2> DEFINE z == <<"=">> \o d
  <2> DEFINE R == t \o z
  <2>2. z \in Seq(Tokens)
    <3> HIDE DEF d
    <3> QED BY <1>2, CharSets, Strings, Concats
  <2> HIDE DEF z
  <2>3. R \in Seq(Tokens) /\ Rest = <<c>> \o R
    <3>1. <<c>> \in Seq(Tokens) /\ t \o z \in Seq(Tokens)
        BY <2>2, Strings, Concats
    <3>2. (<<c>> \o t) \o z = <<c>> \o (t \o z)
        BY <2>2, <3>1, Concats
    <3> QED BY <1>3, <2>1, <3>1, <3>2 DEF z
  <2>4. c # "=" /\ c # "&"
    <3> DEFINE b == buf[2]
    <3>1. b \in Seq(Tokens) /\ b \o (<<c>> \o t) = x
      <4>1. b \in Seq(Tokens)
          BY <1>0
      <4> HIDE DEF x
      <4> QED BY <1>3, <2>1, <4>1
    <3> HIDE DEF b, x
    <3>2. Len(b) + 1 \in DOMAIN x /\ x[Len(b) + 1] = c
        BY <3>1
    <3>3. c \in Range(x)
        BY <3>2 DEF Range
    <3> QED BY <1>1, <3>3 DEF x
  <2> HIDE DEF R
  <2>5. /\ buf' = [buf EXCEPT ![2] = Append(@, c)]
        /\ UNCHANGED <<message, stat, cqcode, jsonarr>>
        /\ Rest' = R
    <3>1. stat \in 0..3 /\ c \notin Marks(stat)
      <4>1. stat = 2 => stat \in 0..3 /\ Marks(stat) = Marks(2)
          OBVIOUS
      <4>2. c \notin Marks(2)
          BY <2>4, MarksAre
      <4> QED BY <1>0, <4>1, <4>2
    <3>2. /\ buf' = [buf EXCEPT ![stat] = Append(@, c)]
          /\ Goes(1) /\ UNCHANGED <<stat, cqcode, jsonarr>> /\ Rest' = R
        BY <1>0, <2>3, <3>1, ReadNormal
    <3> QED BY <1>0, <3>2 DEF Goes
  <2>6. /\ buf'[2] = Append(buf[2], c) /\ buf[2] \in Seq(Tokens)
        /\ buf'[1] = buf[1] /\ buf'[3] = buf[3]
      BY <1>0, <2>5
  <2>7. buf'[2] \o t = Keys(message'[k])[m]
    <3>1. Append(buf[2], c) \o t = buf[2] \o (<<c>> \o t)
        BY <2>6, Moved
    <3> QED BY <1>3, <2>1, <2>5, <2>6, <3>1
  <2>8. Rest' = t \o (<<"=">> \o (EscapeCode(message'[k].data[Keys(message'[k])[m]])
                    \o Ahead(k, m + 1)'))
      BY <2>5 DEF R, z, Ahead
  <2>9. InParams(k, m)'
      BY <1>0, <2>5, <2>6, SMTT(30) DEF InParams, InCode
  <2>10. InKey(k, m, t)'
      BY <1>0, <1>3, <2>5, <2>6, <2>7, <2>8, <2>9 DEF InKey
  <2> QED BY <2>10
<1>5. CASE q = <<>>
  <2>1. Rest = <<"=">> \o d
    <3> DEFINE z == <<"=">> \o d
    <3>1. z \in Seq(Tokens)
      <4> HIDE DEF d
      <4> QED BY <1>2, CharSets, Strings, Concats
    <3>2. Rest = <<>> \o z
        BY <1>3, <1>5
    <3> HIDE DEF z
    <3>3. Rest = z
        BY <3>1, <3>2, Empties
    <3> QED BY <3>3 DEF z
  <2> HIDE DEF d
  <2>2. EndKey /\ Goes(1) /\ Rest' = d
    <3>1. stat \in 1..3 /\ "=" \in Marks(stat) /\ "=" # "&" /\ "=" \in Tokens
      <4>1. stat = 2 => stat \in 1..3 /\ Marks(stat) = Marks(2)
          OBVIOUS
      <4>2. "=" \in Marks(2) /\ "=" # "&"
          BY MarksAre
      <4> QED BY <1>0, <4>1, <4>2, CharSets
    <3> QED BY <1>0, <1>2, <2>1, <3>1, ReadEnd
  <2>3. UNCHANGED <<message, buf, cqcode, jsonarr>> /\ stat' = 3
      BY <2>2 DEF EndKey, writeVars
  <2>4. buf[2] = x
    <3>1. buf[2] \in Seq(Tokens) /\ buf[2] \o <<>> = x
        BY <1>0, <1>3, <1>5
    <3> QED BY <3>1, Empties
  <2>5. InParams(k, m)'
      BY <1>0, <2>3 DEF InParams, InCode
  <2>6. PICK t \in Seq(Tokens) : t = node.data[x]
      BY <1>1
  <2>7. buf'[3] \o t = message'[k].data[Keys(message'[k])[m]]
      BY <1>1, <1>3, <2>3, <2>6, Empties
  <2>8. Rest' = EscapeCode(t) \o Ahead(k, m + 1)'
      BY <2>2, <2>3, <2>6 DEF d, Ahead
  <2>9. InVal(k, m, t)'
      BY <2>3, <2>4, <2>5, <2>7, <2>8 DEF InVal
  <2> QED BY <2>9
<1> QED BY <1>4, <1>5, SMTT(30)

LEMMA StoredIs ==
  ASSUME NEW k, NEW m, InParams(k, m),
         buf[2] = Keys(message[k])[m], buf[3] = message[k].data[Keys(message[k])[m]]
  PROVE  Stored = Until(message[k], m + 1)
<1> DEFINE K == Keys(message[k])
<1> DEFINE data == message[k].data
<1>1. m \in 1..Len(K) /\ cqcode = [x \in {K[n] : n \in 1..(m - 1)} |-> data[x]]
    BY DEF InParams, Until
<1> HIDE DEF K, data
<1>2. {K[n] : n \in 1..((m + 1) - 1)} = {K[n] : n \in 1..(m - 1)} \cup {K[m]}
  <2>1. \A n : n \in 1..((m + 1) - 1) <=> n \in 1..(m - 1) \/ n = m
      BY <1>1
  <2> QED BY <2>1
<1>3. Stored = [x \in {K[n] : n \in 1..(m - 1)} \cup {K[m]} |-> data[x]]
    BY <1>1 DEF Stored, K, data
<1> QED BY <1>2, <1>3 DEF Until, K, data

LEMMA StepVal ==
  ASSUME TypeInv, ~Writing, Next, AllReadable,
         NEW k \in Nat, NEW m \in Nat, NEW q \in Seq(Tokens), InVal(k, m, q)
  PROVE  \/ \E t \in Seq(Tokens) : InVal(k, m, t)'
         \/ \E t \in Seq(Tokens) : InKey(k, m + 1, t)'
         \/ InText(k, <<>>)'
<1> DEFINE node == message[k]
<1> DEFINE K == Keys(node)
<1> DEFINE x == K[m]
<1>0. /\ Place /\ buf \in [0..3 -> Seq(Tokens)] /\ stat = 3 /\ InParams(k, m) /\ InCode(k)
      /\ k \in 1..Len(message) /\ IsCode(message[k]) /\ Typed /\ m \in 1..Len(K)
    BY DEF TypeInv, Typed, InVal, InParams, InCode
<1>1. Len(K) \in Nat /\ m + 1 \in 1..(Len(K) + 1) /\ (m = Len(K) \/ m + 1 \in 1..Len(K))
  <2>1. Len(K) \in Nat
      BY <1>0, CodeIs
  <2> QED BY <1>0, <2>1
<1>2. Ahead(k, m + 1) \in Seq(Tokens)
    BY <1>0, <1>1, CodeIs
<1>3. buf[2] = x /\ buf[3] \o q = node.data[x] /\ Rest = EscapeCode(q) \o Ahead(k, m + 1)
    BY DEF InVal
<1>4. stat \in 1..3 /\ stat # 0 /\ stat \in 0..3 /\ Marks(stat) = Marks(3)
  <2>1. stat = 3 => stat \in 1..3 /\ stat # 0 /\ stat \in 0..3 /\ Marks(stat) = Marks(3)
      OBVIOUS
  <2> QED BY <1>0, <2>1
<1>5. ASSUME q # <<>> PROVE \E t \in Seq(Tokens) : InVal(k, m, t)'
  <2>1. PICK c \in Tokens, t \in Seq(Tokens) : q = <<c>> \o t
      BY <1>5, Begins
  <2> DEFINE chars == {"&", "[", "]", ","}
  <2>2. chars \in SUBSET Escapable /\ Marks(stat) \subseteq chars
      BY <1>4, CharSets, MarksAre
  <2> DEFINE R == Ahead(k, m + 1)
  <2>3. Rest = Escaped(<<c>> \o t, chars) \o R /\ R \in Seq(Tokens)
      BY <1>2, <1>3, <2>1 DEF EscapeCode
  <2> HIDE DEF chars, R
  <2>4. /\ buf' = [buf EXCEPT ![3] = Append(@, c)]
        /\ UNCHANGED <<message, written, cq_str, stat, cqcode, jsonarr>>
        /\ Rest' = Escaped(t, chars) \o R
    <3>1. /\ buf' = [buf EXCEPT ![stat] = Append(@, c)]
          /\ UNCHANGED <<message, written, cq_str, stat, cqcode, jsonarr>>
          /\ Rest' = Escaped(t, chars) \o R
        BY <1>0, <1>4, <2>2, <2>3, ReadChar
    <3> QED BY <1>0, <3>1
  <2>5. Rest' = EscapeCode(t) \o Ahead(k, m + 1)'
      BY <2>4 DEF chars, R, EscapeCode, Ahead
  <2>6. /\ buf'[3] = Append(buf[3], c) /\ buf[3] \in Seq(Tokens)
        /\ buf'[1] = buf[1] /\ buf'[2] = buf[2]
      BY <1>0, <2>4
  <2>7. buf'[3] \o t = message'[k].data[Keys(message'[k])[m]]
    <3>1. Append(buf[3], c) \o t = buf[3] \o (<<c>> \o t)
        BY <2>6, Moved
    <3> QED BY <1>3, <2>1, <2>4, <2>6, <3>1
  <2>8. InParams(k, m)'
      BY <1>0, <2>4, <2>6 DEF InParams, InCode
  <2>9. InVal(k, m, t)'
      BY <1>0, <1>3, <2>4, <2>5, <2>6, <2>7, <2>8 DEF InVal
  <2> QED BY <2>9
<1>6. ASSUME q = <<>>
      PROVE  /\ Rest = Ahead(k, m + 1)
             /\ Stored = Until(node, m + 1)
  <2>1. EscapeCode(<<>>) = <<>>
      BY EscapedEmpty DEF EscapeCode
  <2>2. Rest = Ahead(k, m + 1)
      BY <1>2, <1>3, <1>6, <2>1, Empties
  <2>3. buf[3] = node.data[x]
    <3>1. buf[3] \in Seq(Tokens) /\ buf[3] \o <<>> = node.data[x]
        BY <1>0, <1>3, <1>6
    <3> QED BY <3>1, Empties
  <2> QED BY <1>0, <1>3, <2>2, <2>3, StoredIs
<1>7. ASSUME q = <<>>, m + 1 \in 1..Len(K)
      PROVE  \E t \in Seq(Tokens) : InKey(k, m + 1, t)'
  <2> DEFINE y == K[m + 1]
  <2> DEFINE d == EscapeCode(node.data[y]) \o Ahead(k, (m + 1) + 1)
  <2>1. /\ y \in Seq(Tokens) /\ node.data[y] \in Seq(Tokens)
        /\ Ahead(k, m + 1) = <<",">> \o (y \o (<<"=">> \o d))
      BY <1>0, <1>7, CodeIs
  <2>2. d \in Seq(Tokens)
    <3> DEFINE e == Ahead(k, (m + 1) + 1)
    <3> DEFINE v == EscapeCode(node.data[y])
    <3>1. (m + 1) + 1 \in 1..(Len(K) + 1)
        BY <1>1, <1>7, SMTT(30)
    <3>2. e \in Seq(Tokens) /\ v \in Seq(Tokens)
        BY <1>0, <2>1, <3>1, CodeIs, EscapeTypes
    <3> HIDE DEF e, v
    <3>3. v \o e \in Seq(Tokens)
        BY <3>2, Concats
    <3> QED BY <3>3 DEF v, e
  <2> HIDE DEF d
  <2> DEFINE R == y \o (<<"=">> \o d)
  <2>3. R \in Seq(Tokens)
    <3>1. <<"=">> \o d \in Seq(Tokens)
        BY <2>2, CharSets, Strings, Concats
    <3> HIDE DEF y
    <3> QED BY <2>1, <3>1, Concats
  <2>4. Rest = <<",">> \o R
      BY <1>6, <1>7, <2>1
  <2> HIDE DEF R
  <2>5. EndVal /\ Goes(1) /\ Rest' = R
    <3>1. "," \in Marks(stat) /\ "," # "&" /\ "," \in Tokens
        BY <1>4, MarksAre, CharSets
    <3> QED BY <1>0, <1>4, <2>3, <2>4, <3>1, ReadEnd
  <2>6. /\ UNCHANGED <<message, jsonarr>> /\ stat' = 2 /\ cqcode' = Stored
        /\ buf' = [buf EXCEPT ![2] = <<>>, ![3] = <<>>]
      BY <2>5 DEF EndVal, writeVars
  <2>7. buf'[1] = buf[1] /\ buf'[2] = <<>> /\ buf'[3] = <<>>
      BY <1>0, <2>6
  <2>8. InParams(k, m + 1)'
      BY <1>0, <1>6, <1>7, <2>6, <2>7 DEF InParams, InCode
  <2>9. PICK t \in Seq(Tokens) : t = y
      BY <2>1
  <2>10. buf'[2] \o t = Keys(message'[k])[m + 1]
      BY <2>1, <2>6, <2>7, <2>9, Empties
  <2>11. Rest' = t \o (<<"=">> \o (EscapeCode(message'[k].data[Keys(message'[k])[m + 1]])
                    \o Ahead(k, (m + 1) + 1)'))
      BY <2>5, <2>6, <2>9 DEF R, d, Ahead
  <2>12. InKey(k, m + 1, t)'
      BY <2>6, <2>7, <2>8, <2>10, <2>11 DEF InKey
  <2> QED BY <2>12, SMTT(30)
<1>8. ASSUME q = <<>>, m = Len(K) PROVE InText(k, <<>>)'
  <2> DEFINE R == StrAfter(message, k)
  <2>1. R \in Seq(Tokens) /\ Rest = <<"]">> \o R /\ node \in Nodes
      BY <1>0, <1>6, <1>8, CodeIs
  <2> HIDE DEF R
  <2>2. EndCode /\ Goes(1) /\ Rest' = R
    <3>1. "]" \in Marks(stat) /\ "]" # "&" /\ "]" \in Tokens
        BY <1>4, MarksAre, CharSets
    <3> QED BY <1>0, <1>4, <2>1, <3>1, ReadEnd
  <2>3. /\ message' = message /\ stat' = 0
        /\ jsonarr' = Append(jsonarr, [type |-> buf[1], data |-> Stored])
        /\ buf' = [buf EXCEPT ![1] = <<>>, ![2] = <<>>, ![3] = <<>>]
      BY <2>2 DEF EndCode, writeVars
  <2>4. Stored = Restrict(node.data, Fields(node.data))
    <3>1. \A z : z \in Fields(node.data) <=> \E n \in 1..Len(K) : K[n] = z
      <4>1. K \in Seq(Fields(node.data))
            /\ \A z \in Fields(node.data) : \E n \in 1..Len(K) : K[n] = z
          BY <2>1, KeysAre
      <4> HIDE DEF K
      <4> QED BY <4>1
    <3>2. (Len(K) + 1) - 1 = Len(K)
        BY <1>1
    <3> HIDE DEF K
    <3>3. {K[n] : n \in 1..Len(K)} = Fields(node.data)
        BY <3>1
    <3> QED BY <1>6, <1>8, <3>2, <3>3 DEF Until, Restrict, K
  <2> DEFINE r == [type |-> node.type, data |-> Restrict(node.data, Fields(node.data))]
  <2>5. jsonarr' = Append(jsonarr, r)
      BY <1>0, <2>3, <2>4 DEF InParams
  <2>6. r \in Parsed /\ r.type = node.type
    <3>1. node.type \in Seq(Tokens)
        BY <2>1, NodeTypes
    <3>2. Restrict(node.data, Fields(node.data)) \in Datas
        BY <1>0, <2>4, StoredType
    <3> QED BY <3>1, <3>2 DEF Parsed
  <2>7. Normals(message)[k] = Append(jsonarr, r)
    <3>1. k - 1 \in 0..(Len(message) - 1) /\ (k - 1) + 1 = k /\ Len(message) \in Nat
        BY <1>0 DEF Typed
    <3>2. Normals(message)[k] = Joined(Normals(message)[k - 1], node)
        BY <3>1, NormalsStep
    <3>3. Normals(message)[k - 1] = jsonarr
        BY <1>0 DEF InCode
    <3> QED BY <1>0, <2>1, <3>2, <3>3, JoinCode
  <2> HIDE DEF r
  <2>8. Last(jsonarr').type # Text
    <3>1. Last(Append(jsonarr, r)) = r
        BY <1>0, <2>6, EndsWith DEF Typed
    <3> QED BY <1>0, <2>5, <2>6, <3>1 DEF IsCode
  <2>9. buf'[0] \o <<>> = <<>>
    <3>1. buf[0] = <<>>
        BY <1>4 DEF TypeInv, Apart
    <3>2. buf'[0] = buf[0]
        BY <1>0, <2>3
    <3> QED BY <3>1, <3>2
  <2>10. Normals(message')[k] = TextAfter(jsonarr', buf'[0] \o <<>>)
      BY <2>3, <2>5, <2>7, <2>9 DEF TextAfter
  <2>11. Rest' = EscapeText(<<>>) \o StrAfter(message', k)
    <3>1. EscapeText(<<>>) = <<>>
        BY EscapedEmpty DEF EscapeText
    <3>2. <<>> \o R = R
        BY <2>1, Empties
    <3> QED BY <2>2, <2>3, <3>1, <3>2 DEF R
  <2>12. k \in 0..Len(message') /\ <<>> \in Seq(Tokens)
      BY <1>0, <2>3, EmptySeq
  <2> QED BY <2>3, <2>8, <2>10, <2>11, <2>12 DEF InText
<1> QED BY <1>1, <1>5, <1>7, <1>8

LEMMA StepParsing ==
  ASSUME TypeInv, ~Writing, Next, AllReadable, Parsing
  PROVE  Parsing'
<1>0. Typed /\ <<>> \in Seq(Tokens)
    BY EmptySeq DEF TypeInv
<1>1. ASSUME NEW k \in Nat, NEW p \in Seq(Tokens), InText(k, p)
      PROVE  Parsing'
  <2>1. PICK l \in Nat, s \in Seq(Tokens) : InText(l, s) /\ Settled(l, s)
      BY <1>0, <1>1, Settles
  <2>2. CASE s # <<>>
    <3>1. PICK t \in Seq(Tokens) : InText(l, t)'
        BY <2>1, <2>2, StepText
    <3> QED BY <3>1 DEF Parsing
  <2>3. CASE s = <<>> /\ l # Len(message)
    <3>1. InText(l, <<>>) /\ IsCode(message[l + 1])
        BY <2>1, <2>3 DEF Settled
    <3>2. PICK j \in Nat, q \in Seq(Tokens) : InType(j, q)'
        BY <2>3, <3>1, StepCode
    <3> QED BY <3>2 DEF Parsing
  <2>4. CASE s = <<>> /\ l = Len(message)
    <3>1. EscapeText(<<>>) = <<>> /\ StrAfter(message, l) = <<>>
        BY <1>0, <2>4, EscapedEmpty, StrAfterIs DEF EscapeText, Typed
    <3>2. Rest = <<>>
      <4>1. Rest = <<>> \o <<>>
          BY <2>1, <2>4, <3>1 DEF InText
      <4> QED BY <1>0, <4>1, Empties
    <3>3. ~Reading
      <4>1. Len(Rest) = Len(cq_str) + 1 - i /\ Len(Rest) = 0 /\ i \in Nat /\ Len(cq_str) \in Nat
          BY <1>0, <3>2, RestIs DEF Typed, Place
      <4> QED BY <4>1 DEF Reading
    <3> QED BY <3>3 DEF Next, WriteNode, BeginCode, Unescape, BareAmp, Bare, NormalChar, EndType,
                        EndKey, EndVal, EndCode, Looks
  <2> QED BY <2>2, <2>3, <2>4
<1>2. ASSUME NEW k \in Nat, NEW q \in Seq(Tokens), InType(k, q)
      PROVE  Parsing'
  <2>1. CASE \E t \in Seq(Tokens) : InType(k, t)'
      BY <2>1 DEF Parsing
  <2>2. CASE \E t \in Seq(Tokens) : InKey(k, 1, t)'
      BY <2>2 DEF Parsing
  <2> QED BY <1>2, <2>1, <2>2, StepType
<1>3. ASSUME NEW k \in Nat, NEW m \in Nat, NEW q \in Seq(Tokens), InKey(k, m, q)
      PROVE  Parsing'
  <2>1. CASE \E t \in Seq(Tokens) : InKey(k, m, t)'
      BY <2>1 DEF Parsing
  <2>2. CASE \E t \in Seq(Tokens) : InVal(k, m, t)'
      BY <2>2 DEF Parsing
  <2> QED BY <1>3, <2>1, <2>2, StepKey
<1>4. ASSUME NEW k \in Nat, NEW m \in Nat, NEW q \in Seq(Tokens), InVal(k, m, q)
      PROVE  Parsing'
  <2>1. CASE \E t \in Seq(Tokens) : InVal(k, m, t)'
      BY <2>1 DEF Parsing
  <2>2. CASE \E t \in Seq(Tokens) : InKey(k, m + 1, t)'
    <3> m + 1 \in Nat
        OBVIOUS
    <3> QED BY <2>2 DEF Parsing
  <2>3. CASE InText(k, <<>>)'
      BY <1>0, <2>3 DEF Parsing
  <2> QED BY <1>4, <2>1, <2>2, <2>3, StepVal
<1> QED BY <1>1, <1>2, <1>3, <1>4 DEF Parsing

\* When all is written the reader stands before the first node.
LEMMA BeginParsing ==
  ASSUME TypeInv, WriteNode, ~Writing', message # <<>>
  PROVE  Parsing'
<1>1. Typed' /\ InTurn' /\ message' = message
    BY WriteNodeTyped DEF WriteNode
<1>2. message \in Seq(Nodes) /\ Len(message) \in Nat /\ written' = Len(message)
    BY <1>1 DEF Typed, Writing
<1>3. cq_str' = StrAfter(message, 0)
  <2>1. cq_str' = FlattenSeq(SubSeq(NodeStrs(message), 1, Len(message)))
      BY <1>1, <1>2 DEF InTurn
  <2>2. SubSeq(NodeStrs(message), 1, Len(message)) = NodeStrs(message)
      BY <1>2, NodeStrsAre, SubSeqFull
  <2> QED BY <1>2, <2>1, <2>2, StrAfterIs
<1>4. UNCHANGED <<i, stat, buf, jsonarr>>
    BY DEF WriteNode, readVars
<1>5. i = 1 /\ stat = 0 /\ buf[0] = <<>> /\ jsonarr = <<>>
  <2> Writing
      BY DEF WriteNode
  <2> QED BY DEF TypeInv, InTurn
<1>6. cq_str' \in Seq(Tokens)
    BY <1>1 DEF Typed, Place
<1>7. Rest' = cq_str'
  <2>1. SubSeq(cq_str', 1, Len(cq_str')) = cq_str'
      BY <1>6, SubSeqFull
  <2> QED BY <1>4, <1>5, <2>1 DEF Rest
<1>8. Rest' = EscapeText(<<>>) \o StrAfter(message', 0)
  <2>1. EscapeText(<<>>) = <<>>
      BY EscapedEmpty DEF EscapeText
  <2>2. <<>> \o cq_str' = cq_str'
      BY <1>6, Empties
  <2> QED BY <1>1, <1>3, <1>7, <2>1, <2>2
<1>9. Normals(message')[0] = TextAfter(jsonarr', buf'[0] \o <<>>)
  <2>1. Normals(message)[0] = <<>>
      BY <1>2, NormalsStep
  <2>2. <<>> \o <<>> = <<>>
      OBVIOUS
  <2> QED BY <1>1, <1>4, <1>5, <2>1, <2>2 DEF TextAfter
<1>10. 0 \in 0..Len(message') /\ 0 \in Nat /\ <<>> \in Seq(Tokens)
    BY <1>1, <1>2, EmptySeq
<1>11. InText(0, <<>>)'
    BY <1>4, <1>5, <1>8, <1>9, <1>10 DEF InText
<1> QED BY <1>10, <1>11 DEF Parsing

LEMMA NextSurviving == TypeInv /\ Surviving /\ [Next]_vars => Surviving'
<1> SUFFICES ASSUME TypeInv, Surviving, [Next]_vars,
                    ~Writing', message' # <<>>, AllReadable'
             PROVE  Parsing'
    BY SMTT(30) DEF Surviving
<1>1. CASE UNCHANGED vars
  <2>1. UNCHANGED <<message, written, cq_str, i, stat, buf, cqcode, jsonarr>>
      BY <1>1 DEF vars, writeVars, readVars
  <2>2. Parsing
      BY <2>1 DEF Surviving, AllReadable, Writing
  <2> QED BY <2>1, <2>2 DEF Parsing, InText, InType, InKey, InVal, InParams, InCode, Ahead, Rest
<1>2. CASE WriteNode
  <2>1. message # <<>>
      BY <1>2 DEF WriteNode
  <2> QED BY <1>2, <2>1, BeginParsing
<1>3. CASE \/ BeginCode \/ Unescape \/ BareAmp \/ NormalChar
           \/ EndType \/ EndKey \/ EndVal \/ EndCode
  <2>1. UNCHANGED message /\ Next
      BY <1>3 DEF Next, BeginCode, Unescape, BareAmp, NormalChar, EndType, EndKey, EndVal, EndCode,
                  writeVars
  <2>2. ~Writing
      BY <1>3, ReaderInTurn DEF TypeInv
  <2>3. AllReadable /\ Parsing
      BY <2>1, <2>2 DEF Surviving, AllReadable
  <2> QED BY <2>1, <2>2, <2>3, StepParsing
<1> QED BY <1>1, <1>2, <1>3 DEF Next

LEMMA InitSurviving == Init => Surviving
<1> SUFFICES ASSUME Init, message # <<>> PROVE Writing
    BY DEF Surviving
<1>1. message \in Seq(Nodes) /\ written = 0
    BY MessageAssumption DEF Init
<1> QED BY <1>1 DEF Writing

LEMMA Longer ==
  ASSUME NEW c \in Tokens, NEW s \in Seq(Tokens)
  PROVE  <<c>> \o s \in Seq(Tokens) /\ <<c>> \o s # <<>>
<1> DEFINE v == <<c>> \o s
<1>1. v \in Seq(Tokens) /\ Len(v) = 1 + Len(s) /\ Len(s) \in Nat
    OBVIOUS
<1> HIDE DEF v
<1>2. v # <<>>
    BY <1>1
<1> QED BY <1>1, <1>2 DEF v

\* Within a code something is ahead.
LEMMA AheadSome ==
  ASSUME Typed, AllReadable, NEW k \in 1..Len(message), IsCode(message[k]),
         NEW m \in 1..(Len(Keys(message[k])) + 1)
  PROVE  Ahead(k, m) \in Seq(Tokens) /\ Ahead(k, m) # <<>>
<1> DEFINE r == ParamsFrom(message[k], m)
<1> DEFINE w == StrAfter(message, k)
<1>1. w \in Seq(Tokens) /\ message[k] \in Nodes /\ Ahead(k, m) \in Seq(Tokens)
    BY CodeIs
<1>2. r \in Seq(Tokens)
    BY <1>1, ParamsFromAre
<1>3. Ahead(k, m) = r \o (<<"]">> \o w)
    BY DEF Ahead
<1> HIDE DEF r, w
<1> DEFINE z == <<"]">> \o w
<1>4. z \in Seq(Tokens) /\ z # <<>>
    BY <1>1, CharSets, Longer
<1> HIDE DEF z
<1>5. r \o z # <<>>
    BY <1>2, <1>4, Empties
<1> QED BY <1>1, <1>3, <1>5 DEF z

\* At the end nothing is left to be read.
LEMMA Survives == TypeInv /\ Surviving => RoundTrip
<1> SUFFICES ASSUME TypeInv, Surviving, Done, message # <<>>, AllReadable
             PROVE  Returned = Normal(message)
    BY DEF RoundTrip, AllReadable
<1>1. Typed /\ message \in Seq(Nodes) /\ Len(message) \in Nat
    BY DEF TypeInv, Typed
<1>2. Rest = <<>>
  <2>1. Rest \in Seq(Tokens) /\ Len(Rest) = Len(cq_str) + 1 - i /\ Len(cq_str) \in Nat
      BY <1>1, RestIs DEF Typed
  <2>2. i \in 1..(Len(cq_str) + 1) /\ ~(i <= Len(cq_str))
      BY <1>1 DEF Typed, Place, Done, Reading
  <2>3. Len(Rest) = 0
      BY <2>1, <2>2
  <2> QED BY <2>1, <2>3
<1>3. Parsing
    BY DEF Surviving, Done
<1>4. ASSUME NEW k \in Nat, NEW p \in Seq(Tokens), InText(k, p)
      PROVE  Returned = Normal(message)
  <2>1. PICK l \in Nat, s \in Seq(Tokens) : InText(l, s) /\ Settled(l, s)
      BY <1>1, <1>4, Settles
  <2>2. l \in 0..Len(message) /\ StrAfter(message, l) \in Seq(Tokens)
      BY <1>1, <2>1, StrAfterIs DEF InText
  <2>3. EscapeText(s) = <<>> /\ StrAfter(message, l) = <<>>
    <3>1. EscapeText(s) \in Seq(Tokens)
        BY EscapeTypes
    <3>2. EscapeText(s) \o StrAfter(message, l) = <<>>
        BY <1>2, <2>1 DEF InText
    <3> QED BY <2>2, <3>1, <3>2, Empties
  <2>4. s = <<>>
    <3> SUFFICES ASSUME s # <<>> PROVE FALSE
        OBVIOUS
    <3>1. PICK c \in Tokens, t \in Seq(Tokens) : s = <<c>> \o t
        BY Begins
    <3> DEFINE chars == {"&", "[", "]"}
    <3>2. chars \in SUBSET Escapable
        BY CharSets
    <3> DEFINE e == Enc(c, chars)
    <3> DEFINE r == Escaped(t, chars)
    <3>3. e \o r = <<>>
      <4> HIDE DEF e, r
      <4>1. Escaped(s, chars) = e \o r
          BY <3>1, <3>2, EscapedCons DEF e, r
      <4> QED BY <2>3, <4>1 DEF EscapeText
    <3>4. e \in Seq(Tokens) /\ r \in Seq(Tokens) /\ e # <<>>
      <4>1. e # <<>>
          BY DEF Enc
      <4> QED BY <3>2, <4>1, EncType, EscapedType
    <3> HIDE DEF e, r
    <3> QED BY <3>3, <3>4, Empties
  <2>5. l = Len(message)
    <3> SUFFICES ASSUME l # Len(message) PROVE FALSE
        OBVIOUS
    <3>1. IsCode(message[l + 1])
        BY <2>1, <2>4 DEF Settled
    <3>2. l \in 0..(Len(message) - 1) /\ message[l + 1] \in Nodes
        BY <1>1, <2>2
    <3> DEFINE v == NodeStr(message[l + 1])
    <3> DEFINE w == StrAfter(message, l + 1)
    <3>3. StrAfter(message, l) = v \o w /\ w \in Seq(Tokens) /\ v \in Seq(Tokens)
      <4>1. l + 1 \in 0..Len(message)
          BY <1>1, <3>2
      <4> QED BY <1>1, <3>2, <4>1, StrAfterIs, NodeStrIs
    <3>4. v # <<>>
      <4> DEFINE o == <<"[", "CQ:">>
      <4> DEFINE u == EscapeCode(message[l + 1].type) \o (ParamsFrom(message[l + 1], 1) \o <<"]">>)
      <4>1. v = o \o u
          BY <3>1, <3>2, NodeStrIs
      <4> HIDE DEF u, v
      <4>2. (o \o u) # <<>>
        <5>1. o \in Seq(Tokens) /\ Len(o) = 2
            BY CharSets, Strings
        <5>2. o # <<>>
            BY <5>1
        <5> QED BY <5>2
      <4> QED BY <4>1, <4>2
    <3> HIDE DEF v, w
    <3> QED BY <2>3, <3>3, <3>4, Empties
  <2>6. Normals(message)[Len(message)] = TextAfter(jsonarr, buf[0])
    <3>1. buf[0] \in Seq(Tokens)
        BY <1>1 DEF Typed
    <3>2. buf[0] \o <<>> = buf[0]
        BY <3>1, Empties
    <3> QED BY <2>1, <2>4, <2>5, <3>2 DEF InText
  <2> QED BY <2>6 DEF Returned, WithText, TextAfter, Normal
<1>5. ASSUME NEW a \in Seq(Tokens), NEW b \in Seq(Tokens), Rest = a \o b PROVE b = <<>>
    BY <1>2, <1>5, Empties
<1>6. ASSUME NEW k, NEW q \in Seq(Tokens), InType(k, q) PROVE FALSE
  <2>1. k \in 1..Len(message) /\ IsCode(message[k])
      BY <1>6 DEF InType, InCode
  <2>2. 1 \in 1..(Len(Keys(message[k])) + 1)
    <3> Len(Keys(message[k])) \in Nat \ {0}
        BY <1>1, <2>1, CodeIs
    <3> QED OBVIOUS
  <2>3. Ahead(k, 1) \in Seq(Tokens) /\ Ahead(k, 1) # <<>>
      BY <1>1, <2>1, <2>2, AheadSome
  <2>4. EscapeCode(q) \in Seq(Tokens) /\ Rest = EscapeCode(q) \o Ahead(k, 1)
      BY <1>6, EscapeTypes DEF InType
  <2> QED BY <1>5, <2>3, <2>4
<1>7. ASSUME NEW k, NEW m \in Nat, InParams(k, m)
      PROVE  /\ k \in 1..Len(message) /\ IsCode(message[k]) /\ m \in 1..Len(Keys(message[k]))
             /\ Ahead(k, m + 1) \in Seq(Tokens) /\ Ahead(k, m + 1) # <<>>
  <2>1. k \in 1..Len(message) /\ IsCode(message[k]) /\ m \in 1..Len(Keys(message[k]))
      BY <1>7 DEF InParams, InCode
  <2>2. m + 1 \in 1..(Len(Keys(message[k])) + 1)
    <3> Len(Keys(message[k])) \in Nat
        BY <1>1, <2>1, CodeIs
    <3> QED BY <2>1
  <2> QED BY <1>1, <2>1, <2>2, AheadSome
<1>8. ASSUME NEW k, NEW m \in Nat, NEW q \in Seq(Tokens), InKey(k, m, q) PROVE FALSE
  <2> DEFINE v == EscapeCode(message[k].data[Keys(message[k])[m]])
  <2> DEFINE e == Ahead(k, m + 1)
  <2>1. /\ k \in 1..Len(message) /\ IsCode(message[k]) /\ m \in 1..Len(Keys(message[k]))
        /\ e \in Seq(Tokens)
      BY <1>7, <1>8 DEF InKey
  <2>2. v \in Seq(Tokens)
      BY <1>1, <2>1, CodeIs, EscapeTypes
  <2>3. Rest = q \o (<<"=">> \o (v \o e))
      BY <1>8 DEF InKey
  <2> HIDE DEF v, e
  <2>4. v \o e \in Seq(Tokens)
      BY <2>1, <2>2, Concats
  <2> DEFINE d == v \o e
  <2>5. d \in Seq(Tokens) /\ Rest = q \o (<<"=">> \o d)
      BY <2>3, <2>4
  <2> HIDE DEF d
  <2>6. <<"=">> \o d \in Seq(Tokens) /\ <<"=">> \o d # <<>>
      BY <2>5, CharSets, Longer
  <2> QED BY <1>5, <2>5, <2>6
<1>9. ASSUME NEW k, NEW m \in Nat, NEW q \in Seq(Tokens), InVal(k, m, q) PROVE FALSE
  <2>1. Ahead(k, m + 1) \in Seq(Tokens) /\ Ahead(k, m + 1) # <<>>
      BY <1>7, <1>9 DEF InVal
  <2>2. EscapeCode(q) \in Seq(Tokens) /\ Rest = EscapeCode(q) \o Ahead(k, m + 1)
      BY <1>9, EscapeTypes DEF InVal
  <2> QED BY <1>5, <2>1, <2>2
<1> QED BY <1>3, <1>4, <1>6, <1>8, <1>9 DEF Parsing

(* A message jsonarr_to_cq_str has written and cq_str_to_jsonarr reads     *)
(* again is the same message, for all messages whose codes have parameters *)
(* and whose keys have no "=" or "&".                                      *)
THEOREM MessagesSurvive == Spec => []RoundTrip
BY InitTyped, NextTyped, InitSurviving, NextSurviving, Survives, PTL DEF Spec

(***************************************************************************)
(* What Normal changes: nothing, where no texts are neighbours, no text is *)
(* empty and no field is null.                                             *)
(***************************************************************************)
IsNormal(arr) ==
  \A n \in 1..Len(arr) :
    \/ /\ IsCode(arr[n])
       /\ arr[n] = [type |-> arr[n].type,
                    data |-> Restrict(arr[n].data, Fields(arr[n].data))]
    \/ /\ \E s \in Seq(Tokens) \ {<<>>} : arr[n] = TextNode(s)
       /\ n > 1 => arr[n - 1].type # Text

LEMMA JoinNormal ==
  ASSUME NEW arr \in Seq(Nodes), IsNormal(arr), NEW n \in 0..(Len(arr) - 1)
  PROVE  Joined(SubSeq(arr, 1, n), arr[n + 1]) = SubSeq(arr, 1, n + 1)
<1> DEFINE a == SubSeq(arr, 1, n)
<1> DEFINE x == arr[n + 1]
<1>1. n + 1 \in 1..Len(arr) /\ x \in Nodes /\ a \in Seq(Nodes)
    OBVIOUS
<1>2. SubSeq(arr, 1, n + 1) = Append(a, x)
    BY <1>1
<1>3. CASE IsCode(x) /\ x = [type |-> x.type, data |-> Restrict(x.data, Fields(x.data))]
    BY <1>1, <1>2, <1>3, JoinCode
<1>4. CASE (\E s \in Seq(Tokens) \ {<<>>} : x = TextNode(s)) /\ (n + 1 > 1 => arr[n].type # Text)
  <2>1. PICK s \in Seq(Tokens) \ {<<>>} : x = TextNode(s)
      BY <1>4
  <2>2. x.type = Text /\ x.data[Text] = s
      BY <2>1, TextNodeIs
  <2>3. Text # <<>>
      BY DEF Text
  <2>4. Has(x.data, Text)
    <3>1. Text \in DOMAIN x.data
        BY <2>1 DEF TextNode
    <3> QED BY <2>2, <3>1, MessageAssumption DEF Has
  <2>5. a # <<>> => Last(a).type # Text
    <3> SUFFICES ASSUME a # <<>> PROVE Last(a).type # Text
        OBVIOUS
    <3>1. n # 0
      <4>1. n = 0 => a = <<>>
          BY SubSeqEmpty
      <4> QED BY <4>1
    <3>2. Last(a) = arr[n] /\ n + 1 > 1
      <4>1. Len(a) = n /\ a[n] = arr[n]
          BY <3>1
      <4> HIDE DEF a
      <4> QED BY <3>1, <4>1 DEF Last
    <3> QED BY <1>4, <3>2
  <2> HIDE DEF a, x
  <2>6. Joined(a, x) = Append(a, TextNode(s))
      BY <2>1, <2>2, <2>3, <2>4, <2>5 DEF Joined
  <2> QED BY <1>2, <2>1, <2>6 DEF a, x
<1>5. \/ IsCode(x) /\ x = [type |-> x.type, data |-> Restrict(x.data, Fields(x.data))]
      \/ (\E s \in Seq(Tokens) \ {<<>>} : x = TextNode(s)) /\ (n + 1 > 1 => arr[n].type # Text)
  <2>1. (n + 1) - 1 = n
      OBVIOUS
  <2> QED BY <1>1, <2>1 DEF IsNormal
<1> QED BY <1>3, <1>4, <1>5

LEMMA NormalKeeps ==
  ASSUME NEW arr \in Seq(Nodes), IsNormal(arr) PROVE Normal(arr) = arr
<1> DEFINE Holds(n) == n <= Len(arr) => Normals(arr)[n] = SubSeq(arr, 1, n)
<1> DEFINE S == {n \in Nat : Holds(n)}
<1>0. Len(arr) \in Nat
    OBVIOUS
<1>1. Holds(0)
  <2>1. Normals(arr)[0] = <<>>
      BY <1>0, NormalsStep
  <2>2. SubSeq(arr, 1, 0) = <<>>
      BY SubSeqEmpty
  <2> QED BY <2>1, <2>2
<1>2. ASSUME NEW n \in Nat, Holds(n) PROVE Holds(n + 1)
  <2> SUFFICES ASSUME n + 1 <= Len(arr) PROVE Normals(arr)[n + 1] = SubSeq(arr, 1, n + 1)
      OBVIOUS
  <2>1. n \in 0..(Len(arr) - 1) /\ n <= Len(arr)
      BY <1>0
  <2>2. Normals(arr)[n + 1] = Joined(Normals(arr)[n], arr[n + 1])
      BY <1>0, <2>1, NormalsStep
  <2> QED BY <1>2, <2>1, <2>2, JoinNormal
<1>3. \A n \in Nat : Holds(n)
  <2> HIDE DEF Holds
  <2>1. 0 \in S /\ \A n \in Nat : n \in S => n + 1 \in S
      BY <1>1, <1>2
  <2> HIDE DEF S
  <2>2. \A n \in Nat : n \in S
      BY <2>1, SetInduction
  <2> QED BY <2>2 DEF S
<1> QED BY <1>0, <1>3, SubSeqFull DEF Normal

(* A message of which each text and each field says something, and no two  *)
(* texts are neighbours, comes back from jsonarr_to_cq_str and             *)
(* cq_str_to_jsonarr exactly as it was.                                    *)
THEOREM NormalMessagesAreKept ==
  Spec => [](Done /\ message # <<>> /\ AllReadable /\ IsNormal(message) => Returned = message)
<1>1. TypeInv /\ Surviving =>
        (Done /\ message # <<>> /\ AllReadable /\ IsNormal(message) => Returned = message)
  <2> SUFFICES ASSUME TypeInv, Surviving, Done, message # <<>>, AllReadable, IsNormal(message)
               PROVE  Returned = message
      OBVIOUS
  <2>1. Returned = Normal(message)
      BY Survives DEF RoundTrip, AllReadable
  <2> QED BY <2>1, NormalKeeps DEF TypeInv, Typed
<1> QED BY <1>1, InitTyped, NextTyped, InitSurviving, NextSurviving, PTL DEF Spec
=============================================================================
