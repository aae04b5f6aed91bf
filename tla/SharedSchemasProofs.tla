------------------------- MODULE SharedSchemasProofs -------------------------
(***************************************************************************)
(* The schemas generators share, for any configured schemas and any uses   *)
(* of them: whatever is decorated in place is somebody's own.              *)
(***************************************************************************)
EXTENDS SharedSchemas, SequenceTheorems, WellFoundedInduction, TLAPS

-----------------------------------------------------------------------------
(* Natural numbers. *)

LEMMA MinIn ==
    ASSUME NEW S, S \subseteq Nat, S # {}
    PROVE  Min(S) \in S /\ \A y \in S : Min(S) <= y
<1>1. PICK x \in S : \A y \in S : ~(<<y, x>> \in OpToRel(<, Nat))
  BY WFMin, NatLessThanWellFounded
<1>2. \A y \in S : x <= y
  <2>1. TAKE y \in S
  <2>2. ~(y < x)
    BY <1>1 DEF OpToRel
  <2> QED
    BY <2>2
<1> QED
  BY <1>2 DEF Min

(* Induction on sets: what holds of 0 and of the next number holds of all. *)
LEMMA NatSet ==
    ASSUME NEW S, S \subseteq Nat, 0 \in S, \A n \in S : n + 1 \in S
    PROVE  S = Nat
<1> SUFFICES ASSUME Nat \ S # {} PROVE FALSE
  OBVIOUS
<1> DEFINE m == Min(Nat \ S)
<1>1. m \in Nat \ S /\ \A y \in Nat \ S : m <= y
  BY MinIn
<1> HIDE DEF m
<1>2. m # 0 /\ m - 1 \in Nat
  BY <1>1
<1>3. m - 1 \in S
  BY <1>1, <1>2
<1>4. (m - 1) + 1 = m
  BY <1>1
<1> QED
  BY <1>1, <1>3, <1>4

-----------------------------------------------------------------------------
(* Reachability: P has the parts of each object, which are older than it.      *)

Older(P, o) == \A i \in 1 .. o : P[i] \subseteq 1 .. i - 1
Reaching(R, P, o) == R = [i \in 1 .. o |-> {i} \cup UNION {R[j] : j \in P[i]}]

LEMMA ReachingExists ==
    ASSUME NEW o \in Nat, NEW P, Older(P, o)
    PROVE  \E R : Reaching(R, P, o)
<1> DEFINE S == {k \in Nat : k <= o => \E R : Reaching(R, P, k)}
<1>1. 0 \in S
  <2>1. Reaching([i \in 1 .. 0 |-> {}], P, 0)
    BY DEF Reaching
  <2> QED
    BY <2>1
<1>2. ASSUME NEW k \in S PROVE k + 1 \in S
  <2> SUFFICES ASSUME k + 1 <= o PROVE \E R : Reaching(R, P, k + 1)
    OBVIOUS
  <2>1. k \in Nat /\ k <= o
    OBVIOUS
  <2>2. PICK R : Reaching(R, P, k)
    BY <2>1
  <2> DEFINE V == [i \in 1 .. k + 1 |-> IF i = k + 1 THEN {i} \cup UNION {R[j] : j \in P[i]} ELSE R[i]]
  <2>3. ASSUME NEW i \in 1 .. k + 1 PROVE V[i] = {i} \cup UNION {V[j] : j \in P[i]}
    <3>1. P[i] \subseteq 1 .. i - 1
      BY <2>1 DEF Older
    <3>2. \A j \in P[i] : j \in 1 .. k + 1 /\ j # k + 1
      BY <2>1, <3>1
    <3>3. \A j \in P[i] : V[j] = R[j]
      BY <3>2
    <3>4. {V[j] : j \in P[i]} = {R[j] : j \in P[i]}
      BY <3>3
    <3>5. i # k + 1 => i \in 1 .. k
      BY <2>1
    <3>6. V[i] = {i} \cup UNION {R[j] : j \in P[i]}
      BY <2>2, <3>5 DEF Reaching
    <3> QED
      BY <3>4, <3>6
  <2>4. V = [i \in 1 .. k + 1 |-> V[i]]
    OBVIOUS
  <2> HIDE DEF V
  <2>5. Reaching(V, P, k + 1)
    BY <2>3, <2>4 DEF Reaching
  <2> QED
    BY <2>5
<1>3. S = Nat
  BY <1>1, <1>2, NatSet
<1>4. o \in S /\ o <= o
  BY <1>3
<1> QED
  BY <1>4

(* What is reached is closed, and within any closed set it starts in. *)
LEMMA ReachingFacts ==
    ASSUME NEW o \in Nat, NEW P, Older(P, o), NEW R, Reaching(R, P, o)
    PROVE  \A i \in 1 .. o :
              /\ i \in R[i] /\ R[i] \subseteq 1 .. i
              /\ \A x \in R[i] : P[x] \subseteq R[i]
              /\ \A S : i \in S /\ (\A x \in S \cap (1 .. i) : P[x] \subseteq S) => R[i] \subseteq S
<1> DEFINE Good(i) ==
              /\ i \in R[i] /\ R[i] \subseteq 1 .. i
              /\ \A x \in R[i] : P[x] \subseteq R[i]
              /\ \A S : i \in S /\ (\A x \in S \cap (1 .. i) : P[x] \subseteq S) => R[i] \subseteq S
           T == {k \in Nat : \A i \in 1 .. k : i <= o => Good(i)}
<1> HIDE DEF Good
<1>1. 0 \in T
  OBVIOUS
<1>2. ASSUME NEW k \in T PROVE k + 1 \in T
  <2>1. k \in Nat /\ \A i \in 1 .. k : i <= o => Good(i)
    OBVIOUS
  <2>2. ASSUME k + 1 <= o PROVE Good(k + 1)
    <3>0. PICK i : i = k + 1
      OBVIOUS
    <3>1. i \in 1 .. o /\ \A j \in 1 .. i - 1 : j \in 1 .. k /\ j <= o
      BY <2>1, <2>2, <3>0
    <3>2. R[i] = {i} \cup UNION {R[j] : j \in P[i]}
      BY <3>1 DEF Reaching
    <3>3. P[i] \subseteq 1 .. i - 1
      BY <3>1 DEF Older
    <3>4. \A j \in P[i] : Good(j)
      BY <2>1, <3>1, <3>3
    <3>5. i \in R[i]
      BY <3>2
    <3>6. R[i] \subseteq 1 .. i
      <4> SUFFICES ASSUME NEW x \in R[i], x # i PROVE x \in 1 .. i
        BY <3>1
      <4>1. PICK j \in P[i] : x \in R[j]
        BY <3>2
      <4>2. x \in 1 .. j /\ j \in 1 .. i - 1
        BY <3>3, <3>4, <4>1 DEF Good
      <4> QED
        BY <3>1, <4>2
    <3>7. ASSUME NEW x \in R[i] PROVE P[x] \subseteq R[i]
      <4>1. CASE x = i
        <5> SUFFICES ASSUME NEW j \in P[i] PROVE j \in R[i]
          BY <4>1
        <5>1. j \in R[j]
          BY <3>4 DEF Good
        <5> QED
          BY <3>2, <5>1
      <4>2. CASE x # i
        <5>1. PICK j \in P[i] : x \in R[j]
          BY <3>2, <4>2
        <5>2. P[x] \subseteq R[j]
          BY <3>4, <5>1 DEF Good
        <5> QED
          BY <3>2, <5>2
      <4> QED
        BY <4>1, <4>2
    <3>8. ASSUME NEW S, i \in S, \A x \in S \cap (1 .. i) : P[x] \subseteq S PROVE R[i] \subseteq S
      <4> SUFFICES ASSUME NEW x \in R[i], x # i PROVE x \in S
        BY <3>8
      <4>1. PICK j \in P[i] : x \in R[j]
        BY <3>2
      <4>2. i \in S \cap (1 .. i)
        BY <3>1, <3>8
      <4>3. j \in S /\ j \in 1 .. i - 1
        BY <3>3, <3>8, <4>2
      <4>4. \A y \in S \cap (1 .. j) : y \in S \cap (1 .. i)
        BY <3>1, <4>3
      <4>5. \A y \in S \cap (1 .. j) : P[y] \subseteq S
        BY <3>8, <4>4
      <4> QED
        BY <3>4, <4>1, <4>3, <4>5 DEF Good
    <3>9. Good(i)
      BY <3>5, <3>6, <3>7, <3>8 DEF Good
    <3> QED
      BY <3>0, <3>9
  <2>3. \A i \in 1 .. k + 1 : i \in 1 .. k \/ i = k + 1
    BY <2>1
  <2> QED
    BY <2>1, <2>2, <2>3
<1>3. T = Nat
  BY <1>1, <1>2, NatSet
<1>4. \A i \in 1 .. o : Good(i)
  <2> SUFFICES ASSUME NEW i \in 1 .. o PROVE Good(i)
    OBVIOUS
  <2>1. i \in T /\ i \in 1 .. i /\ i <= o
    BY <1>3
  <2> QED
    BY <2>1
<1> QED
  BY <1>4 DEF Good

IsSeq(s) == \E S : s \in Seq(S)
IsHeap(h) == IsSeq(h) /\ \A i \in 1 .. Len(h) : Node(h[i]) /\ Parts(h[i]) \subseteq 1 .. i - 1

LEMMA ReachFacts ==
    ASSUME NEW h, NEW o \in Nat \ {0}, \A i \in 1 .. o : Parts(h[i]) \subseteq 1 .. i - 1
    PROVE  /\ o \in Reach(h, o) /\ Reach(h, o) \subseteq 1 .. o
           /\ \A x \in Reach(h, o) : Parts(h[x]) \subseteq Reach(h, o)
           /\ \A S : o \in S /\ (\A x \in S \cap (1 .. o) : Parts(h[x]) \subseteq S) => Reach(h, o) \subseteq S
<1> DEFINE P == [i \in 1 .. o |-> Parts(h[i])]
           R == CHOOSE r : r = [i \in 1 .. o |-> {i} \cup UNION {r[j] : j \in Parts(h[i])}]
<1>1. Older(P, o)
  BY DEF Older
<1>2. PICK r : Reaching(r, P, o)
  BY <1>1, ReachingExists
<1>3. r = [i \in 1 .. o |-> {i} \cup UNION {r[j] : j \in Parts(h[i])}]
  BY <1>2 DEF Reaching
<1>4. R = [i \in 1 .. o |-> {i} \cup UNION {R[j] : j \in Parts(h[i])}]
  BY <1>3
<1>5. Reach(h, o) = R[o]
  BY DEF Reach
<1> HIDE DEF R
<1>6. Reaching(R, P, o)
  BY <1>4 DEF Reaching
<1>7. o \in 1 .. o /\ \A x \in 1 .. o : P[x] = Parts(h[x])
  OBVIOUS
<1> HIDE DEF P
<1>8. /\ o \in R[o] /\ R[o] \subseteq 1 .. o
      /\ \A x \in R[o] : P[x] \subseteq R[o]
      /\ \A S : o \in S /\ (\A x \in S \cap (1 .. o) : P[x] \subseteq S) => R[o] \subseteq S
  BY <1>1, <1>6, <1>7, ReachingFacts
<1>9. \A x \in R[o] : Parts(h[x]) \subseteq R[o]
  BY <1>7, <1>8
<1>10. ASSUME NEW S, o \in S, \A x \in S \cap (1 .. o) : Parts(h[x]) \subseteq S PROVE R[o] \subseteq S
  <2>1. \A x \in S \cap (1 .. o) : P[x] \subseteq S
    BY <1>7, <1>10
  <2> QED
    BY <1>8, <1>10, <2>1
<1> QED
  BY <1>5, <1>8, <1>9, <1>10

-----------------------------------------------------------------------------
(* Heaps grow: Extends(h, b) has new objects, made of new ones and of parts of *)
(* the schemas of pointers.                                                    *)

Extends(h, b) ==
    /\ IsSeq(h) /\ Len(b) <= Len(h)
    /\ \A i \in 1 .. Len(b) : h[i] = b[i]
    /\ \A i \in Len(b) + 1 .. Len(h) :
          /\ Node(h[i]) /\ Parts(h[i]) \subseteq 1 .. i - 1
          /\ \A j \in Parts(h[i]) : j > Len(b) \/ j \in OfPointers

LEMMA Concatenated ==
    ASSUME NEW h, IsSeq(h), NEW k, IsSeq(k)
    PROVE  /\ IsSeq(h \o k) /\ Len(h \o k) = Len(h) + Len(k)
           /\ Len(h) \in Nat /\ Len(k) \in Nat
           /\ DOMAIN h = 1 .. Len(h) /\ DOMAIN (h \o k) = 1 .. Len(h) + Len(k)
           /\ \A i \in 1 .. Len(h) : (h \o k)[i] = h[i]
           /\ \A i \in 1 .. Len(k) : (h \o k)[Len(h) + i] = k[i]
<1>1. PICK S : h \in Seq(S)
  BY DEF IsSeq
<1>2. PICK T : k \in Seq(T)
  BY DEF IsSeq
<1>3. h \in Seq(S \cup T) /\ k \in Seq(S \cup T)
  BY <1>1, <1>2
<1>4. PICK g : g = h \o k
  OBVIOUS
<1>5. g \in Seq(S \cup T) /\ Len(g) = Len(h) + Len(k)
  BY <1>3, <1>4
<1>6. Len(h) \in Nat /\ Len(k) \in Nat /\ DOMAIN h = 1 .. Len(h)
  BY <1>3
<1>7. \A i \in 1 .. Len(h) : g[i] = h[i]
  BY <1>3, <1>4, <1>6
<1>8. \A i \in 1 .. Len(k) : g[Len(h) + i] = k[i]
  BY <1>3, <1>4, <1>6
<1>9. DOMAIN g = 1 .. Len(h) + Len(k)
  BY <1>5
<1> QED
  BY <1>4, <1>5, <1>6, <1>7, <1>8, <1>9 DEF IsSeq

LEMMA Appended ==
    ASSUME NEW h, IsSeq(h), NEW n
    PROVE  /\ IsSeq(Append(h, n)) /\ Len(Append(h, n)) = Len(h) + 1 /\ Len(h) \in Nat
           /\ \A i \in 1 .. Len(h) : Append(h, n)[i] = h[i]
           /\ Append(h, n)[Len(h) + 1] = n
<1>1. PICK S : h \in Seq(S)
  BY DEF IsSeq
<1>2. h \in Seq(S \cup {n}) /\ n \in S \cup {n}
  BY <1>1
<1>3. Append(h, n) \in Seq(S \cup {n}) /\ Len(Append(h, n)) = Len(h) + 1 /\ Len(h) \in Nat
  BY <1>2
<1>4. (\A i \in 1 .. Len(h) : Append(h, n)[i] = h[i]) /\ Append(h, n)[Len(h) + 1] = n
  BY <1>2
<1> QED
  BY <1>3, <1>4 DEF IsSeq

(* A function on an initial part of the numbers is a sequence. *)
LEMMA FunctionIsSeq ==
    ASSUME NEW n \in Nat, NEW f, DOMAIN f = 1 .. n, f = [i \in 1 .. n |-> f[i]]
    PROVE  IsSeq(f) /\ Len(f) = n
<1> DEFINE S == {f[i] : i \in 1 .. n}
<1>1. f \in [1 .. n -> S]
  OBVIOUS
<1>2. f \in Seq(S) /\ Len(f) = n
  BY <1>1
<1> QED
  BY <1>2 DEF IsSeq

LEMMA Nodes ==
    /\ Node(Empty) /\ Parts(Empty) = {}
    /\ \A type : Node(Plain(type)) /\ Parts(Plain(type)) = {}
    /\ \A name : Node(Ref(name)) /\ Parts(Ref(name)) = {}
    /\ \A parts : Node(AnyOf(parts)) /\ Parts(AnyOf(parts)) = parts
    /\ \A item : Node(ArrayOf(item)) /\ Parts(ArrayOf(item)) = {item}
<1>1. Node(Empty) /\ Parts(Empty) = {}
  BY DEF Node, Parts, Empty, Forms
<1>2. ASSUME NEW type PROVE Node(Plain(type)) /\ Parts(Plain(type)) = {}
  <2>1. PICK n : n = Plain(type)
    OBVIOUS
  <2>2. n = [ref |-> NoRef, types |-> {type}, form |-> "string", anyOf |-> {}, below |-> {}, keywords |-> {}]
    BY <2>1 DEF Plain, Empty
  <2>3. /\ n = [ref |-> n.ref, types |-> n.types, form |-> n.form, anyOf |-> n.anyOf,
                below |-> n.below, keywords |-> n.keywords]
        /\ n.form = "string" /\ n.types = {type} /\ type \in n.types /\ Parts(n) = {}
    BY <2>2 DEF Parts
  <2>4. Node(n) /\ Parts(n) = {}
    BY <2>3 DEF Node, Forms
  <2> QED
    BY <2>1, <2>4
<1>3. ASSUME NEW name PROVE Node(Ref(name)) /\ Parts(Ref(name)) = {}
  BY DEF Node, Parts, Empty, Forms, Ref
<1>4. ASSUME NEW parts PROVE Node(AnyOf(parts)) /\ Parts(AnyOf(parts)) = parts
  BY DEF Node, Parts, Empty, Forms, AnyOf
<1>5. ASSUME NEW item PROVE Node(ArrayOf(item)) /\ Parts(ArrayOf(item)) = {item}
  <2>1. PICK n : n = ArrayOf(item)
    OBVIOUS
  <2>2. n = [ref |-> NoRef, types |-> {"array"}, form |-> "string", anyOf |-> {}, below |-> {item}, keywords |-> {}]
    BY <2>1 DEF ArrayOf, Plain, Empty
  <2>3. /\ n = [ref |-> n.ref, types |-> n.types, form |-> n.form, anyOf |-> n.anyOf,
                below |-> n.below, keywords |-> n.keywords]
        /\ n.form = "string" /\ n.types = {"array"} /\ "array" \in n.types /\ Parts(n) = {item}
    BY <2>2 DEF Parts
  <2>4. Node(n) /\ Parts(n) = {item}
    BY <2>3 DEF Node, Forms
  <2> QED
    BY <2>1, <2>4
<1> QED
  BY <1>1, <1>2, <1>3, <1>4, <1>5

LEMMA ExtendsItself ==
    ASSUME NEW h, IsHeap(h)
    PROVE  Extends(h, h)
<1>1. IsSeq(h)
  BY DEF IsHeap
<1>2. Len(h) \in Nat
  BY <1>1 DEF IsSeq
<1> QED
  BY <1>1, <1>2 DEF Extends

LEMMA ExtendsIsHeap ==
    ASSUME NEW b, IsHeap(b), NEW h, Extends(h, b)
    PROVE  IsHeap(h) /\ Len(h) \in Nat /\ Len(b) \in Nat
<1>1. Len(h) \in Nat /\ Len(b) \in Nat
  BY DEF Extends, IsHeap, IsSeq
<1>2. \A i \in 1 .. Len(h) : i \in 1 .. Len(b) \/ i \in Len(b) + 1 .. Len(h)
  BY <1>1
<1> QED
  BY <1>1, <1>2 DEF Extends, IsHeap

LEMMA ExtendsTransitive ==
    ASSUME NEW a, IsHeap(a), NEW b, Extends(b, a), NEW h, Extends(h, b)
    PROVE  Extends(h, a)
<1>1. IsHeap(b) /\ IsHeap(h) /\ Len(a) \in Nat /\ Len(b) \in Nat /\ Len(h) \in Nat
  BY ExtendsIsHeap
<1>2. IsSeq(h) /\ Len(a) <= Len(h)
  BY <1>1 DEF Extends
<1>3. \A i \in 1 .. Len(a) : h[i] = a[i]
  BY <1>1 DEF Extends
<1>4. ASSUME NEW i \in Len(a) + 1 .. Len(h)
      PROVE  /\ Node(h[i]) /\ Parts(h[i]) \subseteq 1 .. i - 1
             /\ \A j \in Parts(h[i]) : j > Len(a) \/ j \in OfPointers
  <2>1. CASE i \in Len(a) + 1 .. Len(b)
    <3>1. h[i] = b[i]
      BY <1>1, <2>1 DEF Extends
    <3> QED
      BY <2>1, <3>1 DEF Extends
  <2>2. CASE i \in Len(b) + 1 .. Len(h)
    <3>1. Len(a) <= Len(b)
      BY DEF Extends
    <3>2. /\ Node(h[i]) /\ Parts(h[i]) \subseteq 1 .. i - 1
          /\ \A j \in Parts(h[i]) : j > Len(b) \/ j \in OfPointers
      BY <2>2 DEF Extends
    <3>3. \A j \in Parts(h[i]) : j \in Nat
      BY <1>1, <3>2
    <3> QED
      BY <1>1, <3>1, <3>2, <3>3
  <2> QED
    BY <1>1, <2>1, <2>2
<1> QED
  BY <1>2, <1>3, <1>4 DEF Extends

LEMMA AppendExtends ==
    ASSUME NEW b, IsHeap(b), NEW h, Extends(h, b),
           NEW n, Node(n), Parts(n) \subseteq 1 .. Len(h), \A j \in Parts(n) : j > Len(b) \/ j \in OfPointers
    PROVE  Extends(Append(h, n), b)
<1>1. PICK g : g = Append(h, n)
  OBVIOUS
<1>2. /\ IsSeq(g) /\ Len(g) = Len(h) + 1 /\ Len(h) \in Nat /\ Len(b) \in Nat
      /\ \A i \in 1 .. Len(h) : g[i] = h[i]
      /\ g[Len(h) + 1] = n
  <2>1. IsSeq(h) /\ Len(b) \in Nat
    BY ExtendsIsHeap DEF IsHeap
  <2> QED
    BY <1>1, <2>1, Appended
<1>3. Len(b) <= Len(g) /\ \A i \in 1 .. Len(b) : g[i] = b[i]
  BY <1>2 DEF Extends
<1>4. ASSUME NEW i \in Len(b) + 1 .. Len(g)
      PROVE  /\ Node(g[i]) /\ Parts(g[i]) \subseteq 1 .. i - 1
             /\ \A j \in Parts(g[i]) : j > Len(b) \/ j \in OfPointers
  <2>1. CASE i = Len(h) + 1
    <3>1. g[i] = n /\ Parts(n) \subseteq 1 .. i - 1
      BY <1>2, <2>1
    <3> QED
      BY <3>1
  <2>2. CASE i # Len(h) + 1
    <3>1. i \in Len(b) + 1 .. Len(h) /\ i \in 1 .. Len(h)
      BY <1>2, <2>2
    <3> QED
      BY <1>2, <3>1 DEF Extends
  <2> QED
    BY <2>1, <2>2
<1>5. Extends(g, b)
  BY <1>2, <1>3, <1>4 DEF Extends
<1> QED
  BY <1>1, <1>5

(* A clone is an object of new ones only, like the original. *)
CloneOf(h, g, o) ==
    /\ IsSeq(g) /\ Len(g) = Len(h) + o
    /\ \A i \in 1 .. Len(h) : g[i] = h[i]
    /\ \A i \in 1 .. o :
          /\ g[Len(h) + i] = [h[i] EXCEPT !.anyOf = {Len(h) + j : j \in h[i].anyOf},
                                          !.below = {Len(h) + j : j \in h[i].below}]
          /\ Node(g[Len(h) + i])
          /\ Parts(g[Len(h) + i]) = {Len(h) + j : j \in Parts(h[i])}

LEMMA ClonedIs ==
    ASSUME NEW h, IsHeap(h), NEW o \in 1 .. Len(h)
    PROVE  CloneOf(h, Cloned(h, o), o) /\ Len(h) \in Nat
<1> DEFINE moved(ids) == {Len(h) + j : j \in ids}
           copy(i) == [h[i] EXCEPT !.anyOf = moved(@), !.below = moved(@)]
<1>1. PICK k : k = [i \in 1 .. o |-> copy(i)]
  OBVIOUS
<1>2. IsSeq(h) /\ Len(h) \in Nat
  BY DEF IsHeap, IsSeq
<1>3. DOMAIN k = 1 .. o /\ k = [i \in 1 .. o |-> k[i]] /\ o \in Nat
  <2> HIDE DEF copy, moved
  <2> QED
    BY <1>1, <1>2
<1>4. IsSeq(k) /\ Len(k) = o
  BY <1>3, FunctionIsSeq
<1>5. PICK g : g = h \o k
  OBVIOUS
<1>6. /\ IsSeq(g) /\ Len(g) = Len(h) + o
      /\ \A i \in 1 .. Len(h) : g[i] = h[i]
      /\ \A i \in 1 .. o : g[Len(h) + i] = k[i]
  <2>1. /\ IsSeq(g) /\ Len(g) = Len(h) + Len(k)
        /\ \A i \in 1 .. Len(h) : g[i] = h[i]
        /\ \A i \in 1 .. Len(k) : g[Len(h) + i] = k[i]
    <3> HIDE DEF copy, moved
    <3>1. IsSeq(h) /\ IsSeq(k)
      BY <1>2, <1>4
    <3>2. /\ IsSeq(h \o k) /\ Len(h \o k) = Len(h) + Len(k)
          /\ \A i \in 1 .. Len(h) : (h \o k)[i] = h[i]
          /\ \A i \in 1 .. Len(k) : (h \o k)[Len(h) + i] = k[i]
      BY <3>1, Concatenated
    <3> QED
      BY <1>5, <3>2
  <2> QED
    BY <1>4, <2>1
<1>7. Cloned(h, o) = g
  BY <1>1, <1>5 DEF Cloned
<1>8. ASSUME NEW i \in 1 .. o
      PROVE  /\ g[Len(h) + i] = [h[i] EXCEPT !.anyOf = {Len(h) + j : j \in h[i].anyOf},
                                            !.below = {Len(h) + j : j \in h[i].below}]
             /\ Node(g[Len(h) + i])
             /\ Parts(g[Len(h) + i]) = {Len(h) + j : j \in Parts(h[i])}
  <2>1. g[Len(h) + i] = copy(i)
    BY <1>1, <1>6
  <2>2. Node(h[i])
    BY <1>2 DEF IsHeap
  <2>3. copy(i) = [h[i] EXCEPT !.anyOf = {Len(h) + j : j \in h[i].anyOf},
                               !.below = {Len(h) + j : j \in h[i].below}]
    BY <2>2 DEF Node
  <2>4. /\ copy(i) = [ref |-> h[i].ref, types |-> h[i].types, form |-> h[i].form, anyOf |-> moved(h[i].anyOf),
                      below |-> moved(h[i].below), keywords |-> h[i].keywords]
    <3>1. PICK n : n = h[i]
      OBVIOUS
    <3>2. n = [ref |-> n.ref, types |-> n.types, form |-> n.form, anyOf |-> n.anyOf,
               below |-> n.below, keywords |-> n.keywords]
      BY <2>2, <3>1 DEF Node
    <3>3. copy(i) = [n EXCEPT !.anyOf = moved(n.anyOf), !.below = moved(n.below)]
      BY <2>3, <3>1
    <3> HIDE DEF copy, moved
    <3> QED
      BY <3>1, <3>2, <3>3
  <2> HIDE DEF copy
  <2>5. Node(copy(i))
    BY <2>2, <2>4 DEF Node
  <2>6. Parts(copy(i)) = {Len(h) + j : j \in Parts(h[i])}
    BY <2>4 DEF Parts
  <2> QED
    BY <2>1, <2>3, <2>5, <2>6
<1> QED
  BY <1>2, <1>6, <1>7, <1>8 DEF CloneOf

LEMMA ClonedExtends ==
    ASSUME NEW b, IsHeap(b), NEW h, Extends(h, b), NEW o \in 1 .. Len(h)
    PROVE  Extends(Cloned(h, o), b) /\ Len(Cloned(h, o)) = Len(h) + o
<1>1. PICK g : g = Cloned(h, o)
  OBVIOUS
<1>2. IsHeap(h) /\ Len(h) \in Nat /\ Len(b) \in Nat /\ Len(b) <= Len(h) /\ o \in Nat
  <2>1. IsHeap(h) /\ Len(h) \in Nat /\ Len(b) \in Nat
    BY ExtendsIsHeap
  <2> QED
    BY <2>1 DEF Extends
<1>3. CloneOf(h, g, o)
  BY <1>1, <1>2, ClonedIs
<1>4. IsSeq(g) /\ Len(b) <= Len(g) /\ \A i \in 1 .. Len(b) : g[i] = b[i]
  <2>1. IsSeq(g) /\ Len(g) = Len(h) + o /\ \A i \in 1 .. Len(h) : g[i] = h[i]
    BY <1>3 DEF CloneOf
  <2>2. \A i \in 1 .. Len(b) : i \in 1 .. Len(h) /\ h[i] = b[i]
    BY <1>2 DEF Extends
  <2> QED
    BY <1>2, <2>1, <2>2
<1>5. ASSUME NEW i \in Len(b) + 1 .. Len(g)
      PROVE  /\ Node(g[i]) /\ Parts(g[i]) \subseteq 1 .. i - 1
             /\ \A j \in Parts(g[i]) : j > Len(b) \/ j \in OfPointers
  <2>1. CASE i <= Len(h)
    <3>1. i \in Len(b) + 1 .. Len(h) /\ i \in 1 .. Len(h)
      BY <1>2, <2>1
    <3>2. g[i] = h[i]
      BY <1>3, <3>1 DEF CloneOf
    <3> QED
      BY <3>1, <3>2 DEF Extends
  <2>2. CASE i > Len(h)
    <3>1. PICK k \in 1 .. o : i = Len(h) + k
      <4>0. Len(g) = Len(h) + o
        BY <1>3 DEF CloneOf
      <4>1. i - Len(h) \in 1 .. o /\ i = Len(h) + (i - Len(h))
        BY <1>2, <2>2, <4>0
      <4> QED
        BY <4>1
    <3>2. Node(g[i]) /\ Parts(g[i]) = {Len(h) + j : j \in Parts(h[k])}
      BY <1>3, <3>1 DEF CloneOf
    <3>3. Parts(h[k]) \subseteq 1 .. k - 1
      BY <1>2, <3>1 DEF IsHeap
    <3>4. \A j \in Parts(h[k]) : Len(h) + j \in 1 .. i - 1 /\ Len(h) + j > Len(b)
      BY <1>2, <3>1, <3>3
    <3> QED
      BY <3>2, <3>4
  <2> QED
    BY <1>2, <2>1, <2>2
<1>6. Extends(g, b)
  BY <1>4, <1>5 DEF Extends
<1> QED
  BY <1>1, <1>3, <1>6 DEF CloneOf

LEMMA AppendTwo ==
    ASSUME NEW h, IsSeq(h), NEW n, NEW m
    PROVE  h \o <<n, m>> = Append(Append(h, n), m)
<1>1. PICK S : h \in Seq(S)
  BY DEF IsSeq
<1>2. PICK T : T = S \cup {n, m}
  OBVIOUS
<1>3. h \in Seq(T) /\ n \in T /\ m \in T
  BY <1>1, <1>2
<1>4. PICK f : f = Append(h, n)
  OBVIOUS
<1>5. PICK g : g = Append(f, m)
  OBVIOUS
<1>6. PICK k : k = h \o <<n, m>>
  OBVIOUS
<1>7. f \in Seq(T) /\ Len(f) = Len(h) + 1 /\ Len(h) \in Nat
  BY <1>3, <1>4
<1>8. (\A i \in 1 .. Len(h) : f[i] = h[i]) /\ f[Len(h) + 1] = n
  BY <1>3, <1>4
<1>9. g \in Seq(T) /\ Len(g) = Len(h) + 2
  BY <1>3, <1>5, <1>7
<1>10. (\A i \in 1 .. Len(f) : g[i] = f[i]) /\ g[Len(f) + 1] = m
  BY <1>3, <1>5, <1>7
<1>11. k \in Seq(T) /\ Len(k) = Len(h) + 2
  BY <1>3, <1>6
<1>12. \A i \in 1 .. Len(h) : k[i] = h[i]
  BY <1>3, <1>6
<1>13. k[Len(h) + 1] = n /\ k[Len(h) + 2] = m
  BY <1>3, <1>6
<1>14. \A i \in 1 .. Len(k) : k[i] = g[i]
  <2> SUFFICES ASSUME NEW i \in 1 .. Len(k) PROVE k[i] = g[i]
    OBVIOUS
  <2>1. i \in 1 .. Len(h) \/ i = Len(h) + 1 \/ i = Len(h) + 2
    BY <1>7, <1>11
  <2> QED
    BY <1>7, <1>8, <1>10, <1>12, <1>13, <2>1
<1>15. k = g
  BY <1>9, <1>11, <1>14, SeqEqual
<1> QED
  BY <1>4, <1>5, <1>6, <1>15

-----------------------------------------------------------------------------
(* Conversion: Conv(s, b, place) says that a heap has grown, and that what has *)
(* been made is new, or is a pointer's schema handed out as it is.             *)

OfPointersClosed(b) ==
    \A i \in OfPointers :
        /\ i \in 1 .. Len(b) /\ b[i].keywords \subseteq ConfiguredKeywords
        /\ \A j \in Parts(b[i]) : j \in OfPointers

Untagged(h, b) == \A i \in Len(b) + 1 .. Len(h) : h[i].keywords \subseteq ConfiguredKeywords

Conv(s, b, place) ==
    /\ s = [heap |-> s.heap, at |-> s.at]
    /\ Extends(s.heap, b) /\ Untagged(s.heap, b) /\ s.at \in 1 .. Len(s.heap)
    /\ \/ s.at > Len(b)
       \/ place \notin Written /\ s.at \in OfPointers

LEMMA AppendUntagged ==
    ASSUME NEW b, IsHeap(b), NEW h, Extends(h, b), Untagged(h, b), NEW n, n.keywords \subseteq ConfiguredKeywords
    PROVE  Untagged(Append(h, n), b)
<1>1. IsSeq(h) /\ Len(h) \in Nat /\ Len(b) \in Nat
  BY ExtendsIsHeap DEF IsHeap
<1>2. PICK g : g = Append(h, n)
  OBVIOUS
<1>3. Len(g) = Len(h) + 1 /\ g[Len(h) + 1] = n /\ \A i \in 1 .. Len(h) : g[i] = h[i]
  BY <1>1, <1>2, Appended
<1>4. ASSUME NEW i \in Len(b) + 1 .. Len(g) PROVE g[i].keywords \subseteq ConfiguredKeywords
  <2>1. CASE i = Len(h) + 1
    BY <1>3, <2>1
  <2>2. CASE i # Len(h) + 1
    <3>1. i \in Len(b) + 1 .. Len(h) /\ i \in 1 .. Len(h)
      BY <1>1, <1>3, <2>2
    <3> QED
      BY <1>3, <3>1 DEF Untagged
  <2> QED
    BY <2>1, <2>2
<1> QED
  BY <1>2, <1>4 DEF Untagged

LEMMA MadeConv ==
    ASSUME NEW b, IsHeap(b), NEW h, Extends(h, b), Untagged(h, b), Len(h) > Len(b), NEW place
    PROVE  Conv(Made(h), b, place)
<1>1. Len(h) \in Nat /\ Len(b) \in Nat
  BY ExtendsIsHeap
<1> QED
  BY <1>1 DEF Conv, Made

LEMMA NullableConv ==
    ASSUME NEW b, IsHeap(b), NEW place, NEW s, Conv(s, b, place)
    PROVE  Conv(Nullable(s), b, place)
<1>1. PICK h : h = s.heap
  OBVIOUS
<1>2. PICK a : a = s.at
  OBVIOUS
<1>3. Extends(h, b) /\ a \in 1 .. Len(h) /\ (a > Len(b) \/ a \in OfPointers)
  BY <1>1, <1>2 DEF Conv
<1>4. IsSeq(h) /\ Len(h) \in Nat /\ Len(b) \in Nat /\ Len(b) <= Len(h)
  BY <1>3, ExtendsIsHeap DEF Extends
<1>5. PICK n : n = Plain("null")
  OBVIOUS
<1>6. PICK f : f = Append(h, n)
  OBVIOUS
<1>7. Node(n) /\ Parts(n) = {}
  BY <1>5, Nodes
<1>8. Extends(f, b) /\ Untagged(f, b) /\ Len(f) = Len(h) + 1
  <2>0. Untagged(h, b) /\ n.keywords = {}
    BY <1>1, <1>5 DEF Conv, Plain, Empty
  <2>1. Parts(n) \subseteq 1 .. Len(h) /\ \A j \in Parts(n) : j > Len(b) \/ j \in OfPointers
    BY <1>7
  <2>2. Extends(f, b)
    BY <1>3, <1>6, <1>7, <2>1, AppendExtends
  <2>3. Untagged(f, b)
    BY <1>3, <1>6, <2>0, AppendUntagged
  <2>4. Len(f) = Len(h) + 1
    BY <1>4, <1>6, Appended
  <2> QED
    BY <2>2, <2>3, <2>4
<1>9. PICK m : m = AnyOf({a, Len(h) + 1})
  OBVIOUS
<1>10. Node(m) /\ Parts(m) = {a, Len(h) + 1}
  BY <1>9, Nodes
<1>11. PICK g : g = Append(f, m)
  OBVIOUS
<1>12. Extends(g, b) /\ Untagged(g, b) /\ Len(g) = Len(h) + 2
  <2>0. m.keywords = {}
    BY <1>9 DEF AnyOf, Empty
  <2>1. Parts(m) \subseteq 1 .. Len(f) /\ \A j \in Parts(m) : j > Len(b) \/ j \in OfPointers
    BY <1>3, <1>4, <1>8, <1>10
  <2>2. Extends(g, b)
    BY <1>8, <1>10, <1>11, <2>1, AppendExtends
  <2>3. IsSeq(f)
    BY <1>8 DEF Extends
  <2>4. Len(g) = Len(f) + 1
    BY <1>11, <2>3, Appended
  <2>5. Untagged(g, b)
    BY <1>8, <1>11, <2>0, AppendUntagged
  <2> QED
    BY <1>4, <1>8, <2>2, <2>4, <2>5
<1>13. h \o <<n, m>> = g
  BY <1>4, <1>6, <1>11, AppendTwo
<1>14. Nullable(s) = Made(g)
  BY <1>1, <1>2, <1>5, <1>9, <1>13 DEF Nullable
<1> QED
  BY <1>4, <1>12, <1>14, MadeConv

LEMMA WrittenPointerConv ==
    ASSUME NEW b, IsHeap(b), NEW place \in Written, NEW s, Conv(s, b, place)
    PROVE  Conv(WrittenPointer(s), b, place)
<1>1. PICK h : h = s.heap
  OBVIOUS
<1>2. PICK a : a = s.at
  OBVIOUS
<1>3. Extends(h, b) /\ a \in 1 .. Len(h) /\ a > Len(b) /\ s = [heap |-> h, at |-> a]
  BY <1>1, <1>2 DEF Conv
<1>4. IsHeap(h) /\ IsSeq(h) /\ Len(h) \in Nat /\ Len(b) \in Nat /\ Len(b) <= Len(h)
  BY <1>3, ExtendsIsHeap DEF Extends
<1>5. CASE h[a].ref # NoRef
  BY <1>1, <1>2, <1>5, NullableConv DEF WrittenPointer
<1>6. CASE h[a].ref = NoRef /\ h[a].form = "string"
  <2>1. PICK n : n = h[a]
    OBVIOUS
  <2>2. /\ n = [ref |-> n.ref, types |-> n.types, form |-> n.form, anyOf |-> n.anyOf,
                below |-> n.below, keywords |-> n.keywords]
    BY <1>3, <1>4, <2>1 DEF IsHeap, Node
  <2>3. PICK m : m = [n EXCEPT !.types = @ \cup {"null"}, !.form = "[]string"]
    OBVIOUS
  <2>4. m = [ref |-> n.ref, types |-> n.types \cup {"null"}, form |-> "[]string", anyOf |-> n.anyOf,
             below |-> n.below, keywords |-> n.keywords]
    BY <2>2, <2>3
  <2>5. Node(m) /\ Parts(m) = Parts(n)
    BY <2>4 DEF Node, Parts, Forms
  <2>6. PICK g : g = [h EXCEPT ![a] = m]
    OBVIOUS
  <2>7. /\ IsSeq(g) /\ Len(g) = Len(h) /\ g[a] = m
        /\ \A i \in 1 .. Len(h) : i # a => g[i] = h[i]
    <3>1. DOMAIN h = 1 .. Len(h)
      BY <1>4 DEF IsSeq
    <3>2. DOMAIN g = 1 .. Len(h) /\ g = [i \in 1 .. Len(h) |-> g[i]]
      BY <2>6, <3>1
    <3>3. g[a] = m /\ \A i \in 1 .. Len(h) : i # a => g[i] = h[i]
      BY <1>3, <2>6, <3>1
    <3> QED
      BY <1>4, <3>2, <3>3, FunctionIsSeq
  <2>8. Extends(g, b)
    <3>1. \A i \in 1 .. Len(b) : g[i] = b[i]
      <4>1. \A i \in 1 .. Len(b) : i \in 1 .. Len(h) /\ i # a
        BY <1>3, <1>4
      <4> QED
        BY <1>3, <2>7, <4>1 DEF Extends
    <3>2. ASSUME NEW i \in Len(b) + 1 .. Len(g)
          PROVE  /\ Node(g[i]) /\ Parts(g[i]) \subseteq 1 .. i - 1
                 /\ \A j \in Parts(g[i]) : j > Len(b) \/ j \in OfPointers
      <4>1. /\ Node(h[i]) /\ Parts(h[i]) \subseteq 1 .. i - 1
            /\ \A j \in Parts(h[i]) : j > Len(b) \/ j \in OfPointers
        BY <1>3, <2>7 DEF Extends
      <4>2. i \in 1 .. Len(h)
        BY <1>4, <2>7
      <4>3. CASE i = a
        BY <2>1, <2>5, <2>7, <4>1, <4>3
      <4>4. CASE i # a
        BY <2>7, <4>1, <4>2, <4>4
      <4> QED
        BY <4>3, <4>4
    <3> QED
      BY <1>4, <2>7, <3>1, <3>2 DEF Extends
  <2>9. Untagged(g, b)
    <3> SUFFICES ASSUME NEW i \in Len(b) + 1 .. Len(g) PROVE g[i].keywords \subseteq ConfiguredKeywords
      BY DEF Untagged
    <3>1. Untagged(h, b) /\ i \in Len(b) + 1 .. Len(h) /\ i \in 1 .. Len(h)
      BY <1>1, <1>4, <2>7 DEF Conv
    <3>2. m.keywords = n.keywords
      BY <2>4
    <3>3. h[i].keywords \subseteq ConfiguredKeywords
      BY <3>1 DEF Untagged
    <3> QED
      BY <2>1, <2>7, <3>1, <3>2, <3>3
  <2>10. WrittenPointer(s) = [heap |-> g, at |-> a]
    <3>1. WrittenPointer(s) = [s EXCEPT !.heap[s.at] = m]
      BY <1>1, <1>2, <1>6, <2>1, <2>3 DEF WrittenPointer
    <3>2. s.heap = h /\ s.at = a
      BY <1>1, <1>2
    <3>3. [s EXCEPT !.heap[s.at] = m] = [s EXCEPT !.heap = [h EXCEPT ![a] = m]]
      BY <3>2, <1>3
    <3> QED
      BY <1>3, <2>6, <3>1, <3>3
  <2>11. PICK t : t = [heap |-> g, at |-> a]
    OBVIOUS
  <2>12. t = [heap |-> t.heap, at |-> t.at] /\ t.heap = g /\ t.at = a
    BY <2>11
  <2>13. Conv(t, b, place)
    BY <1>3, <2>7, <2>8, <2>9, <2>12 DEF Conv
  <2> QED
    BY <2>10, <2>11, <2>13
<1>7. CASE h[a].ref = NoRef /\ h[a].form # "string"
  BY <1>1, <1>2, <1>7 DEF WrittenPointer
<1> QED
  BY <1>5, <1>6, <1>7

LEMMA NamedPointerConv ==
    ASSUME NEW b, IsHeap(b), OfPointersClosed(b), NEW place, NEW s, Conv(s, b, place), NEW basic
    PROVE  Conv(NamedPointer(s, basic), b, place)
<1>1. PICK h : h = s.heap
  OBVIOUS
<1>2. PICK a : a = s.at
  OBVIOUS
<1>3. Extends(h, b) /\ a \in 1 .. Len(h) /\ (a > Len(b) \/ a \in OfPointers)
  BY <1>1, <1>2 DEF Conv
<1>4. IsHeap(h) /\ IsSeq(h) /\ Len(h) \in Nat /\ Len(b) \in Nat /\ Len(b) <= Len(h)
  BY <1>3, ExtendsIsHeap DEF Extends
<1>5. CASE basic
  <2>1. PICK n : n = h[a]
    OBVIOUS
  <2>2. /\ n = [ref |-> n.ref, types |-> n.types, form |-> n.form, anyOf |-> n.anyOf,
                below |-> n.below, keywords |-> n.keywords]
        /\ Parts(n) \subseteq 1 .. a - 1
    BY <1>3, <1>4, <2>1 DEF IsHeap, Node
  <2>3. PICK m : m = [n EXCEPT !.types = @ \cup {"null"}, !.form = "[]string"]
    OBVIOUS
  <2>4. m = [ref |-> n.ref, types |-> n.types \cup {"null"}, form |-> "[]string", anyOf |-> n.anyOf,
             below |-> n.below, keywords |-> n.keywords]
    BY <2>2, <2>3
  <2>5. Node(m) /\ Parts(m) = Parts(n)
    BY <2>4 DEF Node, Parts, Forms
  <2>6. \A j \in Parts(n) : j > Len(b) \/ j \in OfPointers
    <3>1. CASE a > Len(b)
      <4>1. a \in Len(b) + 1 .. Len(h)
        BY <1>3, <1>4, <3>1
      <4> QED
        BY <1>3, <2>1, <4>1 DEF Extends
    <3>2. CASE a \in OfPointers
      <4>1. a \in 1 .. Len(b) /\ \A j \in Parts(b[a]) : j \in OfPointers
        BY <3>2 DEF OfPointersClosed
      <4>2. h[a] = b[a]
        BY <1>3, <4>1 DEF Extends
      <4> QED
        BY <2>1, <4>1, <4>2
    <3> QED
      BY <1>3, <3>1, <3>2
  <2>7. PICK g : g = Append(h, m)
    OBVIOUS
  <2>8. Parts(m) \subseteq 1 .. Len(h)
    BY <1>3, <1>4, <2>2, <2>5
  <2>9. Extends(g, b) /\ Len(g) > Len(b)
    <3>1. Extends(g, b)
      BY <1>3, <2>5, <2>6, <2>7, <2>8, AppendExtends
    <3>2. Len(g) = Len(h) + 1
      BY <1>4, <2>7, Appended
    <3> QED
      BY <1>4, <3>1, <3>2
  <2>10. NamedPointer(s, basic) = Made(g)
    BY <1>1, <1>2, <1>5, <2>1, <2>3, <2>7 DEF NamedPointer
  <2>11. Untagged(g, b)
    <3>1. Untagged(h, b)
      BY <1>1 DEF Conv
    <3>2. m.keywords = n.keywords
      BY <2>4
    <3>3. n.keywords \subseteq ConfiguredKeywords
      <4>1. CASE a > Len(b)
        <5>1. a \in Len(b) + 1 .. Len(h)
          BY <1>3, <1>4, <4>1
        <5> QED
          BY <2>1, <3>1, <5>1 DEF Untagged
      <4>2. CASE a \in OfPointers
        <5>1. a \in 1 .. Len(b) /\ b[a].keywords \subseteq ConfiguredKeywords
          BY <4>2 DEF OfPointersClosed
        <5>2. h[a] = b[a]
          BY <1>3, <5>1 DEF Extends
        <5> QED
          BY <2>1, <5>1, <5>2
      <4> QED
        BY <1>3, <4>1, <4>2
    <3> QED
      BY <1>3, <2>7, <3>1, <3>2, <3>3, AppendUntagged
  <2> QED
    BY <2>9, <2>10, <2>11, MadeConv
<1>6. CASE ~basic
  BY <1>6, NullableConv DEF NamedPointer
<1> QED
  BY <1>5, <1>6

LEMMA ListConv ==
    ASSUME NEW b, IsHeap(b), NEW place, NEW s, Conv(s, b, place)
    PROVE  Conv(Made(Append(s.heap, ArrayOf(s.at))), b, place)
<1>1. PICK h : h = s.heap
  OBVIOUS
<1>2. PICK a : a = s.at
  OBVIOUS
<1>3. Extends(h, b) /\ a \in 1 .. Len(h) /\ (a > Len(b) \/ a \in OfPointers)
  BY <1>1, <1>2 DEF Conv
<1>4. IsSeq(h) /\ Len(h) \in Nat /\ Len(b) \in Nat /\ Len(b) <= Len(h)
  BY <1>3, ExtendsIsHeap DEF Extends
<1>5. PICK n : n = ArrayOf(a)
  OBVIOUS
<1>6. Node(n) /\ Parts(n) = {a}
  BY <1>5, Nodes
<1>7. PICK g : g = Append(h, n)
  OBVIOUS
<1>8. Extends(g, b) /\ Len(g) > Len(b)
  <2>1. Parts(n) \subseteq 1 .. Len(h) /\ \A j \in Parts(n) : j > Len(b) \/ j \in OfPointers
    BY <1>3, <1>6
  <2>2. Extends(g, b)
    BY <1>3, <1>6, <1>7, <2>1, AppendExtends
  <2>3. Len(g) = Len(h) + 1
    BY <1>4, <1>7, Appended
  <2> QED
    BY <1>4, <2>2, <2>3
<1>9. Made(g) = Made(Append(s.heap, ArrayOf(s.at)))
  BY <1>1, <1>2, <1>5, <1>7
<1>10. Untagged(g, b)
  <2>1. Untagged(h, b) /\ n.keywords = {}
    BY <1>1, <1>5 DEF Conv, ArrayOf, Plain, Empty
  <2> QED
    BY <1>3, <1>7, <2>1, AppendUntagged
<1> QED
  BY <1>8, <1>9, <1>10, MadeConv

WrapOf(u, s, w, x) ==
    IF w = "list" THEN Made(Append(x.heap, ArrayOf(x.at)))
    ELSE IF u.place \in Written THEN WrittenPointer(x)
    ELSE NamedPointer(x, u.name \in DOMAIN GoTypes /\ x.at = s.at)

Wrapping(u, s, wraps, W, l) ==
    W = [i \in 0 .. l |-> IF i = 0 THEN s ELSE WrapOf(u, s, wraps[Len(wraps) + 1 - i], W[i - 1])]

LEMMA WrapOfConv ==
    ASSUME NEW b, IsHeap(b), OfPointersClosed(b), NEW u, NEW s, NEW w, NEW x, Conv(x, b, u.place)
    PROVE  Conv(WrapOf(u, s, w, x), b, u.place)
<1>1. CASE w = "list"
  BY <1>1, ListConv DEF WrapOf
<1>2. CASE w # "list" /\ u.place \in Written
  BY <1>2, WrittenPointerConv DEF WrapOf
<1>3. CASE w # "list" /\ u.place \notin Written
  BY <1>3, NamedPointerConv DEF WrapOf
<1> QED
  BY <1>1, <1>2, <1>3

LEMMA WrappingExists ==
    ASSUME NEW u, NEW s, NEW wraps, NEW l \in Nat
    PROVE  \E W : Wrapping(u, s, wraps, W, l)
<1> DEFINE S == {k \in Nat : \E W : Wrapping(u, s, wraps, W, k)}
<1>1. 0 \in S
  <2>1. Wrapping(u, s, wraps, [i \in 0 .. 0 |-> s], 0)
    BY DEF Wrapping
  <2> QED
    BY <2>1
<1>2. ASSUME NEW k \in S PROVE k + 1 \in S
  <2>1. k \in Nat
    OBVIOUS
  <2>2. PICK W : Wrapping(u, s, wraps, W, k)
    OBVIOUS
  <2> DEFINE V == [i \in 0 .. k + 1 |->
                      IF i = k + 1 THEN WrapOf(u, s, wraps[Len(wraps) + 1 - i], W[k]) ELSE W[i]]
  <2>3. ASSUME NEW i \in 0 .. k + 1
        PROVE  V[i] = IF i = 0 THEN s ELSE WrapOf(u, s, wraps[Len(wraps) + 1 - i], V[i - 1])
    <3>1. CASE i = k + 1
      <4>1. i # 0 /\ i - 1 = k /\ k \in 0 .. k + 1 /\ k # k + 1
        BY <2>1, <3>1
      <4>2. V[k] = W[k] /\ V[i] = WrapOf(u, s, wraps[Len(wraps) + 1 - i], W[k])
        BY <3>1, <4>1
      <4> QED
        BY <4>1, <4>2
    <3>2. CASE i # k + 1
      <4>1. i \in 0 .. k /\ V[i] = W[i]
        BY <2>1, <3>2
      <4>2. i # 0 => i - 1 \in 0 .. k + 1 /\ i - 1 # k + 1
        BY <2>1
      <4>3. i # 0 => V[i - 1] = W[i - 1]
        BY <4>2
      <4>4. W[i] = IF i = 0 THEN s ELSE WrapOf(u, s, wraps[Len(wraps) + 1 - i], W[i - 1])
        BY <2>2, <4>1 DEF Wrapping
      <4> HIDE DEF V
      <4> QED
        BY <4>1, <4>3, <4>4
    <3> QED
      BY <3>1, <3>2
  <2>4. V = [i \in 0 .. k + 1 |-> V[i]]
    OBVIOUS
  <2> HIDE DEF V
  <2>5. Wrapping(u, s, wraps, V, k + 1)
    BY <2>3, <2>4 DEF Wrapping
  <2> QED
    BY <2>1, <2>5
<1>3. S = Nat
  BY <1>1, <1>2, NatSet
<1> QED
  BY <1>3

(* Wrapper by wrapper, from the innermost. *)
LEMMA WrappedBy ==
    ASSUME NEW b, IsHeap(b), OfPointersClosed(b), NEW u, NEW s, Conv(s, b, u.place),
           NEW wraps, Len(wraps) \in Nat
    PROVE  \E W : /\ W[0] = s /\ Wrapped(u, s, wraps) = W[Len(wraps)]
                  /\ \A i \in 1 .. Len(wraps) : W[i] = WrapOf(u, s, wraps[Len(wraps) + 1 - i], W[i - 1])
                  /\ \A i \in 0 .. Len(wraps) : Conv(W[i], b, u.place)
<1> DEFINE W == CHOOSE w : w = [i \in 0 .. Len(wraps) |->
                IF i = 0 THEN s ELSE WrapOf(u, s, wraps[Len(wraps) + 1 - i], w[i - 1])]
<1>1. PICK w : Wrapping(u, s, wraps, w, Len(wraps))
  BY WrappingExists
<1>2. w = [i \in 0 .. Len(wraps) |->
              IF i = 0 THEN s ELSE WrapOf(u, s, wraps[Len(wraps) + 1 - i], w[i - 1])]
  BY <1>1 DEF Wrapping
<1>3. W = [i \in 0 .. Len(wraps) |->
              IF i = 0 THEN s ELSE WrapOf(u, s, wraps[Len(wraps) + 1 - i], W[i - 1])]
  BY <1>2
<1>4. Wrapped(u, s, wraps) = W[Len(wraps)]
  BY DEF Wrapped, WrapOf
<1> HIDE DEF W
<1>5. W[0] = s
  BY <1>3
<1>6. \A i \in 1 .. Len(wraps) : W[i] = WrapOf(u, s, wraps[Len(wraps) + 1 - i], W[i - 1])
  <2> SUFFICES ASSUME NEW i \in 1 .. Len(wraps)
               PROVE  W[i] = WrapOf(u, s, wraps[Len(wraps) + 1 - i], W[i - 1])
    OBVIOUS
  <2>1. i \in 0 .. Len(wraps) /\ i # 0
    OBVIOUS
  <2> QED
    BY <1>3, <2>1
<1> DEFINE T == {k \in Nat : k <= Len(wraps) => Conv(W[k], b, u.place)}
<1>7. T = Nat
  <2>1. 0 \in T
    BY <1>5
  <2>2. ASSUME NEW k \in T PROVE k + 1 \in T
    <3> SUFFICES ASSUME k + 1 <= Len(wraps) PROVE Conv(W[k + 1], b, u.place)
      OBVIOUS
    <3>1. PICK j : j = k + 1
      OBVIOUS
    <3>2. j \in 1 .. Len(wraps) /\ j - 1 = k /\ Conv(W[k], b, u.place)
      BY <3>1
    <3>3. Conv(WrapOf(u, s, wraps[Len(wraps) + 1 - j], W[k]), b, u.place)
      BY <3>2, WrapOfConv
    <3> QED
      BY <1>6, <3>1, <3>2, <3>3
  <2> QED
    BY <2>1, <2>2, NatSet
<1>8. \A i \in 0 .. Len(wraps) : Conv(W[i], b, u.place)
  <2> SUFFICES ASSUME NEW i \in 0 .. Len(wraps) PROVE Conv(W[i], b, u.place)
    OBVIOUS
  <2>1. i \in T /\ i <= Len(wraps)
    BY <1>7
  <2> QED
    BY <2>1
<1> QED
  BY <1>4, <1>5, <1>6, <1>8

LEMMA WrappedConv ==
    ASSUME NEW b, IsHeap(b), OfPointersClosed(b), NEW u, NEW s, Conv(s, b, u.place),
           NEW wraps, Len(wraps) \in Nat
    PROVE  Conv(Wrapped(u, s, wraps), b, u.place)
<1>1. Len(wraps) \in 0 .. Len(wraps)
  OBVIOUS
<1>2. PICK W : /\ W[0] = s /\ Wrapped(u, s, wraps) = W[Len(wraps)]
               /\ \A i \in 1 .. Len(wraps) : W[i] = WrapOf(u, s, wraps[Len(wraps) + 1 - i], W[i - 1])
               /\ \A i \in 0 .. Len(wraps) : Conv(W[i], b, u.place)
  BY WrappedBy
<1> QED
  BY <1>1, <1>2

-----------------------------------------------------------------------------
(* Without null: the parts of what is changed are parts of what was there.     *)

OnlyPart(h, n, j) == Kept(h, n) = {j} /\ n.ref = NoRef /\ NonNull(n).form = "nil" /\ n.below = {}
Denulling(D, h, o) ==
    D = [i \in 1 .. o |-> IF \E j \in h[i].anyOf : OnlyPart(h, h[i], j)
                          THEN D[CHOOSE j \in h[i].anyOf : OnlyPart(h, h[i], j)]
                          ELSE [NonNull(h[i]) EXCEPT !.anyOf = Kept(h, h[i])]]

LEMMA DenullingExists ==
    ASSUME NEW h, NEW o \in Nat, \A i \in 1 .. o : h[i].anyOf \subseteq 1 .. i - 1
    PROVE  \E D : Denulling(D, h, o)
<1> DEFINE S == {k \in Nat : k <= o => \E D : Denulling(D, h, k)}
<1>1. 0 \in S
  <2>1. Denulling([i \in 1 .. 0 |-> {}], h, 0)
    BY DEF Denulling
  <2> QED
    BY <2>1
<1>2. ASSUME NEW k \in S PROVE k + 1 \in S
  <2> SUFFICES ASSUME k + 1 <= o PROVE \E D : Denulling(D, h, k + 1)
    OBVIOUS
  <2>1. k \in Nat /\ k <= o
    OBVIOUS
  <2>2. PICK D : Denulling(D, h, k)
    BY <2>1
  <2> DEFINE Only(i) == \E j \in h[i].anyOf : OnlyPart(h, h[i], j)
             part(i) == CHOOSE j \in h[i].anyOf : OnlyPart(h, h[i], j)
             rest(i) == [NonNull(h[i]) EXCEPT !.anyOf = Kept(h, h[i])]
             V == [i \in 1 .. k + 1 |-> IF i = k + 1 THEN IF Only(i) THEN D[part(i)] ELSE rest(i) ELSE D[i]]
  <2>3. \A i \in 1 .. k : D[i] = IF Only(i) THEN D[part(i)] ELSE rest(i)
    BY <2>2 DEF Denulling
  <2>4. \A i \in 1 .. k + 1 : Only(i) => part(i) \in 1 .. i - 1
    <3>1. \A i \in 1 .. k + 1 : i \in 1 .. o
      BY <2>1
    <3>2. \A i \in 1 .. k + 1 : Only(i) => part(i) \in h[i].anyOf
      OBVIOUS
    <3> HIDE DEF part, Only
    <3> QED
      BY <3>1, <3>2
  <2> HIDE DEF Only, part, rest
  <2>5. ASSUME NEW i \in 1 .. k + 1 PROVE V[i] = IF Only(i) THEN V[part(i)] ELSE rest(i)
    <3>1. Only(i) => part(i) \in 1 .. k + 1 /\ part(i) # k + 1
      BY <2>1, <2>4
    <3>2. Only(i) => V[part(i)] = D[part(i)]
      BY <3>1
    <3>3. i # k + 1 => i \in 1 .. k
      BY <2>1
    <3>4. V[i] = IF Only(i) THEN D[part(i)] ELSE rest(i)
      BY <2>3, <3>3
    <3> HIDE DEF V
    <3> QED
      BY <3>2, <3>4
  <2>6. V = [i \in 1 .. k + 1 |-> V[i]]
    OBVIOUS
  <2> HIDE DEF V
  <2>7. V = [i \in 1 .. k + 1 |-> IF Only(i) THEN V[part(i)] ELSE rest(i)]
    BY <2>5, <2>6
  <2>8. Denulling(V, h, k + 1)
    BY <2>7 DEF Denulling, Only, part, rest
  <2> QED
    BY <2>8
<1>3. S = Nat
  BY <1>1, <1>2, NatSet
<1>4. o \in S /\ o <= o
  BY <1>3
<1> QED
  BY <1>4

LEMMA DenulledNode ==
    ASSUME NEW h, NEW n, Node(n), NEW m, m = [NonNull(n) EXCEPT !.anyOf = Kept(h, n)]
    PROVE  Node(m) /\ Parts(m) \subseteq Parts(n) /\ Kept(h, n) \subseteq n.anyOf
<1>1. n = [ref |-> n.ref, types |-> n.types, form |-> n.form, anyOf |-> n.anyOf,
           below |-> n.below, keywords |-> n.keywords]
  BY DEF Node
<1>2. Kept(h, n) \subseteq n.anyOf
  BY DEF Kept
<1>3. CASE n.form \notin {"[]string", "[]any"}
  <2>1. m = [n EXCEPT !.anyOf = Kept(h, n)]
    BY <1>3 DEF NonNull
  <2>2. m = [ref |-> n.ref, types |-> n.types, form |-> n.form, anyOf |-> Kept(h, n),
             below |-> n.below, keywords |-> n.keywords]
    BY <1>1, <2>1
  <2>3. Node(m)
    <3>1. m = [ref |-> m.ref, types |-> m.types, form |-> m.form, anyOf |-> m.anyOf,
               below |-> m.below, keywords |-> m.keywords]
      BY <2>2
    <3>2. m.types = n.types /\ m.form = n.form
      BY <2>2
    <3> HIDE <1>3
    <3> QED
      BY <3>1, <3>2 DEF Node
  <2>4. Parts(m) \subseteq Parts(n)
    BY <1>2, <2>2 DEF Parts
  <2> QED
    BY <1>2, <2>3, <2>4
<1>4. CASE n.form \in {"[]string", "[]any"}
  <2>1. PICK types : types = n.types \ {"null"}
    OBVIOUS
  <2>2. PICK form : form = IF types = {} THEN "nil" ELSE IF \E t \in types : types = {t} THEN "string" ELSE n.form
    OBVIOUS
  <2>3. NonNull(n) = [n EXCEPT !.types = types, !.form = form]
    BY <1>4, <2>1, <2>2 DEF NonNull
  <2>4. m = [ref |-> n.ref, types |-> types, form |-> form, anyOf |-> Kept(h, n),
             below |-> n.below, keywords |-> n.keywords]
    BY <1>1, <2>3
  <2>5. /\ form \in Forms /\ (form = "nil" => types = {})
        /\ form = "string" => \E t \in types : types = {t}
    BY <1>4, <2>2 DEF Forms
  <2>6. Node(m)
    <3>1. m = [ref |-> m.ref, types |-> m.types, form |-> m.form, anyOf |-> m.anyOf,
               below |-> m.below, keywords |-> m.keywords]
      BY <2>4
    <3>2. m.types = types /\ m.form = form
      BY <2>4
    <3> QED
      BY <2>5, <3>1, <3>2 DEF Node
  <2>7. Parts(m) \subseteq Parts(n)
    BY <1>2, <2>4 DEF Parts
  <2> QED
    BY <1>2, <2>6, <2>7
<1> QED
  BY <1>3, <1>4

(* What is rewritten is what is kept, from the whole on. *)
Rewriting(R, D, h, o) ==
    /\ Denulled(h, o) = [i \in DOMAIN h |-> IF i \in R THEN D[i] ELSE h[i]]
    /\ Denulling(D, h, o)
    /\ o \in R /\ R \subseteq 1 .. o /\ \A x \in R : Kept(h, h[x]) \subseteq R
    /\ \A S : o \in S /\ (\A x \in S \cap (1 .. o) : Kept(h, h[x]) \subseteq S) => R \subseteq S

LEMMA DenulledBy ==
    ASSUME NEW h, IsHeap(h), NEW o \in 1 .. Len(h)
    PROVE  \E R, D : Rewriting(R, D, h, o)
<1>1. Len(h) \in Nat /\ o \in Nat /\ o \in 1 .. o
  BY DEF IsHeap, IsSeq
<1>2. \A i \in 1 .. o : h[i].anyOf \subseteq 1 .. i - 1 /\ Kept(h, h[i]) \subseteq 1 .. i - 1
  <2> SUFFICES ASSUME NEW i \in 1 .. o PROVE h[i].anyOf \subseteq 1 .. i - 1 /\ Kept(h, h[i]) \subseteq 1 .. i - 1
    OBVIOUS
  <2>1. i \in 1 .. Len(h)
    BY <1>1
  <2>2. Parts(h[i]) \subseteq 1 .. i - 1
    BY <2>1 DEF IsHeap
  <2>3. h[i].anyOf \subseteq Parts(h[i]) /\ Kept(h, h[i]) \subseteq h[i].anyOf
    BY DEF Parts, Kept
  <2> QED
    BY <2>2, <2>3
<1> DEFINE P == [i \in 1 .. o |-> Kept(h, h[i])]
           R == CHOOSE r : r = [i \in 1 .. o |-> {i} \cup UNION {r[j] : j \in Kept(h, h[i])}]
           D == CHOOSE d : d = [i \in 1 .. o |-> IF \E j \in h[i].anyOf : OnlyPart(h, h[i], j)
                          THEN d[CHOOSE j \in h[i].anyOf : OnlyPart(h, h[i], j)]
                          ELSE [NonNull(h[i]) EXCEPT !.anyOf = Kept(h, h[i])]]
<1>3. Denulled(h, o) = [i \in DOMAIN h |-> IF i \in R[o] THEN D[i] ELSE h[i]]
  BY DEF Denulled, OnlyPart
<1>4. Older(P, o)
  BY <1>2 DEF Older
<1>5. Reaching(R, P, o)
  <2>1. PICK r : Reaching(r, P, o)
    BY <1>1, <1>4, ReachingExists
  <2>2. r = [i \in 1 .. o |-> {i} \cup UNION {r[j] : j \in Kept(h, h[i])}]
    BY <2>1 DEF Reaching
  <2>3. R = [i \in 1 .. o |-> {i} \cup UNION {R[j] : j \in Kept(h, h[i])}]
    BY <2>2
  <2> HIDE DEF R
  <2> QED
    BY <2>3 DEF Reaching
<1> HIDE DEF R
<1>6. \A x \in 1 .. o : P[x] = Kept(h, h[x])
  OBVIOUS
<1> HIDE DEF P
<1>7. Denulling(D, h, o)
  <2>1. PICK d : Denulling(d, h, o)
    BY <1>1, <1>2, DenullingExists
  <2>2. d = [i \in 1 .. o |-> IF \E j \in h[i].anyOf : OnlyPart(h, h[i], j)
                          THEN d[CHOOSE j \in h[i].anyOf : OnlyPart(h, h[i], j)]
                          ELSE [NonNull(h[i]) EXCEPT !.anyOf = Kept(h, h[i])]]
    BY <2>1 DEF Denulling
  <2>3. D = [i \in 1 .. o |-> IF \E j \in h[i].anyOf : OnlyPart(h, h[i], j)
                          THEN D[CHOOSE j \in h[i].anyOf : OnlyPart(h, h[i], j)]
                          ELSE [NonNull(h[i]) EXCEPT !.anyOf = Kept(h, h[i])]]
    BY <2>2
  <2> HIDE DEF D
  <2> QED
    BY <2>3 DEF Denulling
<1> HIDE DEF D
<1>8. /\ o \in R[o] /\ R[o] \subseteq 1 .. o /\ \A x \in R[o] : P[x] \subseteq R[o]
      /\ \A S : o \in S /\ (\A x \in S \cap (1 .. o) : P[x] \subseteq S) => R[o] \subseteq S
  BY <1>1, <1>4, <1>5, ReachingFacts
<1>9. \A x \in R[o] : Kept(h, h[x]) \subseteq R[o]
  BY <1>6, <1>8
<1>10. \A S : o \in S /\ (\A x \in S \cap (1 .. o) : Kept(h, h[x]) \subseteq S) => R[o] \subseteq S
  BY <1>6, <1>8
<1>11. Rewriting(R[o], D, h, o)
  BY <1>3, <1>7, <1>8, <1>9, <1>10 DEF Rewriting
<1> QED
  BY <1>11

LEMMA DenulledExtends ==
    ASSUME NEW b, IsHeap(b), NEW h, Extends(h, b),
           \A i \in Len(b) + 1 .. Len(h) : Parts(h[i]) \subseteq Len(b) + 1 .. i - 1,
           NEW o \in Len(b) + 1 .. Len(h)
    PROVE  Extends(Denulled(h, o), b) /\ Len(Denulled(h, o)) = Len(h)
<1>1. /\ IsHeap(h) /\ IsSeq(h) /\ Len(h) \in Nat /\ Len(b) \in Nat /\ Len(b) <= Len(h)
      /\ DOMAIN h = 1 .. Len(h) /\ o \in Nat /\ o \in 1 .. o /\ o <= Len(h)
  <2>1. IsHeap(h) /\ IsSeq(h) /\ Len(h) \in Nat /\ Len(b) \in Nat /\ Len(b) <= Len(h)
    BY ExtendsIsHeap DEF Extends
  <2> QED
    BY <2>1 DEF IsSeq
<1>2. \A i \in 1 .. o : i \in 1 .. Len(h) /\ Node(h[i]) /\ Parts(h[i]) \subseteq 1 .. i - 1
  BY <1>1 DEF IsHeap
<1>3. \A i \in 1 .. o : h[i].anyOf \subseteq Parts(h[i]) /\ Kept(h, h[i]) \subseteq h[i].anyOf
  BY DEF Parts, Kept
<1>4. PICK R, D : Rewriting(R, D, h, o)
  <2>1. o \in 1 .. Len(h)
    BY <1>1
  <2> QED
    BY <1>1, <2>1, DenulledBy
<1>5. R \subseteq Len(b) + 1 .. o
  <2>1. PICK S : S = Len(b) + 1 .. o
    OBVIOUS
  <2>2. o \in S
    BY <1>1, <2>1
  <2>3. \A x \in S \cap (1 .. o) : Kept(h, h[x]) \subseteq S
    <3> SUFFICES ASSUME NEW x \in S, x \in 1 .. o PROVE Kept(h, h[x]) \subseteq S
      OBVIOUS
    <3>1. x \in Len(b) + 1 .. Len(h)
      BY <1>1, <2>1
    <3>2. Kept(h, h[x]) \subseteq Len(b) + 1 .. x - 1
      BY <1>3, <3>1
    <3>3. \A j \in Len(b) + 1 .. x - 1 : j \in Len(b) + 1 .. o
      BY <1>1
    <3> QED
      BY <2>1, <3>2, <3>3
  <2> QED
    BY <1>4, <2>1, <2>2, <2>3 DEF Rewriting
<1> DEFINE Good(i) == Node(D[i]) /\ Parts(D[i]) \subseteq Len(b) + 1 .. i - 1
           T == {k \in Nat : \A i \in Len(b) + 1 .. k : i <= o => Good(i)}
<1> HIDE DEF Good
<1>6. T = Nat
  <2>1. 0 \in T
    BY <1>1
  <2>2. ASSUME NEW k \in T PROVE k + 1 \in T
    <3>1. k \in Nat /\ \A i \in Len(b) + 1 .. k : i <= o => Good(i)
      OBVIOUS
    <3>2. ASSUME k + 1 <= o, Len(b) + 1 <= k + 1 PROVE Good(k + 1)
      <4>1. PICK i : i = k + 1
        OBVIOUS
      <4>2. i \in 1 .. o /\ i \in Len(b) + 1 .. Len(h)
        BY <1>1, <3>1, <3>2, <4>1
      <4>3. Parts(h[i]) \subseteq Len(b) + 1 .. i - 1 /\ Node(h[i])
        BY <1>2, <4>2
      <4>4. CASE \E j \in h[i].anyOf : OnlyPart(h, h[i], j)
        <5>1. PICK j : j = CHOOSE x \in h[i].anyOf : OnlyPart(h, h[i], x)
          OBVIOUS
        <5>2. j \in h[i].anyOf /\ D[i] = D[j]
          BY <1>4, <4>2, <4>4, <5>1 DEF Rewriting, Denulling
        <5>3. j \in Len(b) + 1 .. i - 1
          BY <1>3, <4>2, <4>3, <5>2
        <5>4. j \in Len(b) + 1 .. k /\ j <= o
          BY <1>1, <3>1, <3>2, <4>1, <5>3
        <5>5. Good(j)
          BY <3>1, <5>4
        <5>6. \A x \in Len(b) + 1 .. j - 1 : x \in Len(b) + 1 .. i - 1
          BY <1>1, <4>2, <5>3
        <5>7. Good(i)
          BY <5>2, <5>5, <5>6 DEF Good
        <5> QED
          BY <4>1, <5>7
      <4>5. CASE ~\E j \in h[i].anyOf : OnlyPart(h, h[i], j)
        <5>1. D[i] = [NonNull(h[i]) EXCEPT !.anyOf = Kept(h, h[i])]
          BY <1>4, <4>2, <4>5 DEF Rewriting, Denulling
        <5>2. PICK n : n = h[i]
          OBVIOUS
        <5>3. PICK m : m = D[i]
          OBVIOUS
        <5>4. m = [NonNull(n) EXCEPT !.anyOf = Kept(h, n)] /\ Node(n)
          BY <4>3, <5>1, <5>2, <5>3
        <5>5. Node(m) /\ Parts(m) \subseteq Parts(n)
          BY <5>4, DenulledNode
        <5>6. Good(i)
          BY <4>3, <5>2, <5>3, <5>5 DEF Good
        <5> QED
          BY <4>1, <5>6
      <4> QED
        BY <4>4, <4>5
    <3>3. \A i \in Len(b) + 1 .. k + 1 : i \in Len(b) + 1 .. k \/ (i = k + 1 /\ Len(b) + 1 <= k + 1)
      BY <1>1, <3>1
    <3> QED
      BY <3>1, <3>2, <3>3
  <2> QED
    BY <2>1, <2>2, NatSet
<1>7. \A i \in Len(b) + 1 .. o : Good(i)
  <2> SUFFICES ASSUME NEW i \in Len(b) + 1 .. o PROVE Good(i)
    OBVIOUS
  <2>1. i \in T /\ i \in Len(b) + 1 .. i /\ i <= o
    BY <1>1, <1>6
  <2> QED
    BY <2>1
<1>8. PICK g : g = Denulled(h, o)
  OBVIOUS
<1>9. \A i \in 1 .. Len(h) : g[i] = IF i \in R THEN D[i] ELSE h[i]
  BY <1>1, <1>4, <1>8 DEF Rewriting
<1>10. IsSeq(g) /\ Len(g) = Len(h)
  <2>1. DOMAIN g = 1 .. Len(h) /\ g = [i \in 1 .. Len(h) |-> g[i]]
    BY <1>1, <1>4, <1>8 DEF Rewriting
  <2> QED
    BY <1>1, <2>1, FunctionIsSeq
<1>11. \A i \in 1 .. Len(b) : g[i] = b[i]
  <2>1. \A i \in 1 .. Len(b) : i \in 1 .. Len(h) /\ i \notin R /\ h[i] = b[i]
    BY <1>1, <1>5 DEF Extends
  <2> QED
    BY <1>9, <2>1
<1>12. ASSUME NEW i \in Len(b) + 1 .. Len(g)
       PROVE  /\ Node(g[i]) /\ Parts(g[i]) \subseteq 1 .. i - 1
              /\ \A j \in Parts(g[i]) : j > Len(b) \/ j \in OfPointers
  <2>1. i \in Len(b) + 1 .. Len(h) /\ i \in 1 .. Len(h)
    BY <1>1, <1>10
  <2>2. Node(g[i]) /\ Parts(g[i]) \subseteq Len(b) + 1 .. i - 1
    <3>1. CASE i \in R
      <4>1. Good(i) /\ g[i] = D[i]
        BY <1>5, <1>7, <1>9, <2>1, <3>1
      <4> QED
        BY <4>1 DEF Good
    <3>2. CASE i \notin R
      <4>1. g[i] = h[i]
        BY <1>9, <2>1, <3>2
      <4> QED
        BY <1>1, <2>1, <4>1 DEF IsHeap
    <3> QED
      BY <3>1, <3>2
  <2>3. \A j \in Len(b) + 1 .. i - 1 : j \in 1 .. i - 1 /\ j > Len(b)
    BY <1>1
  <2> QED
    BY <2>2, <2>3
<1>13. Extends(g, b)
  BY <1>1, <1>10, <1>11, <1>12 DEF Extends
<1> QED
  BY <1>8, <1>10, <1>13

-----------------------------------------------------------------------------
(* The inductive invariant.  Whatever is new is made of new objects and of the *)
(* schemas of pointers, and the configured schemas are as configured but for   *)
(* $refs of the latter.  What a generator has stored is the last object of a   *)
(* region of copies, into which nothing else refers.                           *)

Fresh(i) == i > Len(Configured) \/ i \in OfPointers

HeapOK(h) ==
    /\ IsHeap(h) /\ Len(Configured) <= Len(h)
    /\ \A i \in Len(Configured) + 1 .. Len(h) : \A j \in Parts(h[i]) : Fresh(j)

ConfOK(h) ==
    \A i \in 1 .. Len(Configured) :
        \/ h[i] = Configured[i]
        \/ i \in OfPointers /\ h[i] = [Configured[i] EXCEPT !.ref = h[i].ref]

Region(at, k) == at - k + 1 .. at

RegionOK(h, at, k) ==
    /\ Len(Configured) <= at - k /\ at <= Len(h)
    /\ \A i \in 1 .. Len(h) : i \notin Region(at, k) => Parts(h[i]) \cap Region(at, k) = {}

CopyOf(h, at, k) ==
    \A i \in 1 .. k :
        /\ h[at - k + i].types = Configured[i].types /\ h[at - k + i].keywords = Configured[i].keywords
        /\ i \notin OfPointers => h[at - k + i].ref = Configured[i].ref

TypeInv ==
    /\ stored \in [Generators -> [DOMAIN KnownAt -> Nat]]
    /\ object \in [Uses -> Nat]
    /\ stage \in [Uses -> {"todo", "converted", "wrapped", "done"}]
    /\ finished \subseteq Generators

ObjectInv ==
    \A u \in Uses : stage[u] # "todo" =>
        /\ object[u] \in 1 .. Len(heap) /\ Fresh(object[u])
        /\ u.place \in Written => object[u] > Len(Configured)

StoredAt(g, n) ==
    /\ RegionOK(heap, stored[g][n], KnownAt[n])
    /\ \A u \in Uses : stage[u] # "todo" => object[u] \notin Region(stored[g][n], KnownAt[n])
    /\ \A f \in Generators : \A m \in DOMAIN KnownAt :
          stored[f][m] # 0 /\ (f # g \/ m # n) => stored[f][m] \notin Region(stored[g][n], KnownAt[n])
    /\ g \notin finished => CopyOf(heap, stored[g][n], KnownAt[n])

StoredInv == \A g \in Generators : \A n \in DOMAIN KnownAt : stored[g][n] # 0 => StoredAt(g, n)

IInv == HeapOK(heap) /\ ConfOK(heap) /\ TypeInv /\ ObjectInv /\ StoredInv

LEMMA ConfiguredFacts ==
    /\ Len(Configured) \in Nat /\ IsHeap(Configured)
    /\ \A n \in DOMAIN KnownAt :
          KnownAt[n] \in 1 .. Len(Configured) /\ Reach(Configured, KnownAt[n]) \subseteq 1 .. KnownAt[n]
    /\ \A n \in DOMAIN PointerAt : PointerAt[n] \in OfPointers
    /\ OfPointers \subseteq 1 .. Len(Configured)
    /\ \A i \in OfPointers : Parts(Configured[i]) \subseteq OfPointers
<1>1. Configured \in Seq(Range(Configured))
  BY ConfiguredAssumption
<1>2. IsSeq(Configured) /\ Len(Configured) \in Nat /\ DOMAIN Configured = 1 .. Len(Configured)
  BY <1>1 DEF IsSeq
<1>3. IsHeap(Configured)
  BY <1>2, ConfiguredAssumption DEF IsHeap
<1>4. ASSUME NEW o \in 1 .. Len(Configured)
      PROVE  /\ o \in Reach(Configured, o) /\ Reach(Configured, o) \subseteq 1 .. o
             /\ \A x \in Reach(Configured, o) : Parts(Configured[x]) \subseteq Reach(Configured, o)
  <2>1. o \in Nat \ {0} /\ \A i \in 1 .. o : Parts(Configured[i]) \subseteq 1 .. i - 1
    BY <1>2, <1>3 DEF IsHeap
  <2> QED
    BY <2>1, ReachFacts
<1>5. \A n \in DOMAIN KnownAt :
          KnownAt[n] \in 1 .. Len(Configured) /\ Reach(Configured, KnownAt[n]) \subseteq 1 .. KnownAt[n]
  BY <1>2, <1>4, ConfiguredAssumption
<1>6. \A n \in DOMAIN PointerAt : PointerAt[n] \in 1 .. Len(Configured)
  BY <1>2, ConfiguredAssumption
<1>7. \A n \in DOMAIN PointerAt : PointerAt[n] \in OfPointers
  BY <1>4, <1>6 DEF OfPointers
<1>8. OfPointers \subseteq 1 .. Len(Configured)
  <2> SUFFICES ASSUME NEW i \in OfPointers PROVE i \in 1 .. Len(Configured)
    OBVIOUS
  <2>1. PICK n \in DOMAIN PointerAt : i \in Reach(Configured, PointerAt[n])
    BY DEF OfPointers
  <2>2. i \in 1 .. PointerAt[n] /\ PointerAt[n] \in 1 .. Len(Configured)
    BY <1>4, <1>6, <2>1
  <2> QED
    BY <1>2, <2>2
<1>9. ASSUME NEW i \in OfPointers PROVE Parts(Configured[i]) \subseteq OfPointers
  <2>1. PICK n \in DOMAIN PointerAt : i \in Reach(Configured, PointerAt[n])
    BY DEF OfPointers
  <2>2. Parts(Configured[i]) \subseteq Reach(Configured, PointerAt[n])
    BY <1>4, <1>6, <2>1
  <2> QED
    BY <2>2 DEF OfPointers
<1> QED
  BY <1>2, <1>3, <1>5, <1>7, <1>8, <1>9

(* But for its $ref, a configured object is as configured. *)
LEMMA ConfiguredParts ==
    ASSUME NEW b, ConfOK(b), NEW i \in 1 .. Len(Configured)
    PROVE  /\ b[i].types = Configured[i].types /\ b[i].keywords = Configured[i].keywords
           /\ b[i].form = Configured[i].form /\ b[i].anyOf = Configured[i].anyOf
           /\ Parts(b[i]) = Parts(Configured[i])
           /\ i \notin OfPointers => b[i].ref = Configured[i].ref
<1>1. PICK n : n = Configured[i]
  OBVIOUS
<1>2. PICK m : m = b[i]
  OBVIOUS
<1>3. n = [ref |-> n.ref, types |-> n.types, form |-> n.form, anyOf |-> n.anyOf,
           below |-> n.below, keywords |-> n.keywords]
  BY <1>1, ConfiguredFacts DEF IsHeap, Node
<1>4. m = n \/ (i \in OfPointers /\ m = [n EXCEPT !.ref = m.ref])
  BY <1>1, <1>2 DEF ConfOK
<1>5. /\ m.types = n.types /\ m.keywords = n.keywords /\ m.form = n.form
      /\ m.anyOf = n.anyOf /\ m.below = n.below
  BY <1>3, <1>4
<1> QED
  BY <1>1, <1>2, <1>4, <1>5 DEF Parts

LEMMA GivenKeywords == \A i \in 1 .. Len(Configured) : Configured[i].keywords \subseteq ConfiguredKeywords
<1>1. DOMAIN Configured = 1 .. Len(Configured)
  BY ConfiguredFacts DEF IsHeap, IsSeq
<1> QED
  BY <1>1 DEF ConfiguredKeywords

LEMMA ClonedUntagged ==
    ASSUME NEW b, HeapOK(b), ConfOK(b), NEW o \in 1 .. Len(Configured), NEW h, h = Cloned(b, o)
    PROVE  Extends(h, b) /\ Untagged(h, b) /\ Len(h) = Len(b) + o /\ CloneOf(b, h, o)
<1>1. /\ IsHeap(b) /\ Len(b) \in Nat /\ Len(Configured) \in Nat /\ Len(Configured) <= Len(b)
  BY ConfiguredFacts DEF HeapOK, IsHeap, IsSeq
<1>2. o \in 1 .. Len(b) /\ Extends(b, b)
  BY <1>1, ExtendsItself
<1>3. Extends(h, b) /\ Len(h) = Len(b) + o /\ CloneOf(b, h, o)
  BY <1>1, <1>2, ClonedExtends, ClonedIs
<1>4. ASSUME NEW i \in Len(b) + 1 .. Len(h) PROVE h[i].keywords \subseteq ConfiguredKeywords
  <2>1. PICK k \in 1 .. o : i = Len(b) + k
    <3>1. i - Len(b) \in 1 .. o /\ i = Len(b) + (i - Len(b))
      BY <1>1, <1>3
    <3> QED
      BY <3>1
  <2>2. k \in 1 .. Len(Configured) /\ k \in 1 .. Len(b)
    BY <1>1, <2>1
  <2>3. PICK n : n = b[k]
    OBVIOUS
  <2>4. n = [ref |-> n.ref, types |-> n.types, form |-> n.form, anyOf |-> n.anyOf,
             below |-> n.below, keywords |-> n.keywords]
    BY <1>1, <2>2, <2>3 DEF IsHeap, Node
  <2>5. PICK c : c = h[i]
    OBVIOUS
  <2>6. c = [n EXCEPT !.anyOf = {Len(b) + j : j \in n.anyOf}, !.below = {Len(b) + j : j \in n.below}]
    BY <1>3, <2>1, <2>3, <2>5 DEF CloneOf
  <2>7. c.keywords = n.keywords
    BY <2>4, <2>6
  <2>8. n.keywords \subseteq ConfiguredKeywords
    BY <2>2, <2>3, ConfiguredParts, GivenKeywords
  <2> QED
    BY <2>5, <2>7, <2>8
<1> QED
  BY <1>3, <1>4 DEF Untagged

LEMMA Grown ==
    ASSUME NEW b, HeapOK(b), ConfOK(b), NEW h, Extends(h, b)
    PROVE  /\ HeapOK(h) /\ ConfOK(h)
           /\ Len(b) \in Nat /\ Len(h) \in Nat /\ Len(Configured) <= Len(b) /\ Len(b) <= Len(h)
<1>1. IsHeap(h) /\ Len(h) \in Nat /\ Len(b) \in Nat /\ Len(b) <= Len(h)
  BY ExtendsIsHeap DEF HeapOK, Extends
<1>2. Len(Configured) \in Nat /\ Len(Configured) <= Len(b)
  BY ConfiguredFacts DEF HeapOK
<1>3. ConfOK(h)
  <2>1. \A i \in 1 .. Len(Configured) : i \in 1 .. Len(b)
    BY <1>1, <1>2
  <2>2. \A i \in 1 .. Len(Configured) : h[i] = b[i]
    BY <2>1 DEF Extends
  <2> QED
    BY <2>2 DEF ConfOK
<1>4. ASSUME NEW i \in Len(Configured) + 1 .. Len(h), NEW j \in Parts(h[i]) PROVE Fresh(j)
  <2>1. CASE i <= Len(b)
    <3>1. i \in Len(Configured) + 1 .. Len(b) /\ i \in 1 .. Len(b)
      BY <1>1, <1>2, <2>1
    <3>2. h[i] = b[i]
      BY <3>1 DEF Extends
    <3> QED
      BY <3>1, <3>2 DEF HeapOK
  <2>2. CASE i > Len(b)
    <3>1. i \in Len(b) + 1 .. Len(h)
      BY <1>1, <1>2, <2>2
    <3>2. (j > Len(b) \/ j \in OfPointers) /\ j \in 1 .. i - 1
      BY <3>1 DEF Extends
    <3> QED
      BY <1>1, <1>2, <3>2 DEF Fresh
  <2> QED
    BY <1>1, <1>2, <2>1, <2>2
<1>5. HeapOK(h)
  BY <1>1, <1>2, <1>4 DEF HeapOK
<1> QED
  BY <1>1, <1>2, <1>3, <1>5

LEMMA PointersClosed ==
    ASSUME NEW b, HeapOK(b), ConfOK(b)
    PROVE  OfPointersClosed(b)
<1>1. \A i \in OfPointers : i \in 1 .. Len(Configured) /\ Parts(Configured[i]) \subseteq OfPointers
  BY ConfiguredFacts
<1>2. Len(Configured) \in Nat /\ Len(Configured) <= Len(b) /\ Len(b) \in Nat
  BY ConfiguredFacts DEF HeapOK, IsHeap, IsSeq
<1>3. \A i \in OfPointers : Parts(b[i]) \subseteq OfPointers
  BY <1>1, ConfiguredParts
<1>4. \A i \in 1 .. Len(Configured) : i \in 1 .. Len(b)
  BY <1>2
<1>5. \A i \in OfPointers : b[i].keywords \subseteq ConfiguredKeywords
  BY <1>1, ConfiguredParts, GivenKeywords
<1> QED
  BY <1>1, <1>3, <1>4, <1>5 DEF OfPointersClosed

(* Nothing new refers into a region of copies. *)
LEMMA RegionGrown ==
    ASSUME NEW b, HeapOK(b), ConfOK(b), NEW h, Extends(h, b),
           NEW at \in Nat, NEW k \in Nat \ {0}, RegionOK(b, at, k)
    PROVE  /\ RegionOK(h, at, k) /\ (CopyOf(b, at, k) => CopyOf(h, at, k))
           /\ \A i \in Region(at, k) : i > Len(Configured) /\ i <= Len(b) /\ i \notin OfPointers
           /\ Len(b) \in Nat
<1>1. /\ Len(b) \in Nat /\ Len(h) \in Nat /\ Len(Configured) \in Nat
      /\ Len(Configured) <= Len(b) /\ Len(b) <= Len(h) /\ IsHeap(h)
  BY Grown, ConfiguredFacts DEF HeapOK
<1>2. Len(Configured) <= at - k /\ at <= Len(b)
  BY DEF RegionOK
<1>3. \A i \in Region(at, k) : i > Len(Configured) /\ i <= Len(b) /\ i \in 1 .. Len(b)
  BY <1>1, <1>2 DEF Region
<1>4. \A i \in OfPointers : i \in 1 .. Len(Configured)
  BY ConfiguredFacts
<1>5. \A i \in Region(at, k) : i \notin OfPointers
  BY <1>1, <1>3, <1>4
<1>6. ASSUME NEW i \in 1 .. Len(h), i \notin Region(at, k) PROVE Parts(h[i]) \cap Region(at, k) = {}
  <2>1. CASE i <= Len(b)
    <3>1. i \in 1 .. Len(b)
      BY <1>1, <2>1
    <3>2. h[i] = b[i]
      BY <3>1 DEF Extends
    <3> QED
      BY <1>6, <3>1, <3>2 DEF RegionOK
  <2>2. CASE i > Len(b)
    <3>1. i \in Len(b) + 1 .. Len(h)
      BY <1>1, <2>2
    <3>2. \A j \in Parts(h[i]) : j \in Nat /\ (j > Len(b) \/ j \in OfPointers)
      <4>1. Parts(h[i]) \subseteq 1 .. i - 1
        BY <1>1 DEF IsHeap
      <4> QED
        BY <3>1, <4>1 DEF Extends
    <3> QED
      BY <1>1, <1>3, <1>5, <3>2
  <2> QED
    BY <1>1, <2>1, <2>2
<1>7. RegionOK(h, at, k)
  BY <1>1, <1>2, <1>6 DEF RegionOK
<1>8. ASSUME CopyOf(b, at, k) PROVE CopyOf(h, at, k)
  <2>1. \A i \in 1 .. k : at - k + i \in 1 .. Len(b)
    BY <1>1, <1>2
  <2>2. \A i \in 1 .. k : h[at - k + i] = b[at - k + i]
    BY <2>1 DEF Extends
  <2> QED
    BY <1>8, <2>2 DEF CopyOf
<1> QED
  BY <1>1, <1>3, <1>5, <1>7, <1>8

(* A clone of what is configured is a region, and a copy until $refs change. *)
LEMMA StoredCopy ==
    ASSUME NEW b, HeapOK(b), ConfOK(b), NEW n \in DOMAIN KnownAt, NEW h, h = Cloned(b, KnownAt[n])
    PROVE  /\ Extends(h, b) /\ Len(h) = Len(b) + KnownAt[n] /\ Len(b) \in Nat /\ KnownAt[n] \in Nat \ {0}
           /\ RegionOK(h, Len(h), KnownAt[n]) /\ CopyOf(h, Len(h), KnownAt[n])
           /\ \A i \in Region(Len(h), KnownAt[n]) : i > Len(b)
<1>1. PICK k : k = KnownAt[n]
  OBVIOUS
<1>2. /\ Len(Configured) \in Nat /\ k \in 1 .. Len(Configured) /\ Len(Configured) <= Len(b)
      /\ IsHeap(b) /\ Len(b) \in Nat
  BY <1>1, ConfiguredFacts DEF HeapOK, IsHeap, IsSeq
<1>3. k \in 1 .. Len(b) /\ k \in Nat \ {0}
  BY <1>2
<1>4. CloneOf(b, h, k)
  BY <1>1, <1>2, <1>3, ClonedIs
<1>5. Extends(b, b)
  BY <1>2, ExtendsItself
<1>6. Extends(h, b) /\ Len(h) = Len(b) + k
  BY <1>1, <1>2, <1>3, <1>5, ClonedExtends
<1>7. \A i \in Region(Len(h), k) : i > Len(b)
  BY <1>2, <1>3, <1>6 DEF Region
<1>8. RegionOK(h, Len(h), k)
  <2>1. ASSUME NEW i \in 1 .. Len(h), i \notin Region(Len(h), k) PROVE Parts(h[i]) \cap Region(Len(h), k) = {}
    <3>1. i \in 1 .. Len(b)
      BY <1>2, <1>3, <1>6, <2>1 DEF Region
    <3>2. h[i] = b[i] /\ Parts(b[i]) \subseteq 1 .. i - 1
      BY <1>2, <1>6, <3>1 DEF Extends, IsHeap
    <3>3. \A j \in 1 .. i - 1 : ~(j > Len(b))
      BY <1>2, <3>1
    <3> QED
      BY <1>7, <3>2, <3>3
  <2>2. Len(Configured) <= Len(h) - k /\ Len(h) <= Len(h)
    BY <1>2, <1>3, <1>6
  <2> QED
    BY <2>1, <2>2 DEF RegionOK
<1>9. CopyOf(h, Len(h), k)
  <2> SUFFICES ASSUME NEW i \in 1 .. k
               PROVE  /\ h[Len(h) - k + i].types = Configured[i].types
                      /\ h[Len(h) - k + i].keywords = Configured[i].keywords
                      /\ i \notin OfPointers => h[Len(h) - k + i].ref = Configured[i].ref
    BY DEF CopyOf
  <2>1. Len(h) - k + i = Len(b) + i /\ i \in 1 .. Len(Configured) /\ i \in 1 .. Len(b)
    BY <1>2, <1>3, <1>6
  <2>2. PICK p : p = b[i]
    OBVIOUS
  <2>3. p = [ref |-> p.ref, types |-> p.types, form |-> p.form, anyOf |-> p.anyOf,
             below |-> p.below, keywords |-> p.keywords]
    BY <1>2, <2>1, <2>2 DEF IsHeap, Node
  <2>4. PICK c : c = h[Len(b) + i]
    OBVIOUS
  <2>5. c = [p EXCEPT !.anyOf = {Len(b) + j : j \in p.anyOf}, !.below = {Len(b) + j : j \in p.below}]
    BY <1>4, <2>2, <2>4 DEF CloneOf
  <2>6. c.types = p.types /\ c.keywords = p.keywords /\ c.ref = p.ref
    BY <2>3, <2>5
  <2>7. p.types = Configured[i].types /\ p.keywords = Configured[i].keywords
    BY <2>1, <2>2, ConfiguredParts
  <2>8. i \notin OfPointers => p.ref = Configured[i].ref
    BY <2>1, <2>2, ConfiguredParts
  <2> QED
    BY <2>1, <2>4, <2>6, <2>7, <2>8
<1> QED
  BY <1>1, <1>2, <1>3, <1>6, <1>7, <1>8, <1>9

(* What a use has at first: a name's schema, or the one of a pointer. *)
LEMMA NameSchemaConv ==
    ASSUME NEW b, HeapOK(b), ConfOK(b), NEW n, NEW place
    PROVE  Conv(NameSchema(b, n), b, place)
<1>1. /\ IsHeap(b) /\ IsSeq(b) /\ Len(b) \in Nat /\ Extends(b, b)
      /\ Len(Configured) \in Nat /\ Len(Configured) <= Len(b)
  <2>1. IsHeap(b) /\ Len(Configured) <= Len(b)
    BY DEF HeapOK
  <2>2. IsSeq(b) /\ Len(b) \in Nat
    BY <2>1 DEF IsHeap, IsSeq
  <2>3. Extends(b, b)
    BY <2>1, ExtendsItself
  <2> QED
    BY <2>1, <2>2, <2>3, ConfiguredFacts
<1>2. ASSUME NEW node, Node(node), Parts(node) = {}, node.keywords = {} PROVE Conv(Made(Append(b, node)), b, place)
  <2>1. PICK h : h = Append(b, node)
    OBVIOUS
  <2>2. Extends(h, b)
    BY <1>1, <1>2, <2>1, AppendExtends
  <2>3. Len(h) > Len(b)
    BY <1>1, <2>1, Appended
  <2>4. Untagged(b, b)
    BY <1>1 DEF Untagged
  <2>5. Untagged(h, b)
    BY <1>1, <1>2, <2>1, <2>4, AppendUntagged
  <2> QED
    BY <1>1, <2>1, <2>2, <2>3, <2>5, MadeConv
<1>3. CASE n \in DOMAIN GoTypes
  <2>1. Node(Plain(GoTypes[n])) /\ Parts(Plain(GoTypes[n])) = {} /\ Plain(GoTypes[n]).keywords = {}
    BY Nodes DEF Plain, Empty
  <2>2. NameSchema(b, n) = Made(Append(b, Plain(GoTypes[n])))
    BY <1>3 DEF NameSchema
  <2> QED
    BY <1>2, <2>1, <2>2
<1>4. CASE n \notin DOMAIN GoTypes /\ n \in DOMAIN KnownAt
  <2>1. PICK h : h = Cloned(b, KnownAt[n])
    OBVIOUS
  <2>2. KnownAt[n] \in 1 .. Len(Configured)
    BY <1>4, ConfiguredFacts
  <2>3. Extends(h, b) /\ Untagged(h, b) /\ Len(h) = Len(b) + KnownAt[n]
    BY <2>1, <2>2, ClonedUntagged
  <2>4. Len(h) > Len(b)
    BY <1>1, <2>2, <2>3
  <2>5. NameSchema(b, n) = Made(h)
    BY <1>4, <2>1 DEF NameSchema
  <2> QED
    BY <1>1, <2>3, <2>4, <2>5, MadeConv
<1>5. CASE n \notin DOMAIN GoTypes /\ n \notin DOMAIN KnownAt
  <2>1. Node(Ref(n)) /\ Parts(Ref(n)) = {} /\ Ref(n).keywords = {}
    BY Nodes DEF Ref, Empty
  <2>2. NameSchema(b, n) = Made(Append(b, Ref(n)))
    BY <1>5 DEF NameSchema
  <2> QED
    BY <1>2, <2>1, <2>2
<1> QED
  BY <1>3, <1>4, <1>5

LEMMA PointerSchemaConv ==
    ASSUME HeapOK(heap), ConfOK(heap), NEW u, u.name \in DOMAIN PointerAt
    PROVE  Conv(PointerSchema(u), heap, u.place)
<1>1. PICK o : o = PointerAt[u.name]
  OBVIOUS
<1>2. /\ IsHeap(heap) /\ IsSeq(heap) /\ Len(heap) \in Nat /\ Extends(heap, heap)
      /\ Len(Configured) \in Nat /\ Len(Configured) <= Len(heap)
  <2>1. IsHeap(heap) /\ Len(Configured) <= Len(heap)
    BY DEF HeapOK
  <2>2. IsSeq(heap) /\ Len(heap) \in Nat
    BY <2>1 DEF IsHeap, IsSeq
  <2>3. Extends(heap, heap)
    BY <2>1, ExtendsItself
  <2> QED
    BY <2>1, <2>2, <2>3, ConfiguredFacts
<1>3. o \in OfPointers /\ o \in 1 .. Len(Configured) /\ o \in 1 .. Len(heap)
  <2>1. o \in OfPointers /\ o \in 1 .. Len(Configured)
    BY <1>1, ConfiguredFacts
  <2> QED
    BY <1>2, <2>1
<1>4. CASE u.place \in Written
  <2>1. PICK h : h = Cloned(heap, o)
    OBVIOUS
  <2>2. Extends(h, heap) /\ Untagged(h, heap) /\ Len(h) = Len(heap) + o
    BY <1>3, <2>1, ClonedUntagged
  <2>3. Len(h) > Len(heap)
    BY <1>2, <1>3, <2>2
  <2>4. PointerSchema(u) = Made(h)
    BY <1>1, <1>4, <2>1 DEF PointerSchema
  <2> QED
    BY <1>2, <2>2, <2>3, <2>4, MadeConv
<1>5. CASE u.place \notin Written
  <2>1. PICK s : s = [heap |-> heap, at |-> o]
    OBVIOUS
  <2>2. s.heap = heap /\ s.at = o /\ s = [heap |-> s.heap, at |-> s.at]
    BY <2>1
  <2>3. PointerSchema(u) = s
    BY <1>1, <1>5, <2>1 DEF PointerSchema
  <2>4. Untagged(heap, heap)
    BY <1>2 DEF Untagged
  <2>5. Conv(s, heap, u.place)
    BY <1>2, <1>3, <1>5, <2>2, <2>4 DEF Conv
  <2> QED
    BY <2>3, <2>5
<1> QED
  BY <1>4, <1>5

(* A step in which the heap grows: by a copy to store, or not, and then by a   *)
(* use's new object.                                                           *)
Stored(g, n, h) ==
    \/ h = heap /\ stored' = stored
    \/ /\ g \in Generators /\ n \in DOMAIN KnownAt /\ stored[g][n] = 0
       /\ h = Cloned(heap, KnownAt[n]) /\ stored' = [stored EXCEPT ![g][n] = Len(h)]

LEMMA Growing ==
    ASSUME IInv, NEW u \in Uses, NEW g, NEW n, NEW h, Stored(g, n, h), Extends(heap', h),
           NEW at, at \in 1 .. Len(heap'), at > Len(h) \/ (u.place \notin Written /\ at \in OfPointers),
           object' = [object EXCEPT ![u] = at],
           NEW x \in {"converted", "wrapped", "done"}, stage' = [stage EXCEPT ![u] = x],
           UNCHANGED finished
    PROVE  IInv'
<1>1. PICK hh : hh = heap'
  OBVIOUS
<1>2. HeapOK(heap) /\ ConfOK(heap) /\ TypeInv /\ ObjectInv /\ StoredInv
  BY DEF IInv
<1>3. /\ Extends(h, heap) /\ HeapOK(h) /\ ConfOK(h)
      /\ Len(heap) \in Nat /\ Len(h) \in Nat /\ Len(Configured) <= Len(heap) /\ Len(heap) <= Len(h)
  <2>1. Extends(h, heap)
    <3>1. CASE h = heap
      BY <1>2, <3>1, ExtendsItself DEF HeapOK
    <3>2. CASE n \in DOMAIN KnownAt /\ h = Cloned(heap, KnownAt[n])
      BY <1>2, <3>2, StoredCopy
    <3> QED
      BY <3>1, <3>2 DEF Stored
  <2> QED
    BY <1>2, <2>1, Grown
<1>4. HeapOK(hh) /\ ConfOK(hh) /\ Len(hh) \in Nat /\ Len(h) <= Len(hh) /\ Extends(hh, h)
  BY <1>1, <1>3, Grown
<1>5. Len(Configured) \in Nat /\ OfPointers \subseteq 1 .. Len(Configured)
  BY ConfiguredFacts
<1>6. PICK so : so = stored'
  OBVIOUS
<1>7. PICK ob : ob = object'
  OBVIOUS
<1>8. PICK sg : sg = stage'
  OBVIOUS
<1>9. /\ so \in [Generators -> [DOMAIN KnownAt -> Nat]]
      /\ ob \in [Uses -> Nat] /\ sg \in [Uses -> {"todo", "converted", "wrapped", "done"}]
  <2>1. at \in Nat
    BY <1>1, <1>4
  <2>2. ob \in [Uses -> Nat]
    BY <1>2, <1>7, <2>1 DEF TypeInv
  <2>3. sg \in [Uses -> {"todo", "converted", "wrapped", "done"}]
    BY <1>2, <1>8 DEF TypeInv
  <2>4. so \in [Generators -> [DOMAIN KnownAt -> Nat]]
    <3>1. CASE so = stored
      BY <1>2, <3>1 DEF TypeInv
    <3>2. CASE g \in Generators /\ n \in DOMAIN KnownAt /\ so = [stored EXCEPT ![g][n] = Len(h)]
      BY <1>2, <1>3, <3>2 DEF TypeInv
    <3> QED
      BY <1>6, <3>1, <3>2 DEF Stored
  <2> QED
    BY <2>2, <2>3, <2>4
<1>10. /\ ob[u] = at /\ sg[u] # "todo"
       /\ \A v \in Uses : v # u => ob[v] = object[v] /\ sg[v] = stage[v]
  BY <1>2, <1>7, <1>8 DEF TypeInv
<1>11. \A v \in Uses : sg[v] # "todo" =>
          /\ ob[v] \in 1 .. Len(hh) /\ Fresh(ob[v])
          /\ v.place \in Written => ob[v] > Len(Configured)
  <2> SUFFICES ASSUME NEW v \in Uses, sg[v] # "todo"
               PROVE  /\ ob[v] \in 1 .. Len(hh) /\ Fresh(ob[v])
                      /\ v.place \in Written => ob[v] > Len(Configured)
    OBVIOUS
  <2>1. CASE v = u
    BY <1>1, <1>3, <1>4, <1>5, <1>10, <2>1 DEF Fresh
  <2>2. CASE v # u
    <3>1. /\ object[v] \in 1 .. Len(heap) /\ Fresh(object[v]) /\ ob[v] = object[v]
          /\ v.place \in Written => object[v] > Len(Configured)
      BY <1>2, <1>10, <2>2 DEF ObjectInv
    <3> QED
      BY <1>3, <1>4, <3>1
  <2> QED
    BY <2>1, <2>2
<1>12. \A f \in Generators : \A m \in DOMAIN KnownAt :
          \/ so[f][m] = stored[f][m]
          \/ /\ f = g /\ m = n /\ so[f][m] = Len(h) /\ stored[g][n] = 0
             /\ h = Cloned(heap, KnownAt[n])
  <2>1. CASE so = stored
    BY <2>1
  <2>2. CASE /\ g \in Generators /\ n \in DOMAIN KnownAt /\ so = [stored EXCEPT ![g][n] = Len(h)]
             /\ stored[g][n] = 0 /\ h = Cloned(heap, KnownAt[n])
    BY <1>2, <2>2 DEF TypeInv
  <2> QED
    BY <1>6, <2>1, <2>2 DEF Stored
<1>13. ASSUME NEW f \in Generators, NEW m \in DOMAIN KnownAt, so[f][m] # 0
       PROVE  /\ RegionOK(hh, so[f][m], KnownAt[m])
              /\ \A v \in Uses : sg[v] # "todo" => ob[v] \notin Region(so[f][m], KnownAt[m])
              /\ \A e \in Generators : \A l \in DOMAIN KnownAt :
                    so[e][l] # 0 /\ (e # f \/ l # m) => so[e][l] \notin Region(so[f][m], KnownAt[m])
              /\ f \notin finished => CopyOf(hh, so[f][m], KnownAt[m])
  <2>0. KnownAt[m] \in Nat \ {0}
    BY <1>5, ConfiguredFacts
  <2>1. CASE so[f][m] = stored[f][m]
    <3>1. PICK a : a = stored[f][m]
      OBVIOUS
    <3>2. a \in Nat /\ a # 0 /\ StoredAt(f, m)
      BY <1>2, <1>13, <2>1, <3>1 DEF TypeInv, StoredInv
    <3>3. RegionOK(heap, a, KnownAt[m]) /\ (f \notin finished => CopyOf(heap, a, KnownAt[m]))
      BY <3>1, <3>2 DEF StoredAt
    <3>4. /\ RegionOK(h, a, KnownAt[m]) /\ (f \notin finished => CopyOf(h, a, KnownAt[m]))
          /\ \A i \in Region(a, KnownAt[m]) : i > Len(Configured) /\ i <= Len(heap) /\ i \notin OfPointers
      BY <1>2, <1>3, <2>0, <3>2, <3>3, RegionGrown
    <3>5. RegionOK(hh, a, KnownAt[m]) /\ (f \notin finished => CopyOf(hh, a, KnownAt[m]))
      BY <1>3, <1>4, <2>0, <3>2, <3>4, RegionGrown
    <3>6. \A v \in Uses : sg[v] # "todo" => ob[v] \notin Region(a, KnownAt[m])
      <4> SUFFICES ASSUME NEW v \in Uses, sg[v] # "todo" PROVE ob[v] \notin Region(a, KnownAt[m])
        OBVIOUS
      <4>1. CASE v = u
        <5>1. at \in Nat
          BY <1>1, <1>4
        <5>2. \A i \in Region(a, KnownAt[m]) : i # at
          BY <1>3, <3>4, <5>1
        <5> QED
          BY <1>10, <4>1, <5>2
      <4>2. CASE v # u
        <5>1. object[v] \notin Region(a, KnownAt[m])
          BY <1>10, <3>1, <3>2, <4>2 DEF StoredAt
        <5> QED
          BY <1>10, <4>2, <5>1
      <4> QED
        BY <4>1, <4>2
    <3>7. ASSUME NEW e \in Generators, NEW l \in DOMAIN KnownAt, so[e][l] # 0, e # f \/ l # m
          PROVE  so[e][l] \notin Region(a, KnownAt[m])
      <4>1. CASE so[e][l] = stored[e][l]
        BY <3>1, <3>2, <3>7, <4>1 DEF StoredAt
      <4>2. CASE h = Cloned(heap, KnownAt[l]) /\ so[e][l] = Len(h)
        <5>1. Len(h) > Len(heap)
          BY <1>2, <4>2, StoredCopy
        <5>2. \A i \in Region(a, KnownAt[m]) : i # Len(h)
          BY <1>3, <3>4, <5>1
        <5> QED
          BY <4>2, <5>2
      <4> QED
        BY <1>12, <4>1, <4>2
    <3> QED
      BY <2>1, <3>1, <3>5, <3>6, <3>7
  <2>2. CASE /\ f = g /\ m = n /\ so[f][m] = Len(h) /\ stored[g][n] = 0
             /\ h = Cloned(heap, KnownAt[n])
    <3>1. PICK a : a = Len(h)
      OBVIOUS
    <3>2. /\ RegionOK(h, a, KnownAt[m]) /\ CopyOf(h, a, KnownAt[m])
          /\ \A i \in Region(a, KnownAt[m]) : i > Len(heap)
      BY <1>2, <2>2, <3>1, StoredCopy
    <3>3. a \in Nat
      BY <1>3, <3>1
    <3>4. /\ RegionOK(hh, a, KnownAt[m]) /\ CopyOf(hh, a, KnownAt[m])
          /\ \A i \in Region(a, KnownAt[m]) : i > Len(Configured) /\ i <= Len(h) /\ i \notin OfPointers
      BY <1>3, <1>4, <2>0, <3>2, <3>3, RegionGrown
    <3>5. ASSUME NEW v \in Uses, sg[v] # "todo" PROVE ob[v] \notin Region(a, KnownAt[m])
      <4>1. CASE v = u
        <5>1. at \in Nat
          BY <1>1, <1>4
        <5>2. \A i \in Region(a, KnownAt[m]) : i # at
          BY <1>3, <3>4, <5>1
        <5> QED
          BY <1>10, <4>1, <5>2
      <4>2. CASE v # u
        <5>1. object[v] \in 1 .. Len(heap)
          BY <1>2, <1>10, <3>5, <4>2 DEF ObjectInv
        <5>2. \A i \in Region(a, KnownAt[m]) : i # object[v]
          BY <1>3, <3>2, <5>1
        <5> QED
          BY <1>10, <4>2, <5>2
      <4> QED
        BY <4>1, <4>2
    <3>6. ASSUME NEW e \in Generators, NEW l \in DOMAIN KnownAt, so[e][l] # 0, e # f \/ l # m
          PROVE  so[e][l] \notin Region(a, KnownAt[m])
      <4>1. so[e][l] = stored[e][l]
        BY <1>12, <2>2, <3>6
      <4>2. stored[e][l] \in Nat /\ KnownAt[l] \in Nat /\ RegionOK(heap, stored[e][l], KnownAt[l])
        BY <1>2, <1>5, <3>6, <4>1, ConfiguredFacts DEF TypeInv, StoredInv, StoredAt
      <4>3. stored[e][l] <= Len(heap)
        BY <4>2 DEF RegionOK
      <4>4. \A i \in Region(a, KnownAt[m]) : i # stored[e][l]
        BY <1>3, <3>2, <4>2, <4>3
      <4> QED
        BY <4>1, <4>4
    <3> QED
      BY <2>2, <3>1, <3>4, <3>5, <3>6
  <2> QED
    BY <1>12, <2>1, <2>2
<1>14. TypeInv'
  BY <1>2, <1>6, <1>7, <1>8, <1>9 DEF TypeInv
<1>15. ObjectInv'
  BY <1>1, <1>7, <1>8, <1>11 DEF ObjectInv
<1>16. StoredInv'
  <2> SUFFICES ASSUME NEW f \in Generators, NEW m \in DOMAIN KnownAt, stored'[f][m] # 0 PROVE StoredAt(f, m)'
    BY DEF StoredInv
  <2>1. so[f][m] # 0
    BY <1>6
  <2> QED
    BY <1>1, <1>6, <1>7, <1>8, <1>13, <2>1 DEF StoredAt
<1> QED
  BY <1>1, <1>4, <1>14, <1>15, <1>16 DEF IInv

(* A conversion is of the schema of the innermost type: its own, or the one    *)
(* configured for a pointer.                                                   *)
Innermost(u, h, s) ==
    s = IF KnownPointer(u) THEN PointerSchema(u) ELSE NameSchema(h, u.name)

(* No pointer to a pointer is left when a response's pointer is removed. *)
LEMMA WrapsFacts ==
    ASSUME NEW u \in Uses
    PROVE  /\ WrapsOf(u) \in Seq({"list", "ptr"})
           /\ \A i \in DOMAIN WrapsOf(u) : i > 1 => {WrapsOf(u)[i - 1], WrapsOf(u)[i]} # {"ptr"}
<1>1. PICK w \in Seq({"list", "ptr"}) : w = u.wraps
  BY UsesAssumption
<1>2. \A i \in DOMAIN w : i > 1 => {w[i - 1], w[i]} # {"ptr"}
  BY <1>1, UsesAssumption
<1>3. CASE ~Stripped(u)
  BY <1>1, <1>2, <1>3 DEF WrapsOf
<1>4. CASE Stripped(u)
  <2>1. w # << >> /\ WrapsOf(u) = Tail(w)
    BY <1>1, <1>4 DEF Stripped, WrapsOf
  <2>2. Tail(w) \in Seq({"list", "ptr"}) /\ Len(Tail(w)) = Len(w) - 1 /\ Len(w) \in Nat
    BY <1>1, <2>1
  <2>3. \A i \in 1 .. Len(Tail(w)) : Tail(w)[i] = w[i + 1]
    BY <1>1, <2>1
  <2>4. ASSUME NEW i \in DOMAIN Tail(w), i > 1
        PROVE  {Tail(w)[i - 1], Tail(w)[i]} # {"ptr"}
    <3>1. i \in 1 .. Len(Tail(w)) /\ i - 1 \in 1 .. Len(Tail(w)) /\ i + 1 \in DOMAIN w /\ i + 1 > 1
      BY <2>2, <2>4
    <3>2. Tail(w)[i - 1] = w[i] /\ Tail(w)[i] = w[i + 1]
      BY <2>3, <3>1
    <3>3. PICK k \in DOMAIN w : k = i + 1 /\ k > 1 /\ k - 1 = i
      BY <3>1
    <3>4. {w[k - 1], w[k]} # {"ptr"}
      BY <1>2, <3>3
    <3> QED
      BY <3>2, <3>3, <3>4
  <2> QED
    BY <2>1, <2>2, <2>4
<1> QED
  BY <1>3, <1>4

LEMMA Converting ==
    ASSUME IInv, NEW u \in Uses, Convert(u)
    PROVE  \E h, s, r :
              /\ Stored(u.by, u.name, h) /\ HeapOK(h) /\ ConfOK(h) /\ (KnownPointer(u) => h = heap)
              /\ Innermost(u, h, s) /\ Conv(s, h, u.place)
              /\ r = Wrapped(u, s, Around(u)) /\ Conv(r, h, u.place)
              /\ heap' = r.heap /\ object' = [object EXCEPT ![u] = r.at]
<1>1. HeapOK(heap) /\ ConfOK(heap) /\ u.by \in Generators /\ WrapsOf(u) \in Seq({"list", "ptr"})
  BY UsesAssumption, WrapsFacts DEF IInv
<1>2. IsHeap(heap) /\ OfPointersClosed(heap)
  BY <1>1, PointersClosed DEF HeapOK
<1>3. CASE KnownPointer(u)
  <2>1. PICK s : s = PointerSchema(u)
    OBVIOUS
  <2>2. PICK r : r = Wrapped(u, s, Around(u))
    OBVIOUS
  <2>3. Innermost(u, heap, s) /\ Around(u) = Front(WrapsOf(u))
    BY <1>3, <2>1 DEF Innermost, Around
  <2>4. heap' = r.heap /\ object' = [object EXCEPT ![u] = r.at] /\ stored' = stored
    BY <1>3, <2>1, <2>2, <2>3 DEF Convert
  <2>5. Len(Around(u)) \in Nat
    BY <1>1, <1>3, <2>3 DEF KnownPointer, Front
  <2>6. Conv(s, heap, u.place)
    BY <1>1, <1>3, <2>1, PointerSchemaConv DEF KnownPointer
  <2>7. Conv(r, heap, u.place)
    BY <1>2, <2>2, <2>5, <2>6, WrappedConv
  <2>8. Stored(u.by, u.name, heap)
    BY <2>4 DEF Stored
  <2> QED
    BY <1>1, <2>2, <2>3, <2>4, <2>6, <2>7, <2>8
<1>4. CASE ~KnownPointer(u)
  <2>1. PICK h : h = WithStored(u.by, u.name)
    OBVIOUS
  <2>2. PICK s : s = NameSchema(h, u.name)
    OBVIOUS
  <2>3. PICK r : r = Wrapped(u, s, Around(u))
    OBVIOUS
  <2>4. Innermost(u, h, s) /\ Around(u) = WrapsOf(u)
    BY <1>4, <2>2 DEF Innermost, Around
  <2>5. heap' = r.heap /\ object' = [object EXCEPT ![u] = r.at]
    BY <1>4, <2>1, <2>2, <2>3, <2>4 DEF Convert
  <2>6. Stored(u.by, u.name, h)
    <3>1. CASE Stores(u.by, u.name)
      BY <1>1, <1>4, <2>1, <3>1 DEF Convert, Stored, Stores, WithStored
    <3>2. CASE ~Stores(u.by, u.name)
      BY <1>4, <2>1, <3>2 DEF Convert, Stored, WithStored
    <3> QED
      BY <3>1, <3>2
  <2>7. HeapOK(h) /\ ConfOK(h)
    <3>1. CASE h = heap
      BY <1>1, <3>1
    <3>2. CASE u.name \in DOMAIN KnownAt /\ h = Cloned(heap, KnownAt[u.name])
      BY <1>1, <3>2, StoredCopy, Grown
    <3> QED
      BY <2>6, <3>1, <3>2 DEF Stored
  <2>8. IsHeap(h) /\ OfPointersClosed(h)
    BY <2>7, PointersClosed DEF HeapOK
  <2>9. Conv(s, h, u.place)
    BY <2>2, <2>7, NameSchemaConv
  <2>10. Len(Around(u)) \in Nat
    BY <1>1, <2>4
  <2>11. Conv(r, h, u.place)
    BY <2>3, <2>8, <2>9, <2>10, WrappedConv
  <2> QED
    BY <1>4, <2>3, <2>4, <2>5, <2>6, <2>7, <2>9, <2>11
<1> QED
  BY <1>3, <1>4

LEMMA ConvertStep ==
    ASSUME IInv, NEW u \in Uses, Convert(u)
    PROVE  IInv'
<1>1. PICK h, s, r :
          /\ Stored(u.by, u.name, h) /\ HeapOK(h) /\ ConfOK(h) /\ (KnownPointer(u) => h = heap)
          /\ Innermost(u, h, s) /\ Conv(s, h, u.place)
          /\ r = Wrapped(u, s, Around(u)) /\ Conv(r, h, u.place)
          /\ heap' = r.heap /\ object' = [object EXCEPT ![u] = r.at]
  BY Converting
<1>2. PICK x \in {"converted", "wrapped", "done"} : stage' = [stage EXCEPT ![u] = x] /\ UNCHANGED finished
  BY DEF Convert
<1>3. PICK at : at = r.at
  OBVIOUS
<1>4. Extends(heap', h) /\ at \in 1 .. Len(heap')
  BY <1>1, <1>3 DEF Conv
<1>5. at > Len(h) \/ (u.place \notin Written /\ at \in OfPointers)
  BY <1>1, <1>3 DEF Conv
<1> QED
  BY <1>1, <1>2, <1>3, <1>4, <1>5, Growing

(* The schema of a converted use is one of the heap's objects. *)
LEMMA ObjectIn ==
    ASSUME IInv, NEW u \in Uses, stage[u] # "todo"
    PROVE  /\ object[u] \in 1 .. Len(heap) /\ Len(heap) \in Nat /\ IsHeap(heap) /\ IsSeq(heap)
           /\ Extends(heap, heap) /\ DOMAIN heap = 1 .. Len(heap)
<1>1. object[u] \in 1 .. Len(heap) /\ IsHeap(heap)
  BY DEF IInv, ObjectInv, HeapOK
<1>2. IsSeq(heap) /\ Len(heap) \in Nat /\ DOMAIN heap = 1 .. Len(heap)
  BY <1>1 DEF IsHeap, IsSeq
<1> QED
  BY <1>1, <1>2, ExtendsItself

(* A null wrapper's value becomes one of a few parts, null among them. *)
LEMMA WrapValueIs ==
    ASSUME IInv, NEW u \in Uses, WrapValue(u)
    PROVE  /\ Extends(heap', heap) /\ Len(heap') \in Nat /\ Len(heap') > Len(heap)
           /\ MayBeNull(heap', heap'[Len(heap')])
           /\ heap'[Len(heap')].keywords = {} /\ heap'[Len(heap')].types = {}
<1>1. /\ object[u] \in 1 .. Len(heap) /\ Len(heap) \in Nat /\ IsHeap(heap) /\ IsSeq(heap)
      /\ Extends(heap, heap)
  BY ObjectIn DEF WrapValue
<1>2. PICK c : c = Cloned(heap, object[u])
  OBVIOUS
<1>3. Extends(c, heap) /\ Len(c) = Len(heap) + object[u] /\ IsSeq(c)
  <2>1. Extends(c, heap) /\ Len(c) = Len(heap) + object[u]
    BY <1>1, <1>2, ClonedExtends
  <2> QED
    BY <2>1 DEF Extends
<1>4. PICK h : h = Append(c, Plain("null"))
  OBVIOUS
<1>5. ASSUME NEW k, Extends(k, heap), NEW type PROVE Extends(Append(k, Plain(type)), heap)
  <2>1. Node(Plain(type)) /\ Parts(Plain(type)) = {}
    BY Nodes
  <2> QED
    BY <1>1, <1>5, <2>1, AppendExtends
<1>6. Extends(h, heap) /\ Len(h) = Len(c) + 1 /\ IsSeq(h) /\ h[Len(h)] = Plain("null")
  <2>1. Extends(h, heap)
    BY <1>3, <1>4, <1>5
  <2>2. Len(h) = Len(c) + 1 /\ IsSeq(h) /\ h[Len(c) + 1] = Plain("null")
    BY <1>3, <1>4, Appended
  <2> QED
    BY <2>1, <2>2
<1>7. Len(h) \in Nat /\ Len(h) - 1 \in 1 .. Len(h) /\ Len(h) - 1 > Len(heap)
  BY <1>1, <1>3, <1>6
<1>8. ASSUME NEW k, Extends(k, heap), IsSeq(k), Len(h) <= Len(k), k[Len(h)] = Plain("null"),
             NEW parts, parts \subseteq 1 .. Len(k), \A j \in parts : j > Len(heap), Len(h) \in parts,
             NEW g, g = Append(k, AnyOf(parts))
      PROVE  /\ Extends(g, heap) /\ Len(g) \in Nat /\ Len(g) > Len(heap)
             /\ MayBeNull(g, g[Len(g)]) /\ g[Len(g)].keywords = {} /\ g[Len(g)].types = {}
  <2>1. PICK n : n = AnyOf(parts)
    OBVIOUS
  <2>2. Node(n) /\ Parts(n) = parts
    BY <2>1, Nodes
  <2>3. Extends(g, heap)
    BY <1>1, <1>8, <2>1, <2>2, AppendExtends
  <2>4. Len(g) = Len(k) + 1 /\ Len(k) \in Nat /\ g[Len(k) + 1] = n /\ \A i \in 1 .. Len(k) : g[i] = k[i]
    BY <1>8, <2>1, Appended
  <2>5. Len(g) > Len(heap) /\ Len(g) \in Nat
    BY <1>1, <1>8, <2>4 DEF Extends
  <2>6. n.keywords = {} /\ n.types = {} /\ n.anyOf = parts
    BY <2>1 DEF AnyOf, Empty
  <2>7. g[Len(h)] = Plain("null")
    BY <1>8, <2>4
  <2>8. "null" \in g[Len(h)].types
    BY <2>7 DEF Plain, Empty
  <2>9. MayBeNull(g, n)
    BY <1>8, <2>6, <2>8 DEF MayBeNull
  <2> QED
    BY <2>3, <2>4, <2>5, <2>6, <2>9
<1>9. PICK parts : parts = {Len(h) - 1, Len(h)}
  OBVIOUS
<1>10. parts \subseteq 1 .. Len(h) /\ (\A j \in parts : j > Len(heap)) /\ Len(h) \in parts /\ Len(h) <= Len(h)
  BY <1>1, <1>7, <1>9
<1>11. PICK g : g = heap'
  OBVIOUS
<1>12. CASE g = Append(h, AnyOf(parts))
  BY <1>6, <1>8, <1>10, <1>11, <1>12
<1>13. CASE g = h \o <<Plain("string"), AnyOf(parts \cup {Len(h) + 1})>>
  <2>1. PICK k : k = Append(h, Plain("string"))
    OBVIOUS
  <2>2. /\ Extends(k, heap) /\ Len(k) = Len(h) + 1 /\ IsSeq(k)
        /\ \A i \in 1 .. Len(h) : k[i] = h[i]
    BY <1>5, <1>6, <2>1, Appended
  <2>3. g = Append(k, AnyOf(parts \cup {Len(h) + 1}))
    BY <1>6, <1>13, <2>1, AppendTwo
  <2>4. Len(h) <= Len(k) /\ k[Len(h)] = Plain("null")
    BY <1>6, <1>7, <2>2
  <2>5. PICK all : all = parts \cup {Len(h) + 1}
    OBVIOUS
  <2>6. all \subseteq 1 .. Len(k) /\ (\A j \in all : j > Len(heap)) /\ Len(h) \in all
    <3>1. \A j \in parts : j \in 1 .. Len(k)
      BY <1>7, <1>10, <2>2
    <3>2. Len(h) + 1 \in 1 .. Len(k) /\ Len(h) + 1 > Len(heap)
      BY <1>1, <1>7, <2>2
    <3> QED
      BY <1>10, <2>5, <3>1, <3>2
  <2>7. g = Append(k, AnyOf(all))
    BY <2>3, <2>5
  <2>8. Extends(k, heap) /\ IsSeq(k)
    BY <2>2
  <2>9. /\ Extends(g, heap) /\ Len(g) \in Nat /\ Len(g) > Len(heap)
        /\ MayBeNull(g, g[Len(g)]) /\ g[Len(g)].keywords = {} /\ g[Len(g)].types = {}
    BY <1>8, <2>4, <2>6, <2>7, <2>8
  <2> QED
    BY <1>11, <2>9
<1> QED
  BY <1>2, <1>4, <1>9, <1>11, <1>12, <1>13 DEF WrapValue

LEMMA WrapValueStep ==
    ASSUME IInv, NEW u \in Uses, WrapValue(u)
    PROVE  IInv'
<1>1. Extends(heap', heap) /\ Len(heap') \in Nat /\ Len(heap') > Len(heap) /\ Len(heap) \in Nat
  BY WrapValueIs, ObjectIn DEF WrapValue
<1>2. PICK at : at = Len(heap')
  OBVIOUS
<1>3. object' = [object EXCEPT ![u] = at] /\ stage' = [stage EXCEPT ![u] = "wrapped"] /\ UNCHANGED <<stored, finished>>
  BY <1>2 DEF WrapValue
<1>4. Stored(u.by, u.name, heap)
  BY <1>3 DEF Stored
<1>5. at \in 1 .. Len(heap') /\ at > Len(heap)
  BY <1>1, <1>2
<1> QED
  BY <1>1, <1>3, <1>4, <1>5, Growing

(* A parameter's schema is cloned before null is taken out of it. *)
LEMMA NormalizeIs ==
    ASSUME IInv, NEW u \in Uses, Normalize(u), NEW h, h = Cloned(heap, object[u])
    PROVE  /\ CloneOf(heap, h, object[u]) /\ IsHeap(h) /\ Len(h) = Len(heap) + object[u]
           /\ heap' = Denulled(h, Len(h)) /\ Extends(heap', heap) /\ Len(heap') = Len(h)
<1>1. PICK o : o = object[u]
  OBVIOUS
<1>2. o \in 1 .. Len(heap) /\ Len(heap) \in Nat /\ IsHeap(heap) /\ Extends(heap, heap)
  BY <1>1, ObjectIn DEF Normalize
<1>3. Extends(h, heap) /\ Len(h) = Len(heap) + o /\ CloneOf(heap, h, o) /\ IsHeap(h)
  <2>1. Extends(h, heap) /\ Len(h) = Len(heap) + o /\ CloneOf(heap, h, o)
    BY <1>1, <1>2, ClonedExtends, ClonedIs
  <2> QED
    BY <1>2, <2>1, ExtendsIsHeap
<1>4. \A i \in Len(heap) + 1 .. Len(h) : Parts(h[i]) \subseteq Len(heap) + 1 .. i - 1
  <2> SUFFICES ASSUME NEW i \in Len(heap) + 1 .. Len(h) PROVE Parts(h[i]) \subseteq Len(heap) + 1 .. i - 1
    OBVIOUS
  <2>1. PICK k \in 1 .. o : i = Len(heap) + k
    <3>1. i - Len(heap) \in 1 .. o /\ i = Len(heap) + (i - Len(heap))
      BY <1>2, <1>3
    <3> QED
      BY <3>1
  <2>2. Parts(h[i]) = {Len(heap) + j : j \in Parts(heap[k])}
    BY <1>3, <2>1 DEF CloneOf
  <2>3. Parts(heap[k]) \subseteq 1 .. k - 1
    BY <1>2, <2>1 DEF IsHeap
  <2>4. \A j \in 1 .. k - 1 : Len(heap) + j \in Len(heap) + 1 .. i - 1
    BY <1>2, <2>1
  <2> QED
    BY <2>2, <2>3, <2>4
<1>5. PICK at : at = Len(h)
  OBVIOUS
<1>6. at \in Len(heap) + 1 .. Len(h)
  BY <1>2, <1>3, <1>5
<1>7. Extends(Denulled(h, at), heap) /\ Len(Denulled(h, at)) = Len(h)
  BY <1>2, <1>3, <1>4, <1>6, DenulledExtends
<1>8. heap' = Denulled(h, at)
  BY <1>1, <1>5 DEF Normalize
<1> QED
  BY <1>1, <1>3, <1>5, <1>7, <1>8

LEMMA NormalizeStep ==
    ASSUME IInv, NEW u \in Uses, Normalize(u)
    PROVE  IInv'
<1>1. object[u] \in 1 .. Len(heap) /\ Len(heap) \in Nat
  BY ObjectIn DEF Normalize
<1>2. PICK h : h = Cloned(heap, object[u])
  OBVIOUS
<1>3. PICK at : at = Len(h)
  OBVIOUS
<1>4. Extends(heap', heap) /\ Len(heap') = at /\ at = Len(heap) + object[u]
  BY <1>2, <1>3, NormalizeIs
<1>5. at \in 1 .. Len(heap') /\ at > Len(heap)
  BY <1>1, <1>4
<1>6. object' = [object EXCEPT ![u] = at] /\ stage' = [stage EXCEPT ![u] = "done"] /\ UNCHANGED <<stored, finished>>
  BY <1>2, <1>3 DEF Normalize
<1>7. Stored(u.by, u.name, heap)
  BY <1>6 DEF Stored
<1> QED
  BY <1>4, <1>5, <1>6, <1>7, Growing

(* A step that leaves every object its parts. *)
LEMMA Decorating ==
    ASSUME IInv, IsSeq(heap'), Len(heap') = Len(heap),
           \A i \in 1 .. Len(heap) : Node(heap'[i]) /\ Parts(heap'[i]) = Parts(heap[i]),
           ConfOK(heap'), UNCHANGED <<stored, object>>,
           stage' \in [Uses -> {"todo", "converted", "wrapped", "done"}],
           \A u \in Uses : stage'[u] # "todo" => stage[u] # "todo",
           finished \subseteq finished', finished' \subseteq Generators,
           \A g \in Generators \ finished' : \A n \in DOMAIN KnownAt :
              stored[g][n] # 0 => CopyOf(heap', stored[g][n], KnownAt[n])
    PROVE  IInv'
<1>1. HeapOK(heap) /\ TypeInv /\ ObjectInv /\ StoredInv
  BY DEF IInv
<1>2. IsHeap(heap) /\ Len(heap) \in Nat /\ Len(Configured) <= Len(heap) /\ Len(Configured) \in Nat
  BY <1>1, ConfiguredFacts DEF HeapOK, IsHeap, IsSeq
<1>3. PICK h : h = heap'
  OBVIOUS
<1>4. IsSeq(h) /\ Len(h) = Len(heap) /\ \A i \in 1 .. Len(heap) : Node(h[i]) /\ Parts(h[i]) = Parts(heap[i])
  BY <1>3
<1>5. IsHeap(h)
  BY <1>2, <1>4 DEF IsHeap
<1>6. HeapOK(h)
  <2>1. \A i \in Len(Configured) + 1 .. Len(h) : i \in 1 .. Len(heap) /\ Parts(h[i]) = Parts(heap[i])
    BY <1>2, <1>4
  <2> QED
    BY <1>1, <1>4, <1>5, <2>1 DEF HeapOK
<1>7. TypeInv'
  BY <1>1 DEF TypeInv
<1>8. ObjectInv'
  BY <1>1, <1>3, <1>4 DEF ObjectInv
<1>9. ASSUME NEW at, NEW k, RegionOK(heap, at, k) PROVE RegionOK(h, at, k)
  BY <1>4, <1>9 DEF RegionOK
<1>10. StoredInv'
  <2> SUFFICES ASSUME NEW g \in Generators, NEW n \in DOMAIN KnownAt, stored[g][n] # 0 PROVE StoredAt(g, n)'
    BY DEF StoredInv
  <2>1. StoredAt(g, n)
    BY <1>1 DEF StoredInv
  <2>2. RegionOK(h, stored[g][n], KnownAt[n])
    BY <1>9, <2>1 DEF StoredAt
  <2>3. g \notin finished' => CopyOf(h, stored[g][n], KnownAt[n])
    BY <1>3
  <2> QED
    BY <1>3, <2>1, <2>2, <2>3 DEF StoredAt
<1> QED
  BY <1>3, <1>6, <1>7, <1>8, <1>10 DEF IInv

LEMMA DecorateStep ==
    ASSUME IInv, NEW u \in Uses, Decorate(u)
    PROVE  IInv'
<1>1. /\ stage[u] # "todo" /\ u.place \in Written
      /\ UNCHANGED <<stored, object, finished>> /\ stage' = [stage EXCEPT ![u] = "done"]
  BY DEF Decorate, Written
<1>2. HeapOK(heap) /\ ConfOK(heap) /\ TypeInv /\ ObjectInv /\ StoredInv
  BY DEF IInv
<1>3. PICK o : o = object[u]
  OBVIOUS
<1>4. /\ o \in 1 .. Len(heap) /\ o > Len(Configured) /\ Len(heap) \in Nat /\ IsHeap(heap) /\ IsSeq(heap)
      /\ DOMAIN heap = 1 .. Len(heap) /\ Len(Configured) <= Len(heap) /\ Len(Configured) \in Nat
  <2>1. o \in 1 .. Len(heap) /\ Len(heap) \in Nat /\ IsHeap(heap) /\ IsSeq(heap) /\ DOMAIN heap = 1 .. Len(heap)
    BY <1>1, <1>3, ObjectIn
  <2>2. o > Len(Configured)
    BY <1>1, <1>2, <1>3 DEF ObjectInv
  <2> QED
    BY <1>2, <2>1, <2>2, ConfiguredFacts DEF HeapOK
<1>5. PICK n : n = heap[o]
  OBVIOUS
<1>6. PICK m : m = Tagged(n, u.tags)
  OBVIOUS
<1>7. Node(m) /\ Parts(m) = Parts(n)
  <2>1. PICK ks : m = [n EXCEPT !.keywords = ks]
    BY <1>6 DEF Tagged
  <2>2. Node(n)
    BY <1>4, <1>5 DEF IsHeap
  <2>3. n = [ref |-> n.ref, types |-> n.types, form |-> n.form, anyOf |-> n.anyOf,
             below |-> n.below, keywords |-> n.keywords]
    BY <2>2 DEF Node
  <2>4. m = [ref |-> n.ref, types |-> n.types, form |-> n.form, anyOf |-> n.anyOf,
             below |-> n.below, keywords |-> ks]
    BY <2>1, <2>3
  <2>5. m.types = n.types /\ m.form = n.form /\ m.anyOf = n.anyOf /\ m.below = n.below
    BY <2>4
  <2>6. m = [ref |-> m.ref, types |-> m.types, form |-> m.form, anyOf |-> m.anyOf,
             below |-> m.below, keywords |-> m.keywords]
    BY <2>4
  <2> QED
    BY <2>2, <2>5, <2>6 DEF Node, Parts
<1>8. CASE heap' = [heap EXCEPT ![o] = m]
  <2>1. PICK h : h = heap'
    OBVIOUS
  <2>2. h[o] = m /\ \A i \in 1 .. Len(heap) : i # o => h[i] = heap[i]
    BY <1>4, <1>8, <2>1
  <2>3. IsSeq(h) /\ Len(h) = Len(heap)
    <3>1. DOMAIN h = 1 .. Len(heap) /\ h = [i \in 1 .. Len(heap) |-> h[i]]
      BY <1>4, <1>8, <2>1
    <3> QED
      BY <1>4, <3>1, FunctionIsSeq
  <2>4. \A i \in 1 .. Len(heap) : Node(h[i]) /\ Parts(h[i]) = Parts(heap[i])
    <3> SUFFICES ASSUME NEW i \in 1 .. Len(heap) PROVE Node(h[i]) /\ Parts(h[i]) = Parts(heap[i])
      OBVIOUS
    <3>1. CASE i = o
      BY <1>5, <1>7, <2>2, <3>1
    <3>2. CASE i # o
      BY <1>4, <2>2, <3>2 DEF IsHeap
    <3> QED
      BY <3>1, <3>2
  <2>5. ConfOK(h)
    <3>1. \A i \in 1 .. Len(Configured) : i \in 1 .. Len(heap) /\ i # o
      BY <1>4
    <3>2. \A i \in 1 .. Len(Configured) : h[i] = heap[i]
      BY <2>2, <3>1
    <3> QED
      BY <1>2, <3>2 DEF ConfOK
  <2>6. ASSUME NEW g \in Generators \ finished, NEW k \in DOMAIN KnownAt, stored[g][k] # 0
        PROVE  CopyOf(h, stored[g][k], KnownAt[k])
    <3>1. PICK a : a = stored[g][k]
      OBVIOUS
    <3>2. /\ a \in Nat /\ RegionOK(heap, a, KnownAt[k]) /\ CopyOf(heap, a, KnownAt[k])
          /\ o \notin Region(a, KnownAt[k])
      BY <1>1, <1>2, <1>3, <2>6, <3>1 DEF TypeInv, StoredInv, StoredAt
    <3>3. KnownAt[k] \in Nat /\ Len(Configured) <= a - KnownAt[k] /\ a <= Len(heap)
      BY <3>2, ConfiguredFacts DEF RegionOK
    <3>4. \A i \in 1 .. KnownAt[k] : /\ a - KnownAt[k] + i \in Region(a, KnownAt[k])
                                     /\ a - KnownAt[k] + i \in 1 .. Len(heap)
      BY <1>4, <3>2, <3>3 DEF Region
    <3>5. \A i \in 1 .. KnownAt[k] : h[a - KnownAt[k] + i] = heap[a - KnownAt[k] + i]
      BY <2>2, <3>2, <3>4
    <3> QED
      BY <3>1, <3>2, <3>5 DEF CopyOf
  <2>7. stage' \in [Uses -> {"todo", "converted", "wrapped", "done"}]
    BY <1>1, <1>2 DEF TypeInv
  <2>8. \A v \in Uses : stage'[v] # "todo" => stage[v] # "todo"
    BY <1>1, <1>2 DEF TypeInv
  <2>9. finished' = finished /\ finished \subseteq Generators
    BY <1>1, <1>2 DEF TypeInv
  <2>10. \A g \in Generators \ finished' : \A k \in DOMAIN KnownAt :
            stored[g][k] # 0 => CopyOf(heap', stored[g][k], KnownAt[k])
    BY <2>1, <2>6, <2>9
  <2> QED
    BY <1>1, <2>1, <2>3, <2>4, <2>5, <2>7, <2>8, <2>9, <2>10, Decorating
<1>9. CASE heap' = heap
  <2>1. stage' \in [Uses -> {"todo", "converted", "wrapped", "done"}]
    BY <1>1, <1>2 DEF TypeInv
  <2>2. \A v \in Uses : stage'[v] # "todo" => stage[v] # "todo"
    BY <1>1, <1>2 DEF TypeInv
  <2>3. \A i \in 1 .. Len(heap) : Node(heap[i])
    BY <1>4 DEF IsHeap
  <2>4. finished' = finished /\ finished \subseteq Generators
    BY <1>1, <1>2 DEF TypeInv
  <2>5. \A g \in Generators \ finished' : \A k \in DOMAIN KnownAt :
            stored[g][k] # 0 => CopyOf(heap', stored[g][k], KnownAt[k])
    BY <1>2, <1>9, <2>4 DEF StoredInv, StoredAt
  <2>6. ConfOK(heap')
    BY <1>2, <1>9
  <2> QED
    BY <1>1, <1>4, <1>9, <2>1, <2>2, <2>3, <2>4, <2>5, <2>6, Decorating
<1> QED
  BY <1>3, <1>5, <1>6, <1>8, <1>9 DEF Decorate

(* A closed set with all the roots has all of what a generator's spec reaches. *)
LEMMA HeldIn ==
    ASSUME IInv, NEW g \in Generators, NEW S,
           \A x \in S \cap (1 .. Len(heap)) : Parts(heap[x]) \subseteq S,
           \A u \in Uses : stage[u] # "todo" => object[u] \in S,
           \A n \in DOMAIN KnownAt : stored[g][n] # 0 => stored[g][n] \in S
    PROVE  Held(g) \subseteq S /\ Held(g) \subseteq 1 .. Len(heap)
<1>1. HeapOK(heap) /\ TypeInv /\ ObjectInv /\ StoredInv
  BY DEF IInv
<1>2. IsHeap(heap) /\ Len(heap) \in Nat
  BY <1>1 DEF HeapOK, IsHeap, IsSeq
<1>3. ASSUME NEW o \in 1 .. Len(heap), o \in S PROVE Reach(heap, o) \subseteq S /\ Reach(heap, o) \subseteq 1 .. Len(heap)
  <2>1. o \in Nat \ {0} /\ o \in 1 .. o /\ \A i \in 1 .. o : i \in 1 .. Len(heap) /\ Parts(heap[i]) \subseteq 1 .. i - 1
    BY <1>2 DEF IsHeap
  <2>2. Reach(heap, o) \subseteq 1 .. o
    BY <2>1, ReachFacts
  <2>3. \A x \in S \cap (1 .. o) : Parts(heap[x]) \subseteq S
    BY <2>1
  <2>4. Reach(heap, o) \subseteq S
    BY <1>3, <2>1, <2>3, ReachFacts
  <2> QED
    BY <1>2, <2>2, <2>4
<1>4. \A u \in Mine(g) : Reach(heap, object[u]) \subseteq S /\ Reach(heap, object[u]) \subseteq 1 .. Len(heap)
  BY <1>1, <1>3 DEF Mine, ObjectInv
<1>5. ASSUME NEW n \in DOMAIN KnownAt, stored[g][n] # 0
      PROVE  Reach(heap, stored[g][n]) \subseteq S /\ Reach(heap, stored[g][n]) \subseteq 1 .. Len(heap)
  <2>1. stored[g][n] \in Nat /\ stored[g][n] <= Len(heap)
    BY <1>1, <1>5 DEF TypeInv, StoredInv, StoredAt, RegionOK
  <2>2. stored[g][n] \in 1 .. Len(heap)
    BY <1>2, <1>5, <2>1
  <2> QED
    BY <1>3, <1>5, <2>2
<1>6. ASSUME NEW x \in Held(g) PROVE x \in S /\ x \in 1 .. Len(heap)
  <2>1. CASE x \in FromUses(g)
    <3>1. PICK u \in Mine(g) : x \in Reach(heap, object[u])
      BY <2>1 DEF FromUses
    <3> QED
      BY <1>4, <3>1
  <2>2. CASE x \in FromStored(g)
    <3>1. PICK n \in {m \in DOMAIN KnownAt : stored[g][m] # 0} : x \in Reach(heap, stored[g][n])
      BY <2>2 DEF FromStored
    <3> QED
      BY <1>5, <3>1
  <2> QED
    BY <1>6, <2>1, <2>2 DEF Held
<1> QED
  BY <1>6

LEMMA FinishStep ==
    ASSUME IInv, NEW g \in Generators, Finish(g)
    PROVE  IInv'
<1>1. HeapOK(heap) /\ ConfOK(heap) /\ TypeInv /\ ObjectInv /\ StoredInv
  BY DEF IInv
<1>2. /\ IsHeap(heap) /\ IsSeq(heap) /\ Len(heap) \in Nat /\ DOMAIN heap = 1 .. Len(heap)
      /\ Len(Configured) <= Len(heap) /\ Len(Configured) \in Nat
  BY <1>1, ConfiguredFacts DEF HeapOK, IsHeap, IsSeq
<1> DEFINE text(ref) == IF ref \in DOMAIN FinalName[g] THEN FinalName[g][ref] ELSE ref
<1>3. PICK h : h = heap'
  OBVIOUS
<1>4. h = [i \in 1 .. Len(heap) |-> IF i \in Held(g) THEN [heap[i] EXCEPT !.ref = text(@)] ELSE heap[i]]
  <2>1. h = [i \in DOMAIN heap |-> IF i \in Held(g) THEN [heap[i] EXCEPT !.ref = text(@)] ELSE heap[i]]
    BY <1>3 DEF Finish
  <2> HIDE DEF text
  <2> QED
    BY <1>2, <2>1
<1>5. UNCHANGED <<stored, stage, object>> /\ finished' = finished \cup {g}
  BY DEF Finish
<1>6. ASSUME NEW i \in 1 .. Len(heap)
      PROVE  /\ Node(h[i]) /\ Parts(h[i]) = Parts(heap[i])
             /\ i \notin Held(g) => h[i] = heap[i]
             /\ \E r : h[i] = [heap[i] EXCEPT !.ref = r]
  <2>1. PICK n : n = heap[i]
    OBVIOUS
  <2>2. PICK r : r = IF i \in Held(g) THEN text(n.ref) ELSE n.ref
    OBVIOUS
  <2> HIDE DEF text
  <2>3. Node(n)
    BY <1>2, <2>1 DEF IsHeap
  <2>4. n = [ref |-> n.ref, types |-> n.types, form |-> n.form, anyOf |-> n.anyOf,
             below |-> n.below, keywords |-> n.keywords]
    BY <2>3 DEF Node
  <2>5. PICK m : m = h[i]
    OBVIOUS
  <2>6. m = [n EXCEPT !.ref = r] /\ (i \notin Held(g) => m = n)
    <3>1. CASE i \in Held(g)
      BY <1>4, <2>1, <2>2, <2>5, <3>1
    <3>2. CASE i \notin Held(g)
      BY <1>4, <2>1, <2>2, <2>4, <2>5, <3>2
    <3> QED
      BY <3>1, <3>2
  <2>7. m = [ref |-> r, types |-> n.types, form |-> n.form, anyOf |-> n.anyOf,
             below |-> n.below, keywords |-> n.keywords]
    BY <2>4, <2>6
  <2>8. m.types = n.types /\ m.form = n.form /\ m.anyOf = n.anyOf /\ m.below = n.below
    BY <2>7
  <2>9. m = [ref |-> m.ref, types |-> m.types, form |-> m.form, anyOf |-> m.anyOf,
             below |-> m.below, keywords |-> m.keywords]
    BY <2>7
  <2>10. Node(m) /\ Parts(m) = Parts(n)
    BY <2>3, <2>8, <2>9 DEF Node, Parts
  <2> QED
    BY <2>1, <2>5, <2>6, <2>10
<1>7. IsSeq(h) /\ Len(h) = Len(heap)
  <2> HIDE DEF text
  <2>1. DOMAIN h = 1 .. Len(heap) /\ h = [i \in 1 .. Len(heap) |-> h[i]]
    BY <1>4
  <2> QED
    BY <1>2, <2>1, FunctionIsSeq
<1>8. \A i \in Held(g) : Fresh(i)
  <2>1. PICK S : S = {i \in Nat : Fresh(i)}
    OBVIOUS
  <2>2. ASSUME NEW x \in S, x \in 1 .. Len(heap) PROVE Parts(heap[x]) \subseteq S
    <3>1. Parts(heap[x]) \subseteq Nat
      <4>1. Parts(heap[x]) \subseteq 1 .. x - 1
        BY <1>2, <2>2 DEF IsHeap
      <4> QED
        BY <4>1
    <3>2. CASE x > Len(Configured)
      <4>1. x \in Len(Configured) + 1 .. Len(heap)
        BY <1>2, <2>2, <3>2
      <4> QED
        BY <1>1, <2>1, <3>1, <4>1 DEF HeapOK
    <3>3. CASE x \in OfPointers
      <4>1. Parts(heap[x]) \subseteq OfPointers
        BY <1>1, <3>3, PointersClosed DEF OfPointersClosed
      <4> QED
        BY <2>1, <3>1, <4>1 DEF Fresh
    <3> QED
      BY <2>1, <2>2, <3>2, <3>3 DEF Fresh
  <2>3. \A u \in Uses : stage[u] # "todo" => object[u] \in S
    BY <1>1, <1>2, <2>1 DEF ObjectInv
  <2>4. \A n \in DOMAIN KnownAt : stored[g][n] # 0 => stored[g][n] \in S
    <3> SUFFICES ASSUME NEW n \in DOMAIN KnownAt, stored[g][n] # 0 PROVE stored[g][n] \in S
      OBVIOUS
    <3>1. stored[g][n] \in Nat /\ Len(Configured) <= stored[g][n] - KnownAt[n]
      BY <1>1 DEF TypeInv, StoredInv, StoredAt, RegionOK
    <3>2. KnownAt[n] \in Nat \ {0}
      BY <1>2, ConfiguredFacts
    <3>3. stored[g][n] > Len(Configured)
      BY <1>2, <3>1, <3>2
    <3> QED
      BY <2>1, <3>1, <3>3 DEF Fresh
  <2>5. \A x \in S \cap (1 .. Len(heap)) : Parts(heap[x]) \subseteq S
    BY <2>2
  <2>6. Held(g) \subseteq S
    BY <2>3, <2>4, <2>5, HeldIn
  <2> QED
    BY <2>1, <2>6
<1>9. ConfOK(h)
  <2> SUFFICES ASSUME NEW i \in 1 .. Len(Configured)
               PROVE  \/ h[i] = Configured[i]
                      \/ i \in OfPointers /\ h[i] = [Configured[i] EXCEPT !.ref = h[i].ref]
    BY DEF ConfOK
  <2>1. i \in 1 .. Len(heap)
    BY <1>2
  <2>2. CASE i \notin Held(g)
    BY <1>1, <1>6, <2>1, <2>2 DEF ConfOK
  <2>3. CASE i \in Held(g)
    <3>1. i \in OfPointers
      BY <1>2, <1>8, <2>3 DEF Fresh
    <3>2. PICK r : h[i] = [heap[i] EXCEPT !.ref = r]
      BY <1>6, <2>1
    <3>3. PICK n : n = Configured[i]
      OBVIOUS
    <3>4. n = [ref |-> n.ref, types |-> n.types, form |-> n.form, anyOf |-> n.anyOf,
               below |-> n.below, keywords |-> n.keywords]
      BY <3>3, ConfiguredFacts DEF IsHeap, Node
    <3>5. \E q : heap[i] = [n EXCEPT !.ref = q]
      <4>1. CASE heap[i] = n
        <5>1. heap[i] = [n EXCEPT !.ref = n.ref]
          BY <3>4, <4>1
        <5> QED
          BY <5>1
      <4>2. CASE heap[i] = [n EXCEPT !.ref = heap[i].ref]
        BY <4>2
      <4> QED
        BY <1>1, <3>3, <4>1, <4>2 DEF ConfOK
    <3>6. PICK m : m = h[i]
      OBVIOUS
    <3>7. m = [ref |-> r, types |-> n.types, form |-> n.form, anyOf |-> n.anyOf,
               below |-> n.below, keywords |-> n.keywords]
      BY <3>2, <3>4, <3>5, <3>6
    <3>8. m.ref = r
      BY <3>7
    <3>9. m = [n EXCEPT !.ref = m.ref]
      BY <3>4, <3>7, <3>8
    <3> QED
      BY <3>1, <3>3, <3>6, <3>9
  <2> QED
    BY <2>2, <2>3
<1>10. ASSUME NEW f \in Generators \ finished', NEW n \in DOMAIN KnownAt, stored[f][n] # 0
       PROVE  CopyOf(h, stored[f][n], KnownAt[n])
  <2>1. PICK a : a = stored[f][n]
    OBVIOUS
  <2>2. f # g /\ f \notin finished
    BY <1>5
  <2>3. /\ a \in Nat /\ RegionOK(heap, a, KnownAt[n]) /\ CopyOf(heap, a, KnownAt[n]) /\ StoredAt(f, n)
    BY <1>1, <1>10, <2>1, <2>2 DEF TypeInv, StoredInv, StoredAt
  <2>4. KnownAt[n] \in Nat \ {0} /\ Len(Configured) <= a - KnownAt[n] /\ a <= Len(heap)
    BY <1>2, <2>3, ConfiguredFacts DEF RegionOK
  <2>5. PICK S : S = (1 .. Len(heap)) \ Region(a, KnownAt[n])
    OBVIOUS
  <2>6. \A x \in S \cap (1 .. Len(heap)) : Parts(heap[x]) \subseteq S
    <3> SUFFICES ASSUME NEW x \in S, x \in 1 .. Len(heap) PROVE Parts(heap[x]) \subseteq S
      OBVIOUS
    <3>1. Parts(heap[x]) \cap Region(a, KnownAt[n]) = {}
      BY <2>3, <2>5 DEF RegionOK
    <3>2. Parts(heap[x]) \subseteq 1 .. x - 1
      BY <1>2 DEF IsHeap
    <3>3. \A j \in 1 .. x - 1 : j \in 1 .. Len(heap)
      BY <1>2
    <3> QED
      BY <2>5, <3>1, <3>2, <3>3
  <2>7. \A u \in Uses : stage[u] # "todo" => object[u] \in S
    BY <1>1, <2>1, <2>3, <2>5 DEF ObjectInv, StoredAt
  <2>8. ASSUME NEW m \in DOMAIN KnownAt, stored[g][m] # 0 PROVE stored[g][m] \in S
    <3>1. stored[g][m] \in Nat /\ stored[g][m] <= Len(heap)
      BY <1>1, <2>8 DEF TypeInv, StoredInv, StoredAt, RegionOK
    <3>2. stored[g][m] \notin Region(a, KnownAt[n])
      BY <2>1, <2>2, <2>3, <2>8 DEF StoredAt
    <3> QED
      BY <1>2, <2>5, <2>8, <3>1, <3>2
  <2>9. Held(g) \subseteq S
    BY <2>6, <2>7, <2>8, HeldIn
  <2>10. \A i \in 1 .. KnownAt[n] : /\ a - KnownAt[n] + i \in Region(a, KnownAt[n])
                                    /\ a - KnownAt[n] + i \in 1 .. Len(heap)
    BY <1>2, <2>3, <2>4 DEF Region
  <2>11. \A i \in 1 .. KnownAt[n] : h[a - KnownAt[n] + i] = heap[a - KnownAt[n] + i]
    BY <1>6, <2>5, <2>9, <2>10
  <2> QED
    BY <2>1, <2>3, <2>11 DEF CopyOf
<1>11. /\ stage' \in [Uses -> {"todo", "converted", "wrapped", "done"}]
       /\ \A u \in Uses : stage'[u] # "todo" => stage[u] # "todo"
       /\ finished \subseteq finished' /\ finished' \subseteq Generators
  BY <1>1, <1>5 DEF TypeInv
<1>12. \A f \in Generators \ finished' : \A n \in DOMAIN KnownAt :
          stored[f][n] # 0 => CopyOf(heap', stored[f][n], KnownAt[n])
  BY <1>3, <1>10
<1> QED
  BY <1>3, <1>5, <1>6, <1>7, <1>9, <1>11, <1>12, Decorating

(* Initially every object is a configured one. *)
LEMMA InitInv ==
    ASSUME Init
    PROVE  IInv
<1>1. IsHeap(heap) /\ Len(Configured) \in Nat
  BY ConfiguredFacts DEF Init
<1>2. HeapOK(heap)
  BY <1>1 DEF HeapOK, Init
<1> QED
  BY <1>1, <1>2 DEF Init, IInv, ConfOK, TypeInv, ObjectInv, StoredInv

LEMMA StepInv ==
    ASSUME IInv, [Next]_vars
    PROVE  IInv'
<1>1. CASE Next
  <2>1. ASSUME NEW u \in Uses, Convert(u) \/ WrapValue(u) \/ Decorate(u) \/ Normalize(u) PROVE IInv'
    BY <2>1, ConvertStep, WrapValueStep, DecorateStep, NormalizeStep
  <2>2. ASSUME NEW g \in Generators, Finish(g) PROVE IInv'
    BY <2>2, FinishStep
  <2> QED
    BY <1>1, <2>1, <2>2 DEF Next
<1>2. CASE UNCHANGED vars
  BY <1>2 DEF vars, IInv, HeapOK, ConfOK, TypeInv, ObjectInv, StoredInv, StoredAt
<1> QED
  BY <1>1, <1>2

LEMMA InvUntouched ==
    ASSUME IInv
    PROVE  CanonicalUntouched
<1>1. ConfOK(heap) /\ StoredInv /\ Len(Configured) \in Nat /\ DOMAIN Configured = 1 .. Len(Configured)
  BY ConfiguredFacts DEF IInv, IsHeap, IsSeq
<1>2. \A i \in DOMAIN Configured :
           \/ heap[i] = Configured[i]
           \/ i \in OfPointers /\ heap[i] = [Configured[i] EXCEPT !.ref = heap[i].ref]
  BY <1>1 DEF ConfOK
<1>3. ASSUME NEW g \in Generators \ finished, NEW n \in DOMAIN KnownAt, stored[g][n] # 0,
             NEW i \in Reach(Configured, KnownAt[n])
      PROVE  /\ heap[stored[g][n] - KnownAt[n] + i].types = Configured[i].types
             /\ heap[stored[g][n] - KnownAt[n] + i].keywords = Configured[i].keywords
             /\ i \notin OfPointers => heap[stored[g][n] - KnownAt[n] + i].ref = Configured[i].ref
  <2>1. i \in 1 .. KnownAt[n]
    BY ConfiguredFacts
  <2>2. CopyOf(heap, stored[g][n], KnownAt[n])
    BY <1>1, <1>3 DEF StoredInv, StoredAt
  <2> QED
    BY <2>1, <2>2 DEF CopyOf
<1> QED
  BY <1>2, <1>3 DEF CanonicalUntouched

(* CanonicalUntouched for every configuration of known types: nobody, however  *)
(* deep what it decorates, changes what cloneSchema (operation_builder.go) has kept *)
(* from it, and the copy a generator stores is reached by nothing of its own   *)
(* but the spec that is finished in the end.                                   *)
THEOREM SpecCanonicalUntouched == Spec => []CanonicalUntouched
<1>1. Init => IInv
  BY InitInv
<1>2. IInv /\ [Next]_vars => IInv'
  BY StepInv
<1>3. IInv => CanonicalUntouched
  BY InvUntouched
<1> QED
  BY <1>1, <1>2, <1>3, PTL DEF Spec

-----------------------------------------------------------------------------
(* What conversion makes of a type.  Like(h, n, m): the object n of h is as m, *)
(* which is configured or a basic type's; $refs may have their final text.     *)

RefsOK(h) == \A i \in 1 .. Len(Configured) : h[i].ref = NoRef <=> Configured[i].ref = NoRef

Like(h, n, m) ==
    /\ n.types = m.types /\ n.form = m.form /\ n.keywords = m.keywords
    /\ n.ref = NoRef <=> m.ref = NoRef
    /\ MayBeNull(h, n) <=> MayBeNull(Configured, m)

WithNull(n, m) == n.types = m.types \cup {"null"} /\ n.form = "[]string" /\ n.keywords = m.keywords

OrNull(h, n) == n.types = {} /\ n.form = "nil" /\ n.keywords = {} /\ MayBeNull(h, n)

LEMMA ConfiguredLike ==
    ASSUME NEW b, ConfOK(b), RefsOK(b), NEW o \in 1 .. Len(Configured)
    PROVE  Like(b, b[o], Configured[o])
<1>1. \A j \in Configured[o].anyOf : j \in 1 .. Len(Configured)
  <2>1. Parts(Configured[o]) \subseteq 1 .. o - 1 /\ Len(Configured) \in Nat
    BY ConfiguredFacts DEF IsHeap
  <2>2. Configured[o].anyOf \subseteq Parts(Configured[o])
    BY DEF Parts
  <2> QED
    BY <2>1, <2>2
<1>2. \A j \in Configured[o].anyOf : b[j].types = Configured[j].types
  BY <1>1, ConfiguredParts
<1>3. /\ b[o].types = Configured[o].types /\ b[o].keywords = Configured[o].keywords
      /\ b[o].form = Configured[o].form /\ b[o].anyOf = Configured[o].anyOf
  BY ConfiguredParts
<1>4. MayBeNull(b, b[o]) <=> MayBeNull(Configured, Configured[o])
  BY <1>2, <1>3 DEF MayBeNull
<1> QED
  BY <1>3, <1>4 DEF Like, RefsOK

LEMMA CloneLike ==
    ASSUME NEW b, HeapOK(b), ConfOK(b), RefsOK(b), NEW o \in 1 .. Len(Configured), NEW h, h = Cloned(b, o)
    PROVE  Like(h, h[Len(h)], Configured[o])
<1>1. Len(h) = Len(b) + o /\ CloneOf(b, h, o)
  BY ClonedUntagged
<1>2. /\ IsHeap(b) /\ Len(b) \in Nat /\ Len(Configured) \in Nat /\ Len(Configured) <= Len(b)
  BY ConfiguredFacts DEF HeapOK, IsHeap, IsSeq
<1>3. o \in 1 .. o /\ \A i \in 1 .. o : i \in 1 .. Len(b)
  BY <1>2
<1>4. PICK n : n = b[o]
  OBVIOUS
<1>5. PICK c : c = h[Len(h)]
  OBVIOUS
<1>6. ASSUME NEW i \in 1 .. o
      PROVE  /\ h[Len(b) + i].types = b[i].types /\ h[Len(b) + i].form = b[i].form
             /\ h[Len(b) + i].keywords = b[i].keywords /\ h[Len(b) + i].ref = b[i].ref
             /\ h[Len(b) + i].anyOf = {Len(b) + j : j \in b[i].anyOf}
  <2>1. PICK p : p = b[i]
    OBVIOUS
  <2>2. PICK d : d = h[Len(b) + i]
    OBVIOUS
  <2>3. p = [ref |-> p.ref, types |-> p.types, form |-> p.form, anyOf |-> p.anyOf,
             below |-> p.below, keywords |-> p.keywords]
    BY <1>2, <1>3, <2>1 DEF IsHeap, Node
  <2>4. d = [p EXCEPT !.anyOf = {Len(b) + j : j \in p.anyOf}, !.below = {Len(b) + j : j \in p.below}]
    BY <1>1, <2>1, <2>2 DEF CloneOf
  <2>5. d.types = p.types /\ d.form = p.form /\ d.keywords = p.keywords /\ d.ref = p.ref
    BY <2>3, <2>4
  <2>6. d.anyOf = {Len(b) + j : j \in p.anyOf}
    BY <2>3, <2>4
  <2> QED
    BY <2>1, <2>2, <2>5, <2>6
<1>7. /\ c.types = n.types /\ c.form = n.form /\ c.keywords = n.keywords /\ c.ref = n.ref
      /\ c.anyOf = {Len(b) + j : j \in n.anyOf}
  BY <1>1, <1>3, <1>4, <1>5, <1>6
<1>8. \A j \in n.anyOf : j \in 1 .. o
  <2>1. Parts(n) \subseteq 1 .. o - 1 /\ n.anyOf \subseteq Parts(n)
    BY <1>2, <1>3, <1>4 DEF IsHeap, Parts
  <2> QED
    BY <2>1
<1>9. MayBeNull(h, c) <=> MayBeNull(b, n)
  <2>1. ASSUME NEW j \in n.anyOf, "null" \in b[j].types PROVE \E i \in c.anyOf : "null" \in h[i].types
    <3>1. Len(b) + j \in c.anyOf /\ h[Len(b) + j].types = b[j].types
      BY <1>6, <1>7, <1>8
    <3> QED
      BY <2>1, <3>1
  <2>2. ASSUME NEW i \in c.anyOf, "null" \in h[i].types PROVE \E j \in n.anyOf : "null" \in b[j].types
    <3>1. PICK j \in n.anyOf : i = Len(b) + j
      BY <1>7
    <3>2. h[i].types = b[j].types
      BY <1>6, <1>8, <3>1
    <3> QED
      BY <2>2, <3>2
  <2> QED
    BY <1>7, <2>1, <2>2 DEF MayBeNull
<1>10. Like(b, n, Configured[o])
  BY <1>4, ConfiguredLike
<1> QED
  BY <1>5, <1>7, <1>9, <1>10 DEF Like

LEMMA PlainLike ==
    ASSUME NEW h, NEW n, n.anyOf = {}
    PROVE  Like(h, n, n)
BY DEF Like, MayBeNull

LEMMA NameSchemaLike ==
    ASSUME NEW b, HeapOK(b), ConfOK(b), RefsOK(b), NEW u \in Uses, ~KnownPointer(u), NEW s, s = NameSchema(b, u.name)
    PROVE  Like(s.heap, s.heap[s.at], Basis(u))
<1>1. IsSeq(b) /\ Len(b) \in Nat
  BY DEF HeapOK, IsHeap, IsSeq
<1>2. ASSUME NEW n, s = Made(Append(b, n)) PROVE s.heap[s.at] = n
  <2>1. PICK h : h = Append(b, n)
    OBVIOUS
  <2>2. Len(h) = Len(b) + 1 /\ h[Len(b) + 1] = n
    BY <1>1, <2>1, Appended
  <2>3. s.heap = h /\ s.at = Len(h)
    BY <1>2, <2>1 DEF Made
  <2> QED
    BY <2>2, <2>3
<1>3. CASE u.name \in DOMAIN GoTypes
  <2>1. PICK n : n = Plain(GoTypes[u.name])
    OBVIOUS
  <2>2. s.heap[s.at] = n
    BY <1>2, <1>3, <2>1 DEF NameSchema
  <2>3. n.anyOf = {}
    BY <2>1 DEF Plain, Empty
  <2>4. Basis(u) = n
    BY <1>3, <2>1 DEF Basis
  <2> QED
    BY <2>2, <2>3, <2>4, PlainLike
<1>4. CASE u.name \notin DOMAIN GoTypes /\ u.name \in DOMAIN KnownAt
  <2>1. PICK h : h = Cloned(b, KnownAt[u.name])
    OBVIOUS
  <2>2. KnownAt[u.name] \in 1 .. Len(Configured)
    BY <1>4, ConfiguredFacts
  <2>3. Like(h, h[Len(h)], Configured[KnownAt[u.name]])
    BY <2>1, <2>2, CloneLike
  <2>4. s.heap = h /\ s.at = Len(h)
    BY <1>4, <2>1 DEF NameSchema, Made
  <2>5. Basis(u) = Configured[KnownAt[u.name]]
    BY <1>4 DEF Basis
  <2> QED
    BY <2>3, <2>4, <2>5
<1>5. CASE u.name \notin DOMAIN GoTypes /\ u.name \notin DOMAIN KnownAt
  <2>1. PICK n : n = Ref(u.name)
    OBVIOUS
  <2>2. s.heap[s.at] = n
    BY <1>2, <1>5, <2>1 DEF NameSchema
  <2>3. n.anyOf = {}
    BY <2>1 DEF Ref, Empty
  <2>4. Basis(u) = n
    BY <1>5, <2>1 DEF Basis
  <2> QED
    BY <2>2, <2>3, <2>4, PlainLike
<1> QED
  BY <1>3, <1>4, <1>5

LEMMA PointerSchemaLike ==
    ASSUME HeapOK(heap), ConfOK(heap), RefsOK(heap), NEW u \in Uses, KnownPointer(u), NEW s, s = PointerSchema(u)
    PROVE  Like(s.heap, s.heap[s.at], Basis(u))
<1>1. PICK o : o = PointerAt[u.name]
  OBVIOUS
<1>2. o \in 1 .. Len(Configured) /\ Basis(u) = Configured[o]
  BY <1>1, ConfiguredFacts DEF KnownPointer, Basis
<1>3. CASE u.place \in Written
  <2>1. PICK h : h = Cloned(heap, o)
    OBVIOUS
  <2>2. Like(h, h[Len(h)], Configured[o])
    BY <1>2, <2>1, CloneLike
  <2>3. s.heap = h /\ s.at = Len(h)
    BY <1>1, <1>3, <2>1 DEF PointerSchema, Made
  <2> QED
    BY <1>2, <2>2, <2>3
<1>4. CASE u.place \notin Written
  <2>1. s.heap = heap /\ s.at = o
    BY <1>1, <1>4 DEF PointerSchema
  <2> QED
    BY <1>2, <2>1, ConfiguredLike
<1> QED
  BY <1>3, <1>4

(* A wrapper's object: an array of what there was, or what there was with null *)
(* among its types, or as one of two parts, or as it is.                       *)
LEMMA AppendedLast ==
    ASSUME NEW h, IsSeq(h), NEW n, NEW r, r = Made(Append(h, n))
    PROVE  r.heap[r.at] = n
<1>1. PICK g : g = Append(h, n)
  OBVIOUS
<1>2. Len(g) = Len(h) + 1 /\ g[Len(h) + 1] = n
  BY <1>1, Appended
<1>3. r.heap = g /\ r.at = Len(g)
  BY <1>1 DEF Made
<1> QED
  BY <1>2, <1>3

LEMMA NullableIs ==
    ASSUME NEW s, IsSeq(s.heap), NEW r, r = Nullable(s)
    PROVE  OrNull(r.heap, r.heap[r.at])
<1>1. PICK h : h = s.heap
  OBVIOUS
<1>2. PICK f : f = Append(h, Plain("null"))
  OBVIOUS
<1>3. PICK m : m = AnyOf({s.at, Len(h) + 1})
  OBVIOUS
<1>4. PICK g : g = Append(f, m)
  OBVIOUS
<1>5. IsSeq(f) /\ Len(f) = Len(h) + 1 /\ Len(h) \in Nat /\ f[Len(h) + 1] = Plain("null")
  BY <1>1, <1>2, Appended
<1>6. Len(g) = Len(f) + 1 /\ g[Len(f) + 1] = m /\ \A i \in 1 .. Len(f) : g[i] = f[i]
  BY <1>4, <1>5, Appended
<1>7. h \o <<Plain("null"), m>> = g
  BY <1>1, <1>2, <1>4, AppendTwo
<1>8. r.heap = g /\ r.at = Len(g)
  BY <1>1, <1>3, <1>7 DEF Nullable, Made
<1>9. g[Len(h) + 1] = Plain("null")
  BY <1>5, <1>6
<1>10. m.types = {} /\ m.form = "nil" /\ m.keywords = {} /\ m.anyOf = {s.at, Len(h) + 1}
  BY <1>3 DEF AnyOf, Empty
<1>11. "null" \in g[Len(h) + 1].types
  BY <1>9 DEF Plain, Empty
<1>12. MayBeNull(g, m)
  BY <1>10, <1>11 DEF MayBeNull
<1> QED
  BY <1>6, <1>8, <1>10, <1>12 DEF OrNull

LEMMA WrittenPointerIs ==
    ASSUME NEW s, s = [heap |-> s.heap, at |-> s.at], IsSeq(s.heap), s.at \in 1 .. Len(s.heap), Node(s.heap[s.at]),
           NEW n, n = s.heap[s.at], NEW r, r = WrittenPointer(s)
    PROVE  IF n.ref # NoRef THEN OrNull(r.heap, r.heap[r.at])
           ELSE IF n.form = "string" THEN WithNull(r.heap[r.at], n)
           ELSE r = s
<1>1. CASE n.ref # NoRef
  BY <1>1, NullableIs DEF WrittenPointer
<1>2. CASE n.ref = NoRef /\ n.form = "string"
  <2>1. PICK m : m = [n EXCEPT !.types = n.types \cup {"null"}, !.form = "[]string"]
    OBVIOUS
  <2>2. PICK g : g = [s.heap EXCEPT ![s.at] = m]
    OBVIOUS
  <2>3. r = [s EXCEPT !.heap[s.at] = m]
    BY <1>2, <2>1 DEF WrittenPointer
  <2>4. r.heap = g /\ r.at = s.at
    BY <2>2, <2>3
  <2>5. s.at \in DOMAIN s.heap
    BY DEF IsSeq
  <2>6. g[s.at] = m
    BY <2>2, <2>5
  <2>7. n = [ref |-> n.ref, types |-> n.types, form |-> n.form, anyOf |-> n.anyOf,
             below |-> n.below, keywords |-> n.keywords]
    BY DEF Node
  <2>8. m.types = n.types \cup {"null"} /\ m.form = "[]string" /\ m.keywords = n.keywords
    BY <2>1, <2>7
  <2> QED
    BY <1>2, <2>4, <2>6, <2>8 DEF WithNull
<1>3. CASE n.ref = NoRef /\ n.form # "string"
  BY <1>3 DEF WrittenPointer
<1> QED
  BY <1>1, <1>2, <1>3

LEMMA NamedPointerIs ==
    ASSUME NEW s, IsSeq(s.heap), Node(s.heap[s.at]), NEW basic, NEW r, r = NamedPointer(s, basic)
    PROVE  OrNull(r.heap, r.heap[r.at]) \/ WithNull(r.heap[r.at], s.heap[s.at])
<1>1. CASE basic
  <2>1. PICK n : n = s.heap[s.at]
    OBVIOUS
  <2>2. PICK m : m = [n EXCEPT !.types = n.types \cup {"null"}, !.form = "[]string"]
    OBVIOUS
  <2>3. r = Made(Append(s.heap, m))
    BY <1>1, <2>1, <2>2 DEF NamedPointer
  <2>4. r.heap[r.at] = m
    BY <2>3, AppendedLast
  <2>5. n = [ref |-> n.ref, types |-> n.types, form |-> n.form, anyOf |-> n.anyOf,
             below |-> n.below, keywords |-> n.keywords]
    BY <2>1 DEF Node
  <2>6. m.types = n.types \cup {"null"} /\ m.form = "[]string" /\ m.keywords = n.keywords
    BY <2>2, <2>5
  <2> QED
    BY <2>1, <2>4, <2>6 DEF WithNull
<1>2. CASE ~basic
  BY <1>2, NullableIs DEF NamedPointer
<1> QED
  BY <1>1, <1>2

(* What is made for a use, by where its type is written. *)
Shaped(u, n) ==
    n.keywords = Outermost(u).keywords /\ n.types \ {"null"} = Outermost(u).types \ {"null"}

MadeFor(u, h, n) ==
    /\ u.place \in {"field"} \cup Contents => (MayBeNull(h, n) <=> DeclaredNullable(u))
    /\ u.place = "field" => Shaped(u, n)
    /\ u.place \in {"query", "param"} => (NullOnly(n) <=> Around(u) = << >> /\ NullOnly(Basis(u)))

LEMMA AroundFacts ==
    ASSUME NEW u \in Uses, NEW a, a = Around(u)
    PROVE  /\ Len(a) \in Nat /\ \A i \in 1 .. Len(a) : a[i] \in {"list", "ptr"}
           /\ \A i \in 1 .. Len(a) : i > 1 /\ a[i - 1] = "ptr" => a[i] = "list"
           /\ a = << >> <=> Len(a) = 0
           /\ a = Pointer <=> Len(a) = 1 /\ a[1] = "ptr"
           /\ Len(a) > 0 => Head(a) = a[1]
<1>1. PICK w : w = WrapsOf(u)
  OBVIOUS
<1>2. w \in Seq({"list", "ptr"}) /\ \A i \in DOMAIN w : i > 1 => {w[i - 1], w[i]} # {"ptr"}
  BY <1>1, WrapsFacts
<1>3. Len(w) \in Nat /\ DOMAIN w = 1 .. Len(w)
  BY <1>2
<1>4. /\ a \in Seq({"list", "ptr"}) /\ Len(a) <= Len(w)
      /\ \A i \in 1 .. Len(a) : a[i] = w[i]
  <2>1. CASE KnownPointer(u)
    <3>1. w # << >> /\ a = SubSeq(w, 1, Len(w) - 1)
      BY <1>1, <2>1 DEF KnownPointer, Around, Front
    <3>2. Len(w) - 1 \in 0 .. Len(w)
      BY <1>2, <1>3, <3>1
    <3>3. /\ a \in Seq({"list", "ptr"}) /\ Len(a) = Len(w) - 1
          /\ \A i \in 1 .. Len(w) - 1 : a[i] = w[i]
      BY <1>2, <1>3, <3>1, <3>2
    <3> QED
      BY <1>3, <3>3
  <2>2. CASE ~KnownPointer(u)
    BY <1>1, <1>2, <1>3, <2>2 DEF Around
  <2> QED
    BY <2>1, <2>2
<1>5. Len(a) \in Nat /\ \A i \in 1 .. Len(a) : a[i] \in {"list", "ptr"}
  BY <1>4
<1>6. ASSUME NEW i \in 1 .. Len(a), i > 1, a[i - 1] = "ptr" PROVE a[i] = "list"
  <2>1. i \in DOMAIN w /\ i - 1 \in 1 .. Len(a)
    BY <1>3, <1>4, <1>5, <1>6
  <2>2. {a[i - 1], a[i]} # {"ptr"}
    BY <1>2, <1>4, <1>6, <2>1
  <2> QED
    BY <1>5, <1>6, <2>2
<1>7. a = << >> <=> Len(a) = 0
  BY <1>4
<1>8. a = Pointer <=> Len(a) = 1 /\ a[1] = "ptr"
  <2>1. a = Pointer => Len(a) = 1 /\ a[1] = "ptr"
    BY DEF Pointer
  <2>2. ASSUME Len(a) = 1, a[1] = "ptr" PROVE a = Pointer
    <3>1. PICK p : p = <<"ptr">>
      OBVIOUS
    <3>2. p \in Seq({"list", "ptr"}) /\ Len(p) = 1 /\ p[1] = "ptr"
      BY <3>1
    <3>3. \A i \in 1 .. Len(a) : a[i] = p[i]
      BY <2>2, <3>2
    <3>4. a = p
      BY <1>4, <2>2, <3>2, <3>3, SeqEqual
    <3> QED
      BY <3>1, <3>4 DEF Pointer
  <2> QED
    BY <2>1, <2>2
<1>9. Len(a) > 0 => Head(a) = a[1]
  BY <1>4
<1> QED
  BY <1>5, <1>6, <1>7, <1>8, <1>9

(* As it is, or a pointer to it, or anything around a list. *)
LEMMA MadeAsItIs ==
    ASSUME NEW u \in Uses, Around(u) = << >>, NEW h, NEW n, Like(h, n, Basis(u))
    PROVE  MadeFor(u, h, n)
<1>1. n.types = Basis(u).types /\ n.form = Basis(u).form /\ n.keywords = Basis(u).keywords
      /\ (MayBeNull(h, n) <=> MayBeNull(Configured, Basis(u)))
  BY DEF Like
<1>2. u.place # "value" => (MayBeNull(h, n) <=> DeclaredNullable(u))
  BY <1>1 DEF DeclaredNullable, AsConfigured
<1>3. u.place = "field" => Shaped(u, n)
  <2>1. u.place = "field" => Outermost(u) = Basis(u)
    BY DEF Outermost, Pointer
  <2> QED
    BY <1>1, <2>1 DEF Shaped
<1>4. NullOnly(n) <=> NullOnly(Basis(u))
  BY <1>1 DEF NullOnly
<1> QED
  BY <1>2, <1>3, <1>4 DEF MadeFor, Contents

LEMMA MadeNullable ==
    ASSUME NEW u \in Uses, Around(u) # << >>, Head(Around(u)) = "ptr", ~AsConfigured(u),
           NEW h, NEW n, MayBeNull(h, n), n.form # "string",
           u.place = "field" => Shaped(u, n)
    PROVE  MadeFor(u, h, n)
<1>1. DeclaredNullable(u)
  BY DEF DeclaredNullable
<1>2. ~NullOnly(n)
  BY DEF NullOnly
<1> QED
  BY <1>1, <1>2 DEF MadeFor

LEMMA NullMade ==
    ASSUME NEW h, NEW n, NEW m, OrNull(h, n) \/ WithNull(n, m)
    PROVE  MayBeNull(h, n) /\ n.form # "string"
BY DEF OrNull, WithNull, MayBeNull

LEMMA MadePointer ==
    ASSUME NEW u \in Uses, Around(u) = Pointer,
           NEW s, s = [heap |-> s.heap, at |-> s.at], IsSeq(s.heap), s.at \in 1 .. Len(s.heap), Node(s.heap[s.at]),
           Like(s.heap, s.heap[s.at], Basis(u)), NEW r, r = WrapOf(u, s, "ptr", s)
    PROVE  MadeFor(u, r.heap, r.heap[r.at])
<1>1. PICK n : n = s.heap[s.at]
  OBVIOUS
<1>2. PICK m : m = r.heap[r.at]
  OBVIOUS
<1>3. /\ n.types = Basis(u).types /\ n.form = Basis(u).form /\ n.keywords = Basis(u).keywords
      /\ (n.ref = NoRef <=> Basis(u).ref = NoRef)
      /\ (MayBeNull(s.heap, n) <=> MayBeNull(Configured, Basis(u)))
  BY <1>1 DEF Like
<1>4. Around(u) # << >> /\ Head(Around(u)) = "ptr"
  BY DEF Pointer
<1>5. CASE u.place \notin Written
  <2>1. r = NamedPointer(s, u.name \in DOMAIN GoTypes /\ s.at = s.at)
    BY <1>5 DEF WrapOf
  <2>2. OrNull(r.heap, m) \/ WithNull(m, n)
    BY <1>1, <1>2, <2>1, NamedPointerIs
  <2>3. MayBeNull(r.heap, m) /\ m.form # "string"
    BY <2>2, NullMade
  <2>4. ~AsConfigured(u) /\ u.place # "field"
    BY <1>4, <1>5 DEF AsConfigured, Written
  <2> QED
    BY <1>2, <1>4, <2>3, <2>4, MadeNullable
<1>6. CASE u.place \in Written
  <2>1. r = WrittenPointer(s)
    BY <1>6 DEF WrapOf
  <2>2. IF n.ref # NoRef THEN OrNull(r.heap, m)
        ELSE IF n.form = "string" THEN WithNull(m, n)
        ELSE r = s
    BY <1>1, <1>2, <2>1, WrittenPointerIs
  <2>3. CASE n.ref # NoRef
    <3>1. OrNull(r.heap, m)
      BY <2>2, <2>3
    <3>2. MayBeNull(r.heap, m) /\ m.form # "string"
      BY <3>1, NullMade
    <3>3. ~AsConfigured(u)
      BY <1>3, <1>4, <2>3 DEF AsConfigured
    <3>4. ASSUME u.place = "field" PROVE Shaped(u, m)
      <4>1. Outermost(u) = Empty
        BY <1>3, <2>3, <3>4 DEF Outermost
      <4>2. Empty.keywords = {} /\ Empty.types = {}
        BY DEF Empty
      <4> QED
        BY <3>1, <4>1, <4>2 DEF Shaped, OrNull
    <3> QED
      BY <1>2, <1>4, <3>2, <3>3, <3>4, MadeNullable
  <2>4. CASE n.ref = NoRef /\ n.form = "string"
    <3>1. WithNull(m, n)
      BY <2>2, <2>4
    <3>2. MayBeNull(r.heap, m) /\ m.form # "string"
      BY <3>1, NullMade
    <3>3. ~AsConfigured(u)
      BY <1>3, <1>4, <2>4 DEF AsConfigured
    <3>4. ASSUME u.place = "field" PROVE Shaped(u, m)
      <4>1. Outermost(u) = Basis(u)
        BY <1>3, <2>4, <3>4 DEF Outermost
      <4> QED
        BY <1>3, <3>1, <4>1 DEF Shaped, WithNull
    <3> QED
      BY <1>2, <1>4, <3>2, <3>3, <3>4, MadeNullable
  <2>5. CASE n.ref = NoRef /\ n.form # "string"
    <3>1. r = s /\ m = n
      BY <1>1, <1>2, <2>2, <2>5
    <3>2. ASSUME u.place = "field" PROVE (MayBeNull(r.heap, m) <=> DeclaredNullable(u)) /\ Shaped(u, m)
      <4>1. AsConfigured(u)
        BY <1>3, <2>5, <3>2 DEF AsConfigured
      <4>2. Outermost(u) = Basis(u)
        BY <1>3, <2>5, <3>2 DEF Outermost
      <4>3. MayBeNull(r.heap, m) <=> DeclaredNullable(u)
        BY <1>3, <3>1, <3>2, <4>1 DEF DeclaredNullable
      <4>4. Shaped(u, m)
        BY <1>3, <3>1, <4>2 DEF Shaped
      <4> QED
        BY <4>3, <4>4
    <3>3. ~NullOnly(m) /\ u.place \notin Contents
      BY <1>6, <2>5, <3>1 DEF NullOnly, Written, Contents
    <3> QED
      BY <1>2, <1>4, <3>2, <3>3 DEF MadeFor
  <2> QED
    BY <2>3, <2>4, <2>5
<1> QED
  BY <1>5, <1>6

Array(n) ==
    n.types = {"array"} /\ n.form = "string" /\ n.anyOf = {} /\ n.keywords = {} /\ n.ref = NoRef

LEMMA MadeAroundList ==
    ASSUME NEW u \in Uses, NEW a, a = Around(u), Len(a) > 0, a # Pointer,
           NEW x, x = [heap |-> x.heap, at |-> x.at], IsSeq(x.heap), x.at \in 1 .. Len(x.heap), Node(x.heap[x.at]),
           a[1] = "list" \/ Array(x.heap[x.at]),
           NEW s, NEW r, r = WrapOf(u, s, a[1], x)
    PROVE  MadeFor(u, r.heap, r.heap[r.at])
<1>1. PICK m : m = r.heap[r.at]
  OBVIOUS
<1>2. /\ a # << >> /\ Head(a) = a[1] /\ (a[1] = "list" \/ a[1] = "ptr")
      /\ Len(a) \in Nat
  <2>1. 1 \in 1 .. Len(a)
    BY AroundFacts
  <2> QED
    BY <2>1, AroundFacts
<1>3. ~AsConfigured(u)
  BY <1>2 DEF AsConfigured
<1>4. u.place = "field" => Outermost(u).keywords = {} /\ Outermost(u).types = {"array"}
  BY <1>2 DEF Outermost, Plain, Empty
<1>5. CASE a[1] = "list"
  <2>1. r = Made(Append(x.heap, ArrayOf(x.at)))
    BY <1>5 DEF WrapOf
  <2>2. m = ArrayOf(x.at)
    BY <1>1, <2>1, AppendedLast
  <2>3. m.types = {"array"} /\ m.anyOf = {} /\ m.keywords = {}
    BY <2>2 DEF ArrayOf, Plain, Empty
  <2>4. ~MayBeNull(r.heap, m) /\ ~NullOnly(m)
    BY <2>3 DEF MayBeNull, NullOnly
  <2>5. u.place # "value" => ~DeclaredNullable(u)
    BY <1>2, <1>3, <1>5 DEF DeclaredNullable
  <2>6. u.place = "field" => Shaped(u, m)
    BY <1>4, <2>3 DEF Shaped
  <2> QED
    BY <1>1, <1>2, <2>4, <2>5, <2>6 DEF MadeFor, Contents
<1>6. CASE a[1] # "list"
  <2>1. PICK n : n = x.heap[x.at]
    OBVIOUS
  <2>2. Array(n) /\ Head(a) = "ptr"
    BY <1>2, <1>6, <2>1
  <2>3. OrNull(r.heap, m) \/ WithNull(m, n)
    <3>1. CASE u.place \in Written
      <4>1. r = WrittenPointer(x)
        BY <1>6, <3>1 DEF WrapOf
      <4>2. IF n.ref # NoRef THEN OrNull(r.heap, m)
            ELSE IF n.form = "string" THEN WithNull(m, n)
            ELSE r = x
        BY <1>1, <2>1, <4>1, WrittenPointerIs
      <4> QED
        BY <2>2, <4>2 DEF Array
    <3>2. CASE u.place \notin Written
      <4>1. r = NamedPointer(x, u.name \in DOMAIN GoTypes /\ x.at = s.at)
        BY <1>6, <3>2 DEF WrapOf
      <4> QED
        BY <1>1, <2>1, <4>1, NamedPointerIs
    <3> QED
      BY <3>1, <3>2
  <2>4. MayBeNull(r.heap, m) /\ m.form # "string"
    BY <2>3, NullMade
  <2>5. ASSUME u.place = "field" PROVE Shaped(u, m)
    <3>1. r = WrittenPointer(x)
      BY <1>6, <2>5 DEF WrapOf, Written
    <3>2. IF n.ref # NoRef THEN OrNull(r.heap, m)
          ELSE IF n.form = "string" THEN WithNull(m, n)
          ELSE r = x
      BY <1>1, <2>1, <3>1, WrittenPointerIs
    <3>3. WithNull(m, n)
      BY <2>2, <3>2 DEF Array
    <3> QED
      BY <1>4, <2>2, <2>5, <3>3 DEF Shaped, WithNull, Array
  <2> QED
    BY <1>1, <1>2, <1>3, <2>2, <2>4, <2>5, MadeNullable
<1> QED
  BY <1>5, <1>6

LEMMA ConvNode ==
    ASSUME NEW b, IsHeap(b), NEW place, NEW s, Conv(s, b, place)
    PROVE  /\ s = [heap |-> s.heap, at |-> s.at] /\ IsSeq(s.heap) /\ s.at \in 1 .. Len(s.heap)
           /\ Node(s.heap[s.at])
<1>1. Extends(s.heap, b)
  BY DEF Conv
<1>2. IsHeap(s.heap)
  BY <1>1, ExtendsIsHeap
<1> QED
  BY <1>2 DEF Conv, IsHeap

LEMMA WrappedMade ==
    ASSUME NEW b, IsHeap(b), OfPointersClosed(b), NEW u \in Uses,
           NEW s, Conv(s, b, u.place), Like(s.heap, s.heap[s.at], Basis(u)), NEW r, r = Wrapped(u, s, Around(u))
    PROVE  MadeFor(u, r.heap, r.heap[r.at])
<1>1. PICK a : a = Around(u)
  OBVIOUS
<1>2. PICK l : l = Len(a)
  OBVIOUS
<1>3. l \in Nat
  BY <1>1, <1>2, AroundFacts
<1>4. PICK W : /\ W[0] = s /\ r = W[l]
               /\ \A i \in 1 .. l : W[i] = WrapOf(u, s, a[l + 1 - i], W[i - 1])
               /\ \A i \in 0 .. l : Conv(W[i], b, u.place)
  BY <1>1, <1>2, <1>3, WrappedBy
<1>5. CASE l = 0
  <2>1. r = s /\ a = << >>
    BY <1>1, <1>2, <1>4, <1>5, AroundFacts
  <2> QED
    BY <1>1, <2>1, MadeAsItIs
<1>6. CASE l > 0
  <2>1. PICK x : x = W[l - 1]
    OBVIOUS
  <2>2. r = WrapOf(u, s, a[1], x) /\ Conv(x, b, u.place)
    <3>1. l \in 1 .. l /\ l + 1 - l = 1 /\ l - 1 \in 0 .. l
      BY <1>3, <1>6
    <3> QED
      BY <1>4, <2>1, <3>1
  <2>3. /\ x = [heap |-> x.heap, at |-> x.at] /\ IsSeq(x.heap) /\ x.at \in 1 .. Len(x.heap)
        /\ Node(x.heap[x.at])
    BY <2>2, ConvNode
  <2>4. CASE a = Pointer
    <3>1. l = 1 /\ a[1] = "ptr"
      BY <1>1, <1>2, <2>4, AroundFacts
    <3>2. x = s
      BY <1>4, <2>1, <3>1
    <3>3. r = WrapOf(u, s, "ptr", s)
      BY <2>2, <3>1, <3>2
    <3> QED
      BY <1>1, <2>3, <2>4, <3>2, <3>3, MadePointer
  <2>5. CASE a # Pointer
    <3>1. a[1] = "list" \/ Array(x.heap[x.at])
      <4> SUFFICES ASSUME a[1] # "list" PROVE Array(x.heap[x.at])
        OBVIOUS
      <4>1. 1 \in 1 .. l /\ a[1] = "ptr"
        BY <1>1, <1>2, <1>3, <1>6, AroundFacts
      <4>2. l # 1
        BY <1>1, <1>2, <2>5, <4>1, AroundFacts
      <4>3. 2 \in 1 .. l /\ 2 > 1 /\ 2 - 1 = 1
        BY <1>3, <1>6, <4>2
      <4>4. a[2] = "list"
        BY <1>1, <1>2, <4>1, <4>3, AroundFacts
      <4>5. PICK y : y = W[l - 1 - 1]
        OBVIOUS
      <4>6. l - 1 \in 1 .. l /\ l + 1 - (l - 1) = 2 /\ l - 1 - 1 \in 0 .. l
        BY <1>3, <4>3
      <4>7. x = WrapOf(u, s, "list", y) /\ Conv(y, b, u.place)
        BY <1>4, <2>1, <4>4, <4>5, <4>6
      <4>8. x = Made(Append(y.heap, ArrayOf(y.at))) /\ IsSeq(y.heap)
        BY <4>7, ConvNode DEF WrapOf
      <4>9. x.heap[x.at] = ArrayOf(y.at)
        BY <4>8, AppendedLast
      <4> QED
        BY <4>9 DEF Array, ArrayOf, Plain, Empty
    <3> QED
      BY <1>1, <1>2, <1>6, <2>2, <2>3, <2>5, <3>1, MadeAroundList
  <2> QED
    BY <2>4, <2>5
<1> QED
  BY <1>3, <1>5, <1>6

LEMMA ConvertMade ==
    ASSUME IInv, RefsOK(heap), NEW u \in Uses, Convert(u)
    PROVE  \E h, r : /\ Extends(h, heap) /\ HeapOK(h) /\ ConfOK(h) /\ Conv(r, h, u.place)
                     /\ heap' = r.heap /\ object' = [object EXCEPT ![u] = r.at]
                     /\ MadeFor(u, r.heap, r.heap[r.at])
<1>1. PICK h, s, r :
          /\ Stored(u.by, u.name, h) /\ HeapOK(h) /\ ConfOK(h) /\ (KnownPointer(u) => h = heap)
          /\ Innermost(u, h, s) /\ Conv(s, h, u.place)
          /\ r = Wrapped(u, s, Around(u)) /\ Conv(r, h, u.place)
          /\ heap' = r.heap /\ object' = [object EXCEPT ![u] = r.at]
  BY Converting
<1>2. HeapOK(heap) /\ ConfOK(heap) /\ IsHeap(h) /\ OfPointersClosed(h)
  BY <1>1, PointersClosed DEF IInv, HeapOK
<1>3. Extends(h, heap)
  <2>1. CASE h = heap
    BY <1>2, <2>1, ExtendsItself
  <2>2. CASE u.name \in DOMAIN KnownAt /\ h = Cloned(heap, KnownAt[u.name])
    BY <1>2, <2>2, StoredCopy
  <2> QED
    BY <1>1, <2>1, <2>2 DEF Stored
<1>4. RefsOK(h)
  <2>1. Len(Configured) <= Len(heap) /\ Len(heap) \in Nat /\ Len(Configured) \in Nat
    BY <1>2, ConfiguredFacts DEF HeapOK, IsHeap, IsSeq
  <2>2. \A i \in 1 .. Len(Configured) : h[i] = heap[i]
    BY <1>3, <2>1 DEF Extends
  <2> QED
    BY <2>2 DEF RefsOK
<1>5. Like(s.heap, s.heap[s.at], Basis(u))
  <2>1. CASE KnownPointer(u)
    BY <1>1, <1>2, <2>1, PointerSchemaLike DEF Innermost
  <2>2. CASE ~KnownPointer(u)
    BY <1>1, <1>4, <2>2, NameSchemaLike DEF Innermost
  <2> QED
    BY <2>1, <2>2
<1>6. MadeFor(u, r.heap, r.heap[r.at])
  BY <1>1, <1>2, <1>5, WrappedMade
<1> QED
  BY <1>1, <1>3, <1>6

(* Without null: what is left of a schema may be null if the schema was        *)
(* nothing else.                                                               *)
LEMMA NonNullTypes ==
    ASSUME NEW n, Node(n)
    PROVE  /\ "null" \in NonNull(n).types <=> NullOnly(n)
           /\ NonNull(n) = [ref |-> n.ref, types |-> NonNull(n).types, form |-> NonNull(n).form, anyOf |-> n.anyOf,
                            below |-> n.below, keywords |-> n.keywords]
<1>1. n = [ref |-> n.ref, types |-> n.types, form |-> n.form, anyOf |-> n.anyOf,
           below |-> n.below, keywords |-> n.keywords]
  BY DEF Node
<1>2. CASE n.form \notin {"[]string", "[]any"}
  <2>1. NonNull(n) = n
    BY <1>2 DEF NonNull
  <2>2. "null" \in n.types <=> NullOnly(n)
    BY <1>2 DEF Node, Forms, NullOnly
  <2> QED
    BY <1>1, <2>1, <2>2
<1>3. CASE n.form \in {"[]string", "[]any"}
  <2>1. PICK types : types = n.types \ {"null"}
    OBVIOUS
  <2>2. PICK form : form = IF types = {} THEN "nil" ELSE IF \E t \in types : types = {t} THEN "string" ELSE n.form
    OBVIOUS
  <2>3. PICK m : m = NonNull(n)
    OBVIOUS
  <2>4. m = [n EXCEPT !.types = types, !.form = form]
    BY <1>3, <2>1, <2>2, <2>3 DEF NonNull
  <2>5. m = [ref |-> n.ref, types |-> types, form |-> form, anyOf |-> n.anyOf,
             below |-> n.below, keywords |-> n.keywords]
    BY <1>1, <2>4
  <2>6. m.types = types /\ m.form = form
    BY <2>5
  <2>7. "null" \notin m.types /\ ~NullOnly(n)
    BY <1>3, <2>1, <2>6 DEF NullOnly
  <2> QED
    BY <2>3, <2>5, <2>6, <2>7
<1> QED
  BY <1>2, <1>3

Left(h, R, S, i, d) ==
    /\ "null" \in d.types <=> NullOnly(h[i])
    /\ i \in R => d.anyOf \subseteq R /\ \A j \in d.anyOf : ~NullOnly(h[j])
    /\ i \in S => d.keywords \subseteq ConfiguredKeywords

LEMMA DenulledLeft ==
    ASSUME NEW h, IsHeap(h), NEW o \in 1 .. Len(h), NEW D, Denulling(D, h, o),
           NEW R, R \subseteq 1 .. o, \A x \in R : Kept(h, h[x]) \subseteq R,
           NEW S, \A x \in S \cap (1 .. o) : Parts(h[x]) \subseteq S /\ h[x].keywords \subseteq ConfiguredKeywords
    PROVE  \A i \in 1 .. o : Left(h, R, S, i, D[i])
<1> DEFINE T == {k \in Nat : \A i \in 1 .. k : i <= o => Left(h, R, S, i, D[i])}
<1>1. Len(h) \in Nat /\ o \in Nat
  BY DEF IsHeap, IsSeq
<1>2. 0 \in T
  OBVIOUS
<1>3. ASSUME NEW k \in T PROVE k + 1 \in T
  <2>1. k \in Nat /\ \A i \in 1 .. k : i <= o => Left(h, R, S, i, D[i])
    OBVIOUS
  <2>2. ASSUME NEW i, i = k + 1, i <= o PROVE Left(h, R, S, i, D[i])
    <3>1. i \in 1 .. o /\ i \in 1 .. Len(h)
      BY <1>1, <2>1, <2>2
    <3>2. PICK n : n = h[i]
      OBVIOUS
    <3>3. Node(n) /\ Parts(n) \subseteq 1 .. i - 1 /\ n.anyOf \subseteq Parts(n)
      BY <3>1, <3>2 DEF IsHeap, Parts
    <3>4. CASE \E j \in n.anyOf : OnlyPart(h, n, j)
      <4>1. PICK j : j = CHOOSE x \in h[i].anyOf : OnlyPart(h, h[i], x)
        OBVIOUS
      <4>2. j \in n.anyOf /\ OnlyPart(h, n, j) /\ D[i] = D[j]
        BY <3>1, <3>2, <3>4, <4>1 DEF Denulling
      <4>3. j \in 1 .. k /\ j <= o
        BY <1>1, <2>1, <2>2, <3>1, <3>3, <4>2
      <4>4. Left(h, R, S, j, D[j])
        BY <2>1, <4>3
      <4>5. j \in Kept(h, n) /\ ~NullOnly(h[j]) /\ NonNull(n).form = "nil"
        BY <4>2 DEF OnlyPart, Kept
      <4>6. ~NullOnly(n)
        BY <4>5 DEF NullOnly, NonNull
      <4>7. i \in R => j \in R
        BY <3>2, <4>5
      <4>8. i \in S => j \in S
        BY <3>1, <3>2, <3>3, <4>2
      <4> QED
        BY <3>2, <4>2, <4>4, <4>5, <4>6, <4>7, <4>8 DEF Left
    <3>5. CASE ~\E j \in n.anyOf : OnlyPart(h, n, j)
      <4>1. PICK m : m = NonNull(n)
        OBVIOUS
      <4>2. PICK d : d = D[i]
        OBVIOUS
      <4>3. d = [m EXCEPT !.anyOf = Kept(h, n)]
        BY <3>1, <3>2, <3>5, <4>1, <4>2 DEF Denulling
      <4>4. /\ "null" \in m.types <=> NullOnly(n)
            /\ m = [ref |-> n.ref, types |-> m.types, form |-> m.form, anyOf |-> n.anyOf,
                    below |-> n.below, keywords |-> n.keywords]
        BY <3>3, <4>1, NonNullTypes
      <4>5. d.types = m.types /\ d.anyOf = Kept(h, n) /\ d.keywords = n.keywords
        BY <4>3, <4>4
      <4>6. \A j \in Kept(h, n) : ~NullOnly(h[j])
        BY DEF Kept
      <4>7. i \in R => Kept(h, n) \subseteq R
        BY <3>2
      <4>8. i \in S => n.keywords \subseteq ConfiguredKeywords
        BY <3>1, <3>2
      <4> QED
        BY <3>2, <4>2, <4>4, <4>5, <4>6, <4>7, <4>8 DEF Left
    <3> QED
      BY <3>4, <3>5
  <2>3. \A i \in 1 .. k + 1 : i \in 1 .. k \/ i = k + 1
    BY <2>1
  <2> HIDE DEF T
  <2>4. \A i \in 1 .. k + 1 : i <= o => Left(h, R, S, i, D[i])
    BY <2>1, <2>2, <2>3
  <2> QED
    BY <2>1, <2>4 DEF T
<1>4. T = Nat
  BY <1>2, <1>3, NatSet
<1> SUFFICES ASSUME NEW i \in 1 .. o PROVE Left(h, R, S, i, D[i])
  OBVIOUS
<1>5. i \in T /\ i \in 1 .. i /\ i <= o
  BY <1>1, <1>4
<1> QED
  BY <1>5

LEMMA DenulledIs ==
    ASSUME NEW h, IsHeap(h), NEW o \in 1 .. Len(h), NEW g, g = Denulled(h, o),
           NEW S, o \in S, \A x \in S \cap (1 .. o) : Parts(h[x]) \subseteq S /\ h[x].keywords \subseteq ConfiguredKeywords
    PROVE  g[o].keywords \subseteq ConfiguredKeywords /\ (MayBeNull(g, g[o]) <=> NullOnly(h[o]))
<1>1. PICK R, D :
          /\ g = [i \in DOMAIN h |-> IF i \in R THEN D[i] ELSE h[i]]
          /\ Denulling(D, h, o)
          /\ o \in R /\ R \subseteq 1 .. o /\ \A x \in R : Kept(h, h[x]) \subseteq R
  <2>1. PICK R, D : Rewriting(R, D, h, o)
    BY DenulledBy
  <2> QED
    BY <2>1 DEF Rewriting
<1>2. \A i \in 1 .. o : Left(h, R, S, i, D[i])
  BY <1>1, DenulledLeft
<1>3. DOMAIN h = 1 .. Len(h) /\ Len(h) \in Nat
  BY DEF IsHeap, IsSeq
<1>4. \A i \in R : i \in 1 .. o /\ g[i] = D[i]
  BY <1>1, <1>3
<1>5. Left(h, R, S, o, g[o])
  BY <1>1, <1>2, <1>4
<1>6. \A j \in g[o].anyOf : j \in R /\ ~NullOnly(h[j])
  BY <1>1, <1>5 DEF Left
<1>7. \A j \in g[o].anyOf : "null" \notin g[j].types
  BY <1>2, <1>4, <1>6 DEF Left
<1> QED
  BY <1>5, <1>7 DEF Left, MayBeNull

-----------------------------------------------------------------------------
(* The inductive invariant of what a schema says, use by use.  Between its     *)
(* conversion and its normalization a parameter's schema is made of objects no *)
(* tag is applied to: a closed set that has no field's object.                 *)

SameShape(h, b, T) ==
    /\ Len(h) \in Nat /\ Len(b) <= Len(h)
    /\ \A i \in 1 .. Len(b) :
          /\ h[i].types = b[i].types /\ h[i].form = b[i].form /\ h[i].anyOf = b[i].anyOf
          /\ Parts(h[i]) = Parts(b[i]) /\ (h[i].ref = NoRef <=> b[i].ref = NoRef)
          /\ i \notin T => h[i].keywords = b[i].keywords

Clean(S, h) ==
    S \subseteq 1 .. Len(h) /\ \A x \in S : Parts(h[x]) \subseteq S /\ h[x].keywords \subseteq ConfiguredKeywords

Decorable(u) == u.place \in {"field", "value"}
Decorables(ob, sg) == {ob[v] : v \in {w \in Uses : sg[w] # "todo" /\ Decorable(w)}}

NullOK(u, h, n) ==
    MayBeNull(h, n) <=>
        IF u.place \in {"query", "param"} THEN Around(u) = << >> /\ NullOnly(Basis(u)) ELSE DeclaredNullable(u)

KeywordsOK(u, n) ==
    IF u.place \in {"field", "value"}
    THEN n.keywords = Outermost(u).keywords
             \cup IF n.ref # NoRef THEN {} ELSE UNION {KeywordsFor(Outermost(u).types, tag) : tag \in u.tags}
    ELSE n.keywords \subseteq ConfiguredKeywords

(* In the heap h a use has the object o and has come to the stage x; W are the *)
(* objects of fields and of null wrappers' values.                             *)
UseOK(h, u, o, x, W) ==
    /\ x = "converted" /\ u.place = "field" => NullOK(u, h, h[o]) /\ Shaped(u, h[o])
    /\ x = "converted" /\ u.place \in {"query", "param"} =>
          /\ NullOnly(h[o]) <=> Around(u) = << >> /\ NullOnly(Basis(u))
          /\ \E S : Clean(S, h) /\ o \in S /\ S \cap W = {}
    /\ x = "wrapped" => MayBeNull(h, h[o]) /\ h[o].keywords = {} /\ h[o].types = {}
    /\ x = "done" => NullOK(u, h, h[o]) /\ KeywordsOK(u, h[o])

Apart(ob, sg) ==
    \A u, v \in Uses : u # v /\ Decorable(v) /\ sg[u] # "todo" /\ sg[v] # "todo" => ob[u] # ob[v]

UsesInv ==
    /\ RefsOK(heap) /\ Apart(object, stage)
    /\ \A u \in Uses : stage[u] # "todo" => UseOK(heap, u, object[u], stage[u], Decorables(object, stage))

(* What other uses do leaves a use's schema as it is. *)
LEMMA Framed ==
    ASSUME NEW b, IsHeap(b), NEW h, NEW T, SameShape(h, b, T), NEW u, NEW o \in 1 .. Len(b), o \notin T, NEW x,
           NEW W, T \subseteq W, NEW V, \A i \in V : i \in W \/ (i \in Nat /\ i > Len(b)), UseOK(b, u, o, x, W)
    PROVE  UseOK(h, u, o, x, V)
<1>1. PICK m : m = b[o]
  OBVIOUS
<1>2. PICK n : n = h[o]
  OBVIOUS
<1>3. /\ n.types = m.types /\ n.form = m.form /\ n.anyOf = m.anyOf /\ n.keywords = m.keywords
      /\ (n.ref = NoRef <=> m.ref = NoRef)
  BY <1>1, <1>2 DEF SameShape
<1>4. MayBeNull(h, n) <=> MayBeNull(b, m)
  <2>1. \A j \in m.anyOf : j \in 1 .. Len(b)
    <3>1. Parts(m) \subseteq 1 .. o - 1 /\ m.anyOf \subseteq Parts(m) /\ Len(b) \in Nat
      BY <1>1 DEF IsHeap, IsSeq, Parts
    <3> QED
      BY <3>1
  <2>2. \A j \in m.anyOf : h[j].types = b[j].types
    BY <2>1 DEF SameShape
  <2> QED
    BY <1>3, <2>2 DEF MayBeNull
<1>5. NullOK(u, h, n) <=> NullOK(u, b, m)
  BY <1>4 DEF NullOK
<1>6. (Shaped(u, n) <=> Shaped(u, m)) /\ (NullOnly(n) <=> NullOnly(m))
  BY <1>3 DEF Shaped, NullOnly
<1>7. KeywordsOK(u, n) <=> KeywordsOK(u, m)
  BY <1>3 DEF KeywordsOK
<1>8. ASSUME NEW S, Clean(S, b), o \in S, S \cap W = {} PROVE Clean(S, h) /\ S \cap V = {}
  <2>1. Len(b) \in Nat /\ \A i \in S : i \in 1 .. Len(b) /\ i \notin T
    BY <1>8 DEF Clean, IsHeap, IsSeq
  <2>2. \A i \in S : Parts(h[i]) = Parts(b[i]) /\ h[i].keywords = b[i].keywords
    BY <2>1 DEF SameShape
  <2>3. S \subseteq 1 .. Len(h)
    BY <2>1 DEF SameShape
  <2>4. \A i \in S : i \notin V
    BY <1>8, <2>1
  <2> QED
    BY <1>8, <2>2, <2>3, <2>4 DEF Clean
<1>9. (\E S : Clean(S, b) /\ o \in S /\ S \cap W = {}) => \E S : Clean(S, h) /\ o \in S /\ S \cap V = {}
  BY <1>8
<1> QED
  BY <1>1, <1>2, <1>3, <1>4, <1>5, <1>6, <1>7, <1>9 DEF UseOK

LEMMA ExtendsSameShape ==
    ASSUME NEW b, IsHeap(b), NEW h, Extends(h, b), NEW T
    PROVE  SameShape(h, b, T)
<1>1. Len(h) \in Nat /\ Len(b) <= Len(h) /\ \A i \in 1 .. Len(b) : h[i] = b[i]
  BY ExtendsIsHeap DEF Extends
<1> QED
  BY <1>1 DEF SameShape

LEMMA GrowingUses ==
    ASSUME IInv, UsesInv, NEW u \in Uses, Extends(heap', heap),
           NEW at, at \in 1 .. Len(heap'), at > Len(heap) \/ (u.place \notin Written /\ at \in OfPointers),
           object' = [object EXCEPT ![u] = at],
           NEW x \in {"converted", "wrapped", "done"}, stage' = [stage EXCEPT ![u] = x],
           UseOK(heap', u, at, x, Decorables(object', stage'))
    PROVE  UsesInv'
<1>1. PICK hh : hh = heap'
  OBVIOUS
<1>2. PICK ob : ob = object'
  OBVIOUS
<1>3. PICK sg : sg = stage'
  OBVIOUS
<1>4. HeapOK(heap) /\ IsHeap(heap) /\ TypeInv /\ ObjectInv
  BY DEF IInv, HeapOK
<1>5. /\ Len(heap) \in Nat /\ Len(hh) \in Nat /\ Len(heap) <= Len(hh) /\ Len(Configured) \in Nat
      /\ Len(Configured) <= Len(heap) /\ \A i \in 1 .. Len(heap) : hh[i] = heap[i]
  <2>1. Len(heap) \in Nat /\ Len(hh) \in Nat /\ Len(heap) <= Len(hh) /\ \A i \in 1 .. Len(heap) : hh[i] = heap[i]
    BY <1>1, <1>4, ExtendsIsHeap DEF Extends
  <2> QED
    BY <1>4, <2>1, ConfiguredFacts DEF HeapOK
<1>6. /\ ob[u] = at /\ sg[u] = x /\ sg[u] # "todo" /\ at \in Nat
      /\ \A v \in Uses : v # u => ob[v] = object[v] /\ sg[v] = stage[v]
  BY <1>1, <1>2, <1>3, <1>4, <1>5 DEF TypeInv
<1>7. \A v \in Uses : v # u /\ sg[v] # "todo" =>
          ob[v] \in 1 .. Len(heap) /\ (Decorable(v) => ob[v] > Len(Configured))
  BY <1>4, <1>6 DEF ObjectInv, Decorable, Written
<1>8. at > Len(heap) \/ (~Decorable(u) /\ at <= Len(Configured))
  BY <1>5, ConfiguredFacts DEF Decorable, Written
<1>9. RefsOK(hh)
  BY <1>5 DEF UsesInv, RefsOK
<1>10. Apart(ob, sg)
  <2> SUFFICES ASSUME NEW v \in Uses, NEW w \in Uses, v # w, Decorable(w), sg[v] # "todo", sg[w] # "todo"
               PROVE  ob[v] # ob[w]
    BY DEF Apart
  <2>1. CASE v = u
    BY <1>5, <1>6, <1>7, <1>8, <2>1
  <2>2. CASE w = u
    BY <1>5, <1>6, <1>7, <1>8, <2>2
  <2>3. CASE v # u /\ w # u
    BY <1>6, <2>3 DEF UsesInv, Apart
  <2> QED
    BY <2>1, <2>2, <2>3
<1>11. PICK W : W = Decorables(object, stage)
  OBVIOUS
<1>12. PICK V : V = Decorables(ob, sg)
  OBVIOUS
<1>13. \A i \in V : i \in W \/ (i \in Nat /\ i > Len(heap))
  <2> SUFFICES ASSUME NEW i \in V PROVE i \in W \/ (i \in Nat /\ i > Len(heap))
    OBVIOUS
  <2>1. PICK v \in Uses : sg[v] # "todo" /\ Decorable(v) /\ i = ob[v]
    BY <1>12 DEF Decorables
  <2>2. CASE v = u
    BY <1>6, <1>8, <2>1, <2>2
  <2>3. CASE v # u
    BY <1>6, <1>11, <2>1, <2>3 DEF Decorables
  <2> QED
    BY <2>2, <2>3
<1>14. ASSUME NEW v \in Uses, sg[v] # "todo" PROVE UseOK(hh, v, ob[v], sg[v], V)
  <2>1. CASE v = u
    BY <1>1, <1>2, <1>3, <1>6, <1>12, <2>1
  <2>2. CASE v # u
    <3>1. object[v] \in 1 .. Len(heap) /\ UseOK(heap, v, object[v], stage[v], W)
      BY <1>6, <1>7, <1>11, <1>14, <2>2 DEF UsesInv
    <3>2. SameShape(hh, heap, {})
      BY <1>1, <1>4, ExtendsSameShape
    <3>3. UseOK(hh, v, object[v], stage[v], V)
      BY <1>4, <1>13, <3>1, <3>2, Framed
    <3> QED
      BY <1>6, <2>2, <3>3
  <2> QED
    BY <2>1, <2>2
<1> QED
  BY <1>1, <1>2, <1>3, <1>9, <1>10, <1>12, <1>14 DEF UsesInv

LEMMA ConvertUses ==
    ASSUME IInv, UsesInv, NEW u \in Uses, Convert(u)
    PROVE  UsesInv'
<1>1. PICK h, r : /\ Extends(h, heap) /\ HeapOK(h) /\ ConfOK(h) /\ Conv(r, h, u.place)
                  /\ heap' = r.heap /\ object' = [object EXCEPT ![u] = r.at]
                  /\ MadeFor(u, r.heap, r.heap[r.at])
  BY ConvertMade DEF UsesInv
<1>2. PICK hh : hh = heap'
  OBVIOUS
<1>3. PICK at : at = r.at
  OBVIOUS
<1>4. PICK x : x = IF u.place \in Contents THEN "done" ELSE "converted"
  OBVIOUS
<1>5. x \in {"converted", "wrapped", "done"} /\ stage' = [stage EXCEPT ![u] = x] /\ stage[u] = "todo"
  BY <1>4 DEF Convert
<1>6. HeapOK(heap) /\ IsHeap(heap) /\ TypeInv /\ ObjectInv
  BY DEF IInv, HeapOK
<1>7. Extends(hh, h) /\ Untagged(hh, h) /\ at \in 1 .. Len(hh) /\ IsHeap(h) /\ HeapOK(hh) /\ ConfOK(hh)
  <2>1. Extends(hh, h) /\ Untagged(hh, h) /\ at \in 1 .. Len(hh) /\ IsHeap(h)
    BY <1>1, <1>2, <1>3 DEF Conv, HeapOK
  <2> QED
    BY <1>1, <2>1, Grown
<1>8. /\ Len(heap) \in Nat /\ Len(h) \in Nat /\ Len(hh) \in Nat /\ Len(heap) <= Len(h) /\ Len(h) <= Len(hh)
      /\ Len(Configured) \in Nat /\ Len(Configured) <= Len(heap)
  <2>1. Len(h) \in Nat /\ Len(hh) \in Nat /\ Len(h) <= Len(hh)
    BY <1>7, ExtendsIsHeap DEF Extends
  <2>2. Len(heap) \in Nat /\ Len(heap) <= Len(h)
    BY <1>1, <1>6, ExtendsIsHeap DEF Extends
  <2> QED
    BY <1>6, <2>1, <2>2, ConfiguredFacts DEF HeapOK
<1>9. Extends(hh, heap)
  BY <1>1, <1>6, <1>7, ExtendsTransitive
<1>10. at > Len(h) \/ (u.place \notin Written /\ at \in OfPointers)
  BY <1>1, <1>3 DEF Conv
<1>11. PICK S : S = (Len(h) + 1 .. Len(hh)) \cup OfPointers
  OBVIOUS
<1>12. Clean(S, hh) /\ at \in S
  <2>1. OfPointersClosed(hh)
    BY <1>7, PointersClosed
  <2>2. \A i \in S : i \in 1 .. Len(hh)
    BY <1>8, <1>11, <2>1 DEF OfPointersClosed
  <2>3. ASSUME NEW i \in Len(h) + 1 .. Len(hh) PROVE Parts(hh[i]) \subseteq S /\ hh[i].keywords \subseteq ConfiguredKeywords
    <3>1. /\ Parts(hh[i]) \subseteq 1 .. i - 1
          /\ \A j \in Parts(hh[i]) : j > Len(h) \/ j \in OfPointers
      BY <1>7, <2>3 DEF Extends
    <3>2. \A j \in 1 .. i - 1 : j > Len(h) => j \in Len(h) + 1 .. Len(hh)
      BY <1>8
    <3>3. \A j \in Parts(hh[i]) : j \in S
      BY <1>11, <3>1, <3>2
    <3> QED
      BY <1>7, <3>3 DEF Untagged
  <2>4. ASSUME NEW i \in OfPointers PROVE Parts(hh[i]) \subseteq S /\ hh[i].keywords \subseteq ConfiguredKeywords
    BY <1>11, <2>1 DEF OfPointersClosed
  <2>5. at \in S
    BY <1>7, <1>8, <1>10, <1>11
  <2> QED
    BY <1>11, <2>2, <2>3, <2>4, <2>5 DEF Clean
<1>13. PICK ob : ob = object'
  OBVIOUS
<1>14. PICK sg : sg = stage'
  OBVIOUS
<1>15. \A v \in Uses : v # u => ob[v] = object[v] /\ sg[v] = stage[v]
  BY <1>1, <1>5, <1>6, <1>13, <1>14 DEF TypeInv
<1>16. ASSUME ~Decorable(u) PROVE S \cap Decorables(ob, sg) = {}
  <2> SUFFICES ASSUME NEW v \in Uses, sg[v] # "todo", Decorable(v) PROVE ob[v] \notin S
    BY DEF Decorables
  <2>1. v # u
    BY <1>16
  <2>2. object[v] \in 1 .. Len(heap) /\ object[v] > Len(Configured)
    BY <1>6, <1>15, <2>1 DEF ObjectInv, Decorable, Written
  <2>3. object[v] \notin OfPointers
    BY <1>8, <2>2, ConfiguredFacts
  <2> QED
    BY <1>8, <1>11, <1>15, <2>1, <2>2, <2>3
<1>17. MadeFor(u, hh, hh[at])
  BY <1>1, <1>2, <1>3
<1>18. UseOK(hh, u, at, x, Decorables(ob, sg))
  <2>1. ASSUME u.place = "field" PROVE NullOK(u, hh, hh[at]) /\ Shaped(u, hh[at])
    BY <1>17, <2>1 DEF MadeFor, NullOK
  <2>2. ASSUME u.place \in {"query", "param"}
        PROVE  /\ NullOnly(hh[at]) <=> Around(u) = << >> /\ NullOnly(Basis(u))
               /\ \E X : Clean(X, hh) /\ at \in X /\ X \cap Decorables(ob, sg) = {}
    <3>1. ~Decorable(u)
      BY <2>2 DEF Decorable
    <3> QED
      BY <1>12, <1>16, <1>17, <2>2, <3>1 DEF MadeFor
  <2>3. ASSUME u.place \in Contents PROVE NullOK(u, hh, hh[at]) /\ KeywordsOK(u, hh[at])
    BY <1>12, <1>17, <2>3 DEF MadeFor, NullOK, KeywordsOK, Clean, Contents
  <2>4. x = "done" <=> u.place \in Contents
    BY <1>4
  <2> QED
    BY <1>4, <1>5, <2>1, <2>2, <2>3, <2>4 DEF UseOK
<1>19. UseOK(heap', u, at, x, Decorables(object', stage'))
  BY <1>2, <1>13, <1>14, <1>18
<1>20. at \in 1 .. Len(heap') /\ Extends(heap', heap)
  BY <1>2, <1>7, <1>9
<1>21. at > Len(heap) \/ (u.place \notin Written /\ at \in OfPointers)
  BY <1>7, <1>8, <1>10
<1>22. object' = [object EXCEPT ![u] = at]
  BY <1>1, <1>3
<1> QED
  BY <1>5, <1>19, <1>20, <1>21, <1>22, GrowingUses

LEMMA WrapValueUses ==
    ASSUME IInv, UsesInv, NEW u \in Uses, WrapValue(u)
    PROVE  UsesInv'
<1>1. PICK at : at = Len(heap')
  OBVIOUS
<1>2. /\ Extends(heap', heap) /\ at \in Nat /\ at > Len(heap) /\ Len(heap) \in Nat
      /\ MayBeNull(heap', heap'[at]) /\ heap'[at].keywords = {} /\ heap'[at].types = {}
  BY <1>1, WrapValueIs, ObjectIn DEF WrapValue
<1>3. object' = [object EXCEPT ![u] = at] /\ stage' = [stage EXCEPT ![u] = "wrapped"]
  BY <1>1 DEF WrapValue
<1>4. UseOK(heap', u, at, "wrapped", Decorables(object', stage'))
  BY <1>2 DEF UseOK
<1>5. at \in 1 .. Len(heap')
  BY <1>1, <1>2
<1> QED
  BY <1>2, <1>3, <1>4, <1>5, GrowingUses

LEMMA NormalizeUses ==
    ASSUME IInv, UsesInv, NEW u \in Uses, Normalize(u)
    PROVE  UsesInv'
<1>1. PICK o : o = object[u]
  OBVIOUS
<1>2. /\ o \in 1 .. Len(heap) /\ Len(heap) \in Nat /\ IsHeap(heap) /\ stage[u] = "converted"
      /\ u.place \in {"query", "param"}
  BY <1>1, ObjectIn DEF Normalize
<1>3. PICK h : h = Cloned(heap, o)
  OBVIOUS
<1>4. PICK at : at = Len(h)
  OBVIOUS
<1>5. PICK g : g = heap'
  OBVIOUS
<1>6. /\ CloneOf(heap, h, o) /\ IsHeap(h) /\ at = Len(heap) + o
      /\ g = Denulled(h, at) /\ Extends(g, heap) /\ Len(g) = at
  BY <1>1, <1>3, <1>4, <1>5, NormalizeIs
<1>7. PICK S : /\ Clean(S, heap) /\ o \in S
               /\ NullOnly(heap[o]) <=> Around(u) = << >> /\ NullOnly(Basis(u))
  <2>1. UseOK(heap, u, o, stage[u], Decorables(object, stage))
    BY <1>1, <1>2 DEF UsesInv
  <2> QED
    BY <1>2, <2>1 DEF UseOK
<1>8. \A k \in 1 .. o : /\ h[Len(heap) + k].keywords = heap[k].keywords
                        /\ NullOnly(h[Len(heap) + k]) <=> NullOnly(heap[k])
  <2> SUFFICES ASSUME NEW k \in 1 .. o
               PROVE  /\ h[Len(heap) + k].keywords = heap[k].keywords
                      /\ NullOnly(h[Len(heap) + k]) <=> NullOnly(heap[k])
    OBVIOUS
  <2>1. PICK n : n = heap[k]
    OBVIOUS
  <2>2. n = [ref |-> n.ref, types |-> n.types, form |-> n.form, anyOf |-> n.anyOf,
             below |-> n.below, keywords |-> n.keywords]
    <3>1. k \in 1 .. Len(heap)
      BY <1>2
    <3> QED
      BY <1>2, <2>1, <3>1 DEF IsHeap, Node
  <2>3. PICK c : c = h[Len(heap) + k]
    OBVIOUS
  <2>4. c = [n EXCEPT !.anyOf = {Len(heap) + j : j \in n.anyOf}, !.below = {Len(heap) + j : j \in n.below}]
    BY <1>6, <2>1, <2>3 DEF CloneOf
  <2>5. c.keywords = n.keywords /\ c.types = n.types /\ c.form = n.form
    BY <2>2, <2>4
  <2> QED
    BY <2>1, <2>3, <2>5 DEF NullOnly
<1>9. PICK C : C = {Len(heap) + k : k \in S \cap (1 .. o)}
  OBVIOUS
<1>10. at \in C /\ at \in 1 .. Len(h)
  BY <1>2, <1>4, <1>6, <1>7, <1>9
<1>11. ASSUME NEW x \in C PROVE Parts(h[x]) \subseteq C /\ h[x].keywords \subseteq ConfiguredKeywords
  <2>1. PICK k \in S : k \in 1 .. o /\ x = Len(heap) + k
    BY <1>9
  <2>2. Parts(h[x]) = {Len(heap) + j : j \in Parts(heap[k])}
    BY <1>6, <2>1 DEF CloneOf
  <2>3. Parts(heap[k]) \subseteq S /\ heap[k].keywords \subseteq ConfiguredKeywords
    BY <1>7 DEF Clean
  <2>4. \A j \in Parts(heap[k]) : j \in 1 .. o
    <3>1. Parts(heap[k]) \subseteq 1 .. k - 1
      BY <1>2, <2>1 DEF IsHeap
    <3> QED
      BY <1>2, <2>1, <3>1
  <2> QED
    BY <1>8, <1>9, <2>1, <2>2, <2>3, <2>4
<1>12. g[at].keywords \subseteq ConfiguredKeywords /\ (MayBeNull(g, g[at]) <=> NullOnly(h[at]))
  BY <1>6, <1>10, <1>11, DenulledIs
<1>13. NullOnly(h[at]) <=> Around(u) = << >> /\ NullOnly(Basis(u))
  BY <1>2, <1>6, <1>7, <1>8
<1>14. NullOK(u, g, g[at]) /\ KeywordsOK(u, g[at])
  BY <1>2, <1>12, <1>13 DEF NullOK, KeywordsOK
<1>15. UseOK(heap', u, at, "done", Decorables(object', stage'))
  BY <1>5, <1>14 DEF UseOK
<1>16. object' = [object EXCEPT ![u] = at] /\ stage' = [stage EXCEPT ![u] = "done"]
  BY <1>1, <1>3, <1>4 DEF Normalize
<1>17. Extends(heap', heap) /\ at \in 1 .. Len(heap') /\ at > Len(heap)
  BY <1>2, <1>5, <1>6
<1> QED
  BY <1>15, <1>16, <1>17, GrowingUses

(* A step that leaves every object its shape. *)
LEMMA ReshapedUses ==
    ASSUME IInv, UsesInv, NEW T, SameShape(heap', heap, T), T \subseteq Decorables(object, stage), object' = object,
           \A v \in Uses : stage'[v] = "todo" <=> stage[v] = "todo",
           \A v \in Uses : stage[v] # "todo" =>
              \/ stage'[v] = stage[v] /\ object[v] \notin T
              \/ UseOK(heap', v, object[v], stage'[v], Decorables(object, stage))
    PROVE  UsesInv'
<1>1. PICK h : h = heap'
  OBVIOUS
<1>2. PICK sg : sg = stage'
  OBVIOUS
<1>3. PICK W : W = Decorables(object, stage)
  OBVIOUS
<1>4. HeapOK(heap) /\ IsHeap(heap) /\ ObjectInv /\ Len(heap) \in Nat /\ Len(Configured) \in Nat
  BY ConfiguredFacts DEF IInv, HeapOK, IsHeap, IsSeq
<1>5. SameShape(h, heap, T) /\ \A v \in Uses : sg[v] = "todo" <=> stage[v] = "todo"
  BY <1>1, <1>2
<1>6. RefsOK(h)
  <2>1. \A i \in 1 .. Len(Configured) : i \in 1 .. Len(heap)
    BY <1>4 DEF HeapOK
  <2> QED
    BY <1>5, <2>1 DEF UsesInv, RefsOK, SameShape
<1>7. Apart(object, sg)
  BY <1>5 DEF UsesInv, Apart
<1>8. Decorables(object, sg) = W
  BY <1>3, <1>5 DEF Decorables
<1>9. ASSUME NEW v \in Uses, sg[v] # "todo" PROVE UseOK(h, v, object[v], sg[v], W)
  <2>1. object[v] \in 1 .. Len(heap) /\ stage[v] # "todo" /\ UseOK(heap, v, object[v], stage[v], W)
    BY <1>3, <1>4, <1>5, <1>9 DEF ObjectInv, UsesInv
  <2>2. CASE sg[v] = stage[v] /\ object[v] \notin T
    <3>1. T \subseteq W /\ \A i \in W : i \in W \/ (i \in Nat /\ i > Len(heap))
      BY <1>3
    <3>2. UseOK(h, v, object[v], stage[v], W)
      BY <1>4, <1>5, <2>1, <2>2, <3>1, Framed
    <3> QED
      BY <2>2, <3>2
  <2>3. CASE UseOK(h, v, object[v], sg[v], W)
    BY <2>3
  <2> QED
    BY <1>1, <1>2, <1>3, <2>1, <2>2, <2>3
<1> QED
  BY <1>1, <1>2, <1>6, <1>7, <1>8, <1>9 DEF UsesInv

(* Null among the types does not change what a tag is about. *)
LEMMA KeywordsForTypes ==
    ASSUME NEW types, NEW others, types \ {"null"} = others \ {"null"}, NEW tag
    PROVE  KeywordsFor(types, tag) = KeywordsFor(others, tag)
<1>1. \A type : type # "null" => (type \in types <=> type \in others)
  OBVIOUS
<1> DEFINE number(S) == S \cap {"integer", "number"} # {}
           sized(S) == IF "string" \in S THEN {"Length"} ELSE IF "array" \in S THEN {"Items"} ELSE {}
           bounds(units) == {bound \o unit : bound \in {"min", "max"}, unit \in units}
<1>2. number(types) <=> number(others)
  BY <1>1
<1>3. sized(types) = sized(others)
  BY <1>1
<1>4. ASSUME NEW S
      PROVE  KeywordsFor(S, tag) =
                 CASE tag \in {"min", "max"} -> {tag \o unit : unit \in IF number(S) THEN {"imum"} ELSE sized(S)}
                   [] tag \in {"exclusiveMin", "exclusiveMax"} -> {tag \o unit : unit \in IF number(S) THEN {"imum"} ELSE {}}
                   [] tag = "len" -> bounds(sized(S))
                   [] OTHER -> {tag}
  BY DEF KeywordsFor
<1> HIDE DEF number, sized, bounds
<1>5. CASE tag \in {"min", "max"}
  <2>1. ASSUME NEW S PROVE KeywordsFor(S, tag) = {tag \o unit : unit \in IF number(S) THEN {"imum"} ELSE sized(S)}
    BY <1>4, <1>5
  <2> QED
    BY <1>2, <1>3, <2>1
<1>6. CASE tag \in {"exclusiveMin", "exclusiveMax"}
  <2>1. ASSUME NEW S PROVE KeywordsFor(S, tag) = {tag \o unit : unit \in IF number(S) THEN {"imum"} ELSE {}}
    BY <1>4, <1>6
  <2> QED
    BY <1>2, <2>1
<1>7. CASE tag = "len"
  <2>1. ASSUME NEW S PROVE KeywordsFor(S, tag) = bounds(sized(S))
    BY <1>4, <1>7
  <2> QED
    BY <1>3, <2>1
<1>8. CASE tag \notin {"min", "max", "exclusiveMin", "exclusiveMax", "len"}
  <2>1. ASSUME NEW S PROVE KeywordsFor(S, tag) = {tag}
    BY <1>4, <1>8
  <2> QED
    BY <2>1
<1> QED
  BY <1>5, <1>6, <1>7, <1>8

LEMMA FinishUses ==
    ASSUME IInv, UsesInv, NEW g \in Generators, Finish(g)
    PROVE  UsesInv'
<1>1. HeapOK(heap) /\ IsHeap(heap) /\ Len(heap) \in Nat /\ DOMAIN heap = 1 .. Len(heap)
  BY DEF IInv, HeapOK, IsHeap, IsSeq
<1> DEFINE text(ref) == IF ref \in DOMAIN FinalName[g] THEN FinalName[g][ref] ELSE ref
<1>2. \A ref : text(ref) = NoRef <=> ref = NoRef
  BY NamesAssumption
<1>3. PICK h : h = heap'
  OBVIOUS
<1>4. h = [i \in DOMAIN heap |-> IF i \in Held(g) THEN [heap[i] EXCEPT !.ref = text(@)] ELSE heap[i]]
  BY <1>3 DEF Finish
<1> HIDE DEF text
<1>5. Len(h) = Len(heap)
  <2>1. DOMAIN h = 1 .. Len(heap) /\ h = [i \in 1 .. Len(heap) |-> h[i]]
    BY <1>1, <1>4
  <2> QED
    BY <1>1, <2>1, FunctionIsSeq
<1>6. ASSUME NEW i \in 1 .. Len(heap)
      PROVE  /\ h[i].types = heap[i].types /\ h[i].form = heap[i].form /\ h[i].anyOf = heap[i].anyOf
             /\ Parts(h[i]) = Parts(heap[i]) /\ (h[i].ref = NoRef <=> heap[i].ref = NoRef)
             /\ h[i].keywords = heap[i].keywords
  <2>1. PICK n : n = heap[i]
    OBVIOUS
  <2>2. PICK m : m = h[i]
    OBVIOUS
  <2>3. m = IF i \in Held(g) THEN [n EXCEPT !.ref = text(n.ref)] ELSE n
    BY <1>1, <1>4, <2>1, <2>2
  <2>4. n = [ref |-> n.ref, types |-> n.types, form |-> n.form, anyOf |-> n.anyOf,
             below |-> n.below, keywords |-> n.keywords]
    BY <1>1, <2>1 DEF IsHeap, Node
  <2>5. m.ref = NoRef <=> n.ref = NoRef
    BY <1>2, <2>3, <2>4
  <2>6. /\ m.types = n.types /\ m.form = n.form /\ m.anyOf = n.anyOf
        /\ m.below = n.below /\ m.keywords = n.keywords
    BY <2>3, <2>4
  <2> QED
    BY <2>1, <2>2, <2>5, <2>6 DEF Parts
<1>7. SameShape(heap', heap, {})
  BY <1>1, <1>3, <1>5, <1>6 DEF SameShape
<1>8. UNCHANGED <<stage, object>>
  BY DEF Finish
<1> QED
  BY <1>7, <1>8, ReshapedUses

LEMMA DecorateUses ==
    ASSUME IInv, UsesInv, NEW u \in Uses, Decorate(u)
    PROVE  UsesInv'
<1>1. PICK o : o = object[u]
  OBVIOUS
<1>2. PICK n : n = heap[o]
  OBVIOUS
<1>3. PICK W : W = Decorables(object, stage)
  OBVIOUS
<1>4. /\ o \in 1 .. Len(heap) /\ Len(heap) \in Nat /\ IsHeap(heap) /\ TypeInv
      /\ DOMAIN heap = 1 .. Len(heap) /\ stage[u] # "todo" /\ Decorable(u)
      /\ object' = object /\ stage' = [stage EXCEPT ![u] = "done"]
  <2>1. stage[u] # "todo" /\ Decorable(u) /\ object' = object /\ stage' = [stage EXCEPT ![u] = "done"]
    BY DEF Decorate, Decorable
  <2> QED
    BY <1>1, <2>1, ObjectIn DEF IInv
<1>5. NullOK(u, heap, n) /\ Shaped(u, n)
  <2>1. UseOK(heap, u, o, stage[u], W)
    BY <1>1, <1>3, <1>4 DEF UsesInv
  <2>2. CASE u.place = "field"
    BY <1>2, <2>1, <2>2 DEF UseOK, Decorate
  <2>3. CASE u.place = "value"
    <3>1. MayBeNull(heap, n) /\ n.keywords = {} /\ n.types = {}
      BY <1>2, <2>1, <2>3 DEF UseOK, Decorate
    <3>2. Outermost(u).keywords = {} /\ Outermost(u).types = {}
      BY <2>3 DEF Outermost, Empty
    <3>3. DeclaredNullable(u)
      BY <2>3 DEF DeclaredNullable
    <3> QED
      BY <2>3, <3>1, <3>2, <3>3 DEF NullOK, Shaped
  <2> QED
    BY <1>4, <2>2, <2>3 DEF Decorable
<1>6. PICK m : m = IF n.ref = NoRef THEN Tagged(n, u.tags) ELSE n
  OBVIOUS
<1>7. PICK own : own = UNION {KeywordsFor(n.types, tag) : tag \in u.tags}
  OBVIOUS
<1>8. n = [ref |-> n.ref, types |-> n.types, form |-> n.form, anyOf |-> n.anyOf,
           below |-> n.below, keywords |-> n.keywords]
  BY <1>2, <1>4 DEF IsHeap, Node
<1>9. /\ m.types = n.types /\ m.form = n.form /\ m.anyOf = n.anyOf /\ m.below = n.below /\ m.ref = n.ref
      /\ m.keywords = n.keywords \cup IF n.ref # NoRef THEN {} ELSE own
  <2>1. CASE n.ref = NoRef
    <3>1. m = [n EXCEPT !.keywords = n.keywords \cup own]
      BY <1>6, <1>7, <2>1 DEF Tagged
    <3> QED
      BY <1>8, <2>1, <3>1
  <2>2. CASE n.ref # NoRef
    BY <1>6, <2>2
  <2> QED
    BY <2>1, <2>2
<1>10. PICK h : h = heap'
  OBVIOUS
<1>11. /\ h[o] = m /\ \A i \in 1 .. Len(heap) : i # o => h[i] = heap[i]
       /\ Len(h) = Len(heap)
  <2>1. CASE n.ref = NoRef
    <3>1. h = [heap EXCEPT ![o] = m]
      BY <1>1, <1>2, <1>6, <1>10, <2>1 DEF Decorate
    <3>2. DOMAIN h = 1 .. Len(heap) /\ h = [i \in 1 .. Len(heap) |-> h[i]]
      BY <1>4, <3>1
    <3>3. Len(h) = Len(heap)
      BY <1>4, <3>2, FunctionIsSeq
    <3> QED
      BY <1>4, <3>1, <3>3
  <2>2. CASE n.ref # NoRef
    <3>1. h = heap
      BY <1>1, <1>2, <1>10, <2>2 DEF Decorate
    <3> QED
      BY <1>2, <1>6, <2>2, <3>1
  <2> QED
    BY <2>1, <2>2
<1>12. SameShape(h, heap, {o})
  <2> SUFFICES ASSUME NEW i \in 1 .. Len(heap)
               PROVE  /\ h[i].types = heap[i].types /\ h[i].form = heap[i].form /\ h[i].anyOf = heap[i].anyOf
                      /\ Parts(h[i]) = Parts(heap[i]) /\ (h[i].ref = NoRef <=> heap[i].ref = NoRef)
                      /\ i \notin {o} => h[i].keywords = heap[i].keywords
    BY <1>4, <1>11 DEF SameShape
  <2>1. CASE i = o
    BY <1>2, <1>9, <1>11, <2>1 DEF Parts
  <2>2. CASE i # o
    BY <1>11, <2>2
  <2> QED
    BY <2>1, <2>2
<1>13. {o} \subseteq W
  BY <1>1, <1>3, <1>4 DEF Decorables
<1>14. MayBeNull(h, m) <=> MayBeNull(heap, n)
  <2>1. \A j \in n.anyOf : j \in 1 .. Len(heap)
    <3>1. Parts(n) \subseteq 1 .. o - 1 /\ n.anyOf \subseteq Parts(n)
      BY <1>2, <1>4 DEF IsHeap, Parts
    <3> QED
      BY <1>4, <3>1
  <2>2. \A j \in n.anyOf : h[j].types = heap[j].types
    BY <1>12, <2>1 DEF SameShape
  <2> QED
    BY <1>9, <2>2 DEF MayBeNull
<1>15. own = UNION {KeywordsFor(Outermost(u).types, tag) : tag \in u.tags}
  <2>1. PICK types : types = Outermost(u).types
    OBVIOUS
  <2>2. \A tag : KeywordsFor(n.types, tag) = KeywordsFor(types, tag)
    BY <1>5, <2>1, KeywordsForTypes DEF Shaped
  <2>3. {KeywordsFor(n.types, tag) : tag \in u.tags} = {KeywordsFor(types, tag) : tag \in u.tags}
    BY <2>2
  <2> QED
    BY <1>7, <2>1, <2>3
<1>16. NullOK(u, h, m) /\ KeywordsOK(u, m)
  <2>1. NullOK(u, h, m)
    BY <1>5, <1>14 DEF NullOK
  <2>2. m.keywords = Outermost(u).keywords \cup IF m.ref # NoRef THEN {} ELSE own
    BY <1>5, <1>9 DEF Shaped
  <2>3. KeywordsOK(u, m)
    BY <1>4, <1>15, <2>2 DEF KeywordsOK, Decorable
  <2> QED
    BY <2>1, <2>3
<1>17. UseOK(h, u, o, "done", W)
  BY <1>11, <1>16 DEF UseOK
<1>18. \A v \in Uses : v # u => stage'[v] = stage[v] /\ (stage[v] # "todo" => object[v] \notin {o})
  BY <1>1, <1>4 DEF TypeInv, UsesInv, Apart
<1>19. stage'[u] = "done"
  BY <1>4 DEF TypeInv
<1>20. \A v \in Uses : stage[v] # "todo" =>
           \/ stage'[v] = stage[v] /\ object[v] \notin {o}
           \/ UseOK(heap', v, object[v], stage'[v], Decorables(object, stage))
  BY <1>1, <1>3, <1>10, <1>17, <1>18, <1>19
<1>21. \A v \in Uses : stage'[v] = "todo" <=> stage[v] = "todo"
  BY <1>4, <1>18, <1>19
<1> QED
  BY <1>3, <1>4, <1>10, <1>12, <1>13, <1>20, <1>21, ReshapedUses

LEMMA InitUses ==
    ASSUME Init
    PROVE  UsesInv
BY DEF Init, UsesInv, RefsOK, Apart

LEMMA StepUses ==
    ASSUME IInv, UsesInv, [Next]_vars
    PROVE  UsesInv'
<1>1. CASE Next
  <2>1. ASSUME NEW u \in Uses, Convert(u) \/ WrapValue(u) \/ Decorate(u) \/ Normalize(u) PROVE UsesInv'
    BY <2>1, ConvertUses, WrapValueUses, DecorateUses, NormalizeUses
  <2>2. ASSUME NEW g \in Generators, Finish(g) PROVE UsesInv'
    BY <2>2, FinishUses
  <2> QED
    BY <1>1, <2>1, <2>2 DEF Next
<1>2. CASE UNCHANGED vars
  BY <1>2 DEF vars, UsesInv
<1> QED
  BY <1>1, <1>2

LEMMA UsesDone ==
    ASSUME UsesInv
    PROVE  NullableAsWritten /\ OwnConstraints
<1>1. \A u \in Done : NullOK(u, heap, heap[object[u]]) /\ KeywordsOK(u, heap[object[u]])
  BY DEF Done, UsesInv, UseOK
<1>2. NullableAsWritten
  BY <1>1 DEF NullableAsWritten, NullOK
<1>3. OwnConstraints
  BY <1>1 DEF OwnConstraints, KeywordsOK
<1> QED
  BY <1>2, <1>3

LEMMA SpecUses == Spec => [](IInv /\ UsesInv)
<1>1. Init => IInv /\ UsesInv
  BY InitInv, InitUses
<1>2. IInv /\ UsesInv /\ [Next]_vars => IInv' /\ UsesInv'
  BY StepInv, StepUses
<1> QED
  BY <1>1, <1>2, PTL DEF Spec

(* NullableAsWritten for every configuration and every use: convertFieldType   *)
(* and generateBasicTypeSchema add null for a pointer and for nothing else,    *)
(* except that a field's pointer to a type configured with a list of types     *)
(* stays as configured, and that generateResponseSchema removes a response's   *)
(* outermost pointer; no other use takes it away, and normalizeParameterSchema *)
(* leaves none in a query parameter's schema, nor in any of its alternatives.  *)
THEOREM SpecNullableAsWritten == Spec => []NullableAsWritten
<1>1. UsesInv => NullableAsWritten
  BY UsesDone
<1> QED
  BY <1>1, SpecUses, PTL

(* OwnConstraints for every configuration and every use: the tags applied to a *)
(* field's schema in place (applyEnhancedTags) are in that schema and in no    *)
(* other, whoever shares the type that is configured, and what a parameter's   *)
(* schema keeps of its parts is never a part that anyone tags.                 *)
THEOREM SpecOwnConstraints == Spec => []OwnConstraints
<1>1. UsesInv => OwnConstraints
  BY UsesDone
<1> QED
  BY <1>1, SpecUses, PTL
=============================================================================
