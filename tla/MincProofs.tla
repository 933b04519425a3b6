----------------------------- MODULE MincProofs -----------------------------
(***************************************************************************)
(* Theorems of Minc, for every script, symbol table and number of objects. *)
(***************************************************************************)
EXTENDS Minc, FiniteSetTheorems, SequenceTheorems, WellFoundedInduction, TLAPS

-----------------------------------------------------------------------------
(* The inductive invariants.                                               *)

Kinds == {"free", "list", "handle", "inst", "pfield", "bad"}
Object == [kind : Kinds, ref : Nat, elems : Seq(Value)]
Heaps == [Objs -> Object]

(* A value is what its type says: the object of a list is a list.          *)
Typed(h, v) ==
  /\ v \in Value
  /\ v.t \in {"void", "num"} => v.o = NULL
  /\ v.t = "list" => v.o \in Objs /\ h[v.o].kind = "list"
  /\ v.t = "pfield" => v.o \in Objs /\ h[v.o].kind = "pfield"
  /\ v.t = "handle" /\ v.o \in Objs => h[v.o].kind \in {"handle", "inst"}

(* What scripts can name: anything but a PField itself.                    *)
ScriptValue(h, v) == Typed(h, v) /\ v.t # "pfield"
(* What a note or a PField holds: PFields, and numbers of its own.         *)
FieldValue(h, v) == Typed(h, v) /\ v.t \in {"pfield", "num"}

WellMade(h, x) ==
  /\ x.kind = "list" => \A i \in DOMAIN x.elems : ScriptValue(h, x.elems[i])
  /\ x.kind # "list" => \A i \in DOMAIN x.elems : FieldValue(h, x.elems[i])
  /\ x.kind = "handle" => Len(x.elems) = 1

(* Every count is that of the elements that hold the object, and of the    *)
(* references outside of the heap.                                         *)
Counted(h, out) ==
  /\ h \in Heaps
  /\ \A o \in Objs :
       /\ h[o].ref = HeldAll(o, Elements(h)) + out[o]
       /\ h[o].kind = "free" => h[o] = Free
       /\ h[o].kind # "free" => h[o].ref > 0
       /\ h[o].kind # "bad"

Sound(h, out) == Counted(h, out) /\ \A o \in Objs : WellMade(h, h[o])

Outer(sy, va, st, no, lo) ==
  [o \in Objs |-> Held(o, sy) + Held(o, va) + HeldAll(o, st) + HeldAll(o, no) + lo[o]]

HoldersTyped(h, sy, va, st, no) ==
  /\ sy \in [Symbols -> Value] /\ \A s \in Symbols : ScriptValue(h, sy[s])
  /\ va \in [Nodes -> Value]
  /\ \A n \in Nodes :
       /\ ScriptValue(h, va[n])
       /\ KindOf(n) = "const" => va[n].t \in {"void", "num"}
       /\ KindOf(n) = "list" => va[n].t \in {"void", "list"}
  /\ st \in Seq(Seq(Value))
  /\ \A i \in DOMAIN st : \A j \in DOMAIN st[i] : ScriptValue(h, st[i][j])
  /\ no \in Seq(Seq(Value))
  /\ \A i \in DOMAIN no : \A j \in DOMAIN no[i] : FieldValue(h, no[i][j])

State(h, sy, va, st, no, lo) ==
  /\ lo \in [Objs -> Nat]
  /\ Sound(h, Outer(sy, va, st, no, lo))
  /\ HoldersTyped(h, sy, va, st, no)

HeapInv == State(heap, symbols, val, stack, notes, lost)

(* A list or an argument list that is entered is left again: of each that  *)
(* was pushed, the statement still has to do the node.                     *)
Opens(n) == KindOf(n) \in {"list", "call"}
Closing(s) == {i \in DOMAIN s : s[i][1] = "do" /\ Opens(s[i][2])}
Enclosed(s) ==
  \A i \in DOMAIN s : KindOf(s[i][2]) = "elem" => \E j \in Closing(s) : i < j
Refused == IF list_count > MAX_LISTS THEN list_count - MAX_LISTS ELSE 0
ControlTypes ==
  /\ todo \in Seq({"visit", "do"} \X Nodes)
  /\ list_count \in Nat /\ left \in 0 .. MaxStatements
  /\ script \in {"none", "running"} /\ crashed \in BOOLEAN
ListsInv ==
  /\ ControlTypes /\ \E S : stack \in Seq(S)
  /\ Len(stack) = Refused + Cardinality(Closing(todo))
  /\ Enclosed(todo)

-----------------------------------------------------------------------------
(* Counting.                                                               *)

(* A non-empty set of naturals has a least element.                        *)
LEMMA LeastNat ==
  ASSUME NEW S \in SUBSET Nat, S # {}
  PROVE  \E m \in S : \A x \in S : m <= x
<1> DEFINE R == {p \in Nat \X Nat : p[1] < p[2]}
<1>1. IsWellFoundedOn(R, Nat)
  BY NatLessThanWellFounded DEF OpToRel
<1>2. PICK m \in S : \A x \in S : <<x, m>> \notin R
  BY <1>1, WFMin
<1>3. \A x \in S : m <= x
  <2> TAKE x \in S
  <2>1. ~(x < m)
    BY <1>2
  <2> QED
    BY <2>1
<1> QED
  BY <1>3

(* What holds before a loop and is kept by each turn holds throughout.     *)
LEMMA Throughout ==
  ASSUME NEW n \in Nat, NEW P, 0 \in P, \A k \in 1 .. n : k - 1 \in P => k \in P
  PROVE  \A k \in 0 .. n : k \in P
<1> SUFFICES ASSUME NEW k \in 0 .. n, k \notin P PROVE FALSE
  OBVIOUS
<1>1. PICK m \in {x \in 0 .. n : x \notin P} : \A x \in {y \in 0 .. n : y \notin P} : m <= x
  <2>1. {x \in 0 .. n : x \notin P} \in SUBSET Nat
    OBVIOUS
  <2> QED
    BY <2>1, LeastNat
<1>2. m \in 1 .. n
  BY <1>1
<1>3. m - 1 \in P
  BY <1>1, <1>2
<1> QED
  BY <1>1, <1>2, <1>3

(* Sets with a bijection between them.                                     *)
LEMMA SameSize ==
  ASSUME NEW S, NEW T, IsFiniteSet(S), NEW f \in [S -> T],
         \A x, y \in S : f[x] = f[y] => x = y, \A t \in T : \E x \in S : f[x] = t
  PROVE  IsFiniteSet(T) /\ Cardinality(T) = Cardinality(S)
<1>1. f \in Bijection(S, T)
  BY DEF Bijection, Injection, Surjection, IsInjective
<1> QED
  BY <1>1, FS_Bijection DEF ExistsBijection

LEMMA DisjointSize ==
  ASSUME NEW S, NEW T, IsFiniteSet(S), IsFiniteSet(T), S \cap T = {}
  PROVE  /\ IsFiniteSet(S \cup T) /\ Cardinality(S) \in Nat /\ Cardinality(T) \in Nat
         /\ Cardinality(S \cup T) = Cardinality(S) + Cardinality(T)
<1>1. Cardinality(S) \in Nat /\ Cardinality(T) \in Nat
  BY FS_CardinalityType
<1>2. Cardinality(S \cap T) = 0
  BY FS_EmptySet
<1>3. /\ IsFiniteSet(S \cup T)
      /\ Cardinality(S \cup T) = Cardinality(S) + Cardinality(T) - Cardinality(S \cap T)
  BY FS_Union
<1> QED
  BY <1>1, <1>2, <1>3

(* How often a sequence or a function of values holds an object.           *)
Places(o, s) == {i \in DOMAIN s : s[i].o = o}

LEMMA HeldType ==
  ASSUME NEW s, IsFiniteSet(DOMAIN s), NEW o
  PROVE  /\ IsFiniteSet(Places(o, s)) /\ Held(o, s) = Cardinality(Places(o, s))
         /\ Held(o, s) \in Nat
         /\ Held(o, s) = 0 <=> \A i \in DOMAIN s : s[i].o # o
<1>1. Places(o, s) \in SUBSET DOMAIN s
  BY DEF Places
<1>2. IsFiniteSet(Places(o, s))
  BY <1>1, FS_Subset
<1>3. Held(o, s) = Cardinality(Places(o, s))
  BY DEF Held, Places
<1>4. Cardinality(Places(o, s)) \in Nat
  BY <1>2, FS_CardinalityType
<1>5. Cardinality(Places(o, s)) = 0 <=> Places(o, s) = {}
  BY <1>2, FS_EmptySet
<1> QED
  BY <1>2, <1>3, <1>4, <1>5 DEF Places

LEMMA SeqDomain ==
  ASSUME NEW V, NEW s \in Seq(V)
  PROVE  DOMAIN s = 1 .. Len(s) /\ Len(s) \in Nat /\ IsFiniteSet(DOMAIN s)
<1>1. DOMAIN s = 1 .. Len(s) /\ Len(s) \in Nat
  BY LenProperties
<1> QED
  BY <1>1, FS_Interval

LEMMA HeldOne ==
  ASSUME NEW v, NEW o
  PROVE  Held(o, <<v>>) = IF v.o = o THEN 1 ELSE 0
<1>1. DOMAIN <<v>> = {1} /\ <<v>>[1] = v
  OBVIOUS
<1>2. Held(o, <<v>>) = Cardinality({i \in {1} : v.o = o})
  <2>1. {i \in DOMAIN <<v>> : <<v>>[i].o = o} = {i \in {1} : v.o = o}
    BY <1>1
  <2> QED
    BY <2>1 DEF Held
<1>3. CASE v.o = o
  <2>1. {i \in {1} : v.o = o} = {1}
    BY <1>3
  <2> QED
    BY <1>2, <1>3, <2>1, FS_Singleton
<1>4. CASE v.o # o
  <2>1. {i \in {1} : v.o = o} = {}
    BY <1>4
  <2> QED
    BY <1>2, <1>4, <2>1, FS_EmptySet
<1> QED
  BY <1>3, <1>4

LEMMA HeldNone ==
  ASSUME NEW o
  PROVE  Held(o, <<>>) = 0
<1>1. {i \in DOMAIN <<>> : <<>>[i].o = o} = {}
  OBVIOUS
<1> QED
  BY <1>1, FS_EmptySet DEF Held

(* Where one place changes.                                                *)
LEMMA HeldExcept ==
  ASSUME NEW s, IsFiniteSet(DOMAIN s), NEW t, DOMAIN t = DOMAIN s, NEW k \in DOMAIN s,
         \A i \in DOMAIN s : i # k => t[i] = s[i], NEW o
  PROVE  Held(o, t) = Held(o, s) - Held(o, <<s[k]>>) + Held(o, <<t[k]>>)
<1> DEFINE R == Places(o, s) \ {k}
<1>1. /\ IsFiniteSet(Places(o, s)) /\ Held(o, s) = Cardinality(Places(o, s))
      /\ IsFiniteSet(Places(o, t)) /\ Held(o, t) = Cardinality(Places(o, t))
      /\ Cardinality(Places(o, s)) \in Nat
  BY HeldType
<1>2. IsFiniteSet(R) /\ Cardinality(R) \in Nat
  BY <1>1, FS_RemoveElement, FS_CardinalityType
<1>3. Places(o, t) \ {k} = R
  BY DEF Places
<1>4. Cardinality(Places(o, s)) = Cardinality(R) + Held(o, <<s[k]>>)
  <2>1. k \in Places(o, s) <=> s[k].o = o
    BY DEF Places
  <2>2. Cardinality(R) = IF k \in Places(o, s) THEN Cardinality(Places(o, s)) - 1
                         ELSE Cardinality(Places(o, s))
    BY <1>1, FS_RemoveElement
  <2>3. Held(o, <<s[k]>>) = IF s[k].o = o THEN 1 ELSE 0
    BY HeldOne
  <2> HIDE DEF R
  <2> QED
    BY <1>1, <2>1, <2>2, <2>3
<1>5. Cardinality(Places(o, t)) = Cardinality(R) + Held(o, <<t[k]>>)
  <2>1. k \in Places(o, t) <=> t[k].o = o
    BY DEF Places
  <2>2. Cardinality(Places(o, t)) \in Nat
    BY <1>1, FS_CardinalityType
  <2> HIDE DEF R
  <2>3. Cardinality(R) = IF k \in Places(o, t) THEN Cardinality(Places(o, t)) - 1
                         ELSE Cardinality(Places(o, t))
    <3>1. Cardinality(Places(o, t) \ {k}) =
            IF k \in Places(o, t) THEN Cardinality(Places(o, t)) - 1
                         ELSE Cardinality(Places(o, t))
      BY <1>1, FS_RemoveElement
    <3> QED
      BY <1>3, <3>1
  <2>4. Held(o, <<t[k]>>) = IF t[k].o = o THEN 1 ELSE 0
    BY HeldOne
  <2> QED
    BY <2>1, <2>2, <2>3, <2>4
<1>6. Held(o, <<s[k]>>) \in Nat /\ Held(o, <<t[k]>>) \in Nat
  BY HeldOne
<1> HIDE DEF R
<1> QED
  BY <1>1, <1>2, <1>4, <1>5, <1>6

LEMMA HeldConcat ==
  ASSUME NEW V, NEW s \in Seq(V), NEW t \in Seq(V), NEW o
  PROVE  Held(o, s \o t) = Held(o, s) + Held(o, t)
<1> DEFINE n == Len(s)
           A == Places(o, s)
           B == Places(o, t)
           C == Places(o, s \o t)
           D == {i \in C : i > n}
           f == [i \in B |-> i + n]
<1>1. /\ s \o t \in Seq(V) /\ Len(s \o t) = n + Len(t) /\ n \in Nat /\ Len(t) \in Nat
      /\ \A i \in 1 .. n + Len(t) : (s \o t)[i] = IF i <= n THEN s[i] ELSE t[i - n]
  BY ConcatProperties, LenProperties
<1>2. DOMAIN s = 1 .. n /\ DOMAIN t = 1 .. Len(t) /\ DOMAIN (s \o t) = 1 .. n + Len(t)
  BY <1>1, LenProperties
<1>3. /\ IsFiniteSet(A) /\ Held(o, s) = Cardinality(A)
      /\ IsFiniteSet(B) /\ Held(o, t) = Cardinality(B)
      /\ IsFiniteSet(C) /\ Held(o, s \o t) = Cardinality(C)
  BY <1>1, SeqDomain, HeldType
<1>4. C = A \cup D /\ A \cap D = {}
  BY <1>1, <1>2 DEF Places
<1>5. f \in [B -> D]
  <2>1. ASSUME NEW i \in B PROVE i + n \in D
    BY <1>1, <1>2 DEF Places
  <2> QED
    BY <2>1
<1>6. \A x, y \in B : f[x] = f[y] => x = y
  BY <1>1, <1>2 DEF Places
<1>7. \A d \in D : \E x \in B : f[x] = d
  <2> TAKE d \in D
  <2>1. d - n \in B /\ (d - n) + n = d
    BY <1>1, <1>2 DEF Places
  <2> QED
    BY <2>1
<1>8. IsFiniteSet(D) /\ Cardinality(D) = Cardinality(B)
  <2> HIDE DEF D, f, B
  <2> QED
    BY <1>3, <1>5, <1>6, <1>7, SameSize
<1> HIDE DEF A, B, C, D
<1> QED
  BY <1>3, <1>4, <1>8, DisjointSize

LEMMA HeldTail ==
  ASSUME NEW V, NEW s \in Seq(V), s # <<>>, NEW o
  PROVE  Held(o, s) = Held(o, <<Head(s)>>) + Held(o, Tail(s))
<1>1. Head(s) \in V /\ Tail(s) \in Seq(V)
  BY HeadTailProperties
<1>2. s = <<Head(s)>> \o Tail(s)
  <2>1. <<Head(s)>> \in Seq(V)
    BY <1>1
  <2> QED
    BY <1>1, <2>1
<1>3. <<Head(s)>> \in Seq(V)
  BY <1>1
<1> QED
  BY <1>1, <1>2, <1>3, HeldConcat

LEMMA HeldAppend ==
  ASSUME NEW V, NEW s \in Seq(V), NEW v \in V, NEW o
  PROVE  Held(o, Append(s, v)) = Held(o, s) + Held(o, <<v>>)
<1>1. Append(s, v) = s \o <<v>> /\ <<v>> \in Seq(V)
  BY AppendIsConcat
<1> QED
  BY <1>1, HeldConcat

(* How often the sequences of a sequence or a function hold an object:     *)
(* the places in those whose index is in I.                                *)
PlacesIn(o, ss, I) == UNION {{i} \X Places(o, ss[i]) : i \in I}
Finite(ss) == IsFiniteSet(DOMAIN ss) /\ \A i \in DOMAIN ss : IsFiniteSet(DOMAIN ss[i])

LEMMA PlacesInElement ==
  ASSUME NEW ss, NEW I, NEW o
  PROVE  \A p : p \in PlacesIn(o, ss, I) <=>
           \E i \in I : \E j \in Places(o, ss[i]) : p = <<i, j>>
BY DEF PlacesIn

LEMMA PlacesInFinite ==
  ASSUME NEW ss, Finite(ss), NEW I \in SUBSET DOMAIN ss, NEW o
  PROVE  IsFiniteSet(PlacesIn(o, ss, I)) /\ Cardinality(PlacesIn(o, ss, I)) \in Nat
<1> DEFINE T == {{i} \X Places(o, ss[i]) : i \in I}
           f == [i \in I |-> {i} \X Places(o, ss[i])]
<1>1. IsFiniteSet(I)
  BY FS_Subset DEF Finite
<1>2. f \in Surjection(I, T)
  BY DEF Surjection
<1>3. IsFiniteSet(T)
  <2> HIDE DEF f, T
  <2> QED
    BY <1>1, <1>2, FS_Surjection
<1>4. ASSUME NEW i \in I PROVE IsFiniteSet({i} \X Places(o, ss[i]))
  <2>1. IsFiniteSet(DOMAIN ss[i])
    BY DEF Finite
  <2>2. IsFiniteSet(Places(o, ss[i]))
    BY <2>1, HeldType
  <2>3. IsFiniteSet({i})
    BY FS_Singleton
  <2> QED
    BY <2>2, <2>3, FS_Product
<1>5. \A A \in T : IsFiniteSet(A)
  BY <1>4
<1>6. IsFiniteSet(UNION T)
  <2> HIDE DEF T
  <2> QED
    BY <1>3, <1>5, FS_UNION
<1>7. PlacesIn(o, ss, I) = UNION T
  BY DEF PlacesIn
<1> HIDE DEF T
<1> QED
  BY <1>6, <1>7, FS_CardinalityType

LEMMA PlacesInAdd ==
  ASSUME NEW ss, Finite(ss), NEW I \in SUBSET DOMAIN ss, NEW k \in I, NEW o
  PROVE  Cardinality(PlacesIn(o, ss, I)) =
           Cardinality(PlacesIn(o, ss, I \ {k})) + Held(o, ss[k])
<1> DEFINE A == PlacesIn(o, ss, I \ {k})
           B == {k} \X Places(o, ss[k])
<1>1. PlacesIn(o, ss, I) = A \cup B
  <2>1. ASSUME NEW p PROVE p \in PlacesIn(o, ss, I) <=> p \in A \cup B
    <3>1. p \in B <=> \E j \in Places(o, ss[k]) : p = <<k, j>>
      OBVIOUS
    <3>2. p \in A <=> \E i \in I \ {k} : \E j \in Places(o, ss[i]) : p = <<i, j>>
      BY PlacesInElement
    <3>3. p \in PlacesIn(o, ss, I) <=> \E i \in I : \E j \in Places(o, ss[i]) : p = <<i, j>>
      BY PlacesInElement
    <3> HIDE DEF A, B
    <3> QED
      BY <3>1, <3>2, <3>3
  <2> HIDE DEF A, B
  <2> QED
    BY <2>1
<1>2. A \cap B = {}
  <2>1. ASSUME NEW p, p \in A, p \in B PROVE FALSE
    <3>1. PICK i \in I \ {k} : \E j \in Places(o, ss[i]) : p = <<i, j>>
      BY <2>1, PlacesInElement
    <3> QED
      BY <2>1, <3>1
  <2> HIDE DEF A, B
  <2> QED
    BY <2>1
<1>3. IsFiniteSet(A)
  <2>1. I \ {k} \in SUBSET DOMAIN ss
    OBVIOUS
  <2> QED
    BY <2>1, PlacesInFinite
<1>4. /\ IsFiniteSet(Places(o, ss[k])) /\ Held(o, ss[k]) = Cardinality(Places(o, ss[k]))
      /\ Held(o, ss[k]) \in Nat
  <2>1. IsFiniteSet(DOMAIN ss[k])
    BY DEF Finite
  <2> QED
    BY <2>1, HeldType
<1>5. IsFiniteSet({k}) /\ Cardinality({k}) = 1
  BY FS_Singleton
<1>6. IsFiniteSet(B) /\ Cardinality(B) = 1 * Cardinality(Places(o, ss[k]))
  BY <1>4, <1>5, FS_Product
<1>7. Cardinality(B) = Held(o, ss[k])
  BY <1>4, <1>6
<1> HIDE DEF A, B
<1>8. Cardinality(A \cup B) = Cardinality(A) + Cardinality(B)
  BY <1>2, <1>3, <1>6, DisjointSize
<1> QED
  BY <1>1, <1>7, <1>8 DEF A

LEMMA PlacesInSame ==
  ASSUME NEW ss, NEW tt, NEW I, \A i \in I : tt[i] = ss[i], NEW o
  PROVE  PlacesIn(o, tt, I) = PlacesIn(o, ss, I)
BY DEF PlacesIn

LEMMA HeldAllPlaces ==
  ASSUME NEW ss, NEW o
  PROVE  HeldAll(o, ss) = Cardinality(PlacesIn(o, ss, DOMAIN ss))
BY DEF HeldAll, PlacesIn, Places

LEMMA HeldAllType ==
  ASSUME NEW ss, Finite(ss), NEW o
  PROVE  /\ HeldAll(o, ss) \in Nat
         /\ HeldAll(o, ss) = 0 <=>
              \A i \in DOMAIN ss : \A j \in DOMAIN ss[i] : ss[i][j].o # o
<1> DEFINE P == PlacesIn(o, ss, DOMAIN ss)
<1>1. IsFiniteSet(P) /\ Cardinality(P) \in Nat /\ HeldAll(o, ss) = Cardinality(P)
  BY PlacesInFinite, HeldAllPlaces
<1>2. Cardinality(P) = 0 <=> P = {}
  <2> HIDE DEF P
  <2> QED
    BY <1>1, FS_EmptySet
<1>3. P = {} <=> \A i \in DOMAIN ss : \A j \in DOMAIN ss[i] : ss[i][j].o # o
  <2>1. \A p : p \in P <=> \E i \in DOMAIN ss : \E j \in Places(o, ss[i]) : p = <<i, j>>
    BY PlacesInElement
  <2> HIDE DEF P
  <2> QED
    BY <2>1 DEF Places
<1> QED
  BY <1>1, <1>2, <1>3

(* Where one of the sequences changes.                                     *)
LEMMA HeldAllExcept ==
  ASSUME NEW ss, Finite(ss), NEW tt, Finite(tt), DOMAIN tt = DOMAIN ss,
         NEW k \in DOMAIN ss, \A i \in DOMAIN ss : i # k => tt[i] = ss[i], NEW o
  PROVE  HeldAll(o, tt) = HeldAll(o, ss) - Held(o, ss[k]) + Held(o, tt[k])
<1> DEFINE D == DOMAIN ss \ {k}
<1>1. PlacesIn(o, tt, D) = PlacesIn(o, ss, D)
  BY PlacesInSame
<1>2. HeldAll(o, ss) = Cardinality(PlacesIn(o, ss, D)) + Held(o, ss[k])
  BY HeldAllPlaces, PlacesInAdd
<1>3. HeldAll(o, tt) = Cardinality(PlacesIn(o, tt, D)) + Held(o, tt[k])
  BY HeldAllPlaces, PlacesInAdd
<1>4. Cardinality(PlacesIn(o, ss, D)) \in Nat
  BY PlacesInFinite
<1>5. Held(o, ss[k]) \in Nat /\ Held(o, tt[k]) \in Nat
  BY HeldType DEF Finite
<1> HIDE DEF D
<1> QED
  BY <1>1, <1>2, <1>3, <1>4, <1>5

LEMMA FiniteSeqs ==
  ASSUME NEW V, NEW ss \in Seq(Seq(V))
  PROVE  Finite(ss)
<1>1. \A i \in DOMAIN ss : ss[i] \in Seq(V)
  BY ElementOfSeq, LenProperties
<1> QED
  BY <1>1, SeqDomain DEF Finite

LEMMA HeldAllAppend ==
  ASSUME NEW V, NEW ss \in Seq(Seq(V)), NEW s \in Seq(V), NEW o
  PROVE  HeldAll(o, Append(ss, s)) = HeldAll(o, ss) + Held(o, s)
<1> DEFINE n == Len(ss)
           tt == Append(ss, s)
<1>1. /\ tt \in Seq(Seq(V)) /\ Len(tt) = n + 1 /\ n \in Nat
      /\ \A i \in 1 .. n : tt[i] = ss[i]
      /\ tt[n + 1] = s
  BY AppendProperties, LenProperties
<1>2. DOMAIN ss = 1 .. n /\ DOMAIN tt = 1 .. n + 1
  <2> HIDE DEF tt
  <2> QED
    BY <1>1, LenProperties
<1>3. Finite(tt)
  <2> HIDE DEF tt
  <2> QED
    BY <1>1, FiniteSeqs
<1> HIDE DEF tt
<1>4. (1 .. n + 1) \ {n + 1} = 1 .. n /\ n + 1 \in DOMAIN tt
  BY <1>1, <1>2
<1>5. HeldAll(o, tt) = Cardinality(PlacesIn(o, tt, 1 .. n)) + Held(o, s)
  <2>1. HeldAll(o, tt) = Cardinality(PlacesIn(o, tt, DOMAIN tt))
    BY HeldAllPlaces
  <2>2. Cardinality(PlacesIn(o, tt, DOMAIN tt)) =
          Cardinality(PlacesIn(o, tt, DOMAIN tt \ {n + 1})) + Held(o, tt[n + 1])
    BY <1>3, <1>4, PlacesInAdd
  <2> QED
    BY <1>1, <1>2, <1>4, <2>1, <2>2
<1>6. PlacesIn(o, tt, 1 .. n) = PlacesIn(o, ss, 1 .. n)
  <2> DEFINE I == 1 .. n
  <2>1. \A i \in I : tt[i] = ss[i]
    BY <1>1
  <2> HIDE DEF I
  <2>2. PlacesIn(o, tt, I) = PlacesIn(o, ss, I)
    BY <2>1, PlacesInSame
  <2> QED
    BY <2>2 DEF I
<1> QED
  BY <1>2, <1>5, <1>6, HeldAllPlaces DEF tt

LEMMA LastOf ==
  ASSUME NEW V, NEW ss \in Seq(V), ss # <<>>
  PROVE  /\ Front(ss) \in Seq(V) /\ Last(ss) \in V /\ ss = Append(Front(ss), Last(ss))
         /\ Len(ss) \in DOMAIN ss /\ Len(Front(ss)) = Len(ss) - 1
         /\ \A i \in 1 .. Len(ss) - 1 : Front(ss)[i] = ss[i]
<1> DEFINE n == Len(ss)
<1>1. DOMAIN ss = 1 .. n /\ n \in Nat /\ n # 0
  BY LenProperties, EmptySeq
<1>2. \A i \in 1 .. n : ss[i] \in V
  BY ElementOfSeq
<1>3. /\ Front(ss) \in Seq(V) /\ Len(Front(ss)) = n - 1
      /\ \A i \in 1 .. n - 1 : Front(ss)[i] = ss[i]
  <2>1. \A i \in 1 .. n - 1 : ss[i] \in V
    BY <1>1, <1>2
  <2> QED
    BY <1>1, <2>1, SubSeqProperties DEF Front
<1>4. Last(ss) = ss[n] /\ Last(ss) \in V
  BY <1>1, <1>2 DEF Last
<1>5. ss = Append(Front(ss), Last(ss))
  <2> DEFINE t == Append(Front(ss), Last(ss))
  <2>1. /\ t \in Seq(V) /\ Len(t) = Len(Front(ss)) + 1
        /\ \A i \in 1 .. Len(Front(ss)) : t[i] = Front(ss)[i]
        /\ t[Len(Front(ss)) + 1] = Last(ss)
    BY <1>3, <1>4, AppendProperties
  <2> HIDE DEF t
  <2>2. Len(t) = Len(ss) /\ \A i \in 1 .. Len(ss) : t[i] = ss[i]
    BY <1>1, <1>3, <1>4, <2>1
  <2>3. ss = t
    BY <2>1, <2>2, SeqEqual
  <2> QED
    BY <2>3 DEF t
<1>6. Len(ss) \in DOMAIN ss
  BY <1>1
<1> QED
  BY <1>3, <1>4, <1>5, <1>6

(* A note that ends: the others move up.                                   *)
LEMMA HeldAllRemove ==
  ASSUME NEW V, NEW ss \in Seq(Seq(V)), NEW k \in DOMAIN ss, NEW o
  PROVE  /\ RemoveAt(ss, k) \in Seq(Seq(V))
         /\ \A i \in DOMAIN RemoveAt(ss, k) :
              \E j \in DOMAIN ss : RemoveAt(ss, k)[i] = ss[j]
         /\ HeldAll(o, RemoveAt(ss, k)) = HeldAll(o, ss) - Held(o, ss[k])
<1> DEFINE n == Len(ss)
           a == SubSeq(ss, 1, k - 1)
           b == SubSeq(ss, k + 1, n)
           tt == RemoveAt(ss, k)
           up(i) == IF i < k THEN i ELSE i - 1
           down(i) == IF i < k THEN i ELSE i + 1
           A == PlacesIn(o, ss, DOMAIN ss \ {k})
           B == PlacesIn(o, tt, DOMAIN tt)
           f == [p \in A |-> <<up(p[1]), p[2]>>]
<1>1. DOMAIN ss = 1 .. n /\ n \in Nat /\ k \in 1 .. n /\ \A i \in 1 .. n : ss[i] \in Seq(V)
  BY LenProperties, ElementOfSeq
<1>2. /\ a \in Seq(Seq(V)) /\ Len(a) = k - 1 /\ \A i \in 1 .. k - 1 : a[i] = ss[i]
  <2>1. /\ Len(a) = IF 1 <= k - 1 THEN k - 1 - 1 + 1 ELSE 0
        /\ a \in Seq(Seq(V)) /\ \A i \in 1 .. k - 1 - 1 + 1 : a[i] = ss[1 + i - 1]
    <3>1. \A i \in 1 .. k - 1 : ss[i] \in Seq(V)
      BY <1>1
    <3> QED
      BY <1>1, <3>1, SubSeqProperties
  <2> HIDE DEF a
  <2> QED
    BY <1>1, <2>1
<1>3. /\ b \in Seq(Seq(V)) /\ Len(b) = n - k /\ \A i \in 1 .. n - k : b[i] = ss[k + i]
  <2> DEFINE m == k + 1
             c == SubSeq(ss, m, n)
  <2>1. m \in Int /\ n \in Int /\ \A i \in m .. n : ss[i] \in Seq(V)
    BY <1>1
  <2> HIDE DEF m
  <2>2. /\ Len(c) = IF m <= n THEN n - m + 1 ELSE 0
        /\ c \in Seq(Seq(V)) /\ \A i \in 1 .. n - m + 1 : c[i] = ss[m + i - 1]
    BY <2>1, SubSeqProperties
  <2> HIDE DEF c
  <2>3. Len(c) = n - k
    <3>1. Len(c) = IF m <= n THEN n - m + 1 ELSE 0
      BY <2>2
    <3>2. m = k + 1 /\ k \in 1 .. n /\ n \in Nat
      BY <1>1 DEF m
    <3> HIDE DEF n
    <3> QED
      BY <3>1, <3>2
  <2>4. ASSUME NEW i \in 1 .. n - k PROVE c[i] = ss[k + i]
    <3>1. i \in 1 .. n - m + 1 /\ m + i - 1 = k + i
      BY <1>1 DEF m
    <3> QED
      BY <2>2, <3>1
  <2>5. c = b
    BY DEF c, m
  <2> QED
    BY <2>2, <2>3, <2>4, <2>5
<1>4. /\ tt \in Seq(Seq(V)) /\ Len(tt) = n - 1
      /\ \A i \in 1 .. n - 1 : tt[i] = ss[down(i)]
  <2>1. tt = a \o b
    BY DEF RemoveAt
  <2> HIDE DEF a, b, tt
  <2>2. /\ tt \in Seq(Seq(V)) /\ Len(tt) = Len(a) + Len(b)
        /\ \A i \in 1 .. Len(a) + Len(b) :
             tt[i] = IF i <= Len(a) THEN a[i] ELSE b[i - Len(a)]
    BY <1>2, <1>3, <2>1, ConcatProperties
  <2>3. Len(tt) = n - 1
    BY <1>1, <1>2, <1>3, <2>2
  <2>4. ASSUME NEW i \in 1 .. n - 1 PROVE tt[i] = ss[down(i)]
    <3>1. tt[i] = IF i <= k - 1 THEN a[i] ELSE b[i - (k - 1)]
      <4>1. i \in 1 .. Len(a) + Len(b)
        BY <1>1, <1>2, <1>3
      <4>2. Len(a) = k - 1
        BY <1>2
      <4> QED
        BY <2>2, <4>1, <4>2
    <3>2. CASE i < k
      <4>1. i \in 1 .. k - 1 /\ i <= k - 1
        BY <1>1, <3>2
      <4>2. a[i] = ss[i]
        BY <1>2, <4>1
      <4> QED
        BY <3>1, <3>2, <4>1, <4>2
    <3>3. CASE ~(i < k)
      <4>1. i - (k - 1) \in 1 .. n - k /\ k + (i - (k - 1)) = i + 1
        BY <1>1, <3>3
      <4>2. b[i - (k - 1)] = ss[i + 1]
        BY <1>3, <4>1
      <4> QED
        BY <1>1, <3>1, <3>3, <4>2
    <3> QED
      BY <3>2, <3>3
  <2> QED
    BY <2>2, <2>3, <2>4
<1> HIDE DEF a, b, tt
<1>5. DOMAIN tt = 1 .. n - 1
  BY <1>4, LenProperties
<1>6. \A i \in 1 .. n - 1 : down(i) \in DOMAIN ss \ {k}
  BY <1>1
<1>7. \A i \in DOMAIN ss \ {k} : up(i) \in 1 .. n - 1 /\ down(up(i)) = i
  BY <1>1
<1>8. Finite(ss) /\ Finite(tt)
  BY <1>4, FiniteSeqs
<1>9. IsFiniteSet(A) /\ Cardinality(A) \in Nat
  <2>1. DOMAIN ss \ {k} \in SUBSET DOMAIN ss
    OBVIOUS
  <2> QED
    BY <1>8, <2>1, PlacesInFinite
<1>10. \A p \in A : p[1] \in DOMAIN ss \ {k} /\ p[2] \in Places(o, ss[p[1]]) /\ p = <<p[1], p[2]>>
  BY PlacesInElement
<1>11. f \in [A -> B]
  <2>1. ASSUME NEW p \in A PROVE <<up(p[1]), p[2]>> \in B
    <3>1. p[1] \in DOMAIN ss \ {k} /\ p[2] \in Places(o, ss[p[1]])
      BY <1>10
    <3>2. up(p[1]) \in DOMAIN tt /\ tt[up(p[1])] = ss[p[1]]
      BY <1>4, <1>5, <1>7, <3>1
    <3> QED
      BY <3>1, <3>2, PlacesInElement
  <2> QED
    BY <2>1
<1>12. \A p, q \in A : f[p] = f[q] => p = q
  <2>1. ASSUME NEW p \in A, NEW q \in A, f[p] = f[q] PROVE p = q
    <3>1. up(p[1]) = up(q[1]) /\ p[2] = q[2]
      BY <2>1
    <3>2. p[1] = q[1]
      <4>1. down(up(p[1])) = p[1] /\ down(up(q[1])) = q[1]
        BY <1>7, <1>10
      <4> QED
        BY <3>1, <4>1
    <3> QED
      BY <1>10, <3>1, <3>2
  <2> QED
    BY <2>1
<1>13. \A q \in B : \E p \in A : f[p] = q
  <2>1. ASSUME NEW q \in B PROVE \E p \in A : f[p] = q
    <3>1. PICK i \in DOMAIN tt : \E j \in Places(o, tt[i]) : q = <<i, j>>
      BY PlacesInElement
    <3>2. PICK j \in Places(o, tt[i]) : q = <<i, j>>
      BY <3>1
    <3>3. down(i) \in DOMAIN ss \ {k} /\ ss[down(i)] = tt[i] /\ up(down(i)) = i
      <4>1. i \in 1 .. n - 1
        BY <1>5, <3>1
      <4>2. down(i) \in DOMAIN ss \ {k}
        BY <1>6, <4>1
      <4>3. ss[down(i)] = tt[i]
        BY <1>4, <4>1
      <4>4. up(down(i)) = i
        <5>1. i \in Int /\ k \in Int
          BY <1>1, <4>1
        <5> QED
          BY <5>1
      <4> QED
        BY <4>2, <4>3, <4>4
    <3>4. <<down(i), j>> \in A
      BY <3>2, <3>3, PlacesInElement
    <3>5. f[<<down(i), j>>] = q
      BY <3>2, <3>3, <3>4
    <3> QED
      BY <3>4, <3>5
  <2> QED
    BY <2>1
<1>14. Cardinality(B) = Cardinality(A)
  <2> HIDE DEF A, B, f
  <2> QED
    BY <1>9, <1>11, <1>12, <1>13, SameSize
<1>15. HeldAll(o, tt) = Cardinality(B)
  BY HeldAllPlaces
<1>16. HeldAll(o, ss) = Cardinality(A) + Held(o, ss[k])
  BY <1>8, HeldAllPlaces, PlacesInAdd
<1>17. Held(o, ss[k]) \in Nat
  BY <1>8, HeldType DEF Finite
<1>18. HeldAll(o, tt) = HeldAll(o, ss) - Held(o, ss[k])
  <2> HIDE DEF A, B
  <2> QED
    BY <1>9, <1>14, <1>15, <1>16, <1>17
<1>19. \A i \in DOMAIN tt : \E j \in DOMAIN ss : tt[i] = ss[j]
  BY <1>4, <1>5, <1>6
<1> QED
  BY <1>4, <1>18, <1>19 DEF tt

-----------------------------------------------------------------------------
(* What the heap's operations do to the counts, for heaps of every size and *)
(* shape: cycles included.                                                  *)

LEMMA ObjsFacts == Objs \subseteq Nat \ {0} /\ IsFiniteSet(Objs) /\ NULL \notin Objs /\ Wild \notin Objs
BY BoundsAssumption DEF NULL, Wild

LEMMA ValueFacts ==
  /\ Void \in Value /\ Num \in Value /\ Void.o = NULL /\ Num.o = NULL
  /\ Void.t = "void" /\ Num.t = "num"
  /\ Free \in Object /\ Free.kind = "free" /\ Free.ref = 0 /\ Free.elems = <<>>
<1>1. <<>> \in Seq(Value)
  BY EmptySeq
<1> QED
  BY <1>1 DEF Void, Num, Value, Types, NULL, Free, Object, Kinds

LEMMA ObjectFacts ==
  ASSUME NEW h \in Heaps, NEW o \in Objs
  PROVE  /\ h[o] = [kind |-> h[o].kind, ref |-> h[o].ref, elems |-> h[o].elems]
         /\ h[o].kind \in Kinds /\ h[o].ref \in Nat /\ h[o].elems \in Seq(Value)
         /\ DOMAIN h[o].elems = 1 .. Len(h[o].elems) /\ Len(h[o].elems) \in Nat
         /\ IsFiniteSet(DOMAIN h[o].elems)
<1>1. h[o] \in Object
  BY DEF Heaps
<1>2. h[o].elems \in Seq(Value)
  BY <1>1 DEF Object
<1> QED
  BY <1>1, <1>2, SeqDomain DEF Object

LEMMA ElementsType ==
  ASSUME NEW h \in Heaps
  PROVE  /\ DOMAIN Elements(h) = Objs /\ \A o \in Objs : Elements(h)[o] = h[o].elems
         /\ Finite(Elements(h))
<1>1. DOMAIN Elements(h) = Objs /\ \A o \in Objs : Elements(h)[o] = h[o].elems
  BY DEF Elements
<1> QED
  BY <1>1, ObjsFacts, ObjectFacts DEF Finite

LEMMA InnerType ==
  ASSUME NEW h \in Heaps, NEW o
  PROVE  /\ HeldAll(o, Elements(h)) \in Nat
         /\ HeldAll(o, Elements(h)) = 0 <=>
              \A p \in Objs : \A j \in DOMAIN h[p].elems : h[p].elems[j].o # o
<1>1. /\ HeldAll(o, Elements(h)) \in Nat
      /\ HeldAll(o, Elements(h)) = 0 <=>
           \A p \in DOMAIN Elements(h) : \A j \in DOMAIN Elements(h)[p] :
             Elements(h)[p][j].o # o
  BY ElementsType, HeldAllType
<1> QED
  BY <1>1, ElementsType

LEMMA InnerSame ==
  ASSUME NEW h, NEW g, \A o \in Objs : g[o].elems = h[o].elems
  PROVE  Elements(g) = Elements(h)
BY DEF Elements

LEMMA InnerExcept ==
  ASSUME NEW h \in Heaps, NEW g \in Heaps, NEW k \in Objs,
         \A o \in Objs : o # k => g[o].elems = h[o].elems, NEW o
  PROVE  /\ HeldAll(o, Elements(g)) =
              HeldAll(o, Elements(h)) - Held(o, h[k].elems) + Held(o, g[k].elems)
         /\ Held(o, h[k].elems) \in Nat /\ Held(o, g[k].elems) \in Nat
         /\ Held(o, h[k].elems) <= HeldAll(o, Elements(h))
<1> DEFINE ss == Elements(h)
           tt == Elements(g)
<1>1. /\ DOMAIN ss = Objs /\ Finite(ss) /\ \A p \in Objs : ss[p] = h[p].elems
      /\ DOMAIN tt = Objs /\ Finite(tt) /\ \A p \in Objs : tt[p] = g[p].elems
  BY ElementsType
<1> HIDE DEF ss, tt
<1>2. \A i \in DOMAIN ss : i # k => tt[i] = ss[i]
  BY <1>1
<1>3. HeldAll(o, tt) = HeldAll(o, ss) - Held(o, ss[k]) + Held(o, tt[k])
  BY <1>1, <1>2, HeldAllExcept
<1>4. Held(o, ss[k]) \in Nat /\ Held(o, tt[k]) \in Nat
  <2>1. IsFiniteSet(DOMAIN ss[k]) /\ IsFiniteSet(DOMAIN tt[k])
    BY <1>1 DEF Finite
  <2> QED
    BY <2>1, HeldType
<1>5. Held(o, ss[k]) <= HeldAll(o, ss)
  <2>1. HeldAll(o, ss) = Cardinality(PlacesIn(o, ss, DOMAIN ss \ {k})) + Held(o, ss[k])
    BY <1>1, HeldAllPlaces, PlacesInAdd
  <2>2. Cardinality(PlacesIn(o, ss, DOMAIN ss \ {k})) \in Nat
    BY <1>1, PlacesInFinite
  <2> QED
    BY <1>4, <2>1, <2>2
<1> QED
  BY <1>1, <1>3, <1>4, <1>5 DEF ss, tt

(* How many elements the objects of a heap have.                           *)
Blank(h) == [o \in Objs |-> [i \in DOMAIN h[o].elems |-> Void]]
Size(h) == HeldAll(NULL, Blank(h))

LEMMA BlankFacts ==
  ASSUME NEW h \in Heaps
  PROVE  /\ DOMAIN Blank(h) = Objs /\ Finite(Blank(h))
         /\ \A o \in Objs : /\ Places(NULL, Blank(h)[o]) = DOMAIN h[o].elems
                            /\ Held(NULL, Blank(h)[o]) = Len(h[o].elems)
<1>1. /\ DOMAIN Blank(h) = Objs
      /\ \A o \in Objs : Blank(h)[o] = [i \in DOMAIN h[o].elems |-> Void]
  BY DEF Blank
<1>2. Finite(Blank(h))
  BY <1>1, ObjsFacts, ObjectFacts DEF Finite
<1>3. ASSUME NEW o \in Objs
      PROVE  /\ Places(NULL, Blank(h)[o]) = DOMAIN h[o].elems
             /\ Held(NULL, Blank(h)[o]) = Len(h[o].elems)
  <2>1. Places(NULL, Blank(h)[o]) = DOMAIN h[o].elems
    BY <1>1, ValueFacts DEF Places
  <2>2. IsFiniteSet(DOMAIN Blank(h)[o])
    BY <1>2, <1>1 DEF Finite
  <2>3. Held(NULL, Blank(h)[o]) = Cardinality(1 .. Len(h[o].elems))
    BY <2>1, <2>2, HeldType, ObjectFacts
  <2>4. Cardinality(1 .. Len(h[o].elems)) = Len(h[o].elems)
    BY ObjectFacts, FS_Interval
  <2> QED
    BY <2>1, <2>3, <2>4
<1> QED
  BY <1>1, <1>2, <1>3

LEMMA WorkFacts ==
  ASSUME NEW h \in Heaps, NEW s \in Seq(Value)
  PROVE  Work(h, s) = Len(s) + Size(h) /\ Size(h) \in Nat /\ Work(h, s) \in Nat
<1>1. Size(h) = Cardinality(PlacesIn(NULL, Blank(h), Objs))
  BY BlankFacts, HeldAllPlaces DEF Size
<1>2. PlacesIn(NULL, Blank(h), Objs) = UNION {{o} \X DOMAIN h[o].elems : o \in Objs}
  BY BlankFacts DEF PlacesIn
<1>3. Size(h) \in Nat
  BY BlankFacts, HeldAllType DEF Size
<1>4. Len(s) \in Nat
  BY LenProperties
<1> QED
  BY <1>1, <1>2, <1>3, <1>4 DEF Work

LEMMA SizeFree ==
  ASSUME NEW h \in Heaps, NEW o \in Objs
  PROVE  Size([h EXCEPT ![o] = Free]) = Size(h) - Len(h[o].elems)
<1> DEFINE g == [h EXCEPT ![o] = Free]
<1>1. g \in Heaps /\ g[o] = Free /\ \A p \in Objs : p # o => g[p] = h[p]
  BY ValueFacts DEF Heaps
<1> HIDE DEF g
<1>2. \A p \in Objs : p # o => Blank(g)[p] = Blank(h)[p]
  BY <1>1 DEF Blank
<1>3. Held(NULL, Blank(g)[o]) = 0
  BY <1>1, BlankFacts, ValueFacts
<1>4. Held(NULL, Blank(h)[o]) = Len(h[o].elems)
  BY BlankFacts
<1>5. /\ DOMAIN Blank(g) = Objs /\ Finite(Blank(g))
      /\ DOMAIN Blank(h) = Objs /\ Finite(Blank(h))
  BY <1>1, BlankFacts
<1>6. Size(g) = Size(h) - Held(NULL, Blank(h)[o]) + Held(NULL, Blank(g)[o])
  BY <1>2, <1>5, HeldAllExcept DEF Size
<1>7. Size(h) \in Nat /\ Len(h[o].elems) \in Nat
  BY <1>5, HeldAllType, ObjectFacts DEF Size
<1> QED
  BY <1>3, <1>4, <1>6, <1>7 DEF g

-----------------------------------------------------------------------------
(* unref_value_list() and what it calls.                                   *)

Works == [heap : Heaps, left : Seq(Value)]

LEMMA WorksFacts ==
  ASSUME NEW w \in Works
  PROVE  /\ w = [heap |-> w.heap, left |-> w.left]
         /\ w.heap \in Heaps /\ w.left \in Seq(Value)
         /\ w.left # <<>> => /\ Head(w.left) \in Value /\ Tail(w.left) \in Seq(Value)
                             /\ Len(Tail(w.left)) = Len(w.left) - 1
                             /\ Len(w.left) \in Nat
BY HeadTailProperties, LenProperties DEF Works

(* The cases of a turn.                                                    *)
LEMMA UnrefFirstCases ==
  ASSUME NEW w \in Works, w.left # <<>>, NEW o, o = Head(w.left).o
  PROVE  /\ o \notin Objs => UnrefFirst(w) = [heap |-> w.heap, left |-> Tail(w.left)]
         /\ o \in Objs /\ w.heap[o].ref = 0 =>
              UnrefFirst(w) = [heap |-> [w.heap EXCEPT ![o].kind = "bad"],
                               left |-> Tail(w.left)]
         /\ o \in Objs /\ w.heap[o].ref = 1 =>
              UnrefFirst(w) = [heap |-> [w.heap EXCEPT ![o] = Free],
                               left |-> w.heap[o].elems \o Tail(w.left)]
         /\ o \in Objs /\ w.heap[o].ref > 1 =>
              UnrefFirst(w) = [heap |-> [w.heap EXCEPT ![o].ref = @ - 1],
                               left |-> Tail(w.left)]
<1>1. w = [heap |-> w.heap, left |-> w.left] /\ w.heap \in Heaps
  BY WorksFacts
<1>2. ASSUME o \notin Objs PROVE UnrefFirst(w) = [heap |-> w.heap, left |-> Tail(w.left)]
  <2>1. UnrefFirst(w) = [w EXCEPT !.left = Tail(w.left)]
    BY <1>2 DEF UnrefFirst
  <2> QED
    BY <1>1, <2>1
<1>3. ASSUME o \in Objs
      PROVE  UnrefFirst(w) =
               CASE w.heap[o].ref = 0 ->
                      [heap |-> [w.heap EXCEPT ![o].kind = "bad"], left |-> Tail(w.left)]
                 [] w.heap[o].ref = 1 ->
                      [heap |-> [w.heap EXCEPT ![o] = Free],
                       left |-> w.heap[o].elems \o Tail(w.left)]
                 [] OTHER ->
                      [heap |-> [w.heap EXCEPT ![o].ref = @ - 1], left |-> Tail(w.left)]
  BY <1>3 DEF UnrefFirst
<1>4. ASSUME o \in Objs, w.heap[o].ref = 0
      PROVE  UnrefFirst(w) = [heap |-> [w.heap EXCEPT ![o].kind = "bad"],
                              left |-> Tail(w.left)]
  BY <1>3, <1>4
<1>5. ASSUME o \in Objs, w.heap[o].ref = 1
      PROVE  UnrefFirst(w) = [heap |-> [w.heap EXCEPT ![o] = Free],
                              left |-> w.heap[o].elems \o Tail(w.left)]
  <2>1. w.heap[o].ref # 0
    BY <1>5
  <2> QED
    BY <1>3, <1>5, <2>1
<1>6. ASSUME o \in Objs, w.heap[o].ref > 1
      PROVE  UnrefFirst(w) = [heap |-> [w.heap EXCEPT ![o].ref = @ - 1],
                              left |-> Tail(w.left)]
  <2>1. w.heap[o].ref # 0 /\ w.heap[o].ref # 1
    BY <1>1, <1>6, ObjectFacts
  <2> QED
    BY <1>3, <1>6, <2>1
<1> QED
  BY <1>2, <1>4, <1>5, <1>6

LEMMA UnrefFirstType ==
  ASSUME NEW w \in Works
  PROVE  UnrefFirst(w) \in Works
<1>1. CASE w.left = <<>>
  <2>1. UnrefFirst(w) = w
    BY <1>1 DEF UnrefFirst
  <2> QED
    BY <2>1
<1>2. CASE w.left # <<>>
  <2>0. PICK o : o = Head(w.left).o
    OBVIOUS
  <2> DEFINE Turn(h, s) == UnrefFirst(w) = [heap |-> h, left |-> s]
  <2>1. w.heap \in Heaps /\ Tail(w.left) \in Seq(Value)
    BY <1>2, WorksFacts
  <2>4. /\ o \notin Objs => Turn(w.heap, Tail(w.left))
        /\ o \in Objs /\ w.heap[o].ref = 0 =>
             Turn([w.heap EXCEPT ![o].kind = "bad"], Tail(w.left))
        /\ o \in Objs /\ w.heap[o].ref = 1 =>
             Turn([w.heap EXCEPT ![o] = Free], w.heap[o].elems \o Tail(w.left))
        /\ o \in Objs /\ w.heap[o].ref > 1 =>
             Turn([w.heap EXCEPT ![o].ref = @ - 1], Tail(w.left))
    BY <1>2, <2>0, UnrefFirstCases
  <2>5. \A h \in Heaps, s \in Seq(Value) : Turn(h, s) => UnrefFirst(w) \in Works
    BY DEF Works
  <2> HIDE DEF Turn
  <2>2. CASE o \notin Objs
    BY <2>1, <2>2, <2>4, <2>5
  <2>3. CASE o \in Objs
    <3>1. w.heap[o].ref \in Nat /\ w.heap[o] \in Object /\ w.heap[o].elems \in Seq(Value)
      BY <2>1, <2>3, ObjectFacts DEF Heaps
    <3>2. ASSUME NEW x \in Object PROVE [w.heap EXCEPT ![o] = x] \in Heaps
      BY <2>1 DEF Heaps
    <3>3. CASE w.heap[o].ref = 0
      <4>1. [w.heap[o] EXCEPT !.kind = "bad"] \in Object
        BY <3>1 DEF Object, Kinds
      <4>2. [w.heap EXCEPT ![o].kind = "bad"] \in Heaps
        BY <3>2, <4>1
      <4> QED
        BY <2>1, <2>3, <2>4, <2>5, <3>3, <4>2
    <3>4. CASE w.heap[o].ref = 1
      <4>1. [w.heap EXCEPT ![o] = Free] \in Heaps
        BY <3>2, ValueFacts
      <4>2. w.heap[o].elems \o Tail(w.left) \in Seq(Value)
        BY <2>1, <3>1, ConcatProperties
      <4> QED
        BY <2>3, <2>4, <2>5, <3>4, <4>1, <4>2
    <3>5. CASE w.heap[o].ref > 1
      <4>1. [w.heap[o] EXCEPT !.ref = @ - 1] \in Object
        BY <3>1, <3>5 DEF Object
      <4>2. [w.heap EXCEPT ![o].ref = @ - 1] \in Heaps
        BY <3>2, <4>1
      <4> QED
        BY <2>1, <2>3, <2>4, <2>5, <3>5, <4>2
    <3> QED
      BY <3>1, <3>3, <3>4, <3>5
  <2> QED
    BY <2>2, <2>3
<1> QED
  BY <1>1, <1>2

(* A sequence of states of a loop with one turn, and that there is one.    *)
IsLoop(f, n, S, start, turn) ==
  f \in [0 .. n -> S] /\ f[0] = start /\ \A k \in 1 .. n : f[k] = turn[f[k - 1]]
LEMMA LoopExists ==
  ASSUME NEW n \in Nat, NEW S, NEW start \in S, NEW turn \in [S -> S]
  PROVE  \E f : IsLoop(f, n, S, start, turn)
<1> DEFINE P == {k \in 0 .. n : \E f : IsLoop(f, k, S, start, turn)}
<1>1. 0 \in P
  <2> DEFINE g == [j \in 0 .. 0 |-> start]
  <2>1. g \in [0 .. 0 -> S] /\ g[0] = start
    OBVIOUS
  <2> HIDE DEF g
  <2>2. \A j \in 1 .. 0 : g[j] = turn[g[j - 1]]
    OBVIOUS
  <2> QED
    BY <2>1, <2>2 DEF IsLoop
<1>2. ASSUME NEW k \in 1 .. n, k - 1 \in P PROVE k \in P
  <2>1. PICK f : IsLoop(f, k - 1, S, start, turn)
    BY <1>2
  <2> DEFINE g == [j \in 0 .. k |-> IF j < k THEN f[j] ELSE turn[f[k - 1]]]
  <2>2. /\ f \in [0 .. k - 1 -> S] /\ f[0] = start
        /\ \A j \in 1 .. k - 1 : f[j] = turn[f[j - 1]]
    BY <2>1 DEF IsLoop
  <2>3. \A j \in 0 .. k : g[j] \in S
    BY <2>2
  <2>4. g \in [0 .. k -> S]
    BY <2>3
  <2>5. g[0] = start /\ \A j \in 1 .. k : g[j] = turn[g[j - 1]]
    BY <2>2
  <2> HIDE DEF g
  <2> QED
    BY <2>4, <2>5 DEF IsLoop
<1>3. n \in P
  <2> HIDE DEF P
  <2>1. \A k \in 0 .. n : k \in P
    BY <1>1, <1>2, Throughout
  <2> QED
    BY <2>1
<1> QED
  BY <1>3

(* The loop of UnrefAll, turn by turn.                                     *)
LEMMA UnrefLoop ==
  ASSUME NEW h \in Heaps, NEW s \in Seq(Value)
  PROVE  \E after \in [0 .. Work(h, s) -> Works] :
           /\ after[0] = [heap |-> h, left |-> s]
           /\ \A i \in 1 .. Work(h, s) : after[i] = UnrefFirst(after[i - 1])
           /\ UnrefAll(h, s) = after[Work(h, s)].heap
<1> DEFINE N == Work(h, s)
           start == [heap |-> h, left |-> s]
           turn == [w \in Works |-> UnrefFirst(w)]
           Solves(f) == f = [i \in 0 .. N |->
                               IF i = 0 THEN start ELSE UnrefFirst(f[i - 1])]
           u == CHOOSE f : Solves(f)
<1>1. N \in Nat
  BY WorkFacts
<1>2. UnrefAll(h, s) = u[N].heap
  BY DEF UnrefAll
<1> HIDE DEF N
<1>3. start \in Works
  BY DEF Works
<1>4. turn \in [Works -> Works]
  BY UnrefFirstType
<1>5. PICK f : IsLoop(f, N, Works, start, turn)
  <2> HIDE DEF turn, start
  <2> QED
    BY <1>1, <1>3, <1>4, LoopExists
<1>6. /\ f \in [0 .. N -> Works] /\ f[0] = start
      /\ \A i \in 1 .. N : f[i] = UnrefFirst(f[i - 1])
  <2>1. /\ f \in [0 .. N -> Works] /\ f[0] = start
        /\ \A i \in 1 .. N : f[i] = turn[f[i - 1]]
    BY <1>5 DEF IsLoop
  <2>2. \A i \in 1 .. N : f[i - 1] \in Works
    BY <1>1, <2>1
  <2>3. \A w \in Works : turn[w] = UnrefFirst(w)
    OBVIOUS
  <2> HIDE DEF turn, start
  <2> QED
    BY <2>1, <2>2, <2>3
<1> HIDE DEF start
<1>7. Solves(f)
  <2> DEFINE g == [i \in 0 .. N |-> IF i = 0 THEN start ELSE UnrefFirst(f[i - 1])]
  <2>1. ASSUME NEW i \in 0 .. N PROVE g[i] = f[i]
    <3>1. i = 0 \/ i \in 1 .. N
      BY <1>1
    <3> QED
      BY <1>6, <3>1
  <2>2. g = [i \in 0 .. N |-> g[i]] /\ f = [i \in 0 .. N |-> f[i]]
    BY <1>6
  <2>3. f = g
    <3> HIDE DEF g
    <3> QED
      BY <2>1, <2>2
  <2> QED
    BY <2>3
<1>8. Solves(u)
  <2> HIDE DEF Solves
  <2> QED
    BY <1>7
<1> HIDE DEF u
<1>9. \A i \in 0 .. N : u[i] = f[i]
  <2> DEFINE P == {i \in 0 .. N : u[i] = f[i]}
  <2>1. 0 \in P
    BY <1>1, <1>6, <1>8
  <2>2. \A i \in 1 .. N : i - 1 \in P => i \in P
    BY <1>1, <1>6, <1>8
  <2> HIDE DEF P
  <2>3. \A i \in 0 .. N : i \in P
    BY <1>1, <2>1, <2>2, Throughout
  <2> QED
    BY <2>3 DEF P
<1>10. UnrefAll(h, s) = f[N].heap
  BY <1>1, <1>2, <1>9
<1> QED
  BY <1>6, <1>10 DEF N, start

(* Objects are freed, or stay what they are.                               *)
Kept(h, g) ==
  \A o \in Objs : g[o] = Free \/ (g[o].kind = h[o].kind /\ g[o].elems = h[o].elems)
(* The references outside of the heap, those that are to be given up too.  *)
Plus(out, s) == [o \in Objs |-> out[o] + Held(o, s)]

LEMMA PlusFacts ==
  ASSUME NEW out \in [Objs -> Nat], NEW s \in Seq(Value)
  PROVE  /\ Plus(out, s) \in [Objs -> Nat]
         /\ \A o : Held(o, s) \in Nat
         /\ \A o \in Objs : Plus(out, s)[o] = out[o] + Held(o, s)
<1>1. \A o : Held(o, s) \in Nat
  BY SeqDomain, HeldType
<1> QED
  BY <1>1 DEF Plus

(* One turn: a counted heap stays counted, an object is freed only when    *)
(* nothing holds it any more, and what is left to do shrinks by one.       *)
LEMMA UnrefFirstCounted ==
  ASSUME NEW w \in Works, w.left # <<>>, NEW out \in [Objs -> Nat],
         Counted(w.heap, Plus(out, w.left))
  PROVE  LET v == UnrefFirst(w) IN
         /\ Counted(v.heap, Plus(out, v.left)) /\ Kept(w.heap, v.heap)
         /\ Len(v.left) + Size(v.heap) = Len(w.left) + Size(w.heap) - 1
<1> DEFINE h == w.heap
           s == w.left
           r == Tail(w.left)
<1>0. PICK k : k = Head(w.left).o
  OBVIOUS
<1>1. /\ h \in Heaps /\ s \in Seq(Value) /\ r \in Seq(Value) /\ Len(r) = Len(s) - 1
      /\ Len(s) \in Nat /\ Size(h) \in Nat
  BY WorksFacts, WorkFacts
<1>2. /\ k \notin Objs => UnrefFirst(w) = [heap |-> h, left |-> r]
      /\ k \in Objs /\ h[k].ref = 1 =>
           UnrefFirst(w) = [heap |-> [h EXCEPT ![k] = Free], left |-> h[k].elems \o r]
      /\ k \in Objs /\ h[k].ref > 1 =>
           UnrefFirst(w) = [heap |-> [h EXCEPT ![k].ref = @ - 1], left |-> r]
  BY <1>0, UnrefFirstCases
<1>3. \A o : /\ Held(o, s) = (IF k = o THEN 1 ELSE 0) + Held(o, r)
             /\ Held(o, s) \in Nat /\ Held(o, r) \in Nat
  <2> TAKE o
  <2>1. Held(o, s) = Held(o, <<Head(s)>>) + Held(o, r)
    BY <1>1, HeldTail
  <2>2. Held(o, <<Head(s)>>) = IF k = o THEN 1 ELSE 0
    BY <1>0, HeldOne
  <2> QED
    BY <1>1, <2>1, <2>2, PlusFacts
<1>4. \A o \in Objs :
        /\ h[o].ref = HeldAll(o, Elements(h)) + out[o] + Held(o, s)
        /\ HeldAll(o, Elements(h)) \in Nat /\ out[o] \in Nat
        /\ h[o].kind = "free" => h[o] = Free
        /\ h[o].kind # "free" => h[o].ref > 0
        /\ h[o].kind # "bad"
  BY <1>1, InnerType, PlusFacts DEF Counted
<1> HIDE DEF h, s, r
<1> SUFFICES ASSUME NEW g, NEW t, UnrefFirst(w) = [heap |-> g, left |-> t]
             PROVE  /\ Counted(g, Plus(out, t)) /\ Kept(h, g)
                    /\ Len(t) + Size(g) = Len(s) + Size(h) - 1
  <2>1. PICK g, t : UnrefFirst(w) = [heap |-> g, left |-> t]
    BY UnrefFirstType DEF Works
  <2>2. UnrefFirst(w).heap = g /\ UnrefFirst(w).left = t
    BY <2>1
  <2>3. \A a, b : UnrefFirst(w) = [heap |-> a, left |-> b] =>
          /\ Counted(a, Plus(out, b)) /\ Kept(h, a)
          /\ Len(b) + Size(a) = Len(s) + Size(h) - 1
    OBVIOUS
  <2> QED
    BY <2>1, <2>2, <2>3 DEF h, s
<1>5. CASE k \notin Objs
  <2>1. g = h /\ t = r
    BY <1>2, <1>5
  <2>2. Plus(out, r) = Plus(out, s)
    <3>1. \A o \in Objs : Held(o, r) = Held(o, s)
      BY <1>3, <1>5
    <3> QED
      BY <3>1 DEF Plus
  <2>3. Counted(h, Plus(out, r))
    BY <2>2 DEF h, s
  <2>4. Kept(h, h)
    BY DEF Kept
  <2>5. Len(r) + Size(h) = Len(s) + Size(h) - 1
    BY <1>1
  <2> QED
    BY <2>1, <2>3, <2>4, <2>5
<1>6. CASE k \in Objs /\ h[k].ref = 1
  <2>1. g = [h EXCEPT ![k] = Free] /\ t = h[k].elems \o r
    BY <1>2, <1>6
  <2>2. /\ h[k].elems \in Seq(Value) /\ Len(h[k].elems) \in Nat
        /\ t \in Seq(Value) /\ Len(t) = Len(h[k].elems) + Len(r)
    <3>1. PICK e : e = h[k].elems
      OBVIOUS
    <3>2. e \in Seq(Value) /\ Len(e) \in Nat
      BY <1>1, <1>6, <3>1, ObjectFacts
    <3>3. t = e \o r /\ r \in Seq(Value)
      BY <1>1, <2>1, <3>1
    <3>4. t \in Seq(Value) /\ Len(t) = Len(e) + Len(r)
      BY <3>2, <3>3, ConcatProperties
    <3> QED
      BY <3>1, <3>2, <3>4
  <2>3. /\ g \in Heaps /\ g[k] = Free /\ \A o \in Objs : o # k => g[o] = h[o]
    BY <1>1, <1>6, <2>1, ValueFacts DEF Heaps
  <2>4. Size(g) = Size(h) - Len(h[k].elems)
    BY <1>1, <1>6, <2>1, SizeFree
  <2>5. Len(t) + Size(g) = Len(s) + Size(h) - 1
    <3>1. PICK e \in Nat : e = Len(h[k].elems)
      BY <2>2
    <3>2. PICK b \in Nat : b = Len(s)
      BY <1>1
    <3>3. PICK c \in Nat : c = Size(h)
      BY <1>1
    <3>4. Len(t) = e + (b - 1)
      BY <1>1, <2>2, <3>1, <3>2
    <3>5. Size(g) = c - e
      BY <2>4, <3>1, <3>3
    <3>6. e + (b - 1) + (c - e) = b + c - 1
      OBVIOUS
    <3> QED
      BY <3>2, <3>3, <3>4, <3>5, <3>6
  <2>6. \A o : Held(o, t) = Held(o, h[k].elems) + Held(o, r)
    BY <1>1, <2>1, <2>2, HeldConcat
  <2>7. ASSUME NEW o \in Objs
        PROVE  /\ HeldAll(o, Elements(g)) = HeldAll(o, Elements(h)) - Held(o, h[k].elems)
               /\ Held(o, h[k].elems) \in Nat
               /\ Held(o, h[k].elems) <= HeldAll(o, Elements(h))
    <3>1. \A p \in Objs : p # k => g[p].elems = h[p].elems
      BY <2>3
    <3>2. /\ HeldAll(o, Elements(g)) =
               HeldAll(o, Elements(h)) - Held(o, h[k].elems) + Held(o, g[k].elems)
          /\ Held(o, h[k].elems) \in Nat /\ Held(o, h[k].elems) <= HeldAll(o, Elements(h))
      BY <1>1, <1>6, <2>3, <3>1, InnerExcept
    <3>3. Held(o, g[k].elems) = 0
      BY <2>3, ValueFacts, HeldNone
    <3>4. HeldAll(o, Elements(h)) \in Nat
      BY <1>4
    <3> QED
      BY <3>2, <3>3, <3>4
  <2>8. ASSUME NEW o \in Objs PROVE g[o].ref = HeldAll(o, Elements(g)) + Plus(out, t)[o]
    <3>1. Plus(out, t)[o] = out[o] + Held(o, h[k].elems) + Held(o, r)
      <4>1. Plus(out, t)[o] = out[o] + Held(o, t)
        BY <2>2, PlusFacts
      <4> QED
        BY <1>3, <1>4, <2>6, <2>7, <4>1
    <3>2. HeldAll(o, Elements(g)) + Plus(out, t)[o] =
            HeldAll(o, Elements(h)) + out[o] + Held(o, r)
      BY <1>3, <1>4, <2>7, <3>1
    <3>3. CASE o = k
      BY <1>3, <1>4, <1>6, <2>3, <3>2, <3>3, ValueFacts
    <3>4. CASE o # k
      BY <1>3, <1>4, <2>3, <3>2, <3>4
    <3> QED
      BY <3>3, <3>4
  <2>9. \A o \in Objs : /\ g[o].kind = "free" => g[o] = Free
                        /\ g[o].kind # "free" => g[o].ref > 0
                        /\ g[o].kind # "bad"
    <3> TAKE o \in Objs
    <3>1. CASE o = k
      BY <2>3, <3>1, ValueFacts
    <3>2. CASE o # k
      BY <1>4, <2>3, <3>2
    <3> QED
      BY <3>1, <3>2
  <2>10. Kept(h, g)
    BY <2>3 DEF Kept
  <2> QED
    BY <2>3, <2>5, <2>8, <2>9, <2>10 DEF Counted
<1>7. CASE k \in Objs /\ h[k].ref > 1
  <2>1. g = [h EXCEPT ![k].ref = @ - 1] /\ t = r
    BY <1>2, <1>7
  <2>2. /\ h[k] \in Object /\ h[k].ref \in Nat
    BY <1>1, <1>7, ObjectFacts DEF Heaps
  <2>3. /\ [h[k] EXCEPT !.ref = @ - 1] \in Object
        /\ g[k].kind = h[k].kind /\ g[k].elems = h[k].elems /\ g[k].ref = h[k].ref - 1
        /\ \A o \in Objs : o # k => g[o] = h[o]
    <3>1. g[k] = [h[k] EXCEPT !.ref = @ - 1] /\ \A o \in Objs : o # k => g[o] = h[o]
      BY <1>1, <1>7, <2>1 DEF Heaps
    <3>2. h[k].ref - 1 \in Nat
      BY <1>7, <2>2
    <3> QED
      BY <2>2, <3>1, <3>2 DEF Object
  <2>4. g \in Heaps
    BY <1>1, <2>1, <2>3 DEF Heaps
  <2>5. \A o \in Objs : g[o].elems = h[o].elems /\ g[o].kind = h[o].kind
    BY <2>3
  <2>6. Elements(g) = Elements(h)
    BY <2>5, InnerSame
  <2>7. Size(g) = Size(h)
    <3>1. Blank(g) = Blank(h)
      BY <2>5 DEF Blank
    <3> QED
      BY <3>1 DEF Size
  <2>8. ASSUME NEW o \in Objs PROVE g[o].ref = HeldAll(o, Elements(g)) + Plus(out, t)[o]
    <3>1. Plus(out, t)[o] = out[o] + Held(o, r)
      BY <1>1, <2>1, PlusFacts
    <3>2. CASE o = k
      BY <1>3, <1>4, <2>3, <2>6, <3>1, <3>2
    <3>3. CASE o # k
      BY <1>3, <1>4, <2>3, <2>6, <3>1, <3>3
    <3> QED
      BY <3>2, <3>3
  <2>9. \A o \in Objs : /\ g[o].kind = "free" => g[o] = Free
                        /\ g[o].kind # "free" => g[o].ref > 0
                        /\ g[o].kind # "bad"
    <3>1. h[k].kind # "free"
      BY <1>4, <1>7, ValueFacts
    <3>2. g[k].ref > 0
      BY <1>7, <2>2, <2>3
    <3> QED
      BY <1>4, <2>3, <3>1, <3>2
  <2>10. Kept(h, g)
    BY <2>5 DEF Kept
  <2>11. Len(t) + Size(g) = Len(s) + Size(h) - 1
    BY <1>1, <2>1, <2>7
  <2> QED
    BY <2>4, <2>8, <2>9, <2>10, <2>11 DEF Counted
<1>8. k \in Objs => h[k].ref = 1 \/ h[k].ref > 1
  BY <1>3, <1>4
<1> QED
  BY <1>5, <1>6, <1>7, <1>8

(* unref_value_list(): the references of s are given up, those of out stay. *)
LEMMA UnrefAllCounted ==
  ASSUME NEW h, NEW s \in Seq(Value), NEW out \in [Objs -> Nat],
         Counted(h, Plus(out, s))
  PROVE  Counted(UnrefAll(h, s), out) /\ Kept(h, UnrefAll(h, s))
<1> DEFINE N == Work(h, s)
<1>0. h \in Heaps
  BY DEF Counted
<1>1. N = Len(s) + Size(h) /\ N \in Nat
  BY <1>0, WorkFacts
<1>2. PICK after \in [0 .. N -> Works] :
        /\ after[0] = [heap |-> h, left |-> s]
        /\ \A i \in 1 .. N : after[i] = UnrefFirst(after[i - 1])
        /\ UnrefAll(h, s) = after[N].heap
  BY <1>0, UnrefLoop
<1> HIDE DEF N
<1> DEFINE Fine(w, i) ==
             /\ Counted(w.heap, Plus(out, w.left)) /\ Kept(h, w.heap)
             /\ w.left = <<>> \/ Len(w.left) + Size(w.heap) + i = N
           P == {i \in 0 .. N : Fine(after[i], i)}
<1>3. 0 \in P
  <2>1. after[0].heap = h /\ after[0].left = s
    BY <1>2
  <2>2. Kept(h, h)
    BY DEF Kept
  <2>3. Len(s) + Size(h) + 0 = N /\ 0 \in 0 .. N
    BY <1>0, <1>1, WorkFacts, LenProperties
  <2> QED
    BY <2>1, <2>2, <2>3
<1>4. ASSUME NEW i \in 1 .. N, i - 1 \in P PROVE i \in P
  <2> DEFINE w == after[i - 1]
             v == after[i]
  <2>1. w \in Works /\ v = UnrefFirst(w) /\ Fine(w, i - 1)
    BY <1>1, <1>2, <1>4
  <2> HIDE DEF w, v
  <2>2. CASE w.left = <<>>
    <3>1. v = w
      BY <2>1, <2>2 DEF UnrefFirst
    <3>2. Fine(v, i)
      BY <2>1, <2>2, <3>1
    <3> QED
      BY <3>2 DEF v
  <2>3. CASE w.left # <<>>
    <3>1. /\ Counted(v.heap, Plus(out, v.left)) /\ Kept(w.heap, v.heap)
          /\ Len(v.left) + Size(v.heap) = Len(w.left) + Size(w.heap) - 1
      BY <2>1, <2>3, UnrefFirstCounted
    <3>2. Kept(h, v.heap)
      <4>1. \A o \in Objs : w.heap[o] = Free => v.heap[o] = Free
        <5>1. \A o \in Objs : v.heap[o].kind = "free" => v.heap[o] = Free
          BY <3>1 DEF Counted
        <5> QED
          BY <3>1, <5>1, ValueFacts DEF Kept
      <4> QED
        BY <2>1, <3>1, <4>1 DEF Kept
    <3>3. Len(w.left) \in Nat /\ Size(w.heap) \in Nat
      BY <2>1, WorksFacts, WorkFacts, LenProperties
    <3>4. Len(v.left) + Size(v.heap) + i = N
      <4>1. Len(w.left) + Size(w.heap) + (i - 1) = N
        BY <2>1, <2>3
      <4>2. v \in Works
        BY <2>1, UnrefFirstType
      <4>3. Len(v.left) \in Nat /\ Size(v.heap) \in Nat
        BY <4>2, WorksFacts, WorkFacts, LenProperties
      <4>4. \A a, b, c, d \in Nat :
              a + b = c + d - 1 /\ c + d + (i - 1) = N => a + b + i = N
        BY <1>1
      <4> QED
        BY <3>1, <3>3, <4>1, <4>3, <4>4
    <3>5. Fine(v, i)
      BY <3>1, <3>2, <3>4
    <3> QED
      BY <3>5 DEF v
  <2> QED
    BY <2>2, <2>3
<1>5. Fine(after[N], N)
  <2> HIDE DEF Fine
  <2>1. \A i \in 0 .. N : i \in P
    <3> HIDE DEF P
    <3> QED
      BY <1>1, <1>3, <1>4, Throughout
  <2> QED
    BY <1>1, <2>1
<1>6. after[N].left = <<>>
  <2>1. after[N] \in Works
    BY <1>1, <1>2
  <2>2. Len(after[N].left) \in Nat /\ Size(after[N].heap) \in Nat /\ after[N].left \in Seq(Value)
    BY <2>1, WorksFacts, WorkFacts, LenProperties
  <2> QED
    BY <1>1, <1>5, <2>2, EmptySeq
<1>7. Plus(out, <<>>) = out
  <2>1. \A o \in Objs : out[o] + Held(o, <<>>) = out[o]
    BY HeldNone
  <2> QED
    BY <2>1 DEF Plus
<1> QED
  BY <1>2, <1>5, <1>6, <1>7

-----------------------------------------------------------------------------
(* What the operations do to a sound heap.                                 *)

Outs == [Objs -> Nat]
(* Every value that is held keeps its type.                                *)
Carried(h, g, out) ==
  \A v : Typed(h, v) /\ (v.o \in Objs => out[v.o] > 0) => Typed(g, v)
(* PFields are what they were, or also new ones.                           *)
FieldsKept(h, g) ==
  \A o \in Objs : g[o].kind = "pfield" => h[o].kind = "pfield" /\ g[o].elems = h[o].elems
FieldsFresh(h, g) ==
  \A o \in Objs : g[o].kind = "pfield" =>
    \/ h[o].kind = "free"
    \/ h[o].kind = "pfield" /\ g[o].elems = h[o].elems

LEMMA TypedLive ==
  ASSUME NEW h, NEW v, Typed(h, v), v.o \in Objs
  PROVE  h[v.o].kind # "free"
BY ObjsFacts DEF Typed, Value, Types

LEMMA SoundFacts ==
  ASSUME NEW h, NEW out \in Outs, Sound(h, out)
  PROVE  /\ h \in Heaps /\ Counted(h, out)
         /\ \A o \in Objs :
              /\ WellMade(h, h[o]) /\ h[o].ref \in Nat /\ HeldAll(o, Elements(h)) \in Nat
              /\ h[o].ref = HeldAll(o, Elements(h)) + out[o] /\ out[o] \in Nat
              /\ h[o].kind = "free" => h[o] = Free /\ out[o] = 0
              /\ h[o].kind # "free" => h[o].ref > 0
              /\ h[o].kind # "bad"
         /\ \A p \in Objs : \A i \in DOMAIN h[p].elems :
              /\ Typed(h, h[p].elems[i])
              /\ h[p].elems[i].o \in Objs => h[h[p].elems[i].o].kind # "free"
<1>1. h \in Heaps /\ Counted(h, out)
  BY DEF Sound, Counted
<1>2. ASSUME NEW o \in Objs
      PROVE  /\ WellMade(h, h[o]) /\ h[o].ref \in Nat /\ HeldAll(o, Elements(h)) \in Nat
             /\ h[o].ref = HeldAll(o, Elements(h)) + out[o] /\ out[o] \in Nat
             /\ h[o].kind = "free" => h[o] = Free /\ out[o] = 0
             /\ h[o].kind # "free" => h[o].ref > 0
             /\ h[o].kind # "bad"
  <2>1. h[o].ref \in Nat /\ HeldAll(o, Elements(h)) \in Nat /\ out[o] \in Nat
    BY <1>1, ObjectFacts, InnerType DEF Outs
  <2>2. /\ h[o].ref = HeldAll(o, Elements(h)) + out[o]
        /\ h[o].kind = "free" => h[o] = Free
        /\ h[o].kind # "free" => h[o].ref > 0
        /\ h[o].kind # "bad" /\ WellMade(h, h[o])
    BY DEF Sound, Counted
  <2>3. h[o].kind = "free" => out[o] = 0
    BY <2>1, <2>2, ValueFacts
  <2> QED
    BY <2>1, <2>2, <2>3
<1>3. ASSUME NEW p \in Objs, NEW i \in DOMAIN h[p].elems
      PROVE  Typed(h, h[p].elems[i])
  BY <1>2 DEF WellMade, ScriptValue, FieldValue
<1> QED
  BY <1>1, <1>2, <1>3, TypedLive

(* Where the kinds of what a value can hold are the same.                  *)
LEMMA TypedSame ==
  ASSUME NEW h, NEW g, NEW v, Typed(h, v), v.o \in Objs => g[v.o].kind = h[v.o].kind
  PROVE  Typed(g, v)
BY DEF Typed

LEMMA WellMadeSame ==
  ASSUME NEW h, NEW g, NEW x, WellMade(h, x), NEW y, y.kind = x.kind, y.elems = x.elems,
         \A i \in DOMAIN x.elems : Typed(h, x.elems[i]) => Typed(g, x.elems[i])
  PROVE  WellMade(g, y)
BY DEF WellMade, ScriptValue, FieldValue

LEMMA WellMadeFree == \A h : WellMade(h, Free)
BY ValueFacts DEF WellMade

LEMMA UnrefAllSound ==
  ASSUME NEW h, NEW s \in Seq(Value), NEW out \in Outs, Sound(h, Plus(out, s))
  PROVE  LET g == UnrefAll(h, s) IN
         /\ Sound(g, out) /\ Carried(h, g, out) /\ FieldsKept(h, g)
         /\ \A o \in Objs : h[o].kind = "free" => g[o].kind = "free"
<1> DEFINE g == UnrefAll(h, s)
<1>1. Counted(g, out) /\ Kept(h, g)
  BY UnrefAllCounted DEF Outs, Sound
<1>2. Plus(out, s) \in Outs
  BY PlusFacts DEF Outs
<1> HIDE DEF g
<1>3. g \in Heaps /\ h \in Heaps
  BY <1>1, <1>2, SoundFacts DEF Counted
<1>4. \A o \in Objs : g[o].kind # "free" => g[o].kind = h[o].kind /\ g[o].elems = h[o].elems
  BY <1>1, ValueFacts DEF Kept
<1>5. \A o \in Objs : /\ HeldAll(o, Elements(g)) \in Nat /\ out[o] \in Nat
                      /\ HeldAll(o, Elements(g)) + out[o] > 0 => g[o].kind # "free"
  <2> TAKE o \in Objs
  <2>1. HeldAll(o, Elements(g)) \in Nat /\ out[o] \in Nat
    BY <1>3, InnerType DEF Outs
  <2>2. g[o].ref = HeldAll(o, Elements(g)) + out[o] /\ (g[o].kind = "free" => g[o] = Free)
    BY <1>1 DEF Counted
  <2> QED
    BY <2>1, <2>2, ValueFacts
<1>6. Carried(h, g, out)
  <2>1. ASSUME NEW v, Typed(h, v), v.o \in Objs => out[v.o] > 0 PROVE Typed(g, v)
    <3>1. v.o \in Objs => g[v.o].kind = h[v.o].kind
      BY <1>4, <1>5, <2>1
    <3> QED
      BY <2>1, <3>1, TypedSame
  <2> QED
    BY <2>1 DEF Carried
<1>7. ASSUME NEW o \in Objs PROVE WellMade(g, g[o])
  <2>1. CASE g[o].kind = "free"
    <3>1. g[o] = Free
      BY <1>1, <2>1 DEF Counted
    <3> QED
      BY <3>1, WellMadeFree
  <2>2. CASE g[o].kind # "free"
    <3>1. g[o].kind = h[o].kind /\ g[o].elems = h[o].elems /\ WellMade(h, h[o])
      BY <1>2, <1>4, <2>2, SoundFacts
    <3>2. ASSUME NEW i \in DOMAIN h[o].elems, Typed(h, h[o].elems[i])
          PROVE  Typed(g, h[o].elems[i])
      <4> DEFINE v == h[o].elems[i]
      <4>1. v.o \in Objs => HeldAll(v.o, Elements(g)) # 0
        BY <1>3, <3>1, InnerType
      <4>2. v.o \in Objs => g[v.o].kind = h[v.o].kind
        BY <1>4, <1>5, <4>1
      <4> QED
        BY <3>2, <4>2, TypedSame
    <3> QED
      BY <3>1, <3>2, WellMadeSame
  <2> QED
    BY <2>1, <2>2
<1>8. \A o \in Objs : h[o].kind = "free" => g[o].kind = "free"
  BY <1>4
<1>9. FieldsKept(h, g)
  BY <1>4 DEF FieldsKept
<1> QED
  BY <1>1, <1>6, <1>7, <1>8, <1>9 DEF Sound, g

LEMMA RefAllFacts ==
  ASSUME NEW h \in Heaps, NEW s \in Seq(Value)
  PROVE  /\ RefAll(h, s) \in Heaps
         /\ \A o \in Objs : /\ RefAll(h, s)[o].kind = h[o].kind
                            /\ RefAll(h, s)[o].elems = h[o].elems
                            /\ RefAll(h, s)[o].ref = h[o].ref + Held(o, s)
<1>1. ASSUME NEW o \in Objs
      PROVE  /\ RefAll(h, s)[o].kind = h[o].kind /\ RefAll(h, s)[o].elems = h[o].elems
             /\ RefAll(h, s)[o].ref = h[o].ref + Held(o, s)
             /\ RefAll(h, s)[o] \in Object
  <2>1. /\ h[o] = [kind |-> h[o].kind, ref |-> h[o].ref, elems |-> h[o].elems]
        /\ h[o].kind \in Kinds /\ h[o].ref \in Nat /\ h[o].elems \in Seq(Value)
    BY ObjectFacts
  <2>2. Held(o, s) \in Nat
    BY SeqDomain, HeldType
  <2>3. RefAll(h, s)[o] = [h[o] EXCEPT !.ref = @ + Held(o, s)]
    BY DEF RefAll
  <2>4. RefAll(h, s)[o] = [kind |-> h[o].kind, ref |-> h[o].ref + Held(o, s),
                           elems |-> h[o].elems]
    BY <2>1, <2>3
  <2>5. h[o].ref + Held(o, s) \in Nat
    BY <2>1, <2>2
  <2> QED
    BY <2>1, <2>4, <2>5 DEF Object
<1>2. RefAll(h, s) = [o \in Objs |-> RefAll(h, s)[o]]
  BY DEF RefAll
<1> QED
  BY <1>1, <1>2 DEF Heaps

LEMMA RefAllSound ==
  ASSUME NEW h, NEW s \in Seq(Value), NEW out \in Outs, Sound(h, out),
         \A i \in DOMAIN s : s[i].o \in Objs => h[s[i].o].kind # "free"
  PROVE  LET g == RefAll(h, s) IN
         /\ Sound(g, Plus(out, s))
         /\ \A o \in Objs : g[o].kind = h[o].kind /\ g[o].elems = h[o].elems
         /\ \A v : Typed(h, v) => Typed(g, v)
<1> DEFINE g == RefAll(h, s)
<1>1. h \in Heaps
  BY SoundFacts
<1>2. /\ g \in Heaps
      /\ \A o \in Objs : /\ g[o].kind = h[o].kind /\ g[o].elems = h[o].elems
                         /\ g[o].ref = h[o].ref + Held(o, s)
  BY <1>1, RefAllFacts
<1> HIDE DEF g
<1>3. Elements(g) = Elements(h)
  BY <1>2, InnerSame
<1>4. \A v : Typed(h, v) => Typed(g, v)
  BY <1>2, TypedSame
<1>5. ASSUME NEW o \in Objs
      PROVE  /\ g[o].ref = HeldAll(o, Elements(g)) + Plus(out, s)[o]
             /\ g[o].kind = "free" => g[o] = Free
             /\ g[o].kind # "free" => g[o].ref > 0
             /\ g[o].kind # "bad" /\ WellMade(g, g[o])
  <2>1. /\ h[o].ref \in Nat /\ HeldAll(o, Elements(h)) \in Nat /\ out[o] \in Nat
        /\ h[o].ref = HeldAll(o, Elements(h)) + out[o]
        /\ h[o].kind = "free" => h[o] = Free
        /\ h[o].kind # "free" => h[o].ref > 0
        /\ h[o].kind # "bad" /\ WellMade(h, h[o])
    BY SoundFacts
  <2>2. Held(o, s) \in Nat /\ Plus(out, s)[o] = out[o] + Held(o, s)
    BY PlusFacts DEF Outs
  <2>3. h[o].kind = "free" => Held(o, s) = 0
    <3>1. IsFiniteSet(DOMAIN s)
      BY SeqDomain
    <3> QED
      BY <3>1, HeldType
  <2>4. g[o].kind = "free" => g[o] = Free
    <3> SUFFICES ASSUME g[o].kind = "free" PROVE g[o] = Free
      OBVIOUS
    <3>1. h[o] = Free /\ Held(o, s) = 0
      BY <1>2, <2>1, <2>3
    <3>2. g[o].kind = "free" /\ g[o].ref = 0 /\ g[o].elems = <<>>
      BY <1>2, <3>1, ValueFacts
    <3> QED
      BY <1>2, <3>2, ObjectFacts DEF Free
  <2>5. WellMade(g, g[o])
    BY <1>2, <1>4, <2>1, WellMadeSame
  <2>6. g[o].ref = HeldAll(o, Elements(g)) + Plus(out, s)[o]
    BY <1>2, <1>3, <2>1, <2>2
  <2>7. g[o].kind # "free" => g[o].ref > 0
    <3>1. g[o].ref = h[o].ref + Held(o, s) /\ g[o].kind = h[o].kind
      BY <1>2
    <3>2. \A a, b \in Nat : a > 0 => a + b > 0
      OBVIOUS
    <3> QED
      BY <2>1, <2>2, <3>1, <3>2
  <2> QED
    BY <1>2, <2>1, <2>4, <2>5, <2>6, <2>7
<1> QED
  BY <1>2, <1>4, <1>5 DEF Sound, Counted, g

(* A free object is made one of a kind; it is given the references of its  *)
(* elements, and has one of its own.                                       *)
LEMMA PlaceSound ==
  ASSUME NEW h, NEW s \in Seq(Value), NEW out \in Outs, Sound(h, Plus(out, s)),
         NEW f \in Objs, h[f].kind = "free", NEW v, v.o = f,
         NEW g \in Heaps, \A o \in Objs : o # f => g[o] = h[o],
         g[f].kind \in {"list", "handle", "inst", "pfield"}, g[f].ref = 1, g[f].elems = s,
         WellMade(h, g[f])
  PROVE  /\ Sound(g, Plus(out, <<v>>)) /\ \A w : Typed(h, w) => Typed(g, w)
         /\ g[f].kind # "pfield" => FieldsKept(h, g)
         /\ FieldsFresh(h, g)
<1>1. Plus(out, s) \in Outs /\ \A o \in Objs : Plus(out, s)[o] = out[o] + Held(o, s)
  BY PlusFacts DEF Outs
<1>2. h \in Heaps
  BY <1>1, SoundFacts
<1>6. \A w : Typed(h, w) => Typed(g, w)
  <2>1. ASSUME NEW w, Typed(h, w) PROVE Typed(g, w)
    <3>1. w.o \in Objs => g[w.o].kind = h[w.o].kind
      BY <2>1, TypedLive
    <3> QED
      BY <2>1, <3>1, TypedSame
  <2> QED
    BY <2>1
<1>61. \A o \in Objs : o # f => g[o].elems = h[o].elems
  OBVIOUS
<1>7. ASSUME NEW o \in Objs, o # f
      PROVE  /\ g[o].ref = HeldAll(o, Elements(g)) + Plus(out, <<v>>)[o]
             /\ g[o].kind = "free" => g[o] = Free
             /\ g[o].kind # "free" => g[o].ref > 0
             /\ g[o].kind # "bad" /\ WellMade(g, g[o])
  <2>1. /\ h[o].ref = HeldAll(o, Elements(h)) + Plus(out, s)[o]
        /\ h[o].kind = "free" => h[o] = Free
        /\ h[o].kind # "free" => h[o].ref > 0
        /\ h[o].kind # "bad" /\ WellMade(h, h[o])
    BY <1>1, SoundFacts
  <2>2. WellMade(g, g[o])
    BY <1>6, <1>7, <2>1, WellMadeSame
  <2>3. /\ HeldAll(o, Elements(g)) =
             HeldAll(o, Elements(h)) - Held(o, h[f].elems) + Held(o, g[f].elems)
    BY <1>2, <1>61, InnerExcept
  <2>4. h[f].elems = <<>> /\ g[f].elems = s
    <3>1. h[f] = Free
      BY <1>1, SoundFacts
    <3> QED
      BY <3>1, ValueFacts
  <2>5. Held(o, <<v>>) = 0
    BY <1>7, HeldOne
  <2>6. Plus(out, <<v>>)[o] = out[o] + Held(o, <<v>>)
    BY DEF Plus
  <2>7. HeldAll(o, Elements(h)) \in Nat /\ Held(o, s) \in Nat /\ out[o] \in Nat
    BY <1>2, InnerType, PlusFacts DEF Outs
  <2>8. HeldAll(o, Elements(g)) = HeldAll(o, Elements(h)) + Held(o, s)
    BY <2>3, <2>4, <2>7, HeldNone
  <2>9. g[o].ref = HeldAll(o, Elements(g)) + Plus(out, <<v>>)[o]
    BY <1>1, <1>7, <2>1, <2>5, <2>6, <2>7, <2>8
  <2> QED
    BY <1>7, <2>1, <2>2, <2>9
<1>8. /\ g[f].ref = HeldAll(f, Elements(g)) + Plus(out, <<v>>)[f]
      /\ g[f].kind # "free" /\ g[f].ref > 0
      /\ g[f].kind # "bad" /\ WellMade(g, g[f])
  <2>1. /\ HeldAll(f, Elements(g)) =
             HeldAll(f, Elements(h)) - Held(f, h[f].elems) + Held(f, g[f].elems)
    BY <1>2, <1>61, InnerExcept
  <2>2. /\ h[f] = Free /\ h[f].ref = HeldAll(f, Elements(h)) + Plus(out, s)[f]
        /\ HeldAll(f, Elements(h)) \in Nat
    BY <1>1, SoundFacts
  <2>3. Held(f, s) \in Nat /\ out[f] \in Nat /\ Plus(out, s)[f] = out[f] + Held(f, s)
    BY <1>1, PlusFacts DEF Outs
  <2>4. HeldAll(f, Elements(h)) = 0 /\ Held(f, s) = 0 /\ out[f] = 0
    <3>1. \A a, b, c \in Nat : 0 = a + (b + c) => a = 0 /\ b = 0 /\ c = 0
      OBVIOUS
    <3>2. h[f].ref = 0
      BY <2>2, ValueFacts
    <3>3. 0 = HeldAll(f, Elements(h)) + (out[f] + Held(f, s))
      BY <2>2, <2>3, <3>2
    <3> QED
      BY <2>2, <2>3, <3>1, <3>3
  <2>5. Held(f, h[f].elems) = 0 /\ Held(f, g[f].elems) = 0
    BY <2>2, <2>4, HeldNone, ValueFacts
  <2>6. Plus(out, <<v>>)[f] = 1
    <3>1. Plus(out, <<v>>)[f] = out[f] + Held(f, <<v>>)
      BY DEF Plus
    <3> QED
      BY <2>4, <3>1, HeldOne
  <2>7. HeldAll(f, Elements(g)) = 0
    BY <2>1, <2>4, <2>5
  <2>8. WellMade(g, g[f])
    BY <1>6, WellMadeSame
  <2> QED
    BY <2>6, <2>7, <2>8
<1>9. Sound(g, Plus(out, <<v>>))
  BY <1>7, <1>8 DEF Sound, Counted
<1>10. FieldsFresh(h, g) /\ (g[f].kind # "pfield" => FieldsKept(h, g))
  BY DEF FieldsFresh, FieldsKept
<1> QED
  BY <1>6, <1>9, <1>10

(* Fresh(): where there is room there is a free object.                    *)
LEMMA FreshFacts ==
  ASSUME NEW h, FreeObjs(h) # {}
  PROVE  Fresh(h) \in Objs /\ h[Fresh(h)].kind = "free"
<1>1. FreeObjs(h) \in SUBSET Nat
  BY ObjsFacts DEF FreeObjs
<1>2. \E o \in FreeObjs(h) : \A p \in FreeObjs(h) : o <= p
  BY <1>1, LeastNat
<1>3. Fresh(h) \in FreeObjs(h)
  BY <1>2 DEF Fresh
<1> QED
  BY <1>3 DEF FreeObjs

LEMMA FreeSize ==
  ASSUME NEW h
  PROVE  /\ Cardinality(FreeObjs(h)) >= 1 => FreeObjs(h) # {}
         /\ Cardinality(FreeObjs(h)) >= 2 =>
              FreeObjs(h) # {} /\ FreeObjs(h) \ {Fresh(h)} # {}
<1>1. IsFiniteSet(FreeObjs(h))
  <2>1. FreeObjs(h) \in SUBSET Objs
    BY DEF FreeObjs
  <2> QED
    BY <2>1, ObjsFacts, FS_Subset
<1>0. Cardinality(FreeObjs(h)) \in Nat
  BY <1>1, FS_CardinalityType
<1>2. FreeObjs(h) = {} => Cardinality(FreeObjs(h)) = 0
  BY FS_EmptySet
<1>3. FreeObjs(h) \ {Fresh(h)} = {} => Cardinality(FreeObjs(h)) <= 1
  <2> SUFFICES ASSUME FreeObjs(h) \ {Fresh(h)} = {} PROVE Cardinality(FreeObjs(h)) <= 1
    OBVIOUS
  <2>1. Cardinality(FreeObjs(h) \ {Fresh(h)}) = 0
    BY FS_EmptySet
  <2>2. Cardinality(FreeObjs(h)) \in Nat
    BY <1>1, FS_CardinalityType
  <2>3. Cardinality(FreeObjs(h) \ {Fresh(h)}) =
          IF Fresh(h) \in FreeObjs(h) THEN Cardinality(FreeObjs(h)) - 1
          ELSE Cardinality(FreeObjs(h))
    BY <1>1, FS_RemoveElement
  <2> QED
    BY <2>1, <2>2, <2>3
<1> QED
  BY <1>0, <1>2, <1>3

(* New() and the reference the caller takes at once.                       *)
LEMMA NewFacts ==
  ASSUME NEW h, NEW s \in Seq(Value), NEW r \in Heaps, r = RefAll(h, s),
         NEW f \in Objs, f = Fresh(h), NEW v, v.o = f,
         NEW kind \in {"list", "handle", "inst", "pfield"},
         NEW p, p = New(h, kind, s), NEW g, g = Ref(p, v)
  PROVE  /\ g \in Heaps /\ g[f].kind = kind /\ g[f].ref = 1 /\ g[f].elems = s
         /\ \A o \in Objs : o # f => g[o] = r[o]
         /\ p[f].kind = kind
         /\ \A o \in Objs : o # f => p[o].kind = r[o].kind
<1> DEFINE x(k) == [kind |-> kind, ref |-> k, elems |-> s]
<1>1. p = [r EXCEPT ![f] = x(0)]
  BY DEF New
<1>2. p[f] = x(0) /\ \A o \in Objs : o # f => p[o] = r[o]
  BY <1>1 DEF Heaps
<1>3. \A o \in Objs : g[o] = [p[o] EXCEPT !.ref = @ + Held(o, <<v>>)]
  BY DEF Ref, RefAll
<1>4. g = [o \in Objs |-> g[o]]
  BY DEF Ref, RefAll
<1>5. g[f] = x(1)
  <2>1. Held(f, <<v>>) = 1
    BY HeldOne
  <2>2. g[f] = [x(0) EXCEPT !.ref = @ + 1]
    BY <1>2, <1>3, <2>1
  <2> QED
    BY <2>2
<1>6. ASSUME NEW o \in Objs, o # f PROVE g[o] = r[o]
  <2>1. Held(o, <<v>>) = 0
    BY <1>6, HeldOne
  <2>2. r[o] = [kind |-> r[o].kind, ref |-> r[o].ref, elems |-> r[o].elems] /\ r[o].ref \in Nat
    BY ObjectFacts
  <2>3. g[o] = [r[o] EXCEPT !.ref = @ + 0]
    BY <1>2, <1>3, <1>6, <2>1
  <2> QED
    BY <2>2, <2>3
<1>7. g \in Heaps
  <2>1. \A o \in Objs : g[o] \in Object
    <3>1. x(1) \in Object
      BY DEF Object, Kinds
    <3>2. \A o \in Objs : r[o] \in Object
      BY DEF Heaps
    <3> HIDE DEF x
    <3> QED
      BY <1>5, <1>6, <3>1, <3>2
  <2> QED
    BY <1>4, <2>1 DEF Heaps
<1> QED
  BY <1>2, <1>5, <1>6, <1>7

LEMMA MakeSound ==
  ASSUME NEW h, NEW s \in Seq(Value), NEW out \in Outs, Sound(h, out),
         FreeObjs(h) # {}, NEW v \in Value, v.o = Fresh(h),
         NEW x, x.kind \in {"list", "handle", "inst", "pfield"}, x.elems = s, WellMade(h, x),
         NEW kind, kind = x.kind,
         NEW p, p = New(h, kind, s), NEW g, g = Ref(p, v)
  PROVE  /\ Sound(g, Plus(out, <<v>>)) /\ \A w : Typed(h, w) => Typed(g, w)
         /\ v.o \in Objs /\ g[v.o].kind = kind /\ g[v.o].elems = s
         /\ FreeObjs(p) = FreeObjs(h) \ {Fresh(h)}
         /\ FreeObjs(g) = FreeObjs(h) \ {Fresh(h)}
         /\ kind # "pfield" => FieldsKept(h, g)
         /\ FieldsFresh(h, g)
<1>1. PICK f \in Objs : f = Fresh(h) /\ h[f].kind = "free" /\ v.o = f
  BY FreshFacts
<1>2. h \in Heaps
  BY SoundFacts
<1>3. /\ \A i \in DOMAIN s : Typed(h, s[i])
      /\ \A i \in DOMAIN s : s[i].o \in Objs => h[s[i].o].kind # "free"
  <2>1. \A i \in DOMAIN s : Typed(h, s[i])
    BY DEF WellMade, ScriptValue, FieldValue
  <2> QED
    BY <2>1, TypedLive
<1>4. PICK r \in Heaps : r = RefAll(h, s)
  BY <1>2, RefAllFacts
<1>5. /\ Sound(r, Plus(out, s)) /\ \A w : Typed(h, w) => Typed(r, w)
      /\ \A o \in Objs : r[o].kind = h[o].kind /\ r[o].elems = h[o].elems
  BY <1>3, <1>4, RefAllSound
<1>6. /\ g \in Heaps /\ g[f].kind = kind /\ g[f].ref = 1 /\ g[f].elems = s
      /\ \A o \in Objs : o # f => g[o] = r[o]
      /\ p[f].kind = kind
      /\ \A o \in Objs : o # f => p[o].kind = r[o].kind
  BY <1>1, <1>4, NewFacts
<1>7. WellMade(r, g[f])
  <2>1. /\ WellMade(h, x) /\ g[f].kind = x.kind /\ g[f].elems = x.elems
        /\ \A i \in DOMAIN x.elems : Typed(h, x.elems[i]) => Typed(r, x.elems[i])
    BY <1>5, <1>6
  <2> QED
    BY <2>1, WellMadeSame
<1>8. /\ Sound(g, Plus(out, <<v>>)) /\ \A w : Typed(r, w) => Typed(g, w)
      /\ kind # "pfield" => FieldsKept(r, g)
      /\ FieldsFresh(r, g)
  <2>1. r[f].kind = "free"
    BY <1>1, <1>5
  <2> QED
    BY <1>1, <1>5, <1>6, <1>7, <2>1, PlaceSound
<1>9. FreeObjs(p) = FreeObjs(h) \ {f} /\ FreeObjs(g) = FreeObjs(h) \ {f}
  BY <1>5, <1>6 DEF FreeObjs
<1>10. FieldsFresh(h, g) /\ (kind # "pfield" => FieldsKept(h, g))
  BY <1>5, <1>8 DEF FieldsFresh, FieldsKept
<1> QED
  BY <1>1, <1>5, <1>6, <1>8, <1>9, <1>10

(* _createPFieldHandle() and the reference the caller takes at once.       *)
LEMMA HandleSound ==
  ASSUME NEW h, NEW s \in Seq(Value), NEW out \in Outs, Sound(h, out),
         Cardinality(FreeObjs(h)) >= 2, \A i \in DOMAIN s : FieldValue(h, s[i]),
         NEW v, v = HandleTo(h, s), NEW g, g = Ref(NewHandle(h, s), v)
  PROVE  /\ Sound(g, Plus(out, <<v>>)) /\ \A w : Typed(h, w) => Typed(g, w)
         /\ ScriptValue(g, v) /\ v.t = "handle" /\ v.o \in Objs
         /\ FieldsFresh(h, g)
<1>1. FreeObjs(h) # {} /\ FreeObjs(h) \ {Fresh(h)} # {}
  BY FreeSize
<1>2. PICK p, pf, m : /\ p = New(h, "pfield", s) /\ pf = [t |-> "pfield", o |-> Fresh(h)]
                      /\ m = Ref(p, pf)
  OBVIOUS
<1>21. p = New(h, "pfield", s) /\ m = Ref(p, pf)
  BY <1>2
<1>3. pf \in Value /\ pf.o = Fresh(h) /\ pf.t = "pfield"
  BY <1>1, <1>2, FreshFacts DEF Value, Types
<1>4. /\ Sound(m, Plus(out, <<pf>>)) /\ \A w : Typed(h, w) => Typed(m, w)
      /\ pf.o \in Objs /\ m[pf.o].kind = "pfield"
      /\ FreeObjs(p) = FreeObjs(h) \ {Fresh(h)}
      /\ FreeObjs(m) = FreeObjs(h) \ {Fresh(h)}
      /\ FieldsFresh(h, m)
  <2>1. PICK x : x = [kind |-> "pfield", ref |-> 1, elems |-> s]
    OBVIOUS
  <2>2. x.kind = "pfield" /\ x.elems = s
    BY <2>1
  <2>3. WellMade(h, x)
    BY <2>2 DEF WellMade
  <2> QED
    BY <1>1, <1>21, <1>3, <2>2, <2>3, MakeSound
<1>5. PICK f \in Objs : f = Fresh(p) /\ p[f].kind = "free"
  BY <1>1, <1>4, FreshFacts
<1>6. m[f].kind = "free" /\ v = [t |-> "handle", o |-> f]
  BY <1>2, <1>4, <1>5 DEF FreeObjs, HandleTo
<1>7. PICK t \in Seq(Value) : t = <<pf>>
  <2>1. <<pf>> \in Seq(Value)
    BY <1>3
  <2> QED
    BY <2>1
<1>71. Sound(m, Plus(out, t)) /\ Plus(out, t) \in Outs
  BY <1>4, <1>7, PlusFacts DEF Outs
<1>8. m \in Heaps
  BY <1>71, SoundFacts
<1>9. PICK q : q = New(p, "handle", t)
  OBVIOUS
<1>10. g = Ref(q, v) /\ m = RefAll(p, t) /\ v.o = f
  BY <1>2, <1>6, <1>7, <1>9 DEF NewHandle, Ref
<1>11. /\ g \in Heaps /\ g[f].kind = "handle" /\ g[f].ref = 1 /\ g[f].elems = t
       /\ \A o \in Objs : o # f => g[o] = m[o]
  BY <1>5, <1>8, <1>9, <1>10, NewFacts
<1>12. WellMade(m, g[f])
  <2>1. Typed(m, pf)
    BY <1>3, <1>4 DEF Typed
  <2>2. DOMAIN t = {1} /\ t[1] = pf /\ Len(t) = 1
    BY <1>7
  <2> QED
    BY <1>3, <1>11, <2>1, <2>2 DEF WellMade, FieldValue
<1>13. /\ Sound(g, Plus(out, <<v>>)) /\ \A w : Typed(m, w) => Typed(g, w)
       /\ FieldsKept(m, g)
  <2>1. m[f].kind = "free" /\ v.o = f
    BY <1>6
  <2>2. g[f].kind \in {"list", "handle", "inst", "pfield"} /\ g[f].kind # "pfield"
    BY <1>11
  <2> QED
    BY <1>71, <1>11, <1>12, <2>1, <2>2, PlaceSound
<1>14. FieldsFresh(h, g)
  BY <1>4, <1>13 DEF FieldsFresh, FieldsKept
<1>15. ScriptValue(g, v)
  <2>1. v \in Value
    BY <1>6 DEF Value, Types
  <2> QED
    BY <1>6, <1>11, <2>1 DEF ScriptValue, Typed
<1> QED
  BY <1>4, <1>6, <1>13, <1>14, <1>15

-----------------------------------------------------------------------------
(* What they do to the heap and to what holds its objects.                 *)

(* What a node can keep.                                                   *)
Fits(n, v) ==
  /\ KindOf(n) = "const" => v.t \in {"void", "num"}
  /\ KindOf(n) = "list" => v.t \in {"void", "list"}

LEMMA NodesFacts == IsFiniteSet(Nodes) /\ Nodes = 1 .. Len(Code) /\ Len(Code) \in Nat
BY CodeAssumption, FS_Interval

LEMMA ValSeq ==
  ASSUME NEW va \in [Nodes -> Value]
  PROVE  va \in Seq(Value) /\ DOMAIN va = Nodes
<1>1. va \in [1 .. Len(Code) -> Value]
  BY NodesFacts
<1> QED
  BY <1>1, NodesFacts, IsASeq

LEMMA OuterFacts ==
  ASSUME NEW h, NEW sy, NEW va, NEW st, NEW no, HoldersTyped(h, sy, va, st, no),
         NEW lo \in [Objs -> Nat]
  PROVE  /\ Outer(sy, va, st, no, lo) \in Outs
         /\ \A o \in Objs :
              /\ Outer(sy, va, st, no, lo)[o] =
                   Held(o, sy) + Held(o, va) + HeldAll(o, st) + HeldAll(o, no) + lo[o]
              /\ Held(o, sy) \in Nat /\ Held(o, va) \in Nat /\ HeldAll(o, st) \in Nat
              /\ HeldAll(o, no) \in Nat /\ lo[o] \in Nat
              /\ Outer(sy, va, st, no, lo)[o] = 0 =>
                   /\ \A s \in Symbols : sy[s].o # o
                   /\ \A n \in Nodes : va[n].o # o
                   /\ \A i \in DOMAIN st : \A j \in DOMAIN st[i] : st[i][j].o # o
                   /\ \A i \in DOMAIN no : \A j \in DOMAIN no[i] : no[i][j].o # o
<1> DEFINE out == Outer(sy, va, st, no, lo)
<1>1. /\ DOMAIN sy = Symbols /\ IsFiniteSet(DOMAIN sy)
      /\ DOMAIN va = Nodes /\ IsFiniteSet(DOMAIN va)
      /\ Finite(st) /\ Finite(no)
  <2>1. /\ sy \in [Symbols -> Value] /\ va \in [Nodes -> Value]
        /\ st \in Seq(Seq(Value)) /\ no \in Seq(Seq(Value))
    BY DEF HoldersTyped
  <2>2. Finite(st) /\ Finite(no)
    BY <2>1, FiniteSeqs
  <2> QED
    BY <2>1, <2>2, NodesFacts, DeclarationsAssumption
<1>2. ASSUME NEW o \in Objs
      PROVE  /\ out[o] = Held(o, sy) + Held(o, va) + HeldAll(o, st) + HeldAll(o, no) + lo[o]
             /\ Held(o, sy) \in Nat /\ Held(o, va) \in Nat /\ HeldAll(o, st) \in Nat
             /\ HeldAll(o, no) \in Nat /\ lo[o] \in Nat
             /\ out[o] = 0 => /\ \A s \in Symbols : sy[s].o # o
                              /\ \A n \in Nodes : va[n].o # o
                              /\ \A i \in DOMAIN st : \A j \in DOMAIN st[i] : st[i][j].o # o
                              /\ \A i \in DOMAIN no : \A j \in DOMAIN no[i] : no[i][j].o # o
  <2>1. out[o] = Held(o, sy) + Held(o, va) + HeldAll(o, st) + HeldAll(o, no) + lo[o]
    BY DEF Outer
  <2>2. Held(o, sy) \in Nat /\ (Held(o, sy) = 0 <=> \A s \in Symbols : sy[s].o # o)
    BY <1>1, HeldType
  <2>3. Held(o, va) \in Nat /\ (Held(o, va) = 0 <=> \A n \in Nodes : va[n].o # o)
    BY <1>1, HeldType
  <2>4. /\ HeldAll(o, st) \in Nat
        /\ HeldAll(o, st) = 0 <=> \A i \in DOMAIN st : \A j \in DOMAIN st[i] : st[i][j].o # o
    BY <1>1, HeldAllType
  <2>5. /\ HeldAll(o, no) \in Nat
        /\ HeldAll(o, no) = 0 <=> \A i \in DOMAIN no : \A j \in DOMAIN no[i] : no[i][j].o # o
    BY <1>1, HeldAllType
  <2>6. lo[o] \in Nat
    OBVIOUS
  <2> HIDE DEF out
  <2>7. \A a, b, c, d, e \in Nat : a + b + c + d + e = 0 => a = 0 /\ b = 0 /\ c = 0 /\ d = 0
    OBVIOUS
  <2>8. out[o] = 0 => Held(o, sy) = 0 /\ Held(o, va) = 0 /\ HeldAll(o, st) = 0 /\ HeldAll(o, no) = 0
    <3>1. /\ Held(o, sy) \in Nat /\ Held(o, va) \in Nat /\ HeldAll(o, st) \in Nat
          /\ HeldAll(o, no) \in Nat /\ lo[o] \in Nat
      BY <2>2, <2>3, <2>4, <2>5, <2>6
    <3>2. out[o] = Held(o, sy) + Held(o, va) + HeldAll(o, st) + HeldAll(o, no) + lo[o]
      BY <2>1
    <3> QED
      BY <3>1, <3>2, <2>7
  <2>9. out[o] = 0 => /\ \A s \in Symbols : sy[s].o # o
                      /\ \A n \in Nodes : va[n].o # o
                      /\ \A i \in DOMAIN st : \A j \in DOMAIN st[i] : st[i][j].o # o
                      /\ \A i \in DOMAIN no : \A j \in DOMAIN no[i] : no[i][j].o # o
    BY <2>2, <2>3, <2>4, <2>5, <2>8
  <2> QED
    BY <2>1, <2>2, <2>3, <2>4, <2>5, <2>6, <2>9
<1>3. out \in Outs
  <2>1. \A o \in Objs : Held(o, sy) + Held(o, va) + HeldAll(o, st) + HeldAll(o, no) + lo[o] \in Nat
    BY <1>2
  <2> QED
    BY <2>1 DEF Outs, Outer
<1> HIDE DEF out
<1>4. out \in Outs /\ \A o \in Objs :
             /\ out[o] = Held(o, sy) + Held(o, va) + HeldAll(o, st) + HeldAll(o, no) + lo[o]
             /\ Held(o, sy) \in Nat /\ Held(o, va) \in Nat /\ HeldAll(o, st) \in Nat
             /\ HeldAll(o, no) \in Nat /\ lo[o] \in Nat
             /\ out[o] = 0 => /\ \A s \in Symbols : sy[s].o # o
                              /\ \A n \in Nodes : va[n].o # o
                              /\ \A i \in DOMAIN st : \A j \in DOMAIN st[i] : st[i][j].o # o
                              /\ \A i \in DOMAIN no : \A j \in DOMAIN no[i] : no[i][j].o # o
  BY <1>2, <1>3
<1> QED
  BY <1>4 DEF out

LEMMA HoldersMono ==
  ASSUME NEW h, NEW g, NEW sy, NEW va, NEW st, NEW no, HoldersTyped(h, sy, va, st, no),
         \A w : Typed(h, w) => Typed(g, w)
  PROVE  HoldersTyped(g, sy, va, st, no)
BY DEF HoldersTyped, ScriptValue, FieldValue

LEMMA HoldersCarried ==
  ASSUME NEW h, NEW g, NEW sy, NEW va, NEW st, NEW no, HoldersTyped(h, sy, va, st, no),
         NEW lo \in [Objs -> Nat], Carried(h, g, Outer(sy, va, st, no, lo))
  PROVE  HoldersTyped(g, sy, va, st, no)
<1> DEFINE out == Outer(sy, va, st, no, lo)
<1>1. out \in Outs /\ \A o \in Objs :
        out[o] = 0 => /\ \A s \in Symbols : sy[s].o # o
                      /\ \A n \in Nodes : va[n].o # o
                      /\ \A i \in DOMAIN st : \A j \in DOMAIN st[i] : st[i][j].o # o
                      /\ \A i \in DOMAIN no : \A j \in DOMAIN no[i] : no[i][j].o # o
  BY OuterFacts
<1>2. Carried(h, g, out)
  OBVIOUS
<1> HIDE DEF out
<1>3. \A v : Typed(h, v) /\ (v.o \in Objs => out[v.o] # 0) => Typed(g, v)
  <2>1. \A o \in Objs : out[o] # 0 => out[o] > 0
    BY <1>1 DEF Outs
  <2> QED
    BY <1>2, <2>1 DEF Carried
<1>4. \A s \in Symbols : ScriptValue(h, sy[s]) => ScriptValue(g, sy[s])
  BY <1>1, <1>3 DEF ScriptValue
<1>5. \A n \in Nodes : ScriptValue(h, va[n]) => ScriptValue(g, va[n])
  BY <1>1, <1>3 DEF ScriptValue
<1>6. \A i \in DOMAIN st : \A j \in DOMAIN st[i] :
        ScriptValue(h, st[i][j]) => ScriptValue(g, st[i][j])
  BY <1>1, <1>3 DEF ScriptValue
<1>7. \A i \in DOMAIN no : \A j \in DOMAIN no[i] :
        FieldValue(h, no[i][j]) => FieldValue(g, no[i][j])
  BY <1>1, <1>3 DEF FieldValue
<1> QED
  BY <1>4, <1>5, <1>6, <1>7 DEF HoldersTyped

(* References that are given up.                                           *)
LEMMA Release ==
  ASSUME NEW m, NEW sy, NEW va, NEW st, NEW no, HoldersTyped(m, sy, va, st, no),
         NEW lo \in [Objs -> Nat], NEW s \in Seq(Value),
         Sound(m, Plus(Outer(sy, va, st, no, lo), s)),
         NEW g, g = UnrefAll(m, s)
  PROVE  /\ State(g, sy, va, st, no, lo) /\ FieldsKept(m, g)
         /\ \A o \in Objs : m[o].kind = "free" => g[o].kind = "free"
<1> DEFINE out == Outer(sy, va, st, no, lo)
<1>1. out \in Outs
  BY OuterFacts
<1>2. /\ Sound(g, out) /\ Carried(m, g, out) /\ FieldsKept(m, g)
      /\ \A o \in Objs : m[o].kind = "free" => g[o].kind = "free"
  <2> HIDE DEF out
  <2>1. Sound(m, Plus(out, s))
    BY DEF out
  <2> QED
    BY <1>1, <2>1, UnrefAllSound
<1>3. HoldersTyped(g, sy, va, st, no)
  BY <1>2, HoldersCarried
<1> QED
  BY <1>2, <1>3 DEF State

(* References that are taken.                                              *)
LEMMA Take ==
  ASSUME NEW h, NEW sy, NEW va, NEW st, NEW no, NEW lo, State(h, sy, va, st, no, lo),
         NEW s \in Seq(Value), \A i \in DOMAIN s : Typed(h, s[i]),
         NEW m, m = RefAll(h, s)
  PROVE  /\ HoldersTyped(m, sy, va, st, no) /\ lo \in [Objs -> Nat]
         /\ Sound(m, Plus(Outer(sy, va, st, no, lo), s))
         /\ \A w : Typed(h, w) => Typed(m, w)
         /\ FieldsKept(h, m) /\ FreeObjs(m) = FreeObjs(h)
<1> DEFINE out == Outer(sy, va, st, no, lo)
<1>1. out \in Outs /\ Sound(h, out) /\ HoldersTyped(h, sy, va, st, no) /\ lo \in [Objs -> Nat]
  BY OuterFacts DEF State
<1>2. \A i \in DOMAIN s : s[i].o \in Objs => h[s[i].o].kind # "free"
  BY TypedLive
<1>3. /\ Sound(m, Plus(out, s))
      /\ \A o \in Objs : m[o].kind = h[o].kind /\ m[o].elems = h[o].elems
      /\ \A w : Typed(h, w) => Typed(m, w)
  <2> HIDE DEF out
  <2> QED
    BY <1>1, <1>2, RefAllSound
<1>4. HoldersTyped(m, sy, va, st, no)
  BY <1>1, <1>3, HoldersMono
<1>5. FieldsKept(h, m) /\ FreeObjs(m) = FreeObjs(h)
  BY <1>3 DEF FieldsKept, FreeObjs
<1> QED
  BY <1>1, <1>3, <1>4, <1>5

LEMMA TakeOne ==
  ASSUME NEW h, NEW sy, NEW va, NEW st, NEW no, NEW lo, State(h, sy, va, st, no, lo),
         NEW v, Typed(h, v), NEW m, m = Ref(h, v)
  PROVE  /\ HoldersTyped(m, sy, va, st, no) /\ lo \in [Objs -> Nat]
         /\ Sound(m, Plus(Outer(sy, va, st, no, lo), <<v>>))
         /\ \A w : Typed(h, w) => Typed(m, w)
         /\ FieldsKept(h, m) /\ FreeObjs(m) = FreeObjs(h)
<1>1. PICK s \in Seq(Value) : s = <<v>>
  <2>1. v \in Value
    BY DEF Typed
  <2>2. <<v>> \in Seq(Value)
    BY <2>1
  <2> QED
    BY <2>2
<1>2. \A i \in DOMAIN s : Typed(h, s[i])
  BY <1>1
<1>3. m = RefAll(h, s)
  BY <1>1 DEF Ref
<1>4. /\ HoldersTyped(m, sy, va, st, no) /\ lo \in [Objs -> Nat]
      /\ Sound(m, Plus(Outer(sy, va, st, no, lo), s))
      /\ \A w : Typed(h, w) => Typed(m, w)
      /\ FieldsKept(h, m) /\ FreeObjs(m) = FreeObjs(h)
  BY <1>2, <1>3, Take
<1> QED
  BY <1>1, <1>4

(* A node's value, a symbol's value.                                       *)
LEMMA PutVal ==
  ASSUME NEW m, NEW sy, NEW va, NEW st, NEW no, HoldersTyped(m, sy, va, st, no),
         NEW lo \in [Objs -> Nat], NEW n \in Nodes, NEW v, ScriptValue(m, v), Fits(n, v),
         NEW vb \in [Nodes -> Value], vb[n] = v, \A k \in Nodes : k # n => vb[k] = va[k]
  PROVE  /\ HoldersTyped(m, sy, vb, st, no) /\ va[n] \in Value /\ v \in Value
         /\ Plus(Outer(sy, vb, st, no, lo), <<va[n]>>) = Plus(Outer(sy, va, st, no, lo), <<v>>)
<1>1. va \in [Nodes -> Value] /\ v \in Value /\ va[n] \in Value
  BY DEF HoldersTyped, ScriptValue, Typed
<1>3. HoldersTyped(m, sy, vb, st, no)
  <2>1. \A k \in Nodes : ScriptValue(m, vb[k]) /\ Fits(k, vb[k])
    <3>1. \A k \in Nodes : ScriptValue(m, va[k]) /\ Fits(k, va[k])
      BY DEF HoldersTyped, Fits
    <3> QED
      BY <3>1
  <2> QED
    BY <2>1 DEF HoldersTyped, Fits
<1>4. ASSUME NEW o \in Objs
      PROVE  Outer(sy, vb, st, no, lo)[o] + Held(o, <<va[n]>>)
               = Outer(sy, va, st, no, lo)[o] + Held(o, <<v>>)
  <2>1. Held(o, vb) = Held(o, va) - Held(o, <<va[n]>>) + Held(o, <<vb[n]>>)
    <3>1. DOMAIN va = Nodes /\ DOMAIN vb = Nodes /\ IsFiniteSet(DOMAIN va)
      BY <1>1, NodesFacts
    <3>2. \A i \in DOMAIN va : i # n => vb[i] = va[i]
      BY <3>1
    <3> QED
      BY <3>1, <3>2, HeldExcept
  <2>2. /\ Outer(sy, va, st, no, lo)[o] =
             Held(o, sy) + Held(o, va) + HeldAll(o, st) + HeldAll(o, no) + lo[o]
        /\ Outer(sy, vb, st, no, lo)[o] =
             Held(o, sy) + Held(o, vb) + HeldAll(o, st) + HeldAll(o, no) + lo[o]
    BY DEF Outer
  <2>3. /\ Held(o, sy) \in Nat /\ Held(o, va) \in Nat /\ HeldAll(o, st) \in Nat
        /\ HeldAll(o, no) \in Nat /\ lo[o] \in Nat
    BY OuterFacts
  <2>4. Held(o, <<va[n]>>) \in Nat /\ Held(o, <<v>>) \in Nat
    BY HeldOne
  <2>5. Held(o, vb) + Held(o, <<va[n]>>) = Held(o, va) + Held(o, <<v>>)
    BY <2>1, <2>3, <2>4
  <2>6. Held(o, vb) \in Nat
    BY ValSeq, SeqDomain, HeldType
  <2> QED
    BY <2>2, <2>3, <2>4, <2>5, <2>6
<1>5. Plus(Outer(sy, vb, st, no, lo), <<va[n]>>) = Plus(Outer(sy, va, st, no, lo), <<v>>)
  BY <1>4 DEF Plus
<1> QED
  BY <1>1, <1>3, <1>5

LEMMA PutSymbol ==
  ASSUME NEW m, NEW sy, NEW va, NEW st, NEW no, HoldersTyped(m, sy, va, st, no),
         NEW lo \in [Objs -> Nat], NEW n \in Symbols, NEW v, ScriptValue(m, v),
         NEW sz \in [Symbols -> Value], sz[n] = v, \A k \in Symbols : k # n => sz[k] = sy[k]
  PROVE  /\ HoldersTyped(m, sz, va, st, no) /\ sy[n] \in Value /\ v \in Value
         /\ Plus(Outer(sz, va, st, no, lo), <<sy[n]>>) = Plus(Outer(sy, va, st, no, lo), <<v>>)
<1>1. sy \in [Symbols -> Value] /\ v \in Value /\ sy[n] \in Value
  BY DEF HoldersTyped, ScriptValue, Typed
<1>3. HoldersTyped(m, sz, va, st, no)
  <2>1. \A k \in Symbols : ScriptValue(m, sz[k])
    <3>1. \A k \in Symbols : ScriptValue(m, sy[k])
      BY DEF HoldersTyped
    <3> QED
      BY <3>1
  <2> QED
    BY <2>1 DEF HoldersTyped
<1>4. ASSUME NEW o \in Objs
      PROVE  Outer(sz, va, st, no, lo)[o] + Held(o, <<sy[n]>>)
               = Outer(sy, va, st, no, lo)[o] + Held(o, <<v>>)
  <2>0. DOMAIN sy = Symbols /\ DOMAIN sz = Symbols /\ IsFiniteSet(Symbols)
    BY <1>1, DeclarationsAssumption
  <2>1. Held(o, sz) = Held(o, sy) - Held(o, <<sy[n]>>) + Held(o, <<sz[n]>>)
    <3>2. \A i \in DOMAIN sy : i # n => sz[i] = sy[i]
      BY <2>0
    <3> QED
      BY <2>0, <3>2, HeldExcept
  <2>2. /\ Outer(sy, va, st, no, lo)[o] =
             Held(o, sy) + Held(o, va) + HeldAll(o, st) + HeldAll(o, no) + lo[o]
        /\ Outer(sz, va, st, no, lo)[o] =
             Held(o, sz) + Held(o, va) + HeldAll(o, st) + HeldAll(o, no) + lo[o]
    BY DEF Outer
  <2>3. /\ Held(o, sy) \in Nat /\ Held(o, va) \in Nat /\ HeldAll(o, st) \in Nat
        /\ HeldAll(o, no) \in Nat /\ lo[o] \in Nat
    BY OuterFacts
  <2>4. Held(o, <<sy[n]>>) \in Nat /\ Held(o, <<v>>) \in Nat
    BY HeldOne
  <2>5. Held(o, sz) + Held(o, <<sy[n]>>) = Held(o, sy) + Held(o, <<v>>)
    BY <2>1, <2>3, <2>4
  <2>6. Held(o, sz) \in Nat
    BY <2>0, HeldType
  <2> QED
    BY <2>2, <2>3, <2>4, <2>5, <2>6
<1>5. Plus(Outer(sz, va, st, no, lo), <<sy[n]>>) = Plus(Outer(sy, va, st, no, lo), <<v>>)
  BY <1>4 DEF Plus
<1> QED
  BY <1>1, <1>3, <1>5

LEMMA PlusNone ==
  ASSUME NEW out \in Outs
  PROVE  Plus(out, <<>>) = out
<1>1. \A o \in Objs : out[o] + Held(o, <<>>) = out[o]
  BY HeldNone DEF Outs
<1> QED
  BY <1>1 DEF Plus, Outs

(* The stack of lists and the notes.                                       *)
LEMMA PutLists ==
  ASSUME NEW m, NEW sy, NEW va, NEW st, NEW no, HoldersTyped(m, sy, va, st, no),
         NEW lo \in [Objs -> Nat], NEW su, NEW nu, HoldersTyped(m, sy, va, su, nu),
         NEW s \in Seq(Value), NEW t \in Seq(Value),
         \A o \in Objs : HeldAll(o, su) + HeldAll(o, nu) + Held(o, s)
                         = HeldAll(o, st) + HeldAll(o, no) + Held(o, t)
  PROVE  Plus(Outer(sy, va, su, nu, lo), s) = Plus(Outer(sy, va, st, no, lo), t)
<1>1. ASSUME NEW o \in Objs
      PROVE  Outer(sy, va, su, nu, lo)[o] + Held(o, s)
               = Outer(sy, va, st, no, lo)[o] + Held(o, t)
  <2>1. /\ Outer(sy, va, st, no, lo)[o] =
             Held(o, sy) + Held(o, va) + HeldAll(o, st) + HeldAll(o, no) + lo[o]
        /\ Held(o, sy) \in Nat /\ Held(o, va) \in Nat /\ HeldAll(o, st) \in Nat
        /\ HeldAll(o, no) \in Nat /\ lo[o] \in Nat
    BY OuterFacts
  <2>2. /\ Outer(sy, va, su, nu, lo)[o] =
             Held(o, sy) + Held(o, va) + HeldAll(o, su) + HeldAll(o, nu) + lo[o]
        /\ HeldAll(o, su) \in Nat /\ HeldAll(o, nu) \in Nat
    BY OuterFacts
  <2>3. HeldAll(o, su) + HeldAll(o, nu) + Held(o, s) = HeldAll(o, st) + HeldAll(o, no) + Held(o, t)
    OBVIOUS
  <2>4. Held(o, s) \in Nat /\ Held(o, t) \in Nat
    BY SeqDomain, HeldType
  <2>5. PICK a, b, c, d, e, f, p, q \in Nat :
          /\ a = Held(o, sy) /\ b = Held(o, va) /\ c = HeldAll(o, st) /\ d = HeldAll(o, no)
          /\ e = HeldAll(o, su) /\ f = HeldAll(o, nu) /\ p = Held(o, s) /\ q = Held(o, t)
    BY <2>1, <2>2, <2>4
  <2>6. PICK k \in Nat : k = lo[o]
    BY <2>1
  <2>7. e + f + p = c + d + q
    BY <2>3, <2>5
  <2>8. (a + b + e + f + k) + p = (a + b + c + d + k) + q
    BY <2>7
  <2> QED
    BY <2>1, <2>2, <2>5, <2>6, <2>8
<1> QED
  BY <1>1 DEF Plus

LEMMA PushStack ==
  ASSUME NEW m, NEW sy, NEW va, NEW st, NEW no, HoldersTyped(m, sy, va, st, no),
         NEW lo \in [Objs -> Nat]
  PROVE  /\ HoldersTyped(m, sy, va, Append(st, <<>>), no)
         /\ Outer(sy, va, Append(st, <<>>), no, lo) = Outer(sy, va, st, no, lo)
<1>0. PICK su : su = Append(st, <<>>)
  OBVIOUS
<1>1. st \in Seq(Seq(Value)) /\ <<>> \in Seq(Value)
  BY EmptySeq DEF HoldersTyped
<1>2. /\ su \in Seq(Seq(Value)) /\ DOMAIN su = 1 .. Len(st) + 1 /\ DOMAIN st = 1 .. Len(st)
      /\ Len(st) \in Nat /\ su[Len(st) + 1] = <<>> /\ \A i \in 1 .. Len(st) : su[i] = st[i]
  BY <1>0, <1>1, AppendProperties, LenProperties
<1>3. \A i \in DOMAIN su : \A j \in DOMAIN su[i] : ScriptValue(m, su[i][j])
  <2>1. \A i \in DOMAIN st : \A j \in DOMAIN st[i] : ScriptValue(m, st[i][j])
    BY DEF HoldersTyped
  <2>2. ASSUME NEW i \in DOMAIN su PROVE \A j \in DOMAIN su[i] : ScriptValue(m, su[i][j])
    <3>1. i \in DOMAIN st \/ i = Len(st) + 1
      BY <1>2
    <3>2. CASE i \in DOMAIN st
      <4>1. su[i] = st[i]
        BY <1>2, <3>2
      <4> QED
        BY <2>1, <3>2, <4>1
    <3>3. CASE i = Len(st) + 1
      <4>1. su[i] = <<>>
        BY <1>2, <3>3
      <4> QED
        BY <4>1
    <3> QED
      BY <3>1, <3>2, <3>3
  <2> QED
    BY <2>2
<1>4. HoldersTyped(m, sy, va, su, no)
  BY <1>2, <1>3 DEF HoldersTyped
<1>5. \A o \in Objs : HeldAll(o, su) = HeldAll(o, st)
  <2> TAKE o \in Objs
  <2>1. HeldAll(o, su) = HeldAll(o, st) + Held(o, <<>>)
    BY <1>0, <1>1, HeldAllAppend
  <2>2. HeldAll(o, st) \in Nat
    BY <1>1, FiniteSeqs, HeldAllType
  <2> QED
    BY <2>1, <2>2, HeldNone
<1> QED
  BY <1>0, <1>4, <1>5 DEF Outer

LEMMA ItemFacts ==
  ASSUME NEW st \in Seq(Seq(Value)), st # <<>>, NEW v \in Value,
         NEW su, su = [st EXCEPT ![Len(st)] = Append(@, v)]
  PROVE  /\ Len(st) \in DOMAIN st /\ st[Len(st)] \in Seq(Value)
         /\ su \in Seq(Seq(Value)) /\ DOMAIN su = DOMAIN st
         /\ su[Len(st)] = Append(st[Len(st)], v)
         /\ \A i \in DOMAIN st : i # Len(st) => su[i] = st[i]
<1>1. PICK n : n = Len(st)
  OBVIOUS
<1>2. DOMAIN st = 1 .. n /\ n \in DOMAIN st /\ n \in Nat
  BY <1>1, LastOf, LenProperties
<1>3. PICK more : more = Append(st[n], v)
  OBVIOUS
<1>4. st[n] \in Seq(Value)
  BY <1>1, <1>2, ElementOfSeq
<1>5. more \in Seq(Value)
  BY <1>3, <1>4, AppendProperties
<1>6. su[n] = more /\ DOMAIN su = DOMAIN st /\ \A i \in DOMAIN st : i # n => su[i] = st[i]
  BY <1>1, <1>2, <1>3
<1>7. su \in [1 .. n -> Seq(Value)]
  <2>1. \A i \in 1 .. n : su[i] \in Seq(Value)
    <3>1. \A i \in 1 .. n : st[i] \in Seq(Value)
      BY <1>1, <1>2, ElementOfSeq
    <3> QED
      BY <1>2, <1>5, <1>6, <3>1
  <2>2. su = [i \in DOMAIN st |-> su[i]]
    OBVIOUS
  <2> QED
    BY <1>2, <2>1, <2>2
<1>8. su \in Seq(Seq(Value))
  BY <1>2, <1>7, IsASeq
<1> QED
  BY <1>1, <1>2, <1>3, <1>4, <1>6, <1>8

LEMMA ItemTyped ==
  ASSUME NEW m, NEW sy, NEW va, NEW st, NEW no, HoldersTyped(m, sy, va, st, no),
         NEW v, ScriptValue(m, v), NEW n \in DOMAIN st, st[n] \in Seq(Value),
         NEW su \in Seq(Seq(Value)), DOMAIN su = DOMAIN st,
         su[n] = Append(st[n], v), \A i \in DOMAIN st : i # n => su[i] = st[i]
  PROVE  HoldersTyped(m, sy, va, su, no)
<1>1. v \in Value
  BY DEF ScriptValue, Typed
<1>2. PICK last \in Seq(Value), k \in Nat : last = st[n] /\ k = Len(last)
  BY LenProperties
<1>3. /\ DOMAIN last = 1 .. k /\ DOMAIN su[n] = 1 .. k + 1
      /\ su[n][k + 1] = v /\ \A i \in 1 .. k : su[n][i] = last[i]
  BY <1>1, <1>2, AppendProperties, LenProperties
<1>4. \A i \in DOMAIN su : \A j \in DOMAIN su[i] : ScriptValue(m, su[i][j])
  <2>1. \A i \in DOMAIN st : \A j \in DOMAIN st[i] : ScriptValue(m, st[i][j])
    BY DEF HoldersTyped
  <2>2. \A j \in DOMAIN su[n] : ScriptValue(m, su[n][j])
    <3>1. \A j \in 1 .. k : ScriptValue(m, last[j])
      BY <1>2, <1>3, <2>1
    <3>2. \A j \in DOMAIN su[n] : j \in 1 .. k \/ j = k + 1
      BY <1>3
    <3> QED
      BY <1>3, <3>1, <3>2
  <2> QED
    BY <2>1, <2>2
<1> QED
  BY <1>4 DEF HoldersTyped

LEMMA HeldNat ==
  ASSUME NEW s \in Seq(Value), NEW o
  PROVE  Held(o, s) \in Nat
BY SeqDomain, HeldType

LEMMA ItemHeld ==
  ASSUME NEW st \in Seq(Seq(Value)), NEW v \in Value, NEW n \in DOMAIN st,
         st[n] \in Seq(Value), NEW su \in Seq(Seq(Value)), DOMAIN su = DOMAIN st,
         su[n] = Append(st[n], v), \A i \in DOMAIN st : i # n => su[i] = st[i], NEW o
  PROVE  HeldAll(o, su) = HeldAll(o, st) + Held(o, <<v>>)
<1>1. Finite(st) /\ Finite(su)
  BY FiniteSeqs
<1>2. HeldAll(o, su) = HeldAll(o, st) - Held(o, st[n]) + Held(o, su[n])
  BY <1>1, HeldAllExcept
<1>3. Held(o, su[n]) = Held(o, st[n]) + Held(o, <<v>>)
  BY HeldAppend
<1>4. HeldAll(o, st) \in Nat
  BY <1>1, HeldAllType
<1>5. Held(o, st[n]) \in Nat
  BY HeldNat
<1>6. Held(o, <<v>>) \in Nat
  <2>1. Held(o, <<v>>) = IF v.o = o THEN 1 ELSE 0
    BY HeldOne, Zenon
  <2>2. (IF v.o = o THEN 1 ELSE 0) \in Nat
    OBVIOUS
  <2> QED
    BY <2>1, <2>2, Zenon
<1>7. \A a, b, c, d \in Int : d = b + c => a - b + d = a + c
  OBVIOUS
<1> QED
  BY <1>2, <1>3, <1>4, <1>5, <1>6, <1>7

LEMMA ItemOuter ==
  ASSUME NEW m, NEW sy, NEW va, NEW st, NEW no, HoldersTyped(m, sy, va, st, no),
         NEW lo \in [Objs -> Nat], NEW v, NEW su,
         \A o \in Objs : HeldAll(o, su) = HeldAll(o, st) + Held(o, <<v>>)
  PROVE  Outer(sy, va, su, no, lo) = Plus(Outer(sy, va, st, no, lo), <<v>>)
<1>1. ASSUME NEW o \in Objs
      PROVE  Outer(sy, va, su, no, lo)[o] = Outer(sy, va, st, no, lo)[o] + Held(o, <<v>>)
  <2>1. /\ Outer(sy, va, st, no, lo)[o] =
             Held(o, sy) + Held(o, va) + HeldAll(o, st) + HeldAll(o, no) + lo[o]
        /\ Held(o, sy) \in Nat /\ Held(o, va) \in Nat /\ HeldAll(o, st) \in Nat
        /\ HeldAll(o, no) \in Nat /\ lo[o] \in Nat
    BY OuterFacts
  <2>2. Outer(sy, va, su, no, lo)[o] =
             Held(o, sy) + Held(o, va) + HeldAll(o, su) + HeldAll(o, no) + lo[o]
    BY DEF Outer
  <2>3. Held(o, <<v>>) \in Nat
    BY HeldOne
  <2>4. \A a, b, c, d, e, f \in Nat : a + b + (c + f) + d + e = (a + b + c + d + e) + f
    OBVIOUS
  <2> QED
    BY <2>1, <2>2, <2>3, <2>4
<1>2. Outer(sy, va, su, no, lo) = [o \in Objs |-> Outer(sy, va, su, no, lo)[o]]
  BY DEF Outer
<1> QED
  BY <1>1, <1>2 DEF Plus

LEMMA PopStack ==
  ASSUME NEW m, NEW sy, NEW va, NEW st, NEW no, HoldersTyped(m, sy, va, st, no),
         NEW lo \in [Objs -> Nat], st # <<>>, NEW su, su = Front(st)
  PROVE  /\ HoldersTyped(m, sy, va, su, no) /\ Last(st) \in Seq(Value)
         /\ \A j \in DOMAIN Last(st) : ScriptValue(m, Last(st)[j])
         /\ Plus(Outer(sy, va, su, no, lo), Last(st)) = Outer(sy, va, st, no, lo)
<1>1. st \in Seq(Seq(Value))
  BY DEF HoldersTyped
<1>2. /\ su \in Seq(Seq(Value)) /\ Last(st) \in Seq(Value) /\ st = Append(su, Last(st))
      /\ Len(su) = Len(st) - 1 /\ \A i \in 1 .. Len(st) - 1 : su[i] = st[i]
      /\ DOMAIN st = 1 .. Len(st) /\ DOMAIN su = 1 .. Len(su) /\ Len(st) \in Nat
      /\ Len(st) \in DOMAIN st
  <2>1. /\ su \in Seq(Seq(Value)) /\ Last(st) \in Seq(Value) /\ st = Append(su, Last(st))
        /\ Len(su) = Len(st) - 1 /\ \A i \in 1 .. Len(st) - 1 : su[i] = st[i]
        /\ Len(st) \in DOMAIN st
    BY <1>1, LastOf
  <2>2. DOMAIN st = 1 .. Len(st) /\ Len(st) \in Nat
    BY <1>1, LenProperties
  <2>3. DOMAIN su = 1 .. Len(su)
    BY <2>1, LenProperties
  <2> QED
    BY <2>1, <2>2, <2>3
<1>3. \A i \in DOMAIN su : i \in DOMAIN st /\ su[i] = st[i]
  <2>1. PICK n \in Nat : n = Len(st)
    BY <1>2
  <2>2. DOMAIN su = 1 .. n - 1 /\ DOMAIN st = 1 .. n /\ \A i \in 1 .. n - 1 : su[i] = st[i]
    BY <1>2, <2>1
  <2> QED
    BY <2>2
<1>4. \A i \in DOMAIN st : \A j \in DOMAIN st[i] : ScriptValue(m, st[i][j])
  BY DEF HoldersTyped
<1>5. HoldersTyped(m, sy, va, su, no)
  <2>1. \A i \in DOMAIN su : \A j \in DOMAIN su[i] : ScriptValue(m, su[i][j])
    BY <1>3, <1>4
  <2> QED
    BY <1>2, <2>1 DEF HoldersTyped
<1>6. \A j \in DOMAIN Last(st) : ScriptValue(m, Last(st)[j])
  <2>1. Last(st) = st[Len(st)]
    BY DEF Last
  <2> QED
    BY <1>2, <1>4, <2>1
<1>7. PICK s \in Seq(Value) : s = Last(st)
  BY <1>2
<1>8. \A o \in Objs : HeldAll(o, su) + HeldAll(o, no) + Held(o, s)
                      = HeldAll(o, st) + HeldAll(o, no) + Held(o, <<>>)
  <2> TAKE o \in Objs
  <2>1. HeldAll(o, st) = HeldAll(o, su) + Held(o, s)
    BY <1>2, <1>7, HeldAllAppend
  <2>2. HeldAll(o, su) \in Nat /\ HeldAll(o, no) \in Nat
    BY <1>5, OuterFacts
  <2>3. Held(o, s) \in Nat
    BY SeqDomain, HeldType
  <2> QED
    BY <2>1, <2>2, <2>3, HeldNone
<1>9. Plus(Outer(sy, va, su, no, lo), s) = Plus(Outer(sy, va, st, no, lo), <<>>)
  <2>1. PICK e \in Seq(Value) : e = <<>>
    BY EmptySeq
  <2>2. \A o \in Objs : HeldAll(o, su) + HeldAll(o, no) + Held(o, s)
                        = HeldAll(o, st) + HeldAll(o, no) + Held(o, e)
    BY <1>8, <2>1
  <2>3. Plus(Outer(sy, va, su, no, lo), s) = Plus(Outer(sy, va, st, no, lo), e)
    BY <1>5, <2>2, PutLists
  <2> QED
    BY <2>1, <2>3
<1>10. Plus(Outer(sy, va, st, no, lo), <<>>) = Outer(sy, va, st, no, lo)
  BY OuterFacts, PlusNone
<1> QED
  BY <1>2, <1>5, <1>6, <1>7, <1>9, <1>10

LEMMA AddNote ==
  ASSUME NEW m, NEW sy, NEW va, NEW st, NEW no, HoldersTyped(m, sy, va, st, no),
         NEW lo \in [Objs -> Nat], NEW s \in Seq(Value),
         \A j \in DOMAIN s : FieldValue(m, s[j])
  PROVE  /\ HoldersTyped(m, sy, va, st, Append(no, s))
         /\ Outer(sy, va, st, Append(no, s), lo) = Plus(Outer(sy, va, st, no, lo), s)
<1>0. PICK nu : nu = Append(no, s)
  OBVIOUS
<1>1. no \in Seq(Seq(Value))
  BY DEF HoldersTyped
<1>2. /\ nu \in Seq(Seq(Value)) /\ Len(no) \in Nat
      /\ DOMAIN nu = 1 .. Len(no) + 1 /\ DOMAIN no = 1 .. Len(no)
      /\ nu[Len(no) + 1] = s /\ \A i \in 1 .. Len(no) : nu[i] = no[i]
  BY <1>0, <1>1, AppendProperties, LenProperties
<1>3. \A i \in DOMAIN nu : \A j \in DOMAIN nu[i] : FieldValue(m, nu[i][j])
  <2>1. \A i \in DOMAIN no : \A j \in DOMAIN no[i] : FieldValue(m, no[i][j])
    BY DEF HoldersTyped
  <2>2. \A i \in DOMAIN nu : i \in DOMAIN no \/ i = Len(no) + 1
    BY <1>2
  <2> QED
    BY <1>2, <2>1, <2>2
<1>4. HoldersTyped(m, sy, va, st, nu)
  BY <1>2, <1>3 DEF HoldersTyped
<1>5. ASSUME NEW o \in Objs
      PROVE  Outer(sy, va, st, nu, lo)[o] = Outer(sy, va, st, no, lo)[o] + Held(o, s)
  <2>1. /\ Outer(sy, va, st, no, lo)[o] =
             Held(o, sy) + Held(o, va) + HeldAll(o, st) + HeldAll(o, no) + lo[o]
        /\ Held(o, sy) \in Nat /\ Held(o, va) \in Nat /\ HeldAll(o, st) \in Nat
        /\ HeldAll(o, no) \in Nat /\ lo[o] \in Nat
    BY OuterFacts
  <2>2. Outer(sy, va, st, nu, lo)[o] =
             Held(o, sy) + Held(o, va) + HeldAll(o, st) + HeldAll(o, nu) + lo[o]
    BY DEF Outer
  <2>3. HeldAll(o, nu) = HeldAll(o, no) + Held(o, s) /\ Held(o, s) \in Nat
    BY <1>0, <1>1, HeldAllAppend, HeldNat
  <2>4. \A a, b, c, d, e, f \in Nat : a + b + c + (d + f) + e = (a + b + c + d + e) + f
    OBVIOUS
  <2> QED
    BY <2>1, <2>2, <2>3, <2>4
<1>6. Outer(sy, va, st, nu, lo) = [o \in Objs |-> Outer(sy, va, st, nu, lo)[o]]
  BY DEF Outer
<1>7. Outer(sy, va, st, nu, lo) = Plus(Outer(sy, va, st, no, lo), s)
  BY <1>5, <1>6 DEF Plus
<1> QED
  BY <1>0, <1>4, <1>7

LEMMA DropNote ==
  ASSUME NEW m, NEW sy, NEW va, NEW st, NEW no, HoldersTyped(m, sy, va, st, no),
         NEW lo \in [Objs -> Nat], NEW k \in DOMAIN no
  PROVE  /\ HoldersTyped(m, sy, va, st, RemoveAt(no, k)) /\ no[k] \in Seq(Value)
         /\ Plus(Outer(sy, va, st, RemoveAt(no, k), lo), no[k]) = Outer(sy, va, st, no, lo)
<1>0. PICK nu : nu = RemoveAt(no, k)
  OBVIOUS
<1>1. no \in Seq(Seq(Value)) /\ no[k] \in Seq(Value)
  <2>1. no \in Seq(Seq(Value))
    BY DEF HoldersTyped
  <2> QED
    BY <2>1, ElementOfSeq, LenProperties
<1>2. nu \in Seq(Seq(Value)) /\ \A i \in DOMAIN nu : \E j \in DOMAIN no : nu[i] = no[j]
  <2>1. /\ nu \in Seq(Seq(Value)) /\ \A i \in DOMAIN nu : \E j \in DOMAIN no : nu[i] = no[j]
        /\ HeldAll(NULL, nu) = HeldAll(NULL, no) - Held(NULL, no[k])
    BY <1>0, <1>1, HeldAllRemove
  <2> QED
    BY <2>1
<1>3. HoldersTyped(m, sy, va, st, nu)
  <2>1. \A i \in DOMAIN nu : \A j \in DOMAIN nu[i] : FieldValue(m, nu[i][j])
    <3>1. \A i \in DOMAIN no : \A j \in DOMAIN no[i] : FieldValue(m, no[i][j])
      BY DEF HoldersTyped
    <3> QED
      BY <1>2, <3>1
  <2> QED
    BY <1>2, <2>1 DEF HoldersTyped
<1>4. ASSUME NEW o \in Objs
      PROVE  Outer(sy, va, st, nu, lo)[o] + Held(o, no[k]) = Outer(sy, va, st, no, lo)[o]
  <2>1. /\ Outer(sy, va, st, no, lo)[o] =
             Held(o, sy) + Held(o, va) + HeldAll(o, st) + HeldAll(o, no) + lo[o]
        /\ Held(o, sy) \in Nat /\ Held(o, va) \in Nat /\ HeldAll(o, st) \in Nat
        /\ HeldAll(o, no) \in Nat /\ lo[o] \in Nat
    BY OuterFacts
  <2>2. Outer(sy, va, st, nu, lo)[o] =
             Held(o, sy) + Held(o, va) + HeldAll(o, st) + HeldAll(o, nu) + lo[o]
    BY DEF Outer
  <2>3. HeldAll(o, nu) = HeldAll(o, no) - Held(o, no[k]) /\ Held(o, no[k]) \in Nat
    BY <1>0, <1>1, HeldAllRemove, HeldNat
  <2>4. \A a, b, c, d, e, f \in Nat : (a + b + c + (d - f) + e) + f = a + b + c + d + e
    OBVIOUS
  <2> QED
    BY <2>1, <2>2, <2>3, <2>4
<1>5. Outer(sy, va, st, no, lo) = [o \in Objs |-> Outer(sy, va, st, no, lo)[o]]
  BY DEF Outer
<1>6. Plus(Outer(sy, va, st, nu, lo), no[k]) = Outer(sy, va, st, no, lo)
  BY <1>4, <1>5 DEF Plus
<1> QED
  BY <1>0, <1>1, <1>3, <1>6

(* References that are lost are still counted, as lost.                    *)
LEMMA LoseOuter ==
  ASSUME NEW m, NEW sy, NEW va, NEW st, NEW no, HoldersTyped(m, sy, va, st, no),
         NEW lo \in [Objs -> Nat], NEW s, IsFiniteSet(DOMAIN s)
  PROVE  /\ LoseAll(lo, s) \in [Objs -> Nat]
         /\ Outer(sy, va, st, no, LoseAll(lo, s)) = Plus(Outer(sy, va, st, no, lo), s)
<1>1. \A o \in Objs : Held(o, s) \in Nat /\ lo[o] \in Nat
  BY HeldType
<1>2. LoseAll(lo, s) \in [Objs -> Nat] /\ \A o \in Objs : LoseAll(lo, s)[o] = lo[o] + Held(o, s)
  BY <1>1 DEF LoseAll
<1>3. ASSUME NEW o \in Objs
      PROVE  Outer(sy, va, st, no, LoseAll(lo, s))[o] = Outer(sy, va, st, no, lo)[o] + Held(o, s)
  <2>1. /\ Outer(sy, va, st, no, lo)[o] =
             Held(o, sy) + Held(o, va) + HeldAll(o, st) + HeldAll(o, no) + lo[o]
        /\ Held(o, sy) \in Nat /\ Held(o, va) \in Nat /\ HeldAll(o, st) \in Nat
        /\ HeldAll(o, no) \in Nat /\ lo[o] \in Nat
    BY OuterFacts
  <2>2. Outer(sy, va, st, no, LoseAll(lo, s))[o] =
             Held(o, sy) + Held(o, va) + HeldAll(o, st) + HeldAll(o, no) + LoseAll(lo, s)[o]
    BY DEF Outer
  <2>3. LoseAll(lo, s)[o] = lo[o] + Held(o, s) /\ Held(o, s) \in Nat
    BY <1>1, <1>2
  <2>4. \A a, b, c, d, e, f \in Nat : a + b + c + d + (e + f) = (a + b + c + d + e) + f
    OBVIOUS
  <2> QED
    BY <2>1, <2>2, <2>3, <2>4
<1>4. /\ Outer(sy, va, st, no, LoseAll(lo, s)) =
           [o \in Objs |-> Outer(sy, va, st, no, LoseAll(lo, s))[o]]
  BY DEF Outer
<1>5. Outer(sy, va, st, no, LoseAll(lo, s)) = Plus(Outer(sy, va, st, no, lo), s)
  BY <1>3, <1>4 DEF Plus
<1> QED
  BY <1>2, <1>5

(* The trees of a script are freed, or dropped.                            *)
LEMMA ClearVal ==
  ASSUME NEW m, NEW sy, NEW va, NEW st, NEW no, HoldersTyped(m, sy, va, st, no),
         NEW lo \in [Objs -> Nat], NEW vb, vb = [n \in Nodes |-> Void]
  PROVE  /\ HoldersTyped(m, sy, vb, st, no) /\ va \in Seq(Value)
         /\ Plus(Outer(sy, vb, st, no, lo), va) = Outer(sy, va, st, no, lo)
<1>1. va \in [Nodes -> Value] /\ va \in Seq(Value)
  BY ValSeq DEF HoldersTyped
<1>2. vb \in [Nodes -> Value] /\ \A n \in Nodes : vb[n] = Void
  BY ValueFacts
<1>3. HoldersTyped(m, sy, vb, st, no)
  <2>1. ScriptValue(m, Void)
    BY ValueFacts DEF ScriptValue, Typed
  <2> QED
    BY <1>2, <2>1, ValueFacts DEF HoldersTyped
<1>4. ASSUME NEW o \in Objs
      PROVE  Outer(sy, vb, st, no, lo)[o] + Held(o, va) = Outer(sy, va, st, no, lo)[o]
  <2>1. /\ Outer(sy, va, st, no, lo)[o] =
             Held(o, sy) + Held(o, va) + HeldAll(o, st) + HeldAll(o, no) + lo[o]
        /\ Held(o, sy) \in Nat /\ Held(o, va) \in Nat /\ HeldAll(o, st) \in Nat
        /\ HeldAll(o, no) \in Nat /\ lo[o] \in Nat
    BY OuterFacts
  <2>2. Outer(sy, vb, st, no, lo)[o] =
             Held(o, sy) + Held(o, vb) + HeldAll(o, st) + HeldAll(o, no) + lo[o]
    BY DEF Outer
  <2>3. Held(o, vb) = 0
    <3>1. DOMAIN vb = Nodes /\ IsFiniteSet(DOMAIN vb)
      BY <1>2, NodesFacts
    <3>2. \A i \in DOMAIN vb : vb[i].o # o
      BY <1>2, <3>1, ValueFacts, ObjsFacts
    <3> QED
      BY <3>1, <3>2, HeldType
  <2>4. \A a, c, d, e, f \in Nat : (a + 0 + c + d + e) + f = a + f + c + d + e
    OBVIOUS
  <2> QED
    BY <2>1, <2>2, <2>3, <2>4
<1>5. Outer(sy, va, st, no, lo) = [o \in Objs |-> Outer(sy, va, st, no, lo)[o]]
  BY DEF Outer
<1>6. Plus(Outer(sy, vb, st, no, lo), va) = Outer(sy, va, st, no, lo)
  BY <1>4, <1>5 DEF Plus
<1> QED
  BY <1>1, <1>3, <1>6

-----------------------------------------------------------------------------
(* The stack of lists.                                                     *)

Todos == Seq({"visit", "do"} \X Nodes)
Mark == [o : {0, 1}]
Marks(s) == [i \in DOMAIN s |-> [o |-> IF s[i][1] = "do" /\ Opens(s[i][2]) THEN 1 ELSE 0]]

LEMMA MarksFacts ==
  ASSUME NEW s \in Todos
  PROVE  /\ Marks(s) \in Seq(Mark) /\ Len(Marks(s)) = Len(s)
         /\ DOMAIN s = 1 .. Len(s) /\ Len(s) \in Nat
         /\ Cardinality(Closing(s)) = Held(1, Marks(s))
         /\ Cardinality(Closing(s)) \in Nat
         /\ Cardinality(Closing(s)) = 0 <=> Closing(s) = {}
<1>1. DOMAIN s = 1 .. Len(s) /\ Len(s) \in Nat
  BY LenProperties DEF Todos
<1>2. Marks(s) \in [1 .. Len(s) -> Mark]
  BY <1>1 DEF Marks, Mark
<1>3. Marks(s) \in Seq(Mark)
  BY <1>1, <1>2, IsASeq
<1>4. DOMAIN Marks(s) = 1 .. Len(s)
  BY <1>1 DEF Marks
<1>5. Len(Marks(s)) = Len(s)
  BY <1>1, <1>3, <1>4, LenProperties
<1>6. Closing(s) = {i \in DOMAIN Marks(s) : Marks(s)[i].o = 1}
  BY <1>1, <1>4 DEF Closing, Marks, Opens
<1>7. IsFiniteSet(Closing(s))
  <2>1. Closing(s) \in SUBSET (1 .. Len(s))
    BY <1>1 DEF Closing
  <2>2. IsFiniteSet(1 .. Len(s))
    BY <1>1, FS_Interval
  <2> QED
    BY <2>1, <2>2, FS_Subset
<1>8. Cardinality(Closing(s)) \in Nat /\ (Cardinality(Closing(s)) = 0 <=> Closing(s) = {})
  BY <1>7, FS_CardinalityType, FS_EmptySet
<1> QED
  BY <1>1, <1>3, <1>5, <1>6, <1>8 DEF Held

LEMMA ClosingConcat ==
  ASSUME NEW s \in Todos, NEW t \in Todos
  PROVE  /\ s \o t \in Todos
         /\ Cardinality(Closing(s \o t)) = Cardinality(Closing(s)) + Cardinality(Closing(t))
<1>1. /\ s \o t \in Todos /\ Len(s \o t) = Len(s) + Len(t)
      /\ \A i \in 1 .. Len(s) + Len(t) : (s \o t)[i] = IF i <= Len(s) THEN s[i] ELSE t[i - Len(s)]
  BY ConcatProperties DEF Todos
<1>2. PICK a, b, c : a = Marks(s) /\ b = Marks(t) /\ c = Marks(s \o t)
  OBVIOUS
<1>3. /\ a \in Seq(Mark) /\ Len(a) = Len(s) /\ DOMAIN s = 1 .. Len(s)
      /\ b \in Seq(Mark) /\ Len(b) = Len(t) /\ DOMAIN t = 1 .. Len(t)
      /\ c \in Seq(Mark) /\ Len(c) = Len(s \o t)
      /\ DOMAIN (s \o t) = 1 .. Len(s \o t)
      /\ Len(s) \in Nat /\ Len(t) \in Nat
      /\ Cardinality(Closing(s)) = Held(1, a) /\ Cardinality(Closing(t)) = Held(1, b)
      /\ Cardinality(Closing(s \o t)) = Held(1, c)
  BY <1>1, <1>2, MarksFacts
<1>31. a \in Seq(Mark) /\ b \in Seq(Mark) /\ Len(a) = Len(s) /\ Len(b) = Len(t)
  BY <1>3
<1>4. /\ a \o b \in Seq(Mark) /\ Len(a \o b) = Len(s) + Len(t)
      /\ \A i \in 1 .. Len(s) + Len(t) : (a \o b)[i] = IF i <= Len(s) THEN a[i] ELSE b[i - Len(s)]
  <2>1. /\ a \o b \in Seq(Mark) /\ Len(a \o b) = Len(a) + Len(b)
        /\ \A i \in 1 .. Len(a) + Len(b) :
             (a \o b)[i] = IF i <= Len(a) THEN a[i] ELSE b[i - Len(a)]
    <3>1. a \in Seq(Mark) /\ b \in Seq(Mark)
      BY <1>31
    <3> QED
      BY <3>1, ConcatProperties
  <2> QED
    BY <1>31, <2>1
<1>5. ASSUME NEW i \in 1 .. Len(s) + Len(t) PROVE (a \o b)[i] = c[i]
  <2>1. c[i] = [o |-> IF (s \o t)[i][1] = "do" /\ Opens((s \o t)[i][2]) THEN 1 ELSE 0]
    BY <1>1, <1>2, <1>3 DEF Marks
  <2>2. CASE i <= Len(s)
    <3>1. (s \o t)[i] = s[i] /\ (a \o b)[i] = a[i] /\ i \in DOMAIN s
      BY <1>1, <1>3, <1>4, <2>2
    <3>2. a[i] = [o |-> IF s[i][1] = "do" /\ Opens(s[i][2]) THEN 1 ELSE 0]
      BY <1>2, <3>1 DEF Marks
    <3> QED
      BY <2>1, <3>1, <3>2
  <2>3. CASE i > Len(s)
    <3>1. (s \o t)[i] = t[i - Len(s)] /\ (a \o b)[i] = b[i - Len(s)] /\ i - Len(s) \in DOMAIN t
      BY <1>1, <1>3, <1>4, <2>3
    <3>2. b[i - Len(s)] = [o |-> IF t[i - Len(s)][1] = "do" /\ Opens(t[i - Len(s)][2]) THEN 1 ELSE 0]
      BY <1>2, <3>1 DEF Marks
    <3> QED
      BY <2>1, <3>1, <3>2
  <2> QED
    BY <1>3, <2>2, <2>3
<1>6. c = a \o b
  BY <1>1, <1>3, <1>4, <1>5, SeqEqual
<1>7. Held(1, a \o b) = Held(1, a) + Held(1, b)
  BY <1>3, HeldConcat
<1> QED
  BY <1>1, <1>3, <1>6, <1>7

LEMMA ClosingOne ==
  ASSUME NEW e \in {"visit", "do"} \X Nodes
  PROVE  /\ <<e>> \in Todos
         /\ Cardinality(Closing(<<e>>)) = IF e[1] = "do" /\ Opens(e[2]) THEN 1 ELSE 0
<1>1. <<e>> \in Todos /\ DOMAIN <<e>> = {1} /\ <<e>>[1] = e
  BY DEF Todos
<1>2. CASE e[1] = "do" /\ Opens(e[2])
  <2>1. Closing(<<e>>) = {1}
    BY <1>1, <1>2 DEF Closing
  <2> QED
    BY <1>1, <1>2, <2>1, FS_Singleton
<1>3. CASE ~(e[1] = "do" /\ Opens(e[2]))
  <2>1. Closing(<<e>>) = {}
    BY <1>1, <1>3 DEF Closing
  <2> QED
    BY <1>1, <1>3, <2>1, FS_EmptySet
<1> QED
  BY <1>2, <1>3

LEMMA ClosingTail ==
  ASSUME NEW s \in Todos, s # <<>>
  PROVE  /\ Head(s) \in {"visit", "do"} \X Nodes /\ Tail(s) \in Todos
         /\ Cardinality(Closing(s)) =
              Cardinality(Closing(<<Head(s)>>)) + Cardinality(Closing(Tail(s)))
<1>1. Head(s) \in {"visit", "do"} \X Nodes /\ Tail(s) \in Todos
  BY HeadTailProperties DEF Todos
<1>2. s = <<Head(s)>> \o Tail(s)
  <2>1. <<Head(s)>> \in Todos
    BY <1>1, ClosingOne
  <2> QED
    BY <1>1, <2>1 DEF Todos
<1>3. <<Head(s)>> \in Todos
  BY <1>1, ClosingOne
<1> QED
  BY <1>1, <1>2, <1>3, ClosingConcat

(* What exct() does below a node: what it opens there it closes there, but *)
(* for the node itself.                                                    *)
LEMMA BelowFacts ==
  ASSUME NEW n \in Nodes
  PROVE  /\ Below(n) \in Todos /\ Len(Below(n)) = Len(Code[n].kids) + 1
         /\ Len(Code[n].kids) \in Nat
         /\ \A i \in 1 .. Len(Code[n].kids) :
              Below(n)[i] = <<"visit", Code[n].kids[i]>> /\ Code[n].kids[i] \in KidsOf(n)
         /\ Below(n)[Len(Code[n].kids) + 1] = <<"do", n>>
         /\ Cardinality(Closing(Below(n))) = IF Opens(n) THEN 1 ELSE 0
<1> DEFINE kids == Code[n].kids
           e == <<"do", n>>
           down == [i \in DOMAIN kids |-> <<"visit", kids[i]>>]
<1>1. kids \in Seq(Nodes)
  <2>1. kids \in Seq(1 .. n - 1)
    BY CodeAssumption
  <2>2. 1 .. n - 1 \subseteq Nodes
    BY NodesFacts
  <2> HIDE DEF kids
  <2>3. DOMAIN kids = 1 .. Len(kids) /\ Len(kids) \in Nat
    BY <2>1, LenProperties
  <2>4. \A i \in 1 .. Len(kids) : kids[i] \in Nodes
    BY <2>1, <2>2, <2>3, ElementOfSeq
  <2> QED
    BY <2>1, <2>3, <2>4
<1> HIDE DEF kids
<1>2. DOMAIN kids = 1 .. Len(kids) /\ Len(kids) \in Nat /\ \A i \in 1 .. Len(kids) : kids[i] \in Nodes
  BY <1>1, LenProperties, ElementOfSeq
<1>3. down \in [1 .. Len(kids) -> {"visit", "do"} \X Nodes]
  BY <1>2
<1>4. down \in Todos
  BY <1>2, <1>3, IsASeq DEF Todos
<1>5. DOMAIN down = 1 .. Len(kids) /\ \A i \in 1 .. Len(kids) : down[i] = <<"visit", kids[i]>>
  BY <1>2
<1>6. Below(n) = down \o <<e>>
  BY DEF Below, kids
<1> HIDE DEF down
<1>7. Len(down) = Len(kids)
  BY <1>2, <1>4, <1>5, LenProperties DEF Todos
<1>8. e \in {"visit", "do"} \X Nodes /\ e[1] = "do" /\ e[2] = n
  OBVIOUS
<1> HIDE DEF e
<1>9. <<e>> \in Todos /\ Cardinality(Closing(<<e>>)) = IF Opens(n) THEN 1 ELSE 0
  BY <1>8, ClosingOne
<1>10. Cardinality(Closing(down)) = 0
  <2>1. Closing(down) = {}
    BY <1>5 DEF Closing
  <2> QED
    BY <1>4, <2>1, MarksFacts
<1>11. Below(n) \in Todos /\ Cardinality(Closing(Below(n))) = IF Opens(n) THEN 1 ELSE 0
  BY <1>4, <1>6, <1>9, <1>10, ClosingConcat
<1>12. /\ Len(Below(n)) = Len(kids) + 1
       /\ \A i \in 1 .. Len(kids) : Below(n)[i] = down[i]
       /\ Below(n)[Len(kids) + 1] = e
  <2>1. /\ Len(down \o <<e>>) = Len(down) + Len(<<e>>) /\ Len(<<e>>) = 1 /\ <<e>>[1] = e
        /\ \A i \in 1 .. Len(down) + Len(<<e>>) :
             (down \o <<e>>)[i] = IF i <= Len(down) THEN down[i] ELSE <<e>>[i - Len(down)]
    BY <1>4, <1>9, ConcatProperties DEF Todos
  <2> QED
    BY <1>2, <1>6, <1>7, <2>1
<1>13. \A i \in 1 .. Len(kids) : kids[i] \in KidsOf(n)
  BY <1>2 DEF KidsOf, kids
<1> QED
  BY <1>2, <1>5, <1>11, <1>12, <1>13 DEF kids, e

LEMMA TailFacts ==
  ASSUME NEW s \in Todos, s # <<>>
  PROVE  /\ DOMAIN s = 1 .. Len(s) /\ Len(s) \in Nat /\ 1 \in DOMAIN s /\ s[1] = Head(s)
         /\ Tail(s) \in Todos /\ DOMAIN Tail(s) = 1 .. Len(s) - 1 /\ Len(Tail(s)) = Len(s) - 1
         /\ \A i \in 1 .. Len(s) - 1 : Tail(s)[i] = s[i + 1]
         /\ \A i \in 2 .. Len(s) : s[i] = Tail(s)[i - 1]
<1>1. DOMAIN s = 1 .. Len(s) /\ Len(s) \in Nat /\ Len(s) # 0
  BY LenProperties, EmptySeq DEF Todos
<1>2. /\ Tail(s) \in Todos /\ Len(Tail(s)) = Len(s) - 1
      /\ \A i \in 1 .. Len(Tail(s)) : Tail(s)[i] = s[i + 1]
      /\ Head(s) = s[1]
  BY HeadTailProperties DEF Todos
<1>3. DOMAIN Tail(s) = 1 .. Len(s) - 1
  BY <1>2, LenProperties DEF Todos
<1>4. \A i \in 2 .. Len(s) : i - 1 \in 1 .. Len(s) - 1 /\ (i - 1) + 1 = i
  BY <1>1
<1> QED
  BY <1>1, <1>2, <1>3, <1>4

LEMMA EnclosedTail ==
  ASSUME NEW s \in Todos, s # <<>>, Enclosed(s)
  PROVE  /\ Enclosed(Tail(s))
         /\ KindOf(Head(s)[2]) = "elem" => Closing(Tail(s)) # {}
<1>1. /\ DOMAIN s = 1 .. Len(s) /\ Len(s) \in Nat /\ 1 \in DOMAIN s /\ s[1] = Head(s)
      /\ DOMAIN Tail(s) = 1 .. Len(s) - 1
      /\ \A i \in 1 .. Len(s) - 1 : Tail(s)[i] = s[i + 1]
      /\ \A i \in 2 .. Len(s) : s[i] = Tail(s)[i - 1]
  BY TailFacts
<1>2. ASSUME NEW i \in DOMAIN s, NEW j \in Closing(s), i < j
      PROVE  j - 1 \in Closing(Tail(s)) /\ i - 1 < j - 1
  <2>1. j \in 2 .. Len(s) /\ s[j][1] = "do" /\ Opens(s[j][2])
    BY <1>1, <1>2 DEF Closing
  <2>2. s[j] = Tail(s)[j - 1] /\ j - 1 \in DOMAIN Tail(s)
    BY <1>1, <2>1
  <2> QED
    BY <1>1, <1>2, <2>1, <2>2 DEF Closing
<1>3. ASSUME NEW i \in DOMAIN Tail(s), KindOf(Tail(s)[i][2]) = "elem"
      PROVE  \E j \in Closing(Tail(s)) : i < j
  <2>1. i + 1 \in DOMAIN s /\ s[i + 1] = Tail(s)[i]
    BY <1>1
  <2>2. PICK j \in Closing(s) : i + 1 < j
    BY <1>3, <2>1 DEF Enclosed
  <2>3. j - 1 \in Closing(Tail(s)) /\ i + 1 - 1 < j - 1
    BY <1>2, <2>1, <2>2
  <2> QED
    BY <1>1, <2>3
<1>4. KindOf(Head(s)[2]) = "elem" => Closing(Tail(s)) # {}
  BY <1>1, <1>2 DEF Enclosed
<1> QED
  BY <1>3, <1>4 DEF Enclosed

LEMMA EnclosedBelow ==
  ASSUME NEW s \in Todos, s # <<>>, Enclosed(s), NEW n \in Nodes, Head(s)[2] = n
  PROVE  Enclosed(Below(n) \o Tail(s))
<1>1. PICK b, t, u, k : /\ b = Below(n) /\ t = Tail(s) /\ u = Below(n) \o Tail(s)
                        /\ k = Len(Code[n].kids)
  OBVIOUS
<1>2. /\ b \in Todos /\ Len(b) = k + 1 /\ k \in Nat
      /\ \A i \in 1 .. k : b[i][2] \in KidsOf(n)
      /\ b[k + 1] = <<"do", n>>
  <2>1. PICK kids : kids = Code[n].kids
    OBVIOUS
  <2>2. /\ b \in Todos /\ Len(b) = Len(kids) + 1 /\ Len(kids) \in Nat
        /\ \A i \in 1 .. Len(kids) : b[i] = <<"visit", kids[i]>> /\ kids[i] \in KidsOf(n)
        /\ b[Len(kids) + 1] = <<"do", n>>
    BY <1>1, <2>1, BelowFacts
  <2>3. k = Len(kids)
    BY <1>1, <2>1
  <2>4. ASSUME NEW i \in 1 .. k PROVE b[i][2] \in KidsOf(n)
    <3>1. b[i] = <<"visit", kids[i]>> /\ kids[i] \in KidsOf(n)
      BY <2>2, <2>3
    <3> QED
      BY <3>1
  <2> QED
    BY <2>2, <2>3, <2>4
<1>3. t \in Todos /\ Enclosed(t) /\ (KindOf(n) = "elem" => Closing(t) # {})
  BY <1>1, EnclosedTail, TailFacts
<1>4. /\ u \in Todos /\ Len(u) = k + 1 + Len(t) /\ Len(t) \in Nat
      /\ \A i \in 1 .. k + 1 : u[i] = b[i]
      /\ \A i \in 1 .. Len(t) : u[k + 1 + i] = t[i]
      /\ DOMAIN u = 1 .. k + 1 + Len(t) /\ DOMAIN t = 1 .. Len(t)
  <2>1. /\ b \o t \in Todos /\ Len(b \o t) = Len(b) + Len(t)
        /\ \A i \in 1 .. Len(b) + Len(t) : (b \o t)[i] = IF i <= Len(b) THEN b[i] ELSE t[i - Len(b)]
    BY <1>2, <1>3, ConcatProperties DEF Todos
  <2>2. u = b \o t
    BY <1>1
  <2>3. Len(t) \in Nat /\ DOMAIN t = 1 .. Len(t) /\ DOMAIN u = 1 .. Len(u)
    BY <1>3, <2>1, <2>2, LenProperties DEF Todos
  <2>4. \A i \in 1 .. k + 1 : u[i] = b[i]
    BY <1>2, <2>1, <2>2, <2>3
  <2>5. ASSUME NEW i \in 1 .. Len(t) PROVE u[k + 1 + i] = t[i]
    <3>1. PICK q \in 1 .. Len(b) + Len(t) : q = k + 1 + i /\ ~(q <= Len(b)) /\ q - Len(b) = i
      BY <1>2, <2>3
    <3>2. u[q] = t[q - Len(b)]
      BY <2>1, <2>2, <3>1
    <3> QED
      BY <3>1, <3>2
  <2> QED
    BY <1>2, <2>1, <2>2, <2>3, <2>4, <2>5
<1>5. \A j \in Closing(t) : k + 1 + j \in Closing(u)
  BY <1>2, <1>4 DEF Closing
<1>6. ASSUME NEW i \in 1 .. k + 1, KindOf(u[i][2]) = "elem"
      PROVE  \E j \in Closing(u) : i < j
  <2>1. CASE KindOf(n) = "elem"
    <3>1. PICK j \in Closing(t) : TRUE
      BY <1>3, <2>1
    <3>2. j \in Nat /\ j > 0
      BY <1>4 DEF Closing
    <3>3. k + 1 + j \in Closing(u) /\ i < k + 1 + j
      BY <1>2, <1>5, <3>2
    <3> QED
      BY <3>3
  <2>2. CASE KindOf(n) # "elem"
    <3>1. i # k + 1
      BY <1>2, <1>4, <1>6, <2>2
    <3>2. i \in 1 .. k /\ u[i][2] \in KidsOf(n)
      BY <1>2, <1>4, <3>1
    <3>3. Opens(n)
      BY <1>6, <2>2, <3>2, GrammarAssumption DEF Opens
    <3>4. k + 1 \in DOMAIN u /\ u[k + 1] = <<"do", n>>
      BY <1>2, <1>4
    <3>5. k + 1 \in Closing(u) /\ i < k + 1
      BY <1>2, <3>2, <3>3, <3>4 DEF Closing
    <3> QED
      BY <3>5
  <2> QED
    BY <2>1, <2>2
<1>7. ASSUME NEW i \in 1 .. Len(t), KindOf(u[k + 1 + i][2]) = "elem"
      PROVE  \E j \in Closing(u) : k + 1 + i < j
  <2>1. PICK j \in Closing(t) : i < j
    BY <1>3, <1>4, <1>7 DEF Enclosed
  <2>2. j \in Nat
    BY <1>4 DEF Closing
  <2>3. k + 1 + j \in Closing(u) /\ k + 1 + i < k + 1 + j
    BY <1>2, <1>5, <2>1, <2>2
  <2> QED
    BY <2>3
<1>8. ASSUME NEW i \in DOMAIN u, KindOf(u[i][2]) = "elem"
      PROVE  \E j \in Closing(u) : i < j
  <2>1. CASE i \in 1 .. k + 1
    BY <1>6, <1>8, <2>1
  <2>2. CASE i \notin 1 .. k + 1
    <3>1. PICK p \in 1 .. Len(t) : i = k + 1 + p
      <4>1. i - (k + 1) \in 1 .. Len(t) /\ i = k + 1 + (i - (k + 1))
        BY <1>2, <1>4, <2>2
      <4> QED
        BY <4>1
    <3> QED
      BY <1>7, <1>8, <3>1
  <2> QED
    BY <2>1, <2>2
<1> QED
  BY <1>1, <1>8 DEF Enclosed

(* The stack itself, whatever its items are.                               *)
LEMMA StackFacts ==
  ASSUME NEW st, \E S : st \in Seq(S)
  PROVE  /\ Len(st) \in Nat /\ (Len(st) > 0 <=> st # <<>>)
         /\ Len(Append(st, <<>>)) = Len(st) + 1 /\ \E S : Append(st, <<>>) \in Seq(S)
         /\ st # <<>> => Len(Front(st)) = Len(st) - 1 /\ \E S : Front(st) \in Seq(S)
         /\ \A v : LET su == [st EXCEPT ![Len(st)] = Append(@, v)]
                   IN  Len(su) = Len(st) /\ \E S : su \in Seq(S)
<1>1. PICK S : st \in Seq(S)
  OBVIOUS
<1>2. DOMAIN st = 1 .. Len(st) /\ Len(st) \in Nat /\ (Len(st) > 0 <=> st # <<>>)
  BY <1>1, LenProperties, EmptySeq
<1>3. Len(Append(st, <<>>)) = Len(st) + 1 /\ \E T : Append(st, <<>>) \in Seq(T)
  <2>1. PICK T : T = S \cup {<<>>}
    OBVIOUS
  <2>2. st \in Seq(T) /\ <<>> \in T
    <3>1. \A i \in 1 .. Len(st) : st[i] \in T
      BY <1>1, <2>1, ElementOfSeq
    <3> QED
      BY <1>1, <1>2, <2>1, <3>1
  <2> QED
    BY <2>2, AppendProperties
<1>4. st # <<>> => Len(Front(st)) = Len(st) - 1 /\ \E T : Front(st) \in Seq(T)
  BY <1>1, LastOf
<1>5. ASSUME NEW v, NEW su, su = [st EXCEPT ![Len(st)] = Append(@, v)]
      PROVE  Len(su) = Len(st) /\ \E T : su \in Seq(T)
  <2>1. PICK T : T = {su[i] : i \in 1 .. Len(st)}
    OBVIOUS
  <2>2. DOMAIN su = 1 .. Len(st) /\ su = [i \in DOMAIN st |-> su[i]]
    BY <1>2, <1>5
  <2>3. su \in [1 .. Len(st) -> T]
    BY <1>2, <2>1, <2>2
  <2>4. su \in Seq(T)
    BY <1>2, <2>3, IsASeq
  <2>5. Len(su) = Len(st)
    BY <1>2, <2>2, <2>4, LenProperties
  <2> QED
    BY <2>4, <2>5
<1> QED
  BY <1>2, <1>3, <1>4, <1>5

(* exct() of a node itself, in any of its kinds.                           *)
LEMMA DoFacts ==
  ASSUME ListsInv, todo # <<>>, NEW n, NEW k, At(n, k)
  PROVE  /\ n \in Nodes /\ KindOf(n) \in k
         /\ todo' \in Todos /\ Enclosed(todo') /\ script' = script /\ left' = left
         /\ Cardinality(Closing(todo')) \in Nat
         /\ Cardinality(Closing(todo)) =
              (IF Opens(n) THEN 1 ELSE 0) + Cardinality(Closing(todo'))
         /\ Opens(n) \/ KindOf(n) = "elem" => stack # <<>>
<1>1. todo \in Todos /\ todo # <<>> /\ Enclosed(todo)
  BY DEF ListsInv, ControlTypes, Todos
<1>2. /\ Head(todo) = <<"do", n>> /\ KindOf(n) \in k /\ todo' = Tail(todo)
      /\ script' = script /\ left' = left
  BY DEF At
<1>3. /\ Head(todo) \in {"visit", "do"} \X Nodes /\ todo' \in Todos
      /\ Cardinality(Closing(todo)) =
           Cardinality(Closing(<<Head(todo)>>)) + Cardinality(Closing(todo'))
  BY <1>1, <1>2, ClosingTail
<1>4. n \in Nodes
  BY <1>2, <1>3
<1>5. Cardinality(Closing(<<Head(todo)>>)) = IF Opens(n) THEN 1 ELSE 0
  <2>1. PICK e \in {"visit", "do"} \X Nodes : e = Head(todo) /\ e[1] = "do" /\ e[2] = n
    <3>1. PICK e \in {"visit", "do"} \X Nodes : e = Head(todo)
      BY <1>3
    <3>2. e = <<"do", n>>
      BY <1>2, <3>1
    <3>3. e[1] = "do" /\ e[2] = n
      BY <3>2
    <3> QED
      BY <3>1, <3>3
  <2>2. Cardinality(Closing(<<e>>)) = IF e[1] = "do" /\ Opens(e[2]) THEN 1 ELSE 0
    BY ClosingOne
  <2> QED
    BY <2>1, <2>2
<1>6. Enclosed(todo') /\ (KindOf(n) = "elem" => Closing(todo') # {})
  BY <1>1, <1>2, EnclosedTail
<1>7. Cardinality(Closing(todo')) \in Nat /\ (Closing(todo') # {} => Cardinality(Closing(todo')) # 0)
  BY <1>3, MarksFacts
<1>8. Opens(n) \/ KindOf(n) = "elem" => stack # <<>>
  <2>1. SUFFICES ASSUME Opens(n) \/ KindOf(n) = "elem" PROVE Len(stack) > 0
    BY StackFacts DEF ListsInv
  <2>2. Cardinality(Closing(todo)) > 0
    BY <1>3, <1>5, <1>6, <1>7, <2>1
  <2>3. Refused \in Nat /\ Len(stack) = Refused + Cardinality(Closing(todo))
    BY BoundsAssumption DEF Refused, ListsInv, ControlTypes
  <2>4. Cardinality(Closing(todo)) \in Nat
    BY <1>1, MarksFacts
  <2> QED
    BY <2>2, <2>3, <2>4
<1> QED
  BY <1>2, <1>3, <1>4, <1>5, <1>6, <1>7, <1>8

LEMMA DoLists ==
  ASSUME ListsInv, todo # <<>>, NEW n, NEW k, At(n, k), crashed' = crashed,
         list_count' \in Nat, \E S : stack' \in Seq(S), Len(stack') \in Nat,
         Len(stack') + (IF Opens(n) THEN 1 ELSE 0) + Refused = Len(stack) + Refused'
  PROVE  ListsInv'
<1>1. /\ n \in Nodes /\ KindOf(n) \in k
      /\ todo' \in Todos /\ Enclosed(todo') /\ script' = script /\ left' = left
      /\ Cardinality(Closing(todo')) \in Nat
      /\ Cardinality(Closing(todo)) =
           (IF Opens(n) THEN 1 ELSE 0) + Cardinality(Closing(todo'))
  BY DoFacts
<1>2. ControlTypes'
  BY <1>1 DEF ListsInv, ControlTypes, Todos
<1>3. /\ Refused \in Nat /\ Refused' \in Nat /\ Len(stack) \in Nat
      /\ Len(stack) = Refused + Cardinality(Closing(todo))
  <2>1. Refused \in Nat
    BY BoundsAssumption DEF Refused, ListsInv, ControlTypes
  <2>2. Refused' \in Nat
    BY BoundsAssumption DEF Refused
  <2>3. Len(stack) \in Nat
    BY StackFacts DEF ListsInv
  <2> QED
    BY <2>1, <2>2, <2>3 DEF ListsInv
<1>4. Len(stack') = Refused' + Cardinality(Closing(todo'))
  <2>1. PICK e \in Nat : e = IF Opens(n) THEN 1 ELSE 0
    OBVIOUS
  <2>2. \A a, b, c, d, f \in Nat :
          /\ f + e + c = b + d
          /\ b = c + (e + a)
          => f = d + a
    BY <2>1
  <2>3. /\ Len(stack') + e + Refused = Len(stack) + Refused'
        /\ Len(stack) = Refused + (e + Cardinality(Closing(todo')))
    BY <1>1, <1>3, <2>1
  <2>4. PICK a, b, c, d, f \in Nat : /\ a = Cardinality(Closing(todo')) /\ b = Len(stack)
                                      /\ c = Refused /\ d = Refused' /\ f = Len(stack')
    BY <1>1, <1>3
  <2>5. f + e + c = b + d /\ b = c + (e + a)
    BY <2>3, <2>4
  <2>6. f = d + a
    BY <2>2, <2>5
  <2> QED
    BY <2>4, <2>6
<1> QED
  BY <1>1, <1>2, <1>4 DEF ListsInv

LEMMA SameLists ==
  ASSUME ListsInv, todo # <<>>, NEW n, NEW k, At(n, k), ~Opens(n), crashed' = crashed,
         list_count' = list_count, stack' = stack
  PROVE  ListsInv'
<1>1. /\ \E S : stack' \in Seq(S) /\ Len(stack') \in Nat
      /\ list_count' \in Nat
  <2>1. PICK S : stack \in Seq(S)
    BY DEF ListsInv
  <2>2. Len(stack) \in Nat /\ list_count \in Nat
    BY <2>1, LenProperties DEF ListsInv, ControlTypes
  <2> QED
    BY <2>1, <2>2
<1>2. Refused' = Refused /\ Refused \in Nat
  BY BoundsAssumption DEF Refused, ListsInv, ControlTypes
<1>3. Len(stack') + (IF Opens(n) THEN 1 ELSE 0) + Refused = Len(stack) + Refused'
  BY <1>1, <1>2
<1> QED
  BY <1>1, <1>3, DoLists

LEMMA PopLists ==
  ASSUME ListsInv, todo # <<>>, NEW n, NEW k, At(n, k), Opens(n), crashed' = crashed,
         list_count' \in Nat, Refused' = Refused, stack' = StackPopped(stack)
  PROVE  ListsInv'
<1>1. stack # <<>>
  BY DoFacts
<1>2. PICK st : st = stack
  OBVIOUS
<1>3. /\ Len(st) \in Nat /\ (Len(st) > 0 <=> st # <<>>)
      /\ st # <<>> => Len(Front(st)) = Len(st) - 1 /\ \E S : Front(st) \in Seq(S)
  BY <1>2, StackFacts DEF ListsInv
<1>4. Len(stack') = Len(stack) - 1 /\ Len(stack) \in Nat /\ Len(stack') \in Nat
  BY <1>1, <1>2, <1>3 DEF StackPopped
<1>5. \E S : stack' \in Seq(S)
  BY <1>1, <1>2, <1>3 DEF StackPopped
<1>6. Refused \in Nat
  BY BoundsAssumption DEF Refused, ListsInv, ControlTypes
<1>7. Len(stack') + (IF Opens(n) THEN 1 ELSE 0) + Refused = Len(stack) + Refused'
  BY <1>4, <1>6
<1> QED
  BY <1>4, <1>5, <1>7, DoLists

(* The way into a node.                                                    *)
LEMMA VisitLists ==
  ASSUME ListsInv, todo # <<>>, NEW n, Head(todo) = <<"visit", n>>,
         todo' = Below(n) \o Tail(todo), UNCHANGED <<list_count, script, left, crashed>>,
         \E S : stack' \in Seq(S), Len(stack') = Len(stack) + IF Opens(n) THEN 1 ELSE 0
  PROVE  ListsInv'
<1>1. todo \in Todos /\ Enclosed(todo)
  BY DEF ListsInv, ControlTypes, Todos
<1>2. PICK e \in {"visit", "do"} \X Nodes :
        /\ e = Head(todo) /\ e[1] = "visit" /\ e[2] = n /\ n \in Nodes
  <2>1. PICK e \in {"visit", "do"} \X Nodes : e = Head(todo)
    BY <1>1, ClosingTail
  <2>2. e = <<"visit", n>>
    BY <2>1
  <2>3. e[1] = "visit" /\ e[2] = n /\ n \in Nodes
    BY <2>2
  <2> QED
    BY <2>1, <2>3
<1>3. /\ Tail(todo) \in Todos
      /\ Cardinality(Closing(todo)) = Cardinality(Closing(<<e>>)) + Cardinality(Closing(Tail(todo)))
  BY <1>1, <1>2, ClosingTail
<1>4. Cardinality(Closing(<<e>>)) = 0
  BY <1>2, ClosingOne
<1>5. /\ Below(n) \in Todos
      /\ Cardinality(Closing(Below(n))) = IF Opens(n) THEN 1 ELSE 0
  BY <1>2, BelowFacts
<1>6. /\ todo' \in Todos
      /\ Cardinality(Closing(todo')) =
           Cardinality(Closing(Below(n))) + Cardinality(Closing(Tail(todo)))
  BY <1>3, <1>5, ClosingConcat
<1>7. Enclosed(todo')
  <2>1. Head(todo)[2] = n
    BY <1>2
  <2> QED
    BY <1>1, <1>2, <2>1, EnclosedBelow
<1>8. ControlTypes'
  BY <1>6 DEF ListsInv, ControlTypes, Todos
<1>9. Refused' = Refused /\ Refused \in Nat
  <2>1. list_count \in Nat /\ MAX_LISTS \in Nat
    BY BoundsAssumption DEF ListsInv, ControlTypes
  <2> QED
    BY <2>1 DEF Refused
<1>10. Len(stack') = Refused' + Cardinality(Closing(todo'))
  <2>1. Cardinality(Closing(Tail(todo))) \in Nat
    BY <1>3, MarksFacts
  <2>2. Len(stack) = Refused + Cardinality(Closing(todo))
    BY DEF ListsInv
  <2>3. Len(stack') = Len(stack) + IF Opens(n) THEN 1 ELSE 0
    OBVIOUS
  <2> QED
    BY <1>3, <1>4, <1>5, <1>6, <1>9, <2>1, <2>2, <2>3
<1> QED
  BY <1>7, <1>8, <1>10 DEF ListsInv

(* Where there is no statement to do, or it is not gone on with.           *)
LEMMA FrameLists ==
  ASSUME ListsInv, UNCHANGED <<stack, list_count, todo>>,
         left' \in 0 .. MaxStatements, script' \in {"none", "running"}, crashed' \in BOOLEAN
  PROVE  ListsInv'
<1>1. ControlTypes'
  BY DEF ListsInv, ControlTypes
<1>2. Refused' = Refused /\ Closing(todo)' = Closing(todo) /\ Enclosed(todo)' = Enclosed(todo)
  BY DEF Refused, Closing, Enclosed
<1> QED
  BY <1>1, <1>2 DEF ListsInv

LEMMA ListsInit ==
  ASSUME Init
  PROVE  ListsInv
<1>1. PICK s : s = <<>> /\ todo = s /\ stack = s
  BY DEF Init
<1>2. s \in Todos /\ DOMAIN s = {} /\ Len(s) = 0 /\ s \in Seq({})
  BY <1>1 DEF Todos
<1>3. Closing(s) = {} /\ Enclosed(s)
  BY <1>2 DEF Closing, Enclosed
<1>4. Cardinality(Closing(s)) = 0
  BY <1>3, FS_EmptySet
<1>5. Refused = 0
  <2>1. list_count = 0
    BY DEF Init
  <2>2. MAX_LISTS \in Nat
    BY BoundsAssumption
  <2> QED
    BY <2>1, <2>2 DEF Refused
<1>6. ControlTypes
  <2>1. todo \in Seq({"visit", "do"} \X Nodes)
    BY <1>1, <1>2 DEF Todos
  <2>2. list_count = 0 /\ left = MaxStatements /\ script = "none" /\ crashed = FALSE
    BY DEF Init
  <2>3. MaxStatements \in Nat
    BY BoundsAssumption
  <2>4. list_count \in Nat /\ left \in 0 .. MaxStatements
    BY <2>2, <2>3
  <2>5. script \in {"none", "running"} /\ crashed \in BOOLEAN
    BY <2>2
  <2> QED
    BY <2>1, <2>4, <2>5 DEF ControlTypes
<1> QED
  BY <1>1, <1>2, <1>3, <1>4, <1>5, <1>6 DEF ListsInv

LEMMA ListsStep ==
  ASSUME ListsInv, [Next]_vars
  PROVE  ListsInv'
<1> USE DEF memory, holders, control
<1>0. /\ list_count \in Nat /\ left \in 0 .. MaxStatements /\ script \in {"none", "running"}
      /\ crashed \in BOOLEAN /\ todo \in Todos
  BY DEF ListsInv, ControlTypes, Todos
<1>1. CASE UNCHANGED vars
  BY <1>0, <1>1, FrameLists DEF vars
<1>2. CASE BeginScript
  BY <1>0, <1>2, FrameLists DEF BeginScript
<1>3. CASE EndScript
  BY <1>0, <1>3, FrameLists DEF EndScript
<1>4. CASE ParseError
  BY <1>0, <1>4, FrameLists DEF ParseError
<1>5. CASE Crash
  BY <1>0, <1>5, FrameLists DEF Crash
<1>6. CASE \E i \in DOMAIN notes : EndNote(i)
  BY <1>0, <1>6, FrameLists DEF EndNote
<1>7. ASSUME NEW n \in Statements, BeginStatement(n) PROVE ListsInv'
  <2>1. /\ todo = <<>> /\ left > 0 /\ left' = left - 1
        /\ UNCHANGED <<stack, list_count, script, crashed>>
    BY <1>7 DEF BeginStatement
  <2>2. n \in Nodes /\ KindOf(n) # "elem"
    BY CodeAssumption
  <2>3. PICK e \in {"visit", "do"} \X Nodes :
          e[1] = "visit" /\ e[2] = n /\ todo' = <<e>>
    <3>1. <<"visit", n>> \in {"visit", "do"} \X Nodes
      BY <2>2
    <3>2. todo' = <<<<"visit", n>>>>
      BY <1>7 DEF BeginStatement
    <3> QED
      BY <3>1, <3>2
  <2>4. <<e>> \in Todos /\ Cardinality(Closing(<<e>>)) = 0
    BY <2>3, ClosingOne
  <2>5. Enclosed(<<e>>)
    <3>1. DOMAIN <<e>> = {1} /\ <<e>>[1] = e
      OBVIOUS
    <3> QED
      BY <2>2, <2>3, <3>1 DEF Enclosed
  <2>6. Cardinality(Closing(todo)) = 0
    <3>1. Closing(todo) = {}
      <4>1. DOMAIN todo = {}
        BY <2>1
      <4> QED
        BY <4>1 DEF Closing
    <3> QED
      BY <3>1, FS_EmptySet
  <2>7. ControlTypes'
    <3>1. left' \in 0 .. MaxStatements
      BY <1>0, <2>1, BoundsAssumption
    <3>2. todo' \in Todos
      BY <2>3, <2>4
    <3> QED
      BY <1>0, <2>1, <3>1, <3>2 DEF ControlTypes, Todos
  <2>8. Refused' = Refused /\ Refused \in Nat
    BY <1>0, <2>1, BoundsAssumption DEF Refused
  <2>9. Len(stack') = Refused' + Cardinality(Closing(todo'))
    BY <2>1, <2>3, <2>4, <2>6, <2>8 DEF ListsInv
  <2>10. Enclosed(todo')
    BY <2>3, <2>5
  <2>11. \E S : stack' \in Seq(S)
    BY <2>1 DEF ListsInv
  <2> QED
    BY <2>7, <2>9, <2>10, <2>11 DEF ListsInv
<1>8. ASSUME todo # <<>>, NEW n, Visit(n) PROVE ListsInv'
  <2>1. CASE Descend(n)
    <3>1. /\ Head(todo) = <<"visit", n>> /\ todo' = Below(n) \o Tail(todo)
          /\ UNCHANGED <<stack, list_count, script, left, crashed>> /\ ~Opens(n)
      BY <2>1 DEF Descend, Opens
    <3>2. Len(stack') = Len(stack) + IF Opens(n) THEN 1 ELSE 0
      <4>1. Len(stack) \in Nat
        BY StackFacts DEF ListsInv
      <4> QED
        BY <3>1, <4>1
    <3>3. \E S : stack' \in Seq(S)
      BY <3>1 DEF ListsInv
    <3> QED
      BY <1>8, <3>1, <3>2, <3>3, VisitLists
  <2>2. CASE PushList(n)
    <3>1. /\ Head(todo) = <<"visit", n>> /\ todo' = Below(n) \o Tail(todo)
          /\ UNCHANGED <<list_count, script, left, crashed>> /\ Opens(n)
          /\ stack' = Append(stack, <<>>)
      BY <2>2 DEF PushList, Opens
    <3>2. Len(stack') = Len(stack) + 1 /\ \E S : stack' \in Seq(S)
      BY <3>1, StackFacts DEF ListsInv
    <3> QED
      BY <1>8, <3>1, <3>2, VisitLists
  <2>3. CASE Constant(n)
    BY <1>8, <2>3, SameLists, DoFacts DEF Constant, Opens
  <2>4. CASE Name(n)
    BY <1>8, <2>4, SameLists, DoFacts DEF Name, Opens
  <2>5. CASE ListElem(n)
    <3>1. At(n, {"elem"}) /\ UNCHANGED <<list_count, crashed>>
      BY <2>5 DEF ListElem
    <3>2. ~Opens(n) /\ stack # <<>>
      BY <1>8, <3>1, DoFacts DEF Opens
    <3>3. PICK v : stack' = [stack EXCEPT ![Len(stack)] = Append(@, v)]
      BY <2>5 DEF ListElem
    <3>4. Len(stack') = Len(stack) /\ \E S : stack' \in Seq(S)
      BY <3>3, StackFacts DEF ListsInv
    <3>5. Len(stack) \in Nat /\ Refused' = Refused /\ Refused \in Nat
      BY <1>0, <3>1, StackFacts, BoundsAssumption DEF ListsInv, Refused
    <3>6. Len(stack') + (IF Opens(n) THEN 1 ELSE 0) + Refused = Len(stack) + Refused'
      BY <3>2, <3>4, <3>5
    <3>7. list_count' \in Nat /\ Len(stack') \in Nat
      BY <1>0, <3>1, <3>4, <3>5
    <3> QED
      BY <1>8, <3>1, <3>4, <3>6, <3>7, DoLists
  <2>6. CASE RefuseList(n)
    <3>1. /\ At(n, {"list"}) /\ crashed' = crashed /\ stack' = stack
          /\ list_count >= MAX_LISTS /\ list_count' = list_count + 1
      BY <2>6 DEF RefuseList
    <3>2. Opens(n)
      BY <1>8, <3>1, DoFacts DEF Opens
    <3>3. Refused' = Refused + 1 /\ Refused \in Nat /\ list_count' \in Nat
      BY <1>0, <3>1, BoundsAssumption DEF Refused
    <3>4. Len(stack) \in Nat /\ \E S : stack' \in Seq(S)
      BY <3>1, StackFacts DEF ListsInv
    <3>5. Len(stack') + (IF Opens(n) THEN 1 ELSE 0) + Refused = Len(stack) + Refused'
      BY <3>1, <3>2, <3>3, <3>4
    <3> QED
      BY <1>8, <3>1, <3>3, <3>4, <3>5, DoLists
  <2>7. CASE MakeList(n)
    <3>1. /\ At(n, {"list"}) /\ crashed' = crashed /\ stack' = StackPopped(stack)
          /\ list_count < MAX_LISTS /\ list_count' = list_count + 1
      BY <2>7 DEF MakeList
    <3>2. Opens(n)
      BY <1>8, <3>1, DoFacts DEF Opens
    <3>3. Refused' = Refused /\ list_count' \in Nat
      BY <1>0, <3>1, BoundsAssumption DEF Refused
    <3> QED
      BY <1>8, <3>1, <3>2, <3>3, PopLists
  <2>8. CASE Store(n)
    BY <1>8, <2>8, SameLists, DoFacts DEF Store, Opens
  <2>9. CASE OpAssign(n)
    BY <1>8, <2>9, SameLists, DoFacts DEF OpAssign, Opens
  <2>10. CASE NoItem(n)
    BY <1>8, <2>10, SameLists, DoFacts DEF NoItem, Opens
  <2>11. CASE SubscriptRead(n)
    BY <1>8, <2>11, SameLists, DoFacts DEF SubscriptRead, Opens
  <2>12. CASE SubscriptWrite(n)
    BY <1>8, <2>12, SameLists, DoFacts DEF SubscriptWrite, Opens
  <2>13. CASE OperateNumbers(n)
    BY <1>8, <2>13, SameLists, DoFacts DEF OperateNumbers, Opens
  <2>14. CASE OperateHandles(n)
    BY <1>8, <2>14, SameLists, DoFacts DEF OperateHandles, Opens
  <2>15. CASE OperateList(n)
    BY <1>8, <2>15, SameLists, DoFacts DEF OperateList, Opens
  <2>16. ASSUME At(n, {"call"}), NEW h, NEW v, Returns(n, h, v) PROVE ListsInv'
    <3>1. /\ crashed' = crashed /\ list_count' = list_count
          /\ stack' = StackPopped(stack)
      BY <2>16 DEF Returns
    <3>2. Opens(n)
      BY <1>8, <2>16, DoFacts DEF Opens
    <3>3. Refused' = Refused /\ list_count' \in Nat
      BY <1>0, <3>1 DEF Refused
    <3> QED
      BY <1>8, <2>16, <3>1, <3>2, <3>3, PopLists
  <2>17. CASE Call(n)
    BY <2>16, <2>17 DEF Call
  <2>18. CASE CallTable(n)
    BY <2>16, <2>18 DEF CallTable
  <2>19. CASE CallNote(n)
    BY <2>16, <2>19 DEF CallNote
  <2>20. CASE CallMixed(n)
    BY <2>16, <2>20 DEF CallMixed
  <2> QED
    BY <1>8, <2>1, <2>2, <2>3, <2>4, <2>5, <2>6, <2>7, <2>8, <2>9, <2>10, <2>11, <2>12,
       <2>13, <2>14, <2>15, <2>17, <2>18, <2>19, <2>20 DEF Visit
<1> QED
  BY <1>1, <1>2, <1>3, <1>4, <1>5, <1>6, <1>7, <1>8 DEF Next

(* Whatever a script is made of, every call and every list it is in the    *)
(* middle of has a list on the stack, and a statement that is over leaves   *)
(* none but those check_list_count() refused (trees.c: push_list() and      *)
(* pop_list() match on every way through exct() but that one).              *)
THEOREM SpecListsClosed == Spec => []ListsClosed
<1>1. Init => ListsInv
  BY ListsInit
<1>2. ListsInv /\ [Next]_vars => ListsInv'
  BY ListsStep
<1>3. ListsInv => ListsClosed
  <2> SUFFICES ASSUME ListsInv, todo = <<>> PROVE Len(stack) = Refused
    BY DEF ListsClosed, Refused
  <2>1. Closing(todo) = {}
    <3>1. DOMAIN todo = {}
      OBVIOUS
    <3> QED
      BY <3>1 DEF Closing
  <2>2. Cardinality(Closing(todo)) = 0
    BY <2>1, FS_EmptySet
  <2>3. Refused \in Nat
    BY BoundsAssumption DEF Refused, ListsInv, ControlTypes
  <2> QED
    BY <2>2, <2>3 DEF ListsInv
<1> QED
  BY <1>1, <1>2, <1>3, PTL DEF Spec

-----------------------------------------------------------------------------
(* The steps on the heap.                                                  *)

LEMMA ReleaseOne ==
  ASSUME NEW m, NEW sy, NEW va, NEW st, NEW no, HoldersTyped(m, sy, va, st, no),
         NEW lo \in [Objs -> Nat], NEW v \in Value,
         Sound(m, Plus(Outer(sy, va, st, no, lo), <<v>>)),
         NEW g, g = Unref(m, v)
  PROVE  /\ State(g, sy, va, st, no, lo) /\ FieldsKept(m, g)
         /\ \A o \in Objs : m[o].kind = "free" => g[o].kind = "free"
<1>1. PICK s \in Seq(Value) : s = <<v>>
  <2>1. <<v>> \in Seq(Value)
    OBVIOUS
  <2> QED
    BY <2>1
<1>2. g = UnrefAll(m, s) /\ Sound(m, Plus(Outer(sy, va, st, no, lo), s))
  BY <1>1 DEF Unref
<1> QED
  BY <1>2, Release

(* A counted value becomes that of a node, of a symbol.                    *)
LEMMA AssignVal ==
  ASSUME NEW m, NEW sy, NEW va, NEW st, NEW no, HoldersTyped(m, sy, va, st, no),
         NEW lo \in [Objs -> Nat], NEW n \in Nodes, NEW v, ScriptValue(m, v), Fits(n, v),
         Sound(m, Plus(Outer(sy, va, st, no, lo), <<v>>)),
         NEW vb \in [Nodes -> Value], vb[n] = v, \A k \in Nodes : k # n => vb[k] = va[k],
         NEW g, g = Unref(m, va[n])
  PROVE  /\ State(g, sy, vb, st, no, lo) /\ FieldsKept(m, g)
         /\ \A o \in Objs : m[o].kind = "free" => g[o].kind = "free"
<1>1. /\ HoldersTyped(m, sy, vb, st, no) /\ va[n] \in Value
      /\ Plus(Outer(sy, vb, st, no, lo), <<va[n]>>) = Plus(Outer(sy, va, st, no, lo), <<v>>)
  BY PutVal
<1>2. Sound(m, Plus(Outer(sy, vb, st, no, lo), <<va[n]>>))
  BY <1>1
<1> QED
  BY <1>1, <1>2, ReleaseOne

LEMMA CopyVal ==
  ASSUME NEW h, NEW sy, NEW va, NEW st, NEW no, NEW lo, State(h, sy, va, st, no, lo),
         NEW n \in Nodes, NEW v, ScriptValue(h, v), Fits(n, v),
         NEW vb \in [Nodes -> Value], vb[n] = v, \A k \in Nodes : k # n => vb[k] = va[k],
         NEW g, g = Copy(h, va[n], v)
  PROVE  State(g, sy, vb, st, no, lo) /\ FieldsKept(h, g)
<1>1. PICK m : m = Ref(h, v)
  OBVIOUS
<1>2. /\ HoldersTyped(m, sy, va, st, no) /\ lo \in [Objs -> Nat]
      /\ Sound(m, Plus(Outer(sy, va, st, no, lo), <<v>>))
      /\ \A w : Typed(h, w) => Typed(m, w)
      /\ FieldsKept(h, m)
  BY <1>1, TakeOne DEF ScriptValue
<1>3. ScriptValue(m, v) /\ g = Unref(m, va[n])
  BY <1>1, <1>2 DEF ScriptValue, Copy
<1>4. State(g, sy, vb, st, no, lo) /\ FieldsKept(m, g)
  BY <1>2, <1>3, AssignVal
<1> QED
  BY <1>2, <1>4 DEF FieldsKept

LEMMA CopySymbol ==
  ASSUME NEW h, NEW sy, NEW va, NEW st, NEW no, NEW lo, State(h, sy, va, st, no, lo),
         NEW n \in Symbols, NEW v, ScriptValue(h, v),
         NEW sz \in [Symbols -> Value], sz[n] = v, \A k \in Symbols : k # n => sz[k] = sy[k],
         NEW g, g = Copy(h, sy[n], v)
  PROVE  State(g, sz, va, st, no, lo) /\ FieldsKept(h, g)
<1>1. PICK m : m = Ref(h, v)
  OBVIOUS
<1>2. /\ HoldersTyped(m, sy, va, st, no) /\ lo \in [Objs -> Nat]
      /\ Sound(m, Plus(Outer(sy, va, st, no, lo), <<v>>))
      /\ \A w : Typed(h, w) => Typed(m, w)
      /\ FieldsKept(h, m)
  BY <1>1, TakeOne DEF ScriptValue
<1>3. ScriptValue(m, v) /\ g = Unref(m, sy[n])
  BY <1>1, <1>2 DEF ScriptValue, Copy
<1>4. /\ HoldersTyped(m, sz, va, st, no) /\ sy[n] \in Value
      /\ Plus(Outer(sz, va, st, no, lo), <<sy[n]>>) = Plus(Outer(sy, va, st, no, lo), <<v>>)
  BY <1>2, <1>3, PutSymbol
<1>5. Sound(m, Plus(Outer(sz, va, st, no, lo), <<sy[n]>>))
  BY <1>2, <1>4
<1>6. State(g, sz, va, st, no, lo) /\ FieldsKept(m, g)
  BY <1>2, <1>3, <1>4, <1>5, ReleaseOne
<1> QED
  BY <1>2, <1>6 DEF FieldsKept

(* A number overwrites the value of a node, whose reference is lost.       *)
LEMMA LoseVal ==
  ASSUME NEW m, NEW sy, NEW va, NEW st, NEW no, HoldersTyped(m, sy, va, st, no),
         NEW lo \in [Objs -> Nat], NEW n \in Nodes, NEW v, ScriptValue(m, v), Fits(n, v),
         Sound(m, Plus(Outer(sy, va, st, no, lo), <<v>>)),
         NEW vb \in [Nodes -> Value], vb[n] = v, \A k \in Nodes : k # n => vb[k] = va[k]
  PROVE  State(m, sy, vb, st, no, LoseAll(lo, <<va[n]>>))
<1>1. /\ HoldersTyped(m, sy, vb, st, no) /\ va[n] \in Value
      /\ Plus(Outer(sy, vb, st, no, lo), <<va[n]>>) = Plus(Outer(sy, va, st, no, lo), <<v>>)
  BY PutVal
<1>2. PICK s \in Seq(Value) : s = <<va[n]>>
  <2>1. <<va[n]>> \in Seq(Value)
    BY <1>1
  <2> QED
    BY <2>1
<1>3. IsFiniteSet(DOMAIN s)
  BY SeqDomain
<1>4. /\ LoseAll(lo, s) \in [Objs -> Nat]
      /\ Outer(sy, vb, st, no, LoseAll(lo, s)) = Plus(Outer(sy, vb, st, no, lo), s)
  BY <1>1, <1>3, LoseOuter
<1> QED
  BY <1>1, <1>2, <1>4 DEF State

LEMMA PlusNothing ==
  ASSUME NEW out \in Outs, NEW v, v.o \notin Objs
  PROVE  Plus(out, <<v>>) = out
<1>1. \A o \in Objs : Held(o, <<v>>) = 0
  BY HeldOne
<1>2. \A o \in Objs : out[o] + Held(o, <<v>>) = out[o]
  BY <1>1 DEF Outs
<1> QED
  BY <1>2 DEF Plus, Outs

LEMMA NumFacts ==
  /\ \A h : ScriptValue(h, Num) /\ FieldValue(h, Num) /\ ScriptValue(h, Void)
  /\ \A n : Fits(n, Void) /\ (KindOf(n) # "list" => Fits(n, Num))
  /\ Num.o \notin Objs /\ Void.o \notin Objs
BY ValueFacts, ObjsFacts DEF ScriptValue, FieldValue, Typed, Fits

(* What a step has to keep.                                                *)
HeapStep == HeapInv' /\ FieldsFresh(heap, heap')

LEMMA HeapStepKept ==
  ASSUME HeapInv', FieldsKept(heap, heap')
  PROVE  HeapStep
BY DEF HeapStep, FieldsKept, FieldsFresh

LEMMA HeapStepSame ==
  ASSUME HeapInv, UNCHANGED <<memory, holders>>
  PROVE  HeapStep
<1> USE DEF memory, holders
<1>1. HeapInv'
  BY DEF HeapInv
<1>2. FieldsFresh(heap, heap')
  BY DEF FieldsFresh
<1> QED
  BY <1>1, <1>2 DEF HeapStep

LEMMA HeapFacts ==
  ASSUME HeapInv
  PROVE  /\ HoldersTyped(heap, symbols, val, stack, notes) /\ lost \in [Objs -> Nat]
         /\ Outer(symbols, val, stack, notes, lost) \in Outs
         /\ Sound(heap, Outer(symbols, val, stack, notes, lost))
         /\ heap \in Heaps
         /\ symbols \in [Symbols -> Value] /\ \A s \in Symbols : ScriptValue(heap, symbols[s])
         /\ val \in [Nodes -> Value] /\ \A n \in Nodes : ScriptValue(heap, val[n])
         /\ stack \in Seq(Seq(Value)) /\ notes \in Seq(Seq(Value))
<1>1. /\ HoldersTyped(heap, symbols, val, stack, notes) /\ lost \in [Objs -> Nat]
      /\ Sound(heap, Outer(symbols, val, stack, notes, lost))
  BY DEF HeapInv, State
<1>2. Outer(symbols, val, stack, notes, lost) \in Outs
  BY <1>1, OuterFacts
<1>3. heap \in Heaps
  BY <1>1 DEF Sound, Counted
<1> QED
  BY <1>1, <1>2, <1>3 DEF HoldersTyped

LEMMA KidFacts ==
  ASSUME HeapInv, NEW n \in Nodes, NEW i \in DOMAIN Code[n].kids
  PROVE  Code[n].kids[i] \in Nodes /\ ScriptValue(heap, Kid(n, i)) /\ Kid(n, i) \in Value
<1>1. Code[n].kids \in Seq(1 .. n - 1) /\ n \in 1 .. Len(Code) /\ Len(Code) \in Nat
  BY CodeAssumption
<1>2. Code[n].kids[i] \in 1 .. n - 1
  BY <1>1
<1>3. Code[n].kids[i] \in Nodes
  BY <1>1, <1>2, CodeAssumption
<1> QED
  BY <1>3, HeapFacts DEF Kid

LEMMA KeepHeap ==
  ASSUME HeapInv, NEW n \in Nodes, NEW v, ScriptValue(heap, v), Fits(n, v), Keep(n, v),
         UNCHANGED <<symbols, stack, notes>>
  PROVE  HeapStep
<1>1. v \in Value /\ val \in [Nodes -> Value]
  BY HeapFacts DEF ScriptValue, Typed
<1>2. val' = [val EXCEPT ![n] = v] /\ heap' = Copy(heap, val[n], v)
  BY DEF Keep, Result
<1>3. val' \in [Nodes -> Value] /\ val'[n] = v /\ \A k \in Nodes : k # n => val'[k] = val[k]
  BY <1>1, <1>2
<1>4. State(heap', symbols, val', stack, notes, lost) /\ FieldsKept(heap, heap')
  <2>1. State(heap, symbols, val, stack, notes, lost)
    BY DEF HeapInv
  <2>2. PICK g, vb : g = heap' /\ vb = val'
    OBVIOUS
  <2>3. /\ vb \in [Nodes -> Value] /\ vb[n] = v /\ g = Copy(heap, val[n], v)
        /\ \A k \in Nodes : k # n => vb[k] = val[k]
    BY <1>2, <1>3, <2>2
  <2>4. State(g, symbols, vb, stack, notes, lost) /\ FieldsKept(heap, g)
    BY <2>1, <2>3, CopyVal
  <2> QED
    BY <2>2, <2>4
<1>5. HeapInv'
  BY <1>4 DEF HeapInv, Keep
<1> QED
  BY <1>4, <1>5, HeapStepKept

LEMMA OverwriteHeap ==
  ASSUME HeapInv, NEW n \in Nodes, Fits(n, Num), Overwrite(n, Num),
         UNCHANGED <<heap, symbols, stack, notes>>
  PROVE  HeapStep
<1>1. PICK v : v = Num
  OBVIOUS
<1>2. /\ Sound(heap, Plus(Outer(symbols, val, stack, notes, lost), <<v>>))
      /\ ScriptValue(heap, v) /\ v \in Value
  <2>1. Plus(Outer(symbols, val, stack, notes, lost), <<v>>)
          = Outer(symbols, val, stack, notes, lost)
    BY <1>1, HeapFacts, NumFacts, PlusNothing
  <2> QED
    BY <1>1, <2>1, HeapFacts, NumFacts DEF ScriptValue, Typed
<1>3. val' \in [Nodes -> Value] /\ val'[n] = v /\ \A k \in Nodes : k # n => val'[k] = val[k]
  BY <1>1, <1>2, HeapFacts DEF Overwrite, Result
<1>4. State(heap, symbols, val', stack, notes, LoseAll(lost, <<val[n]>>))
  BY <1>1, <1>2, <1>3, HeapFacts, LoseVal
<1>5. HeapInv'
  BY <1>4 DEF HeapInv, Overwrite
<1>6. FieldsKept(heap, heap')
  BY DEF FieldsKept
<1> QED
  BY <1>5, <1>6, HeapStepKept

LEMMA SymbolFacts ==
  ASSUME HeapInv, NEW n \in Nodes,
         KindOf(n) \in {"name", "store", "opassign", "read", "write"}
  PROVE  /\ Code[n].sym \in Symbols /\ ScriptValue(heap, symbols[Code[n].sym])
         /\ symbols[Code[n].sym] \in Value
<1>1. Code[n].sym \in Symbols
  BY GrammarAssumption
<1> QED
  BY <1>1, HeapFacts

(* The items of a list are values, of a handle its PField.                 *)
LEMMA ListItems ==
  ASSUME HeapInv, NEW v, ScriptValue(heap, v), v.t = "list"
  PROVE  /\ v.o \in Objs /\ heap[v.o].kind = "list" /\ Elems(v) = heap[v.o].elems
         /\ Elems(v) \in Seq(Value) /\ DOMAIN Elems(v) = 1 .. Len(Elems(v))
         /\ Len(Elems(v)) \in Nat
         /\ \A i \in DOMAIN Elems(v) : ScriptValue(heap, Elems(v)[i])
<1>1. v.o \in Objs /\ heap[v.o].kind = "list"
  BY DEF ScriptValue, Typed
<1>2. WellMade(heap, heap[v.o]) /\ heap \in Heaps
  BY <1>1, HeapFacts, SoundFacts
<1>3. \A i \in DOMAIN heap[v.o].elems : ScriptValue(heap, heap[v.o].elems[i])
  BY <1>1, <1>2 DEF WellMade
<1>4. /\ heap[v.o].elems \in Seq(Value) /\ DOMAIN heap[v.o].elems = 1 .. Len(heap[v.o].elems)
      /\ Len(heap[v.o].elems) \in Nat
  BY <1>1, <1>2, ObjectFacts
<1> QED
  BY <1>1, <1>3, <1>4 DEF Elems

LEMMA ConstantHeap ==
  ASSUME HeapInv, ListsInv, todo # <<>>, NEW n, Constant(n)
  PROVE  HeapStep
<1>1. n \in Nodes /\ KindOf(n) \in {"const"}
  BY DoFacts DEF Constant
<1>2. PICK v : v = Num
  OBVIOUS
<1>3. /\ ScriptValue(heap, v) /\ Fits(n, v) /\ v \in Value /\ v.o \notin Objs
      /\ val[n].o \notin Objs
  <2>1. HoldersTyped(heap, symbols, val, stack, notes)
    BY HeapFacts
  <2>2. val[n].t \in {"void", "num"} /\ ScriptValue(heap, val[n])
    BY <1>1, <2>1 DEF HoldersTyped
  <2>3. val[n].o = NULL
    BY <2>2 DEF ScriptValue, Typed
  <2>4. /\ \A h : ScriptValue(h, v)
        /\ Fits(n, v) /\ v \in Value /\ v.o \notin Objs
    BY <1>1, <1>2, NumFacts, ValueFacts
  <2> QED
    BY <2>3, <2>4, ObjsFacts
<1>4. val' \in [Nodes -> Value] /\ val'[n] = v /\ \A k \in Nodes : k # n => val'[k] = val[k]
  BY <1>1, <1>2, <1>3, HeapFacts DEF Constant, Result
<1>5. PICK vb : vb = val'
  OBVIOUS
<1>6. /\ HoldersTyped(heap, symbols, vb, stack, notes)
      /\ Plus(Outer(symbols, vb, stack, notes, lost), <<val[n]>>)
           = Plus(Outer(symbols, val, stack, notes, lost), <<v>>)
  <2>1. vb \in [Nodes -> Value] /\ vb[n] = v /\ \A k \in Nodes : k # n => vb[k] = val[k]
    BY <1>4, <1>5
  <2>2. HoldersTyped(heap, symbols, val, stack, notes) /\ lost \in [Objs -> Nat]
    BY HeapFacts
  <2> QED
    BY <1>1, <1>3, <2>1, <2>2, PutVal
<1>7. Outer(symbols, vb, stack, notes, lost) \in Outs
  BY <1>6, HeapFacts, OuterFacts
<1>8. Outer(symbols, vb, stack, notes, lost) = Outer(symbols, val, stack, notes, lost)
  BY <1>3, <1>6, <1>7, HeapFacts, PlusNothing
<1>9. HeapInv'
  BY <1>5, <1>6, <1>8, HeapFacts DEF HeapInv, State, Constant, memory
<1>10. FieldsKept(heap, heap')
  BY DEF FieldsKept, Constant, memory
<1> QED
  BY <1>9, <1>10, HeapStepKept

LEMMA NameHeap ==
  ASSUME HeapInv, ListsInv, todo # <<>>, NEW n, Name(n)
  PROVE  HeapStep
<1>1. n \in Nodes /\ KindOf(n) = "name"
  BY DoFacts DEF Name
<1>2. ScriptValue(heap, symbols[Code[n].sym]) /\ Fits(n, symbols[Code[n].sym])
  BY <1>1, SymbolFacts DEF Fits
<1> QED
  BY <1>1, <1>2, KeepHeap DEF Name

LEMMA OpAssignHeap ==
  ASSUME HeapInv, ListsInv, todo # <<>>, NEW n, OpAssign(n)
  PROVE  HeapStep
<1>1. n \in Nodes /\ KindOf(n) = "opassign"
  BY DoFacts DEF OpAssign
<1>2. ScriptValue(heap, symbols[Code[n].sym]) /\ Fits(n, symbols[Code[n].sym]) /\ Fits(n, Num)
  BY <1>1, SymbolFacts DEF Fits
<1>3. CASE Overwrite(n, Num) /\ UNCHANGED heap
  BY <1>1, <1>2, <1>3, OverwriteHeap DEF OpAssign
<1>4. CASE Keep(n, symbols[Code[n].sym])
  BY <1>1, <1>2, <1>4, KeepHeap DEF OpAssign
<1> QED
  BY <1>3, <1>4 DEF OpAssign

LEMMA SubscriptReadHeap ==
  ASSUME HeapInv, ListsInv, todo # <<>>, NEW n, SubscriptRead(n)
  PROVE  HeapStep
<1>1. n \in Nodes /\ KindOf(n) = "read"
  BY DoFacts DEF SubscriptRead
<1>2. \A v : Fits(n, v)
  BY <1>1 DEF Fits
<1>3. \A i \in DOMAIN Elems(symbols[Code[n].sym]) :
        ScriptValue(heap, Elems(symbols[Code[n].sym])[i])
  BY <1>1, SymbolFacts, ListItems DEF SubscriptRead, IsList
<1>4. CASE Overwrite(n, Num) /\ UNCHANGED heap
  BY <1>1, <1>2, <1>4, OverwriteHeap DEF SubscriptRead
<1>5. CASE \E i \in DOMAIN Elems(symbols[Code[n].sym]) : Keep(n, Elems(symbols[Code[n].sym])[i])
  <2>1. PICK v : ScriptValue(heap, v) /\ Keep(n, v)
    BY <1>3, <1>5
  <2> QED
    BY <1>1, <1>2, <2>1, KeepHeap DEF SubscriptRead
<1> QED
  BY <1>4, <1>5 DEF SubscriptRead

LEMMA OperateNumbersHeap ==
  ASSUME HeapInv, ListsInv, todo # <<>>, NEW n, OperateNumbers(n)
  PROVE  HeapStep
<1>1. n \in Nodes /\ KindOf(n) = "operator"
  BY DoFacts DEF OperateNumbers
<1>2. Fits(n, Num)
  BY <1>1 DEF Fits
<1>3. CASE Overwrite(n, Num)
  BY <1>1, <1>2, <1>3, OverwriteHeap DEF OperateNumbers
<1>4. CASE UNCHANGED <<val, lost>>
  BY <1>4, HeapStepSame DEF OperateNumbers, memory, holders
<1> QED
  BY <1>3, <1>4 DEF OperateNumbers

LEMMA StoreHeap ==
  ASSUME HeapInv, ListsInv, todo # <<>>, NEW n, Store(n)
  PROVE  HeapStep
<1>1. n \in Nodes /\ KindOf(n) = "store"
  BY DoFacts DEF Store
<1>2. Code[n].sym \in Symbols /\ 1 \in DOMAIN Code[n].kids
  <2>1. Code[n].kids # <<>> /\ Code[n].sym \in Symbols
    BY <1>1, GrammarAssumption
  <2>2. Code[n].kids \in Seq(1 .. n - 1)
    BY <1>1, CodeAssumption
  <2> QED
    BY <2>1, <2>2
<1>3. PICK v, s : v = Kid(n, 1) /\ s = Code[n].sym
  OBVIOUS
<1>4. ScriptValue(heap, v) /\ v \in Value /\ Fits(n, v) /\ s \in Symbols
  BY <1>1, <1>2, <1>3, KidFacts DEF Fits
<1>5. PICK g, k, sz, vb : /\ g = Copy(heap, symbols[s], v) /\ k = Copy(g, val[n], v)
                          /\ sz = symbols' /\ vb = val'
  OBVIOUS
<1>6. /\ sz \in [Symbols -> Value] /\ sz[s] = v
      /\ \A x \in Symbols : x # s => sz[x] = symbols[x]
  <2>1. symbols' = [symbols EXCEPT ![s] = v] /\ symbols \in [Symbols -> Value]
    BY <1>3, HeapFacts DEF Store
  <2> QED
    BY <1>4, <1>5, <2>1
<1>7. /\ vb \in [Nodes -> Value] /\ vb[n] = v
      /\ \A x \in Nodes : x # n => vb[x] = val[x]
  <2>1. val' = [val EXCEPT ![n] = v] /\ val \in [Nodes -> Value]
    BY <1>3, HeapFacts DEF Store, Result
  <2> QED
    BY <1>1, <1>4, <1>5, <2>1
<1>8. State(g, sz, val, stack, notes, lost) /\ FieldsKept(heap, g)
  <2>1. State(heap, symbols, val, stack, notes, lost) /\ g = Copy(heap, symbols[s], v)
    BY <1>5 DEF HeapInv
  <2> QED
    BY <1>4, <1>6, <2>1, CopySymbol
<1>9. ScriptValue(g, v)
  BY <1>4, <1>6, <1>8 DEF State, HoldersTyped
<1>10. State(k, sz, vb, stack, notes, lost) /\ FieldsKept(g, k)
  <2>1. k = Copy(g, val[n], v)
    BY <1>5
  <2> QED
    BY <1>1, <1>4, <1>7, <1>8, <1>9, <2>1, CopyVal
<1>11. heap' = k
  BY <1>3, <1>5 DEF Store
<1>12. HeapInv'
  BY <1>5, <1>10, <1>11 DEF HeapInv, Store
<1>13. FieldsKept(heap, heap')
  BY <1>8, <1>10, <1>11 DEF FieldsKept
<1> QED
  BY <1>12, <1>13, HeapStepKept

LEMMA ListElemHeap ==
  ASSUME HeapInv, ListsInv, todo # <<>>, NEW n, ListElem(n)
  PROVE  HeapStep
<1>1. n \in Nodes /\ KindOf(n) = "elem" /\ stack # <<>>
  BY DoFacts DEF ListElem
<1>2. PICK v : v = val[Last(Code[n].kids)]
  OBVIOUS
<1>3. ScriptValue(heap, v) /\ v \in Value /\ Fits(n, v)
  <2>1. Code[n].kids # <<>> /\ Code[n].kids \in Seq(1 .. n - 1)
    BY <1>1, GrammarAssumption, CodeAssumption
  <2>2. Last(Code[n].kids) = Code[n].kids[Len(Code[n].kids)]
        /\ Len(Code[n].kids) \in DOMAIN Code[n].kids
    BY <2>1 DEF Last
  <2>3. v = Kid(n, Len(Code[n].kids))
    BY <1>2, <2>2 DEF Kid
  <2> QED
    BY <1>1, <2>2, <2>3, KidFacts DEF Fits
<1>4. PICK g, m, su, vb : /\ g = Copy(heap, val[n], v) /\ m = Ref(g, v)
                          /\ su = [stack EXCEPT ![Len(stack)] = Append(@, v)] /\ vb = val'
  OBVIOUS
<1>5. /\ vb \in [Nodes -> Value] /\ vb[n] = v
      /\ \A x \in Nodes : x # n => vb[x] = val[x]
  <2>1. val' = [val EXCEPT ![n] = v] /\ val \in [Nodes -> Value]
    BY <1>2, HeapFacts DEF ListElem, Result
  <2> QED
    BY <1>1, <1>3, <1>4, <2>1
<1>6. State(g, symbols, vb, stack, notes, lost) /\ FieldsKept(heap, g)
  <2>1. State(heap, symbols, val, stack, notes, lost) /\ g = Copy(heap, val[n], v)
    BY <1>4 DEF HeapInv
  <2> QED
    BY <1>1, <1>3, <1>5, <2>1, CopyVal
<1>7. ScriptValue(g, v)
  BY <1>1, <1>5, <1>6 DEF State, HoldersTyped
<1>8. /\ HoldersTyped(m, symbols, vb, stack, notes) /\ lost \in [Objs -> Nat]
      /\ Sound(m, Plus(Outer(symbols, vb, stack, notes, lost), <<v>>))
      /\ ScriptValue(m, v) /\ FieldsKept(g, m)
  <2>1. m = Ref(g, v) /\ Typed(g, v) /\ v.t # "pfield"
    BY <1>4, <1>7 DEF ScriptValue
  <2>2. /\ HoldersTyped(m, symbols, vb, stack, notes) /\ lost \in [Objs -> Nat]
        /\ Sound(m, Plus(Outer(symbols, vb, stack, notes, lost), <<v>>))
        /\ \A w : Typed(g, w) => Typed(m, w)
        /\ FieldsKept(g, m)
    BY <1>6, <2>1, TakeOne
  <2> QED
    BY <2>1, <2>2 DEF ScriptValue
<1>9. /\ HoldersTyped(m, symbols, vb, su, notes)
      /\ Outer(symbols, vb, su, notes, lost) = Plus(Outer(symbols, vb, stack, notes, lost), <<v>>)
  <2>1. su = [stack EXCEPT ![Len(stack)] = Append(@, v)]
    BY <1>4
  <2>2. stack \in Seq(Seq(Value))
    BY HeapFacts
  <2>3. PICK i \in DOMAIN stack, tt \in Seq(Seq(Value)) :
          /\ tt = su /\ stack[i] \in Seq(Value)
          /\ DOMAIN tt = DOMAIN stack /\ tt[i] = Append(stack[i], v)
          /\ \A j \in DOMAIN stack : j # i => tt[j] = stack[j]
    BY <1>1, <1>3, <2>1, <2>2, ItemFacts
  <2>4. /\ HoldersTyped(m, symbols, vb, tt, notes)
        /\ Outer(symbols, vb, tt, notes, lost)
             = Plus(Outer(symbols, vb, stack, notes, lost), <<v>>)
    <3>1. /\ stack[i] \in Seq(Value)
          /\ DOMAIN tt = DOMAIN stack /\ tt[i] = Append(stack[i], v)
          /\ \A j \in DOMAIN stack : j # i => tt[j] = stack[j]
      BY <2>3
    <3>2. /\ HoldersTyped(m, symbols, vb, stack, notes)
          /\ lost \in [Objs -> Nat] /\ ScriptValue(m, v)
      BY <1>8
    <3>3. HoldersTyped(m, symbols, vb, tt, notes)
      BY <3>1, <3>2, ItemTyped
    <3>4. ASSUME NEW o \in Objs PROVE HeldAll(o, tt) = HeldAll(o, stack) + Held(o, <<v>>)
      BY <1>3, <2>2, <3>1, ItemHeld
    <3>5. Outer(symbols, vb, tt, notes, lost)
            = Plus(Outer(symbols, vb, stack, notes, lost), <<v>>)
      BY <3>2, <3>4, ItemOuter
    <3> QED
      BY <3>3, <3>5
  <2> QED
    BY <2>3, <2>4
<1>10. State(m, symbols, vb, su, notes, lost)
  BY <1>8, <1>9 DEF State
<1>11. heap' = m /\ stack' = su
  BY <1>2, <1>4 DEF ListElem
<1>12. HeapInv'
  BY <1>4, <1>10, <1>11 DEF HeapInv, ListElem
<1>13. FieldsKept(heap, heap')
  BY <1>6, <1>8, <1>11 DEF FieldsKept
<1> QED
  BY <1>12, <1>13, HeapStepKept

(* pop_list(): what the current list holds is released.                    *)
LEMMA PopState ==
  ASSUME NEW h, NEW sy, NEW va, NEW st, NEW no, NEW lo, State(h, sy, va, st, no, lo),
         st # <<>>, NEW su, su = Front(st), NEW g, g = UnrefAll(h, Last(st))
  PROVE  State(g, sy, va, su, no, lo) /\ FieldsKept(h, g)
<1>1. HoldersTyped(h, sy, va, st, no) /\ lo \in [Objs -> Nat] /\ Sound(h, Outer(sy, va, st, no, lo))
  BY DEF State
<1>2. PICK s : s = Last(st)
  OBVIOUS
<1>3. /\ HoldersTyped(h, sy, va, su, no) /\ s \in Seq(Value)
      /\ Plus(Outer(sy, va, su, no, lo), s) = Outer(sy, va, st, no, lo)
  BY <1>1, <1>2, PopStack
<1>4. Sound(h, Plus(Outer(sy, va, su, no, lo), s)) /\ g = UnrefAll(h, s)
  BY <1>1, <1>2, <1>3
<1> QED
  BY <1>1, <1>3, <1>4, Release

(* The value of a list node is emptied before the new one is made.         *)
LEMMA EmptyVal ==
  ASSUME NEW h, NEW sy, NEW va, NEW st, NEW no, NEW lo, State(h, sy, va, st, no, lo),
         NEW n \in Nodes, NEW x \in Value, \A o \in Objs : x.o = o <=> va[n].o = o,
         NEW vb \in [Nodes -> Value], vb[n] = Void, \A k \in Nodes : k # n => vb[k] = va[k],
         NEW g, g = Unref(h, x)
  PROVE  /\ State(g, sy, vb, st, no, lo) /\ FieldsKept(h, g)
         /\ \A o \in Objs : h[o].kind = "free" => g[o].kind = "free"
<1>1. HoldersTyped(h, sy, va, st, no) /\ lo \in [Objs -> Nat] /\ Sound(h, Outer(sy, va, st, no, lo))
  BY DEF State
<1>2. PICK v : v = Void
  OBVIOUS
<1>3. ScriptValue(h, v) /\ Fits(n, v) /\ v.o \notin Objs
  BY <1>2, NumFacts
<1>4. /\ HoldersTyped(h, sy, vb, st, no)
      /\ Plus(Outer(sy, vb, st, no, lo), <<va[n]>>) = Plus(Outer(sy, va, st, no, lo), <<v>>)
  <2>1. vb[n] = v
    BY <1>2
  <2> QED
    BY <1>1, <1>3, <2>1, PutVal
<1>5. Plus(Outer(sy, va, st, no, lo), <<v>>) = Outer(sy, va, st, no, lo)
  BY <1>1, <1>3, OuterFacts, PlusNothing
<1>6. Plus(Outer(sy, vb, st, no, lo), <<x>>) = Plus(Outer(sy, vb, st, no, lo), <<va[n]>>)
  <2>1. \A o \in Objs : Held(o, <<x>>) = Held(o, <<va[n]>>)
    BY HeldOne
  <2> QED
    BY <2>1 DEF Plus
<1>7. Sound(h, Plus(Outer(sy, vb, st, no, lo), <<x>>))
  BY <1>1, <1>4, <1>5, <1>6
<1> QED
  BY <1>1, <1>4, <1>7, ReleaseOne

(* A new object becomes the value of a node that held none.                *)
LEMMA FillVal ==
  ASSUME NEW g, NEW sy, NEW va, NEW st, NEW no, HoldersTyped(g, sy, va, st, no),
         NEW lo \in [Objs -> Nat], NEW n \in Nodes, va[n].o \notin Objs,
         NEW v, ScriptValue(g, v), Fits(n, v),
         Sound(g, Plus(Outer(sy, va, st, no, lo), <<v>>)),
         NEW vb \in [Nodes -> Value], vb[n] = v, \A k \in Nodes : k # n => vb[k] = va[k]
  PROVE  State(g, sy, vb, st, no, lo)
<1>1. /\ HoldersTyped(g, sy, vb, st, no)
      /\ Plus(Outer(sy, vb, st, no, lo), <<va[n]>>) = Plus(Outer(sy, va, st, no, lo), <<v>>)
  BY PutVal
<1>2. Plus(Outer(sy, vb, st, no, lo), <<va[n]>>) = Outer(sy, vb, st, no, lo)
  BY <1>1, OuterFacts, PlusNothing
<1> QED
  BY <1>1, <1>2 DEF State

LEMMA MakeListHeap ==
  ASSUME HeapInv, ListsInv, todo # <<>>, NEW n, MakeList(n)
  PROVE  HeapStep
<1>1. n \in Nodes /\ KindOf(n) = "list" /\ stack # <<>>
  BY DoFacts DEF MakeList, Opens
<1>2. PICK x : x = IF val[n].t = "list" THEN val[n] ELSE Void
  OBVIOUS
<1>3. val[n].t \in {"void", "list"} /\ val[n] \in Value /\ ScriptValue(heap, val[n])
  <2>1. HoldersTyped(heap, symbols, val, stack, notes)
    BY HeapFacts
  <2> QED
    BY <1>1, <2>1 DEF HoldersTyped
<1>4. x \in Value /\ \A o \in Objs : x.o = o <=> val[n].o = o
  <2>1. CASE val[n].t = "list"
    BY <1>2, <1>3, <2>1
  <2>2. CASE val[n].t = "void"
    <3>1. x = Void /\ val[n].o = NULL
      BY <1>2, <1>3, <2>2 DEF ScriptValue, Typed
    <3> QED
      BY <3>1, ValueFacts
  <2> QED
    BY <1>3, <2>1, <2>2
<1>5. PICK va : va = [val EXCEPT ![n] = Void]
  OBVIOUS
<1>6. va \in [Nodes -> Value] /\ va[n] = Void /\ \A k \in Nodes : k # n => va[k] = val[k]
  BY <1>1, <1>5, HeapFacts, ValueFacts
<1>7. PICK u : u = Unref(heap, x)
  OBVIOUS
<1>8. /\ State(u, symbols, va, stack, notes, lost) /\ FieldsKept(heap, u)
      /\ \A o \in Objs : heap[o].kind = "free" => u[o].kind = "free"
  <2>1. State(heap, symbols, val, stack, notes, lost)
    BY DEF HeapInv
  <2> QED
    BY <1>1, <1>4, <1>6, <1>7, <2>1, EmptyVal
<1>9. FreeObjs(u) # {}
  <2>1. FreeObjs(heap) # {}
    BY FreeSize DEF MakeList, Room
  <2> QED
    BY <1>8, <2>1 DEF FreeObjs
<1>10. /\ HoldersTyped(u, symbols, va, stack, notes) /\ lost \in [Objs -> Nat]
       /\ Sound(u, Outer(symbols, va, stack, notes, lost))
       /\ Outer(symbols, va, stack, notes, lost) \in Outs
  BY <1>8, OuterFacts DEF State
<1>11. PICK s : s = Last(stack)
  OBVIOUS
<1>12. s \in Seq(Value) /\ \A j \in DOMAIN s : ScriptValue(u, s[j])
  <2>1. PICK su : su = Front(stack)
    OBVIOUS
  <2> QED
    BY <1>1, <1>10, <1>11, <2>1, PopStack
<1>13. PICK v, p, g, y : /\ v = [t |-> "list", o |-> Fresh(u)] /\ p = New(u, "list", s)
                         /\ g = Ref(p, v) /\ y = [kind |-> "list", ref |-> 0, elems |-> s]
  OBVIOUS
<1>14. v.t = "list" /\ v.o = Fresh(u) /\ v \in Value
  <2>1. Fresh(u) \in Objs
    BY <1>9, FreshFacts
  <2> QED
    BY <1>13, <2>1 DEF Value, Types
<1>15. y.kind = "list" /\ y.elems = s /\ WellMade(u, y)
  <2>1. y.kind = "list" /\ y.elems = s
    BY <1>13
  <2> QED
    BY <1>12, <2>1 DEF WellMade
<1>16. /\ Sound(g, Plus(Outer(symbols, va, stack, notes, lost), <<v>>))
       /\ \A w : Typed(u, w) => Typed(g, w)
       /\ v.o \in Objs /\ g[v.o].kind = "list" /\ FieldsKept(u, g)
  <2>1. p = New(u, "list", s) /\ g = Ref(p, v)
    BY <1>13
  <2> QED
    BY <1>9, <1>10, <1>12, <1>14, <1>15, <2>1, MakeSound
<1>17. ScriptValue(g, v) /\ Fits(n, v)
  <2>1. Typed(g, v)
    BY <1>14, <1>16 DEF Typed
  <2> QED
    BY <1>1, <1>14, <2>1 DEF ScriptValue, Fits
<1>18. HoldersTyped(g, symbols, va, stack, notes)
  BY <1>10, <1>16, HoldersMono
<1>19. PICK vb : vb = val'
  OBVIOUS
<1>20. heap' = Pop(g) /\ val' = [val EXCEPT ![n] = v]
  BY <1>2, <1>7, <1>11, <1>13 DEF MakeList, Result
<1>21. vb \in [Nodes -> Value] /\ vb[n] = v /\ \A k \in Nodes : k # n => vb[k] = va[k]
  BY <1>1, <1>6, <1>14, <1>19, <1>20, HeapFacts
<1>22. State(g, symbols, vb, stack, notes, lost)
  <2>1. va[n].o \notin Objs
    BY <1>6, NumFacts
  <2> QED
    BY <1>1, <1>10, <1>16, <1>17, <1>18, <1>21, <2>1, FillVal
<1>23. State(heap', symbols, vb, stack', notes, lost) /\ FieldsKept(g, heap')
  <2>1. PICK k, su : k = UnrefAll(g, Last(stack)) /\ su = Front(stack)
    OBVIOUS
  <2>2. State(k, symbols, vb, su, notes, lost) /\ FieldsKept(g, k)
    BY <1>1, <1>22, <2>1, PopState
  <2>3. heap' = k /\ stack' = su
    BY <1>20, <2>1 DEF MakeList, Pop, StackPopped
  <2> QED
    BY <2>2, <2>3
<1>24. HeapInv'
  BY <1>19, <1>23 DEF HeapInv, MakeList
<1>25. FieldsKept(heap, heap')
  BY <1>8, <1>16, <1>23 DEF FieldsKept
<1> QED
  BY <1>24, <1>25, HeapStepKept

(* What a call returns, once it is counted, becomes the value of the node  *)
(* and the arguments are popped.                                           *)
LEMMA ReturnsHeap ==
  ASSUME HeapInv, stack # <<>>, NEW n \in Nodes, KindOf(n) = "call", NEW h, NEW v,
         Returns(n, h, v), NEW m, m = Ref(h, v), ScriptValue(m, v),
         NEW no, NEW lo \in [Objs -> Nat], HoldersTyped(m, symbols, val, stack, no),
         Sound(m, Plus(Outer(symbols, val, stack, no, lo), <<v>>))
  PROVE  State(heap', symbols', val', stack', no, lo) /\ FieldsKept(m, heap')
<1>1. v \in Value /\ Fits(n, v)
  BY DEF ScriptValue, Typed, Fits
<1>2. PICK g, k, vb, su : /\ g = Unref(m, val[n]) /\ k = UnrefAll(g, Last(stack))
                          /\ vb = [val EXCEPT ![n] = v] /\ su = Front(stack)
  OBVIOUS
<1>3. vb \in [Nodes -> Value] /\ vb[n] = v /\ \A x \in Nodes : x # n => vb[x] = val[x]
  BY <1>1, <1>2, HeapFacts
<1>4. State(g, symbols, vb, stack, no, lo) /\ FieldsKept(m, g)
  <2>1. g = Unref(m, val[n])
    BY <1>2
  <2> QED
    BY <1>1, <1>3, <2>1, AssignVal
<1>5. State(k, symbols, vb, su, no, lo) /\ FieldsKept(g, k)
  <2>1. k = UnrefAll(g, Last(stack)) /\ su = Front(stack)
    BY <1>2
  <2> QED
    BY <1>4, <2>1, PopState
<1>6. heap' = k /\ val' = vb /\ stack' = su /\ symbols' = symbols
  BY <1>2 DEF Returns, Pop, Copy, Result, StackPopped
<1>7. FieldsKept(m, k)
  BY <1>4, <1>5 DEF FieldsKept
<1> QED
  BY <1>5, <1>6, <1>7

LEMMA ReturnsNum ==
  ASSUME HeapInv, stack # <<>>, NEW n \in Nodes, KindOf(n) = "call", NEW h, Returns(n, h, Num),
         NEW no, NEW lo, State(h, symbols, val, stack, no, lo)
  PROVE  State(heap', symbols', val', stack', no, lo) /\ FieldsKept(h, heap')
<1>1. PICK v, m : v = Num /\ m = Ref(h, v)
  OBVIOUS
<1>2. ScriptValue(h, v) /\ Returns(n, h, v) /\ m = Ref(h, v)
  BY <1>1, NumFacts
<1>3. /\ HoldersTyped(m, symbols, val, stack, no) /\ lo \in [Objs -> Nat]
      /\ Sound(m, Plus(Outer(symbols, val, stack, no, lo), <<v>>))
      /\ ScriptValue(m, v) /\ FieldsKept(h, m)
  <2>1. Typed(h, v)
    BY <1>2 DEF ScriptValue
  <2>2. /\ HoldersTyped(m, symbols, val, stack, no) /\ lo \in [Objs -> Nat]
        /\ Sound(m, Plus(Outer(symbols, val, stack, no, lo), <<v>>))
        /\ FieldsKept(h, m)
    BY <1>2, <2>1, TakeOne
  <2>3. ScriptValue(m, v)
    BY <1>1, NumFacts
  <2> QED
    BY <2>2, <2>3
<1>4. State(heap', symbols', val', stack', no, lo) /\ FieldsKept(m, heap')
  BY <1>2, <1>3, ReturnsHeap
<1> QED
  BY <1>3, <1>4 DEF FieldsKept

LEMMA CallHeap ==
  ASSUME HeapInv, ListsInv, todo # <<>>, NEW n, Call(n) \/ CallMixed(n)
  PROVE  HeapStep
<1>1. n \in Nodes /\ KindOf(n) = "call" /\ stack # <<>>
  BY DoFacts DEF Call, CallMixed, Opens
<1>2. Returns(n, heap, Num) /\ UNCHANGED <<lost, notes>>
  BY DEF Call, CallMixed
<1>3. State(heap, symbols, val, stack, notes, lost)
  BY DEF HeapInv
<1>4. State(heap', symbols', val', stack', notes, lost) /\ FieldsKept(heap, heap')
  BY <1>1, <1>2, <1>3, ReturnsNum
<1>5. HeapInv'
  BY <1>2, <1>4 DEF HeapInv
<1> QED
  BY <1>4, <1>5, HeapStepKept

LEMMA CallTableHeap ==
  ASSUME HeapInv, ListsInv, todo # <<>>, NEW n, CallTable(n)
  PROVE  HeapStep
<1>1. n \in Nodes /\ KindOf(n) = "call" /\ stack # <<>>
  BY DoFacts DEF CallTable, Opens
<1>2. PICK s \in Seq(Value) : s = <<>>
  <2>1. <<>> \in Seq(Value)
    OBVIOUS
  <2> QED
    BY <2>1
<1>3. PICK h, v, m : h = NewHandle(heap, s) /\ v = HandleTo(heap, s) /\ m = Ref(h, v)
  OBVIOUS
<1>4. Returns(n, h, v) /\ UNCHANGED <<lost, notes>>
  BY <1>2, <1>3 DEF CallTable
<1>5. /\ Sound(m, Plus(Outer(symbols, val, stack, notes, lost), <<v>>))
      /\ \A w : Typed(heap, w) => Typed(m, w)
      /\ ScriptValue(m, v) /\ FieldsFresh(heap, m)
  <2>1. Cardinality(FreeObjs(heap)) >= 2
    BY DEF CallTable, Room
  <2>2. \A i \in DOMAIN s : FieldValue(heap, s[i])
    BY <1>2
  <2>3. v = HandleTo(heap, s) /\ m = Ref(NewHandle(heap, s), v)
    BY <1>3
  <2>4. /\ Outer(symbols, val, stack, notes, lost) \in Outs
        /\ Sound(heap, Outer(symbols, val, stack, notes, lost))
    BY HeapFacts
  <2> QED
    BY <2>1, <2>2, <2>3, <2>4, HandleSound
<1>6. HoldersTyped(m, symbols, val, stack, notes) /\ lost \in [Objs -> Nat]
  BY <1>5, HeapFacts, HoldersMono
<1>7. State(heap', symbols', val', stack', notes, lost) /\ FieldsKept(m, heap')
  <2>1. m = Ref(h, v)
    BY <1>3
  <2> QED
    BY <1>1, <1>4, <1>5, <1>6, <2>1, ReturnsHeap
<1>8. HeapInv'
  BY <1>4, <1>7 DEF HeapInv
<1>9. FieldsFresh(heap, heap')
  BY <1>5, <1>7 DEF FieldsKept, FieldsFresh
<1> QED
  BY <1>8, <1>9 DEF HeapStep

(* The PField of an operand is one, or a number of its own.                *)
LEMMA PFieldFacts ==
  ASSUME HeapInv, NEW v, ScriptValue(heap, v)
  PROVE  FieldValue(heap, PFieldOf(v)) /\ PFieldOf(v) \in Value
<1>1. CASE IsPField(v)
  <2>1. v.o \in Objs /\ heap[v.o].kind = "handle" /\ PFieldOf(v) = heap[v.o].elems[1]
    BY <1>1 DEF IsPField, PFieldOf
  <2>2. WellMade(heap, heap[v.o]) /\ heap \in Heaps
    BY <2>1, HeapFacts, SoundFacts
  <2>3. 1 \in DOMAIN heap[v.o].elems
    BY <2>1, <2>2, ObjectFacts DEF WellMade
  <2>4. FieldValue(heap, PFieldOf(v))
    BY <2>1, <2>2, <2>3 DEF WellMade
  <2> QED
    BY <2>4 DEF FieldValue, Typed
<1>2. CASE ~IsPField(v)
  BY <1>2, NumFacts, ValueFacts DEF PFieldOf
<1> QED
  BY <1>1, <1>2

LEMMA CallNoteHeap ==
  ASSUME HeapInv, ListsInv, todo # <<>>, NEW n, CallNote(n)
  PROVE  HeapStep
<1>1. n \in Nodes /\ KindOf(n) = "call" /\ stack # <<>>
  BY DoFacts DEF CallNote, Opens
<1>2. PICK args \in Seq(Value) : args = Last(stack)
  <2>1. Last(stack) \in Seq(Value)
    BY <1>1, HeapFacts, LastOf
  <2> QED
    BY <2>1
<1>3. \A j \in DOMAIN args : ScriptValue(heap, args[j])
  <2>1. PICK su : su = Front(stack)
    OBVIOUS
  <2> QED
    BY <1>1, <1>2, <2>1, HeapFacts, PopStack
<1>4. PICK fields : fields = [i \in DOMAIN args |-> PFieldOf(args[i])]
  OBVIOUS
<1>5. fields \in Seq(Value) /\ \A j \in DOMAIN fields : FieldValue(heap, fields[j])
  <2>1. \A j \in DOMAIN args : PFieldOf(args[j]) \in Value /\ FieldValue(heap, PFieldOf(args[j]))
    BY <1>3, PFieldFacts
  <2>2. DOMAIN args = 1 .. Len(args) /\ Len(args) \in Nat
    BY SeqDomain
  <2>3. fields \in [1 .. Len(args) -> Value]
    BY <1>4, <2>1, <2>2
  <2>4. \A j \in DOMAIN fields : FieldValue(heap, fields[j])
    BY <1>4, <2>1
  <2> QED
    BY <2>2, <2>3, <2>4, IsASeq
<1>6. PICK h : h = Load(heap, fields)
  OBVIOUS
<1>7. /\ HoldersTyped(h, symbols, val, stack, notes) /\ lost \in [Objs -> Nat]
      /\ Sound(h, Plus(Outer(symbols, val, stack, notes, lost), fields))
      /\ \A w : Typed(heap, w) => Typed(h, w)
      /\ FieldsKept(heap, h) /\ FreeObjs(h) = FreeObjs(heap)
  <2>1. State(heap, symbols, val, stack, notes, lost)
    BY DEF HeapInv
  <2>2. \A i \in DOMAIN fields : Typed(heap, fields[i])
    BY <1>5 DEF FieldValue
  <2>3. h = RefAll(heap, fields)
    BY <1>6 DEF Load
  <2> QED
    BY <1>5, <2>1, <2>2, <2>3, Take
<1>8. CASE Returns(n, heap, Num) /\ UNCHANGED <<lost, notes>>
  <2>1. State(heap, symbols, val, stack, notes, lost)
    BY DEF HeapInv
  <2>2. State(heap', symbols', val', stack', notes, lost) /\ FieldsKept(heap, heap')
    BY <1>1, <1>8, <2>1, ReturnsNum
  <2>3. HeapInv'
    BY <1>8, <2>2 DEF HeapInv
  <2> QED
    BY <2>2, <2>3, HeapStepKept
<1>9. CASE Returns(n, h, Num) /\ lost' = LoseAll(lost, fields) /\ UNCHANGED notes
  <2>1. PICK lo : lo = LoseAll(lost, fields)
    OBVIOUS
  <2>2. State(h, symbols, val, stack, notes, lo)
    <3>1. IsFiniteSet(DOMAIN fields)
      BY <1>5, SeqDomain
    <3>2. /\ LoseAll(lost, fields) \in [Objs -> Nat]
          /\ Outer(symbols, val, stack, notes, LoseAll(lost, fields))
               = Plus(Outer(symbols, val, stack, notes, lost), fields)
      BY <1>7, <3>1, LoseOuter
    <3> QED
      BY <1>7, <2>1, <3>2 DEF State
  <2>3. State(heap', symbols', val', stack', notes, lo) /\ FieldsKept(h, heap')
    BY <1>1, <1>9, <2>2, ReturnsNum
  <2>4. HeapInv'
    BY <1>9, <2>1, <2>3 DEF HeapInv
  <2>5. FieldsKept(heap, heap')
    BY <1>7, <2>3 DEF FieldsKept
  <2> QED
    BY <2>4, <2>5, HeapStepKept
<1>10. ASSUME NEW v, v = [t |-> "handle", o |-> Fresh(h)], Room(1),
              Returns(n, New(h, "inst", <<>>), v),
              notes' = Append(notes, fields), UNCHANGED lost
       PROVE  HeapStep
  <2>1. PICK no : no = Append(notes, fields)
    OBVIOUS
  <2>2. /\ HoldersTyped(h, symbols, val, stack, no)
        /\ Outer(symbols, val, stack, no, lost)
             = Plus(Outer(symbols, val, stack, notes, lost), fields)
    <3>1. \A j \in DOMAIN fields : FieldValue(h, fields[j])
      BY <1>5, <1>7 DEF FieldValue
    <3> QED
      BY <1>5, <1>7, <2>1, <3>1, AddNote
  <2>3. Outer(symbols, val, stack, no, lost) \in Outs /\ Sound(h, Outer(symbols, val, stack, no, lost))
    BY <1>7, <2>2, OuterFacts
  <2>4. FreeObjs(h) # {}
    BY <1>7, <1>10, FreeSize DEF Room
  <2>5. v.t = "handle" /\ v.o = Fresh(h) /\ v \in Value
    <3>1. Fresh(h) \in Objs
      BY <2>4, FreshFacts
    <3> QED
      BY <1>10, <3>1 DEF Value, Types
  <2>6. PICK s \in Seq(Value) : s = <<>>
    <3>1. <<>> \in Seq(Value)
      OBVIOUS
    <3> QED
      BY <3>1
  <2>61. PICK y : y = [kind |-> "inst", ref |-> 0, elems |-> s]
    OBVIOUS
  <2>7. y.kind = "inst" /\ y.elems = s /\ WellMade(h, y)
    <3>1. y.kind = "inst" /\ y.elems = s /\ DOMAIN s = {}
      BY <2>6, <2>61
    <3> QED
      BY <3>1 DEF WellMade
  <2>8. PICK p, m : p = New(h, "inst", s) /\ m = Ref(p, v)
    OBVIOUS
  <2>9. /\ Sound(m, Plus(Outer(symbols, val, stack, no, lost), <<v>>))
        /\ \A w : Typed(h, w) => Typed(m, w)
        /\ v.o \in Objs /\ m[v.o].kind = "inst" /\ FieldsKept(h, m)
    BY <2>3, <2>4, <2>5, <2>7, <2>8, MakeSound
  <2>10. ScriptValue(m, v)
    BY <2>5, <2>9 DEF ScriptValue, Typed
  <2>11. HoldersTyped(m, symbols, val, stack, no)
    BY <2>2, <2>9, HoldersMono
  <2>12. Returns(n, p, v)
    BY <1>10, <2>6, <2>8
  <2>13. State(heap', symbols', val', stack', no, lost) /\ FieldsKept(m, heap')
    <3>1. m = Ref(p, v)
      BY <2>8
    <3> QED
      BY <1>1, <1>7, <2>9, <2>10, <2>11, <2>12, <3>1, ReturnsHeap
  <2>14. HeapInv'
    BY <1>10, <2>1, <2>13 DEF HeapInv
  <2>15. FieldsKept(heap, heap')
    BY <1>7, <2>9, <2>13 DEF FieldsKept
  <2> QED
    BY <2>14, <2>15, HeapStepKept
<1> QED
  BY <1>2, <1>4, <1>6, <1>8, <1>9, <1>10 DEF CallNote

LEMMA OperandFacts ==
  ASSUME HeapInv, NEW n \in Nodes, KindOf(n) = "operator"
  PROVE  ScriptValue(heap, Kid(n, 1)) /\ ScriptValue(heap, Kid(n, 2))
<1>1. Code[n].kids \in Seq(1 .. n - 1) /\ Len(Code[n].kids) = 2
  BY CodeAssumption, GrammarAssumption
<1>2. 1 \in DOMAIN Code[n].kids /\ 2 \in DOMAIN Code[n].kids
  BY <1>1
<1> QED
  BY <1>2, KidFacts

LEMMA OperateHandlesHeap ==
  ASSUME HeapInv, ListsInv, todo # <<>>, NEW n, OperateHandles(n)
  PROVE  HeapStep
<1>1. n \in Nodes /\ KindOf(n) = "operator"
  BY DoFacts DEF OperateHandles
<1>2. PICK s : s = <<PFieldOf(Kid(n, 1)), PFieldOf(Kid(n, 2))>>
  OBVIOUS
<1>3. s \in Seq(Value) /\ \A i \in DOMAIN s : FieldValue(heap, s[i])
  <2>1. PICK a, b : a = PFieldOf(Kid(n, 1)) /\ b = PFieldOf(Kid(n, 2))
    OBVIOUS
  <2>2. a \in Value /\ b \in Value /\ FieldValue(heap, a) /\ FieldValue(heap, b)
    BY <1>1, <2>1, OperandFacts, PFieldFacts
  <2>3. s = <<a, b>>
    BY <1>2, <2>1
  <2>4. s \in Seq(Value)
    BY <2>2, <2>3
  <2>5. DOMAIN s = {1, 2} /\ s[1] = a /\ s[2] = b
    BY <2>3
  <2> QED
    BY <2>2, <2>4, <2>5
<1>4. PICK v, m : v = HandleTo(heap, s) /\ m = Ref(NewHandle(heap, s), v)
  OBVIOUS
<1>5. heap' = m /\ lost' = LoseAll(lost, <<val[n]>>) /\ val' = [val EXCEPT ![n] = v]
      /\ UNCHANGED <<symbols, stack, notes>>
  BY <1>2, <1>4 DEF OperateHandles, Overwrite, Result
<1>6. /\ Sound(m, Plus(Outer(symbols, val, stack, notes, lost), <<v>>))
      /\ \A w : Typed(heap, w) => Typed(m, w)
      /\ ScriptValue(m, v) /\ FieldsFresh(heap, m)
  <2>1. Cardinality(FreeObjs(heap)) >= 2
    BY DEF OperateHandles, Room
  <2>2. /\ Outer(symbols, val, stack, notes, lost) \in Outs
        /\ Sound(heap, Outer(symbols, val, stack, notes, lost))
    BY HeapFacts
  <2> QED
    BY <1>3, <1>4, <2>1, <2>2, HandleSound
<1>7. HoldersTyped(m, symbols, val, stack, notes) /\ lost \in [Objs -> Nat]
  BY <1>6, HeapFacts, HoldersMono
<1>8. PICK vb : vb = val'
  OBVIOUS
<1>9. vb \in [Nodes -> Value] /\ vb[n] = v /\ \A k \in Nodes : k # n => vb[k] = val[k]
  BY <1>1, <1>5, <1>6, <1>8, HeapFacts DEF ScriptValue, Typed
<1>10. State(m, symbols, vb, stack, notes, LoseAll(lost, <<val[n]>>))
  <2>1. Fits(n, v)
    BY <1>1 DEF Fits
  <2> QED
    BY <1>1, <1>6, <1>7, <1>9, <2>1, LoseVal
<1>11. HeapInv'
  BY <1>5, <1>8, <1>10 DEF HeapInv
<1> QED
  BY <1>5, <1>6, <1>11 DEF HeapStep

LEMMA NothingHeld ==
  ASSUME NEW s \in Seq(Value), \A i \in DOMAIN s : s[i].o \notin Objs
  PROVE  /\ \A o \in Objs : Held(o, s) = 0
         /\ \A out \in Outs : Plus(out, s) = out
<1>1. IsFiniteSet(DOMAIN s)
  BY SeqDomain
<1>2. \A o \in Objs : Held(o, s) = 0
  BY <1>1, HeldType
<1>3. ASSUME NEW out \in Outs PROVE Plus(out, s) = out
  <2>1. \A o \in Objs : out[o] + Held(o, s) = out[o]
    BY <1>2 DEF Outs
  <2> QED
    BY <2>1 DEF Plus, Outs
<1> QED
  BY <1>2, <1>3

LEMMA OperateListHeap ==
  ASSUME HeapInv, ListsInv, PlainArithmetic, todo # <<>>, NEW n, OperateList(n)
  PROVE  HeapStep
<1>1. n \in Nodes /\ KindOf(n) = "operator" /\ Head(todo) = <<"do", n>>
  BY DoFacts DEF OperateList, At
<1>2. PICK s : s = ListOperand(n)
  OBVIOUS
<1>3. s \in Seq(Value) /\ \A i \in DOMAIN s : ScriptValue(heap, s[i])
  <2>1. PICK a : a = IF Kid(n, 1).t = "list" THEN Kid(n, 1) ELSE Kid(n, 2)
    OBVIOUS
  <2>2. ScriptValue(heap, a)
    BY <1>1, <2>1, OperandFacts
  <2>3. a.t = "list"
    BY <2>1 DEF OperateList, OperatorCase
  <2>4. s = Elems(a)
    BY <1>2, <2>1 DEF ListOperand
  <2> QED
    BY <2>2, <2>3, <2>4, ListItems
<1>4. \A i \in DOMAIN s : s[i].o \notin Objs
  BY <1>1, <1>2 DEF PlainArithmetic, OperateList
<1>5. FreeObjs(heap) # {} /\ val[n].t = "void"
  BY FreeSize DEF OperateList, Room
<1>6. PICK f \in Objs : f = Fresh(heap) /\ heap[f].kind = "free"
  BY <1>5, FreshFacts
<1>7. PICK v : v = [t |-> "list", o |-> f]
  OBVIOUS
<1>8. v.t = "list" /\ v.o = f /\ v \in Value
  BY <1>7 DEF Value, Types
<1>9. PICK g : g = [heap EXCEPT ![f] = [kind |-> "list", ref |-> 1, elems |-> s]]
  OBVIOUS
<1>10. heap' = g /\ val' = [val EXCEPT ![n] = v] /\ lost' = UncountAll(lost, s)
       /\ UNCHANGED <<symbols, stack, notes>>
  BY <1>2, <1>6, <1>7, <1>9 DEF OperateList, Result
<1>11. /\ g \in Heaps /\ g[f].kind = "list" /\ g[f].ref = 1 /\ g[f].elems = s
       /\ \A o \in Objs : o # f => g[o] = heap[o]
  <2>1. heap \in Heaps
    BY HeapFacts
  <2>2. [kind |-> "list", ref |-> 1, elems |-> s] \in Object
    BY <1>3 DEF Object, Kinds
  <2> QED
    BY <1>9, <2>1, <2>2 DEF Heaps
<1>12. Outer(symbols, val, stack, notes, lost) \in Outs
       /\ Sound(heap, Plus(Outer(symbols, val, stack, notes, lost), s))
  BY <1>3, <1>4, HeapFacts, NothingHeld
<1>13. WellMade(heap, g[f])
  BY <1>3, <1>11 DEF WellMade
<1>14. /\ Sound(g, Plus(Outer(symbols, val, stack, notes, lost), <<v>>))
       /\ \A w : Typed(heap, w) => Typed(g, w)
       /\ FieldsKept(heap, g)
  <2>1. g[f].kind \in {"list", "handle", "inst", "pfield"} /\ g[f].kind # "pfield"
    BY <1>11
  <2>2. heap[f].kind = "free" /\ v.o = f
    BY <1>6, <1>8
  <2> QED
    BY <1>3, <1>11, <1>12, <1>13, <2>1, <2>2, PlaceSound
<1>15. ScriptValue(g, v)
  <2>1. Typed(g, v)
    BY <1>8, <1>11 DEF Typed
  <2> QED
    BY <1>8, <2>1 DEF ScriptValue
<1>16. HoldersTyped(g, symbols, val, stack, notes) /\ lost \in [Objs -> Nat]
  BY <1>14, HeapFacts, HoldersMono
<1>17. PICK vb : vb = val'
  OBVIOUS
<1>18. vb \in [Nodes -> Value] /\ vb[n] = v /\ \A k \in Nodes : k # n => vb[k] = val[k]
  BY <1>1, <1>8, <1>10, <1>17, HeapFacts
<1>19. State(g, symbols, vb, stack, notes, lost)
  <2>1. val[n].o \notin Objs
    <3>1. ScriptValue(heap, val[n])
      BY <1>1, HeapFacts
    <3>2. val[n].o = NULL
      BY <1>5, <3>1 DEF ScriptValue, Typed
    <3> QED
      BY <3>2, ObjsFacts
  <2>2. Fits(n, v)
    BY <1>1 DEF Fits
  <2> QED
    BY <1>1, <1>14, <1>15, <1>16, <1>18, <2>1, <2>2, FillVal
<1>20. lost' = lost
  <2>1. \A o \in Objs : Held(o, s) = 0
    BY <1>3, <1>4, NothingHeld
  <2>2. \A o \in Objs : lost[o] - Held(o, s) = lost[o]
    BY <1>16, <2>1
  <2> QED
    BY <1>10, <1>16, <2>2 DEF UncountAll
<1>21. HeapInv'
  BY <1>10, <1>17, <1>19, <1>20 DEF HeapInv
<1>22. FieldsKept(heap, heap')
  BY <1>10, <1>14
<1> QED
  BY <1>21, <1>22, HeapStepKept

LEMMA Exchange == \A a, b, c, d \in Nat : d = a - b + c => d + b = a + c
  OBVIOUS

(* A list that grows to the index it is written at.                        *)
Written(items, top, i, v, old, grown) ==
  /\ items \in Seq(Value) /\ v \in Value /\ old \in Value
  /\ top \in Nat /\ i \in 1 .. top /\ DOMAIN items \subseteq 1 .. top
  /\ i \in DOMAIN items => old = items[i]
  /\ i \notin DOMAIN items => old = Num
  /\ grown \in [1 .. top -> Value] /\ grown[i] = v
  /\ \A j \in 1 .. top : /\ j # i /\ j \in DOMAIN items => grown[j] = items[j]
                         /\ j # i /\ j \notin DOMAIN items => grown[j] = Num
LEMMA GrownHeld ==
  ASSUME NEW items, NEW top, NEW i, NEW v, NEW old, NEW grown,
         Written(items, top, i, v, old, grown)
  PROVE  /\ grown \in Seq(Value)
         /\ \A o \in Objs : Held(o, grown) + Held(o, <<old>>) = Held(o, items) + Held(o, <<v>>)
<1> USE DEF Written
<1>1. grown \in Seq(Value)
  BY IsASeq
<1>2. ASSUME NEW o \in Objs
      PROVE  Held(o, grown) + Held(o, <<old>>) = Held(o, items) + Held(o, <<v>>)
  <2>1. PICK base : base = [grown EXCEPT ![i] = old]
    OBVIOUS
  <2>2. /\ base \in [1 .. top -> Value] /\ base[i] = old
        /\ \A j \in 1 .. top : j # i => base[j] = grown[j]
    BY <2>1
  <2>3. base \in Seq(Value) /\ DOMAIN base = 1 .. top
    BY <2>2, IsASeq
  <2>4. Places(o, base) = Places(o, items)
    <3>1. Num.o # o
      BY NumFacts
    <3>2. ASSUME NEW j \in 1 .. top
          PROVE  /\ j \in DOMAIN items => base[j] = items[j]
                 /\ j \notin DOMAIN items => base[j] = Num
      <4>1. CASE j = i
        BY <2>2, <4>1
      <4>2. CASE j # i
        BY <2>2, <4>2
      <4> QED
        BY <4>1, <4>2
    <3> QED
      BY <2>3, <3>1, <3>2 DEF Places
  <2>5. Held(o, base) = Held(o, items)
    <3>1. IsFiniteSet(DOMAIN base) /\ IsFiniteSet(DOMAIN items)
      BY <2>3, SeqDomain
    <3>2. Held(o, base) = Cardinality(Places(o, base))
      BY <3>1, HeldType
    <3>3. Held(o, items) = Cardinality(Places(o, items))
      BY <3>1, HeldType
    <3> QED
      BY <2>4, <3>2, <3>3
  <2>6. Held(o, grown) = Held(o, base) - Held(o, <<base[i]>>) + Held(o, <<grown[i]>>)
    <3>1. IsFiniteSet(DOMAIN base) /\ i \in DOMAIN base
      BY <2>3, SeqDomain
    <3>2. DOMAIN grown = DOMAIN base /\ \A j \in DOMAIN base : j # i => grown[j] = base[j]
      BY <2>2, <2>3
    <3>3. PICK t : t = grown
      OBVIOUS
    <3>4. Held(o, t) = Held(o, base) - Held(o, <<base[i]>>) + Held(o, <<t[i]>>)
      BY <3>1, <3>2, <3>3, HeldExcept
    <3> QED
      BY <3>3, <3>4
  <2>7. Held(o, items) \in Nat /\ Held(o, <<old>>) \in Nat /\ Held(o, <<v>>) \in Nat
    <3>1. Held(o, items) \in Nat
      <4>1. items \in Seq(Value)
        OBVIOUS
      <4> QED
        BY <4>1, HeldNat
    <3>2. Held(o, <<old>>) = IF old.o = o THEN 1 ELSE 0
      BY HeldOne
    <3>3. Held(o, <<v>>) = IF v.o = o THEN 1 ELSE 0
      BY HeldOne
    <3> QED
      BY <3>1, <3>2, <3>3
  <2>8. Held(o, grown) \in Nat
    BY <1>1, HeldNat
  <2>9. Held(o, grown) = Held(o, items) - Held(o, <<old>>) + Held(o, <<v>>)
    BY <2>2, <2>5, <2>6
  <2> QED
    BY <2>7, <2>8, <2>9, Exchange
<1> QED
  BY <1>1, <1>2

(* The items of a list are replaced: one reference more, one less.         *)
Swapped(m, g, l, v, old) ==
  /\ l \in Objs /\ m[l].kind = "list" /\ g \in Heaps
  /\ \A o \in Objs : g[o].kind = m[o].kind /\ g[o].ref = m[o].ref
  /\ \A o \in Objs : o # l => g[o] = m[o]
  /\ \A j \in DOMAIN g[l].elems : ScriptValue(m, g[l].elems[j])
  /\ \A o \in Objs :
       Held(o, g[l].elems) + Held(o, <<old>>) = Held(o, m[l].elems) + Held(o, <<v>>)
LEMMA GrowSound ==
  ASSUME NEW m, NEW out \in Outs, NEW v, NEW old, NEW l, NEW g,
         Sound(m, Plus(out, <<v>>)), Swapped(m, g, l, v, old)
  PROVE  /\ Sound(g, Plus(out, <<old>>)) /\ \A w : Typed(m, w) => Typed(g, w)
         /\ FieldsKept(m, g)
<1> DEFINE grown == g[l].elems
<1> USE DEF Swapped
<1>1. \A w : Typed(m, w) => Typed(g, w)
  BY TypedSame
<1>2. m \in Heaps /\ Counted(m, Plus(out, <<v>>)) /\ \A o \in Objs : WellMade(m, m[o])
  BY DEF Sound, Counted
<1>3. ASSUME NEW o \in Objs PROVE WellMade(g, g[o])
  <2>1. CASE o = l
    <3>1. \A j \in DOMAIN grown : ScriptValue(g, grown[j])
      BY <1>1 DEF ScriptValue
    <3>2. g[o].kind = "list" /\ g[o].elems = grown
      BY <2>1
    <3> QED
      BY <3>1, <3>2 DEF WellMade
  <2>2. CASE o # l
    <3>1. g[o] = m[o] /\ WellMade(m, m[o])
      BY <1>2, <2>2
    <3> QED
      BY <1>1, <3>1, WellMadeSame
  <2> QED
    BY <2>1, <2>2
<1>4. ASSUME NEW o \in Objs
      PROVE  g[o].ref = HeldAll(o, Elements(g)) + Plus(out, <<old>>)[o]
  <2>1. m[o].ref = HeldAll(o, Elements(m)) + (out[o] + Held(o, <<v>>))
    BY <1>2 DEF Counted, Plus
  <2>2. /\ HeldAll(o, Elements(g)) =
              HeldAll(o, Elements(m)) - Held(o, m[l].elems) + Held(o, g[l].elems)
        /\ Held(o, m[l].elems) \in Nat /\ Held(o, g[l].elems) \in Nat
    <3>1. \A p \in Objs : p # l => g[p].elems = m[p].elems
      OBVIOUS
    <3> QED
      BY <1>2, <3>1, InnerExcept
  <2>3. Held(o, grown) + Held(o, <<old>>) = Held(o, m[l].elems) + Held(o, <<v>>)
    OBVIOUS
  <2>4. HeldAll(o, Elements(m)) \in Nat /\ Held(o, <<old>>) \in Nat /\ Held(o, <<v>>) \in Nat
        /\ out[o] \in Nat
    BY <1>2, InnerType, HeldOne DEF Outs
  <2>5. Plus(out, <<old>>)[o] = out[o] + Held(o, <<old>>)
    BY DEF Plus
  <2>6. HeldAll(o, Elements(m)) + (out[o] + Held(o, <<v>>))
          = (HeldAll(o, Elements(m)) - Held(o, m[l].elems) + Held(o, grown))
            + (out[o] + Held(o, <<old>>))
    <3>1. Held(o, grown) \in Nat
      BY <2>2
    <3>2. PICK a \in Nat : a = HeldAll(o, Elements(m))
      BY <2>4
    <3>3. PICK b \in Nat : b = Held(o, m[l].elems)
      BY <2>2
    <3>4. PICK c \in Nat : c = Held(o, grown)
      BY <3>1
    <3>5. PICK d \in Nat : d = Held(o, <<old>>)
      BY <2>4
    <3>6. PICK e \in Nat : e = Held(o, <<v>>)
      BY <2>4
    <3>7. c + d = b + e
      BY <2>3, <3>3, <3>4, <3>5, <3>6
    <3>8. PICK f \in Nat : f = out[o]
      BY <2>4
    <3>9. a + (f + e) = (a - b + c) + (f + d)
      BY <3>7
    <3> QED
      BY <3>2, <3>3, <3>4, <3>5, <3>6, <3>8, <3>9
  <2> QED
    BY <2>1, <2>2, <2>5, <2>6
<1>5. Counted(g, Plus(out, <<old>>))
  <2>1. ASSUME NEW o \in Objs
        PROVE  /\ g[o].kind = "free" => g[o] = Free
               /\ g[o].kind # "free" => g[o].ref > 0
               /\ g[o].kind # "bad"
    <3>1. /\ m[o].kind = "free" => m[o] = Free
          /\ m[o].kind # "free" => m[o].ref > 0
          /\ m[o].kind # "bad"
      BY <1>2 DEF Counted
    <3> QED
      BY <3>1
  <2> QED
    BY <1>4, <2>1 DEF Counted
<1>6. FieldsKept(m, g)
  BY DEF FieldsKept
<1> QED
  BY <1>1, <1>3, <1>5, <1>6 DEF Sound

LEMMA SubscriptWriteHeap ==
  ASSUME HeapInv, ListsInv, todo # <<>>, NEW n, SubscriptWrite(n)
  PROVE  HeapStep
<1>1. n \in Nodes /\ KindOf(n) = "write"
  <2>1. At(n, {"write"})
    BY DEF SubscriptWrite
  <2>2. n \in Nodes /\ KindOf(n) \in {"write"}
    BY <2>1, DoFacts
  <2> QED
    BY <2>2
<1>2. PICK x, v : x = symbols[Code[n].sym] /\ v = Kid(n, Len(Code[n].kids))
  OBVIOUS
<1>3. PICK k \in Nodes : v = val[k]
  <2>1. Code[n].kids # <<>> /\ Code[n].kids \in Seq(1 .. n - 1)
    BY <1>1, GrammarAssumption, CodeAssumption
  <2>2. Len(Code[n].kids) \in DOMAIN Code[n].kids
    BY <2>1
  <2> QED
    BY <1>1, <1>2, <2>2, KidFacts DEF Kid
<1>4. ScriptValue(heap, v) /\ v \in Value
  BY <1>3, HeapFacts
<1>5. PICK l, items : l = x.o /\ items = Elems(x)
  OBVIOUS
<1>6. /\ l \in Objs /\ heap[l].kind = "list" /\ heap[l].elems = items /\ items \in Seq(Value)
      /\ DOMAIN items = 1 .. Len(items) /\ Len(items) \in Nat
      /\ \A i \in DOMAIN items : ScriptValue(heap, items[i])
  <2>1. ScriptValue(heap, x) /\ x.t = "list"
    BY <1>1, <1>2, SymbolFacts DEF SubscriptWrite, IsList
  <2> QED
    BY <1>5, <2>1, ListItems
<1>7. PICK m : m = Ref(heap, v)
  OBVIOUS
<1>8. PICK i \in 1 .. MaxLen :
        heap' = Copy(Unref([m EXCEPT ![l].elems =
                              [j \in 1 .. IF i > Len(items) THEN i ELSE Len(items) |->
                                 IF j = i THEN v
                                 ELSE IF j \in DOMAIN items THEN items[j] ELSE Num]],
                           IF i \in DOMAIN items THEN items[i] ELSE Num), val[n], v)
  BY <1>2, <1>5, <1>7 DEF SubscriptWrite
<1>9. PICK top, old : /\ top = IF i > Len(items) THEN i ELSE Len(items)
                      /\ old = IF i \in DOMAIN items THEN items[i] ELSE Num
  OBVIOUS
<1>10. PICK grown : grown = [j \in 1 .. top |->
                               IF j = i THEN v
                               ELSE IF j \in DOMAIN items THEN items[j] ELSE Num]
  OBVIOUS
<1>11. PICK g, u : g = [m EXCEPT ![l].elems = grown] /\ u = Unref(g, old)
  OBVIOUS
<1>12. heap' = Copy(u, val[n], v)
  BY <1>8, <1>9, <1>10, <1>11
<1>13. /\ top \in Nat /\ i \in 1 .. top /\ DOMAIN items \subseteq 1 .. top
       /\ i \in DOMAIN items => old = items[i]
       /\ i \notin DOMAIN items => old = Num
       /\ old \in Value
  <2>1. MaxLen \in Nat
    BY BoundsAssumption
  <2>2. i \in Nat /\ i > 0
    BY <2>1
  <2>3. top \in Nat /\ i \in 1 .. top /\ Len(items) <= top
    <3>1. PICK c \in Nat : c = Len(items)
      BY <1>6
    <3>2. top = IF i > c THEN i ELSE c
      BY <1>9, <3>1
    <3>3. top \in Nat /\ i \in 1 .. top /\ c <= top
      BY <2>2, <3>2
    <3> QED
      BY <3>1, <3>3
  <2>4. DOMAIN items \subseteq 1 .. top
    BY <1>6, <2>3
  <2>5. /\ i \in DOMAIN items => old = items[i]
        /\ i \notin DOMAIN items => old = Num
    BY <1>9
  <2>6. old \in Value
    BY <1>6, <2>5, ValueFacts
  <2> QED
    BY <2>3, <2>4, <2>5, <2>6
<1>14. /\ grown \in [1 .. top -> Value] /\ grown[i] = v
       /\ \A j \in 1 .. top : /\ j # i /\ j \in DOMAIN items => grown[j] = items[j]
                              /\ j # i /\ j \notin DOMAIN items => grown[j] = Num
  <2>1. \A j \in DOMAIN items : items[j] \in Value
    BY <1>6
  <2> QED
    BY <1>4, <1>10, <1>13, <2>1, ValueFacts
<1>15. /\ grown \in Seq(Value)
       /\ \A o \in Objs : Held(o, grown) + Held(o, <<old>>) = Held(o, items) + Held(o, <<v>>)
  <2>1. items \in Seq(Value)
    BY <1>6
  <2>2. Written(items, top, i, v, old, grown)
    BY <1>4, <1>13, <1>14, <2>1 DEF Written
  <2> QED
    BY <2>2, GrownHeld
<1>16. /\ HoldersTyped(m, symbols, val, stack, notes) /\ lost \in [Objs -> Nat]
       /\ Sound(m, Plus(Outer(symbols, val, stack, notes, lost), <<v>>))
       /\ \A w : Typed(heap, w) => Typed(m, w)
  <2>1. State(heap, symbols, val, stack, notes, lost) /\ Typed(heap, v)
    BY <1>4 DEF HeapInv, ScriptValue
  <2> QED
    BY <1>7, <2>1, TakeOne
<1>17. /\ m \in Heaps /\ \A o \in Objs : m[o].kind = heap[o].kind /\ m[o].elems = heap[o].elems
  <2>1. PICK s \in Seq(Value) : s = <<v>>
    <3>1. <<v>> \in Seq(Value)
      BY <1>4
    <3> QED
      BY <3>1
  <2>2. m = RefAll(heap, s) /\ heap \in Heaps
    BY <1>7, <2>1, HeapFacts DEF Ref
  <2> QED
    BY <2>2, RefAllFacts
<1>18. \A j \in DOMAIN grown : ScriptValue(m, grown[j])
  <2>1. ScriptValue(m, v) /\ ScriptValue(m, Num) /\ \A j \in DOMAIN items : ScriptValue(m, items[j])
    BY <1>4, <1>6, <1>16, NumFacts DEF ScriptValue
  <2>2. \A j \in 1 .. top : \/ grown[j] = v \/ grown[j] = Num
                            \/ j \in DOMAIN items /\ grown[j] = items[j]
    BY <1>10
  <2>3. DOMAIN grown = 1 .. top
    BY <1>14
  <2> QED
    BY <2>1, <2>2, <2>3
<1>19. /\ g \in Heaps /\ \A o \in Objs : g[o].kind = m[o].kind /\ g[o].ref = m[o].ref
       /\ \A o \in Objs : o # l => g[o] = m[o]
       /\ g[l].elems = grown
  <2>1. PICK y : y = [m[l] EXCEPT !.elems = grown]
    OBVIOUS
  <2>2. y \in Object /\ y.kind = m[l].kind /\ y.ref = m[l].ref /\ y.elems = grown
    BY <1>6, <1>15, <1>17, <2>1 DEF Heaps, Object
  <2>3. g = [m EXCEPT ![l] = y]
    BY <1>11, <2>1
  <2>4. g \in Heaps /\ g[l] = y /\ \A o \in Objs : o # l => g[o] = m[o]
    BY <1>6, <1>17, <2>2, <2>3 DEF Heaps
  <2> QED
    BY <2>2, <2>4
<1>20. /\ Sound(g, Plus(Outer(symbols, val, stack, notes, lost), <<old>>))
       /\ \A w : Typed(m, w) => Typed(g, w)
       /\ FieldsKept(m, g)
  <2>1. PICK out \in Outs : out = Outer(symbols, val, stack, notes, lost)
    BY HeapFacts
  <2>2. m[l].kind = "list" /\ m[l].elems = items
    BY <1>6, <1>17
  <2>3. Swapped(m, g, l, v, old)
    BY <1>6, <1>15, <1>18, <1>19, <2>2 DEF Swapped
  <2>4. Sound(m, Plus(out, <<v>>))
    BY <1>16, <2>1
  <2> QED
    BY <2>1, <2>3, <2>4, GrowSound
<1>21. State(u, symbols, val, stack, notes, lost) /\ FieldsKept(g, u)
  <2>1. HoldersTyped(g, symbols, val, stack, notes)
    BY <1>16, <1>20, HoldersMono
  <2>2. u = Unref(g, old) /\ lost \in [Objs -> Nat]
    BY <1>11, <1>16
  <2> QED
    BY <1>13, <1>20, <2>1, <2>2, ReleaseOne
<1>22. ScriptValue(u, v)
  BY <1>3, <1>21 DEF State, HoldersTyped
<1>23. PICK vb, h : vb = val' /\ h = heap'
  OBVIOUS
<1>24. vb \in [Nodes -> Value] /\ vb[n] = v /\ \A y \in Nodes : y # n => vb[y] = val[y]
  <2>1. val' = [val EXCEPT ![n] = v]
    BY <1>2 DEF SubscriptWrite, Result
  <2> QED
    BY <1>1, <1>4, <1>23, <2>1, HeapFacts
<1>25. State(h, symbols, vb, stack, notes, lost) /\ FieldsKept(u, h)
  <2>1. h = Copy(u, val[n], v) /\ Fits(n, v)
    BY <1>1, <1>12, <1>23 DEF Fits
  <2> QED
    BY <1>1, <1>21, <1>22, <1>24, <2>1, CopyVal
<1>26. HeapInv'
  BY <1>23, <1>25 DEF HeapInv, SubscriptWrite
<1>27. FieldsKept(heap, heap')
  BY <1>17, <1>20, <1>21, <1>23, <1>25 DEF FieldsKept
<1> QED
  BY <1>26, <1>27, HeapStepKept

LEMMA EndScriptHeap ==
  ASSUME HeapInv, EndScript
  PROVE  HeapStep
<1>1. PICK vb, g : vb = [n \in Nodes |-> Void] /\ g = UnrefAll(heap, val)
  OBVIOUS
<1>2. /\ HoldersTyped(heap, symbols, vb, stack, notes) /\ val \in Seq(Value)
      /\ Plus(Outer(symbols, vb, stack, notes, lost), val)
           = Outer(symbols, val, stack, notes, lost)
  BY <1>1, HeapFacts, ClearVal
<1>3. State(g, symbols, vb, stack, notes, lost) /\ FieldsKept(heap, g)
  <2>1. Sound(heap, Plus(Outer(symbols, vb, stack, notes, lost), val))
    BY <1>2, HeapFacts
  <2>2. lost \in [Objs -> Nat] /\ g = UnrefAll(heap, val)
    BY <1>1, HeapFacts
  <2> QED
    BY <1>2, <2>1, <2>2, Release
<1>4. HeapInv'
  BY <1>1, <1>3 DEF HeapInv, EndScript
<1>5. FieldsKept(heap, heap')
  BY <1>1, <1>3 DEF EndScript
<1> QED
  BY <1>4, <1>5, HeapStepKept

LEMMA ParseErrorHeap ==
  ASSUME HeapInv, ParseError
  PROVE  HeapStep
<1>1. PICK vb : vb = [n \in Nodes |-> Void]
  OBVIOUS
<1>2. /\ HoldersTyped(heap, symbols, vb, stack, notes) /\ val \in Seq(Value)
      /\ Plus(Outer(symbols, vb, stack, notes, lost), val)
           = Outer(symbols, val, stack, notes, lost)
  BY <1>1, HeapFacts, ClearVal
<1>3. /\ LoseAll(lost, val) \in [Objs -> Nat]
      /\ Outer(symbols, vb, stack, notes, LoseAll(lost, val))
           = Plus(Outer(symbols, vb, stack, notes, lost), val)
  <2>1. IsFiniteSet(DOMAIN val) /\ lost \in [Objs -> Nat]
    BY <1>2, SeqDomain, HeapFacts
  <2> QED
    BY <1>2, <2>1, LoseOuter
<1>4. State(heap, symbols, vb, stack, notes, LoseAll(lost, val))
  BY <1>2, <1>3, HeapFacts DEF State
<1>5. HeapInv'
  BY <1>1, <1>4 DEF HeapInv, ParseError
<1>6. FieldsKept(heap, heap')
  BY DEF FieldsKept, ParseError
<1> QED
  BY <1>5, <1>6, HeapStepKept

LEMMA EndNoteHeap ==
  ASSUME HeapInv, NEW i \in DOMAIN notes, EndNote(i)
  PROVE  HeapStep
<1>1. PICK no, s, g : no = RemoveAt(notes, i) /\ s = notes[i] /\ g = UnrefAll(heap, s)
  OBVIOUS
<1>2. /\ HoldersTyped(heap, symbols, val, stack, no) /\ s \in Seq(Value)
      /\ Plus(Outer(symbols, val, stack, no, lost), s)
           = Outer(symbols, val, stack, notes, lost)
  <2>1. HoldersTyped(heap, symbols, val, stack, notes) /\ lost \in [Objs -> Nat]
    BY HeapFacts
  <2>2. /\ HoldersTyped(heap, symbols, val, stack, RemoveAt(notes, i))
        /\ notes[i] \in Seq(Value)
        /\ Plus(Outer(symbols, val, stack, RemoveAt(notes, i), lost), notes[i])
             = Outer(symbols, val, stack, notes, lost)
    BY <2>1, DropNote
  <2> QED
    BY <1>1, <2>2
<1>3. State(g, symbols, val, stack, no, lost) /\ FieldsKept(heap, g)
  <2>1. Sound(heap, Plus(Outer(symbols, val, stack, no, lost), s))
    BY <1>2, HeapFacts
  <2>2. lost \in [Objs -> Nat] /\ g = UnrefAll(heap, s)
    BY <1>1, HeapFacts
  <2> QED
    BY <1>2, <2>1, <2>2, Release
<1>4. HeapInv'
  BY <1>1, <1>3 DEF HeapInv, EndNote
<1>5. FieldsKept(heap, heap')
  BY <1>1, <1>3 DEF EndNote
<1> QED
  BY <1>4, <1>5, HeapStepKept

(* A declaration that changes the type of a symbol leaves no object in it. *)
LEMMA DeclaredFacts ==
  ASSUME HeapInv, NEW d \in Declarations, NEW s \in Symbols, NEW pointer \in {NULL, Wild},
         NEW v, v = Declared(d, s, pointer)
  PROVE  ScriptValue(heap, v) /\ v \in Value /\ (v = symbols[s] \/ v.o \notin Objs)
<1>1. ScriptValue(heap, symbols[s]) /\ symbols[s] \in Value
  BY HeapFacts
<1>2. symbols[s].t \in {"void", "num", "handle", "list"}
  BY <1>1 DEF ScriptValue, Value, Types
<1>3. CASE s \notin DOMAIN d \/ d[s] = symbols[s].t
  BY <1>1, <1>3 DEF Declared
<1>4. CASE s \in DOMAIN d /\ d[s] # symbols[s].t /\ d[s] = "num"
  BY <1>4, NumFacts, ValueFacts DEF Declared
<1>5. CASE s \in DOMAIN d /\ d[s] # symbols[s].t /\ d[s] = "handle"
  <2>1. PICK x \in {NULL, Wild} : v = [t |-> "handle", o |-> x]
    BY <1>2, <1>5 DEF Declared
  <2>2. v.t = "handle" /\ v.o = x /\ v \in Value /\ x \notin Objs
    BY <2>1, ObjsFacts DEF Value, Types
  <2>3. Typed(heap, v)
    BY <2>2 DEF Typed
  <2> QED
    BY <2>2, <2>3 DEF ScriptValue
<1>6. s \in DOMAIN d => d[s] \in {"num", "handle"}
  BY DeclarationsAssumption
<1> QED
  BY <1>3, <1>4, <1>5, <1>6

Replaced(sy, sz, ch) ==
  /\ \A s \in Symbols : sz[s] = sy[s] \/ sz[s].o \notin Objs
  /\ DOMAIN ch = {s \in Symbols : sz[s] # sy[s]}
  /\ \A s \in DOMAIN ch : ch[s] = sy[s]
LEMMA HeldChanged ==
  ASSUME NEW sy \in [Symbols -> Value], NEW sz \in [Symbols -> Value],
         NEW ch, Replaced(sy, sz, ch), NEW o \in Objs
  PROVE  /\ Held(o, sy) = Held(o, ch) + Held(o, sz) /\ IsFiniteSet(DOMAIN ch)
         /\ Held(o, ch) \in Nat
<1> USE DEF Replaced
<1>1. IsFiniteSet(Symbols) /\ DOMAIN ch \subseteq Symbols
  BY DeclarationsAssumption
<1>2. IsFiniteSet(DOMAIN ch)
  BY <1>1, FS_Subset
<1>3. IsFiniteSet(Places(o, ch)) /\ Held(o, ch) = Cardinality(Places(o, ch)) /\ Held(o, ch) \in Nat
  BY <1>2, HeldType
<1>4. IsFiniteSet(Places(o, sz)) /\ Held(o, sz) = Cardinality(Places(o, sz))
  <2>1. IsFiniteSet(DOMAIN sz)
    BY <1>1
  <2> QED
    BY <2>1, HeldType
<1>5. Held(o, sy) = Cardinality(Places(o, sy))
  <2>1. IsFiniteSet(DOMAIN sy)
    BY <1>1
  <2> QED
    BY <2>1, HeldType
<1>6. Places(o, ch) \cap Places(o, sz) = {} /\ Places(o, ch) \cup Places(o, sz) = Places(o, sy)
  BY DEF Places
<1> QED
  BY <1>2, <1>3, <1>4, <1>5, <1>6, DisjointSize

LEMMA BeginScriptHeap ==
  ASSUME HeapInv, BeginScript
  PROVE  HeapStep
<1>1. PICK d \in Declarations, pointer \in {NULL, Wild} :
        symbols' = [s \in Symbols |-> Declared(d, s, pointer)]
  BY DEF BeginScript
<1>2. PICK sz : sz = symbols'
  OBVIOUS
<1>3. \A s \in Symbols : /\ ScriptValue(heap, sz[s]) /\ sz[s] \in Value
                         /\ sz[s] = symbols[s] \/ sz[s].o \notin Objs
  <2> TAKE s \in Symbols
  <2>1. sz[s] = Declared(d, s, pointer)
    BY <1>1, <1>2
  <2> QED
    BY <2>1, DeclaredFacts
<1>4. sz \in [Symbols -> Value] /\ symbols \in [Symbols -> Value]
  BY <1>1, <1>2, <1>3, HeapFacts
<1>5. PICK ch : ch = [s \in {s \in Symbols : sz[s] # symbols[s]} |-> symbols[s]]
  OBVIOUS
<1>6. /\ DOMAIN ch = {s \in Symbols : sz[s] # symbols[s]}
      /\ \A s \in DOMAIN ch : ch[s] = symbols[s]
  BY <1>5
<1>7. lost' = LoseAll(lost, ch) /\ UNCHANGED <<heap, val, stack, notes>>
  BY <1>2, <1>5 DEF BeginScript
<1>8. HoldersTyped(heap, sz, val, stack, notes)
  BY <1>3, <1>4, HeapFacts DEF HoldersTyped
<1>9. ASSUME NEW o \in Objs
      PROVE  /\ Held(o, symbols) = Held(o, ch) + Held(o, sz) /\ Held(o, ch) \in Nat
             /\ IsFiniteSet(DOMAIN ch)
  <2>1. Replaced(symbols, sz, ch)
    BY <1>3, <1>6 DEF Replaced
  <2> QED
    BY <1>4, <2>1, HeldChanged
<1>10. PICK lo : lo = LoseAll(lost, ch)
  OBVIOUS
<1>11. lo \in [Objs -> Nat] /\ \A o \in Objs : lo[o] = lost[o] + Held(o, ch)
  <2>1. lost \in [Objs -> Nat]
    BY HeapFacts
  <2>2. \A o \in Objs : lost[o] + Held(o, ch) \in Nat
    BY <1>9, <2>1
  <2> QED
    BY <1>10, <2>2 DEF LoseAll
<1>12. ASSUME NEW o \in Objs
       PROVE  Outer(sz, val, stack, notes, lo)[o] = Outer(symbols, val, stack, notes, lost)[o]
  <2>1. /\ Outer(sz, val, stack, notes, lo)[o] =
             Held(o, sz) + Held(o, val) + HeldAll(o, stack) + HeldAll(o, notes) + lo[o]
        /\ Held(o, sz) \in Nat
    BY <1>8, <1>11, OuterFacts
  <2>2. /\ Outer(symbols, val, stack, notes, lost)[o] =
             Held(o, symbols) + Held(o, val) + HeldAll(o, stack) + HeldAll(o, notes) + lost[o]
        /\ Held(o, val) \in Nat /\ HeldAll(o, stack) \in Nat
        /\ HeldAll(o, notes) \in Nat /\ lost[o] \in Nat
    <3>1. HoldersTyped(heap, symbols, val, stack, notes) /\ lost \in [Objs -> Nat]
      BY HeapFacts
    <3> QED
      BY <3>1, OuterFacts
  <2>3. PICK a \in Nat : a = Held(o, sz)
    BY <2>1
  <2>4. PICK b \in Nat : b = Held(o, ch)
    BY <1>9
  <2>5. PICK c \in Nat : c = Held(o, val)
    BY <2>2
  <2>6. PICK e \in Nat : e = HeldAll(o, stack)
    BY <2>2
  <2>7. PICK f \in Nat : f = HeldAll(o, notes)
    BY <2>2
  <2>8. PICK g \in Nat : g = lost[o]
    BY <2>2
  <2>9. Outer(sz, val, stack, notes, lo)[o] = a + c + e + f + (g + b)
    BY <1>11, <2>1, <2>3, <2>4, <2>5, <2>6, <2>7, <2>8
  <2>10. Outer(symbols, val, stack, notes, lost)[o] = b + a + c + e + f + g
    BY <1>9, <2>2, <2>3, <2>4, <2>5, <2>6, <2>7, <2>8
  <2> QED
    BY <2>9, <2>10
<1>13. Outer(sz, val, stack, notes, lo) = Outer(symbols, val, stack, notes, lost)
  BY <1>12 DEF Outer
<1>14. State(heap, sz, val, stack, notes, lo)
  BY <1>8, <1>11, <1>13, HeapFacts DEF State
<1>15. HeapInv'
  BY <1>2, <1>7, <1>10, <1>14 DEF HeapInv
<1>16. FieldsKept(heap, heap')
  BY <1>7 DEF FieldsKept
<1> QED
  BY <1>15, <1>16, HeapStepKept

LEMMA PushListHeap ==
  ASSUME HeapInv, NEW n, PushList(n)
  PROVE  HeapStep
<1>1. PICK su : su = Append(stack, <<>>)
  OBVIOUS
<1>2. /\ HoldersTyped(heap, symbols, val, su, notes)
      /\ Outer(symbols, val, su, notes, lost) = Outer(symbols, val, stack, notes, lost)
  <2>1. HoldersTyped(heap, symbols, val, stack, notes) /\ lost \in [Objs -> Nat]
    BY HeapFacts
  <2> QED
    BY <1>1, <2>1, PushStack
<1>3. State(heap, symbols, val, su, notes, lost)
  BY <1>2, HeapFacts DEF State
<1>4. HeapInv'
  BY <1>1, <1>3 DEF HeapInv, PushList, memory
<1>5. FieldsKept(heap, heap')
  BY DEF FieldsKept, PushList, memory
<1> QED
  BY <1>4, <1>5, HeapStepKept

LEMMA HeapNext ==
  ASSUME HeapInv, ListsInv, PlainArithmetic, [Next]_vars
  PROVE  HeapStep
<1> USE DEF memory, holders, control
<1>1. CASE UNCHANGED vars
  BY <1>1, HeapStepSame DEF vars
<1>2. CASE BeginScript
  BY <1>2, BeginScriptHeap
<1>3. CASE EndScript
  BY <1>3, EndScriptHeap
<1>4. CASE ParseError
  BY <1>4, ParseErrorHeap
<1>5. CASE Crash
  BY <1>5, HeapStepSame DEF Crash
<1>6. ASSUME NEW n \in Statements, BeginStatement(n) PROVE HeapStep
  BY <1>6, HeapStepSame DEF BeginStatement
<1>7. ASSUME NEW i \in DOMAIN notes, EndNote(i) PROVE HeapStep
  BY <1>7, EndNoteHeap
<1>8. ASSUME NEW n, todo # <<>>, Visit(n) PROVE HeapStep
  <2>1. CASE Descend(n)
    BY <2>1, HeapStepSame DEF Descend
  <2>2. CASE PushList(n)
    BY <2>2, PushListHeap
  <2>3. CASE Constant(n)
    BY <1>8, <2>3, ConstantHeap
  <2>4. CASE Name(n)
    BY <1>8, <2>4, NameHeap
  <2>5. CASE ListElem(n)
    BY <1>8, <2>5, ListElemHeap
  <2>6. CASE RefuseList(n)
    BY <2>6, HeapStepSame DEF RefuseList
  <2>7. CASE MakeList(n)
    BY <1>8, <2>7, MakeListHeap
  <2>8. CASE Store(n)
    BY <1>8, <2>8, StoreHeap
  <2>9. CASE OpAssign(n)
    BY <1>8, <2>9, OpAssignHeap
  <2>10. CASE NoItem(n)
    BY <2>10, HeapStepSame DEF NoItem
  <2>11. CASE SubscriptRead(n)
    BY <1>8, <2>11, SubscriptReadHeap
  <2>12. CASE SubscriptWrite(n)
    BY <1>8, <2>12, SubscriptWriteHeap
  <2>13. CASE OperateNumbers(n)
    BY <1>8, <2>13, OperateNumbersHeap
  <2>14. CASE OperateHandles(n)
    BY <1>8, <2>14, OperateHandlesHeap
  <2>15. CASE OperateList(n)
    BY <1>8, <2>15, OperateListHeap
  <2>16. CASE Call(n) \/ CallMixed(n)
    BY <1>8, <2>16, CallHeap
  <2>17. CASE CallTable(n)
    BY <1>8, <2>17, CallTableHeap
  <2>18. CASE CallNote(n)
    BY <1>8, <2>18, CallNoteHeap
  <2> QED
    BY <1>8, <2>1, <2>2, <2>3, <2>4, <2>5, <2>6, <2>7, <2>8, <2>9, <2>10, <2>11, <2>12,
       <2>13, <2>14, <2>15, <2>16, <2>17, <2>18 DEF Visit
<1> QED
  BY <1>1, <1>2, <1>3, <1>4, <1>5, <1>6, <1>7, <1>8 DEF Next

LEMMA HeapInit ==
  ASSUME Init
  PROVE  HeapInv
<1>1. /\ heap = [o \in Objs |-> Free] /\ symbols = [s \in Symbols |-> Void]
      /\ val = [n \in Nodes |-> Void] /\ lost = [o \in Objs |-> 0]
  BY DEF Init
<1>2. PICK none : none = <<>> /\ stack = none /\ notes = none
  BY DEF Init
<1>3. none \in Seq(Seq(Value)) /\ DOMAIN none = {}
  BY <1>2
<1>4. heap \in Heaps /\ \A o \in Objs : heap[o] = Free
  BY <1>1, ValueFacts DEF Heaps
<1>5. /\ symbols \in [Symbols -> Value] /\ \A s \in Symbols : symbols[s] = Void
      /\ val \in [Nodes -> Value] /\ \A n \in Nodes : val[n] = Void
      /\ lost \in [Objs -> Nat] /\ \A o \in Objs : lost[o] = 0
  BY <1>1, ValueFacts
<1>6. HoldersTyped(heap, symbols, val, none, none)
  BY <1>3, <1>5, NumFacts, ValueFacts DEF HoldersTyped
<1>7. ASSUME NEW o \in Objs PROVE Outer(symbols, val, none, none, lost)[o] = 0
  <2>1. Outer(symbols, val, none, none, lost)[o] =
          Held(o, symbols) + Held(o, val) + HeldAll(o, none) + HeldAll(o, none) + lost[o]
    BY <1>5, <1>6, OuterFacts
  <2>2. Void.o # o
    BY NumFacts
  <2>3. Held(o, symbols) = 0
    <3>1. IsFiniteSet(DOMAIN symbols) /\ \A s \in DOMAIN symbols : symbols[s].o # o
      BY <1>5, <2>2, DeclarationsAssumption
    <3> QED
      BY <3>1, HeldType
  <2>4. Held(o, val) = 0
    <3>1. IsFiniteSet(DOMAIN val) /\ \A n \in DOMAIN val : val[n].o # o
      BY <1>5, <2>2, NodesFacts
    <3> QED
      BY <3>1, HeldType
  <2>5. HeldAll(o, none) = 0
    <3>1. Finite(none)
      BY <1>3, FiniteSeqs
    <3> QED
      BY <1>3, <3>1, HeldAllType
  <2> QED
    BY <1>5, <2>1, <2>3, <2>4, <2>5
<1>8. ASSUME NEW o \in Objs PROVE HeldAll(o, Elements(heap)) = 0
  <2>1. \A p \in Objs : DOMAIN heap[p].elems = {}
    BY <1>4, ValueFacts
  <2> QED
    BY <1>4, <2>1, InnerType
<1>9. Sound(heap, Outer(symbols, val, none, none, lost))
  <2>1. \A o \in Objs : WellMade(heap, heap[o])
    BY <1>4, WellMadeFree
  <2>2. ASSUME NEW o \in Objs
        PROVE  /\ heap[o].ref = HeldAll(o, Elements(heap)) + Outer(symbols, val, none, none, lost)[o]
               /\ heap[o].kind = "free"
    BY <1>4, <1>7, <1>8, ValueFacts
  <2> QED
    BY <1>4, <2>1, <2>2 DEF Sound, Counted
<1> QED
  BY <1>2, <1>5, <1>6, <1>9 DEF HeapInv, State

(* What the invariants say of the properties.                              *)
LEMMA HeapTyped ==
  ASSUME HeapInv, ListsInv
  PROVE  TypeOK
<1>1. heap \in Heaps /\ lost \in [Objs -> Int]
  BY HeapFacts
<1>2. ASSUME NEW o \in Objs
      PROVE  /\ heap[o].kind \in {"free", "list", "handle", "inst", "pfield", "bad"}
             /\ heap[o].ref \in Nat
             /\ \A i \in DOMAIN heap[o].elems : heap[o].elems[i] \in Value
  <2>1. heap[o].kind \in Kinds /\ heap[o].ref \in Nat /\ heap[o].elems \in Seq(Value)
    BY <1>1, ObjectFacts
  <2>2. \A i \in DOMAIN heap[o].elems : heap[o].elems[i] \in Value
    BY <2>1
  <2> QED
    BY <2>1, <2>2 DEF Kinds
<1>3. symbols \in [Symbols -> Value] /\ val \in [Nodes -> Value]
  BY HeapFacts
<1>4. /\ \A i \in DOMAIN stack : \A j \in DOMAIN stack[i] : stack[i][j] \in Value
      /\ \A i \in DOMAIN notes : \A j \in DOMAIN notes[i] : notes[i][j] \in Value
  BY DEF HeapInv, State, HoldersTyped, ScriptValue, FieldValue, Typed
<1>5. /\ list_count \in Nat /\ left \in 0 .. MaxStatements
      /\ script \in {"none", "running"} /\ crashed \in BOOLEAN
  BY DEF ListsInv, ControlTypes
<1> QED
  BY <1>1, <1>2, <1>3, <1>4, <1>5 DEF TypeOK

LEMMA HeapExact ==
  ASSUME HeapInv
  PROVE  RefsExact /\ UnrefsLive
<1>1. /\ HoldersTyped(heap, symbols, val, stack, notes) /\ lost \in [Objs -> Nat]
      /\ Sound(heap, Outer(symbols, val, stack, notes, lost))
      /\ Outer(symbols, val, stack, notes, lost) \in Outs
  BY HeapFacts
<1>2. ASSUME NEW o \in Objs
      PROVE  LET held == Held(o, symbols) + Held(o, val)
                         + HeldAll(o, stack) + HeldAll(o, notes) + HeldAll(o, Elements(heap))
             IN  /\ heap[o].kind = "free" => held = 0
                 /\ heap[o].kind # "free" => heap[o].ref > 0 /\ heap[o].ref = held + lost[o]
  <2>1. /\ heap[o].ref = HeldAll(o, Elements(heap)) + Outer(symbols, val, stack, notes, lost)[o]
        /\ heap[o].kind = "free" => heap[o] = Free
        /\ heap[o].kind # "free" => heap[o].ref > 0
    BY <1>1 DEF Sound, Counted
  <2>2. /\ Outer(symbols, val, stack, notes, lost)[o] =
             Held(o, symbols) + Held(o, val) + HeldAll(o, stack) + HeldAll(o, notes) + lost[o]
        /\ Held(o, symbols) \in Nat /\ Held(o, val) \in Nat /\ HeldAll(o, stack) \in Nat
        /\ HeldAll(o, notes) \in Nat /\ lost[o] \in Nat
    BY <1>1, OuterFacts
  <2>3. PICK a \in Nat : a = Held(o, symbols)
    BY <2>2
  <2>4. PICK b \in Nat : b = Held(o, val)
    BY <2>2
  <2>5. PICK c \in Nat : c = HeldAll(o, stack)
    BY <2>2
  <2>6. PICK d \in Nat : d = HeldAll(o, notes)
    BY <2>2
  <2>7. PICK e \in Nat : e = HeldAll(o, Elements(heap))
    BY HeapFacts, InnerType
  <2>8. PICK f \in Nat : f = lost[o]
    BY <2>2
  <2>9. heap[o].ref = e + (a + b + c + d + f)
    BY <2>1, <2>2, <2>3, <2>4, <2>5, <2>6, <2>7, <2>8
  <2>10. heap[o].kind = "free" => heap[o].ref = 0
    BY <2>1, ValueFacts
  <2>11. /\ heap[o].kind = "free" => a + b + c + d + e = 0
         /\ heap[o].kind # "free" => heap[o].ref = (a + b + c + d + e) + f
    BY <2>9, <2>10
  <2> QED
    BY <2>1, <2>3, <2>4, <2>5, <2>6, <2>7, <2>8, <2>11
<1>3. RefsExact
  BY <1>2 DEF RefsExact
<1>4. UnrefsLive
  BY <1>1 DEF Sound, Counted, UnrefsLive
<1> QED
  BY <1>3, <1>4

(* The PFields that a step leaves alone are closed under their operands,   *)
(* and hold the arguments of a note that goes on.                          *)
LEMMA FieldsStay ==
  ASSUME HeapInv, HeapStep, NEW i \in DOMAIN notes, i \in DOMAIN notes', notes'[i] = notes[i]
  PROVE  \A o \in NoteFields(i) : heap'[o].elems = heap[o].elems /\ heap'[o].kind = "pfield"
<1>1. /\ \A j \in DOMAIN notes[i] : FieldValue(heap, notes[i][j])
      /\ \A o \in Objs : WellMade(heap, heap[o])
  BY DEF HeapInv, State, HoldersTyped, Sound
<1>2. PICK g, no : g = heap' /\ no = notes'
  OBVIOUS
<1>3. /\ i \in DOMAIN no /\ no[i] = notes[i]
      /\ \A j \in DOMAIN no[i] : FieldValue(g, no[i][j])
      /\ \A o \in Objs : WellMade(g, g[o])
      /\ FieldsFresh(heap, g)
  <2>1. HeapInv' /\ FieldsFresh(heap, heap')
    BY DEF HeapStep
  <2>2. /\ \A k \in DOMAIN notes' : \A j \in DOMAIN notes'[k] : FieldValue(heap', notes'[k][j])
        /\ \A o \in Objs : WellMade(heap', heap'[o])
    BY <2>1 DEF HeapInv, State, HoldersTyped, Sound
  <2> QED
    BY <1>2, <2>1, <2>2
<1>4. PICK S : S = {o \in Objs : /\ heap[o].kind = "pfield" /\ g[o].kind = "pfield"
                                 /\ g[o].elems = heap[o].elems}
  OBVIOUS
<1>5. ASSUME NEW v, FieldValue(heap, v), FieldValue(g, v)
      PROVE  v.o \in S \cup {NULL}
  <2>1. CASE v.t = "num"
    BY <1>5, <2>1 DEF FieldValue, Typed
  <2>2. CASE v.t = "pfield"
    <3>1. v.o \in Objs /\ heap[v.o].kind = "pfield" /\ g[v.o].kind = "pfield"
      BY <1>5, <2>2 DEF FieldValue, Typed
    <3>2. g[v.o].elems = heap[v.o].elems
      BY <1>3, <3>1 DEF FieldsFresh
    <3> QED
      BY <1>4, <3>1, <3>2
  <2> QED
    BY <1>5, <2>1, <2>2 DEF FieldValue
<1>6. \A j \in DOMAIN notes[i] : notes[i][j].o \in S \cup {NULL}
  BY <1>1, <1>3, <1>5
<1>7. \A p \in S : \A k \in DOMAIN heap[p].elems : heap[p].elems[k].o \in S \cup {NULL}
  <2> TAKE p \in S
  <2> TAKE k \in DOMAIN heap[p].elems
  <2>1. p \in Objs /\ heap[p].kind = "pfield" /\ g[p].kind = "pfield"
        /\ g[p].elems = heap[p].elems
    BY <1>4
  <2>2. FieldValue(heap, heap[p].elems[k]) /\ FieldValue(g, heap[p].elems[k])
    BY <1>1, <1>3, <2>1 DEF WellMade
  <2> QED
    BY <1>5, <2>2
<1>8. S \in SUBSET Objs
  BY <1>4
<1>9. NoteFields(i) \subseteq S
  BY <1>6, <1>7, <1>8 DEF NoteFields
<1> QED
  BY <1>2, <1>4, <1>9

(* Sharing without leaving anything dangling: as long as no list of lists  *)
(* or handles is computed with (do_op_list_iterate() does not count what   *)
(* it copies), the counts are exact whatever scripts, symbol tables and    *)
(* numbers of objects there are.  With what is lost (declare(), a syntax   *)
(* error, operators that overwrite a value) they are too high, never too   *)
(* low.                                                                    *)
THEOREM SpecHeapInv == Spec /\ []PlainArithmetic => [](HeapInv /\ ListsInv)
<1>1. Init => HeapInv /\ ListsInv
  BY HeapInit, ListsInit
<1>2. HeapInv /\ ListsInv /\ PlainArithmetic /\ [Next]_vars => HeapInv' /\ ListsInv'
  BY HeapNext, ListsStep DEF HeapStep
<1> QED
  BY <1>1, <1>2, PTL DEF Spec

(* The state is well-typed: the object of a list is never taken for that   *)
(* of a handle or a PField.                                                *)
THEOREM SpecTypeOK == Spec /\ []PlainArithmetic => []TypeOK
<1>1. HeapInv /\ ListsInv => TypeOK
  BY HeapTyped
<1> QED
  BY <1>1, SpecHeapInv, PTL

(* copy_value(), clear_list(), free_tree() and ~Instrument(): the count of *)
(* each object is the number of places that hold it and of the references  *)
(* that were lost, and what is freed is held nowhere.                      *)
THEOREM SpecRefsExact == Spec /\ []PlainArithmetic => []RefsExact
<1>1. HeapInv /\ ListsInv => RefsExact
  BY HeapExact
<1> QED
  BY <1>1, SpecHeapInv, PTL

(* Neither assertion of unrefHandle() and RefCounted::unref() fails.       *)
THEOREM SpecUnrefsLive == Spec /\ []PlainArithmetic => []UnrefsLive
<1>1. HeapInv /\ ListsInv => UnrefsLive
  BY HeapExact
<1> QED
  BY <1>1, SpecHeapInv, PTL

(* checkInsts() and PFieldSet::load(): whatever scripts do next, the       *)
(* PFields of a note that was started, and the operands they are computed  *)
(* from, stay what they were.                                              *)
THEOREM SpecNotesKeepFields == Spec /\ []PlainArithmetic => NotesKeepFields
<1>1. HeapInv /\ ListsInv /\ PlainArithmetic /\ [Next]_vars =>
        [\A i \in DOMAIN notes :
           (i \in DOMAIN notes' /\ notes'[i] = notes[i] /\ Len(notes') >= Len(notes))
           => \A o \in NoteFields(i) : heap'[o].elems = heap[o].elems
                                      /\ heap'[o].kind = "pfield"]_vars
  BY HeapNext, FieldsStay
<1> QED
  BY <1>1, SpecHeapInv, PTL DEF Spec, NotesKeepFields

-----------------------------------------------------------------------------
(* Scripts whose operators meet no list satisfy PlainArithmetic.  Whether  *)
(* they do can be told from their trees: S are variables and N nodes whose *)
(* values are never lists, since what is stored and computed there are     *)
(* constants, results of calls or values of others of them.                *)
Scalar(S, N) ==
  /\ S \subseteq Symbols /\ N \subseteq Nodes
  /\ \A n \in N :
       \/ KindOf(n) \in {"const", "call"}
       \/ KindOf(n) \in {"name", "opassign"} /\ Code[n].sym \in S
       \/ KindOf(n) = "store" /\ Code[n].kids[1] \in N
       \/ KindOf(n) = "operator"
  /\ \A n \in Nodes :
       /\ KindOf(n) = "operator" => {Code[n].kids[1], Code[n].kids[2]} \subseteq N
       /\ KindOf(n) = "store" /\ Code[n].sym \in S => Code[n].kids[1] \in N
ScalarScript == \E S, N : Scalar(S, N)
ScalarInv(S, N) ==
  /\ \A s \in S : symbols[s].t # "list"
  /\ \A n \in N : val[n].t # "list"

LEMMA ScalarPlain ==
  ASSUME NEW S, NEW N, Scalar(S, N), ScalarInv(S, N), ListsInv
  PROVE  PlainArithmetic
<1> SUFFICES ASSUME NEW n \in Nodes, KindOf(n) = "operator", OperatorCase(n) = "iterate"
             PROVE  FALSE
  BY DEF PlainArithmetic
<1>1. Kid(n, 1).t # "list" /\ Kid(n, 2).t # "list"
  BY DEF Scalar, ScalarInv, Kid
<1> QED
  BY <1>1 DEF OperatorCase

LEMMA ScalarInit ==
  ASSUME Init, NEW S, NEW N, Scalar(S, N)
  PROVE  ScalarInv(S, N)
  BY DEF Init, Scalar, ScalarInv, Void

LEMMA ScalarPut ==
  ASSUME HeapInv, NEW S, NEW N, Scalar(S, N), ScalarInv(S, N), NEW n, NEW v, Result(n, v),
         n \in N => v.t # "list"
  PROVE  \A m \in N : val'[m].t # "list"
<1>1. val \in [Nodes -> Value] /\ val' = [val EXCEPT ![n] = v]
  BY HeapFacts DEF Result
<1> TAKE m \in N
<1>2. val[m].t # "list" /\ m \in Nodes
  BY DEF Scalar, ScalarInv
<1>3. val'[m] = IF m = n THEN v ELSE val[m]
  BY <1>1, <1>2
<1> QED
  BY <1>2, <1>3

(* What a node with an action of its own leaves in it.                     *)
LEMMA ScalarDo ==
  ASSUME HeapInv, ListsInv, todo # <<>>, NEW S, NEW N, Scalar(S, N), ScalarInv(S, N),
         NEW n, NEW k, At(n, k), NEW v, Result(n, v), UNCHANGED symbols,
         v.t # "list" \/ KindOf(n) \in {"list", "elem", "read", "write"}
  PROVE  ScalarInv(S, N)'
<1>1. n \in N => v.t # "list"
  BY DEF Scalar
<1>2. \A m \in N : val'[m].t # "list"
  BY <1>1, ScalarPut
<1> QED
  BY <1>2 DEF ScalarInv

LEMMA ScalarNext ==
  ASSUME HeapInv, ListsInv, NEW S, NEW N, Scalar(S, N), ScalarInv(S, N), [Next]_vars
  PROVE  ScalarInv(S, N)'
<1> USE DEF memory, holders, control
<1> DEFINE Same == symbols' = symbols /\ val' = val
<1>0. Same => ScalarInv(S, N)'
  BY DEF ScalarInv
<1>1. CASE UNCHANGED vars
  BY <1>0, <1>1 DEF vars
<1>2. CASE BeginScript
  <2>1. val' = val
    BY <1>2 DEF BeginScript
  <2>2. PICK d \in Declarations, pointer \in {NULL, Wild} :
          symbols' = [s \in Symbols |-> Declared(d, s, pointer)]
    BY <1>2 DEF BeginScript
  <2>3. ASSUME NEW s \in S PROVE symbols'[s].t # "list"
    <3>1. s \in Symbols /\ symbols[s].t # "list"
      BY DEF Scalar, ScalarInv
    <3>2. symbols'[s] = Declared(d, s, pointer)
      BY <2>2, <3>1
    <3> QED
      BY <3>1, <3>2 DEF Declared, Num
  <2> QED
    BY <2>1, <2>3 DEF ScalarInv
<1>3. CASE EndScript \/ ParseError
  <2>1. symbols' = symbols /\ val' = [n \in Nodes |-> Void]
    BY <1>3 DEF EndScript, ParseError
  <2>2. ASSUME NEW n \in N PROVE val'[n].t # "list"
    BY <2>1 DEF Scalar, Void
  <2> QED
    BY <2>1, <2>2 DEF ScalarInv
<1>4. CASE Crash
  BY <1>0, <1>4 DEF Crash
<1>5. ASSUME NEW n \in Statements, BeginStatement(n) PROVE ScalarInv(S, N)'
  BY <1>0, <1>5 DEF BeginStatement
<1>6. ASSUME NEW i \in DOMAIN notes, EndNote(i) PROVE ScalarInv(S, N)'
  BY <1>0, <1>6 DEF EndNote
<1>7. ASSUME NEW n, todo # <<>>, Visit(n) PROVE ScalarInv(S, N)'
  <2>1. CASE Descend(n) \/ PushList(n) \/ RefuseList(n) \/ NoItem(n)
    BY <1>0, <2>1 DEF Descend, PushList, RefuseList, NoItem
  <2>2. CASE Constant(n)
    BY <1>7, <2>2, ScalarDo DEF Constant, Num
  <2>3. CASE Name(n)
    <3> DEFINE v == symbols[Code[n].sym]
    <3>1. At(n, {"name"}) /\ Result(n, v) /\ UNCHANGED symbols
      BY <2>3 DEF Name, Keep
    <3>2. n \in N => v.t # "list"
      BY <3>1 DEF At, Scalar, ScalarInv
    <3>3. \A m \in N : val'[m].t # "list"
      BY <3>1, <3>2, ScalarPut
    <3> QED
      BY <3>1, <3>3 DEF ScalarInv
  <2>4. CASE ListElem(n)
    <3> DEFINE v == val[Last(Code[n].kids)]
    <3>1. At(n, {"elem"}) /\ Result(n, v) /\ UNCHANGED symbols
      BY <2>4 DEF ListElem
    <3>2. KindOf(n) = "elem"
      BY <3>1 DEF At
    <3> QED
      BY <1>7, <3>1, <3>2, ScalarDo
  <2>5. CASE MakeList(n)
    <3>1. PICK v : Result(n, v)
      BY <2>5 DEF MakeList
    <3>2. At(n, {"list"}) /\ KindOf(n) = "list" /\ UNCHANGED symbols
      BY <2>5 DEF MakeList, At
    <3> QED
      BY <1>7, <3>1, <3>2, ScalarDo
  <2>6. CASE Store(n)
    <3> DEFINE s == Code[n].sym
               v == Kid(n, 1)
    <3>1. /\ At(n, {"store"}) /\ Result(n, v)
          /\ symbols' = [symbols EXCEPT ![s] = v]
      BY <2>6 DEF Store
    <3>2. n \in Nodes /\ KindOf(n) = "store"
      BY <1>7, <3>1, DoFacts
    <3>3. n \in N \/ s \in S => v.t # "list"
      BY <3>2 DEF Scalar, ScalarInv, Kid
    <3>4. \A m \in N : val'[m].t # "list"
      BY <3>1, <3>3, ScalarPut
    <3>5. ASSUME NEW r \in S PROVE symbols'[r].t # "list"
      <4>1. symbols \in [Symbols -> Value] /\ r \in Symbols /\ symbols[r].t # "list"
        BY HeapFacts DEF Scalar, ScalarInv
      <4>2. symbols'[r] = IF r = s THEN v ELSE symbols[r]
        BY <3>1, <4>1
      <4> QED
        BY <3>3, <4>1, <4>2
    <3> QED
      BY <3>4, <3>5 DEF ScalarInv
  <2>7. CASE OpAssign(n)
    <3>1. At(n, {"opassign"}) /\ KindOf(n) = "opassign" /\ UNCHANGED symbols
      BY <2>7 DEF OpAssign, At
    <3>2. \E v : Result(n, v) /\ v \in {Num, symbols[Code[n].sym]}
      BY <2>7 DEF OpAssign, Keep, Overwrite
    <3>3. PICK v : Result(n, v) /\ v \in {Num, symbols[Code[n].sym]}
      BY <3>2
    <3>4. n \in N => v.t # "list"
      BY <3>1, <3>3 DEF Scalar, ScalarInv, Num
    <3>5. \A m \in N : val'[m].t # "list"
      BY <3>3, <3>4, ScalarPut
    <3> QED
      BY <3>1, <3>5 DEF ScalarInv
  <2>8. CASE SubscriptRead(n)
    <3>1. At(n, {"read"}) /\ KindOf(n) = "read" /\ UNCHANGED symbols
      BY <2>8 DEF SubscriptRead, At
    <3>2. PICK v : Result(n, v)
      BY <2>8 DEF SubscriptRead, Keep, Overwrite
    <3> QED
      BY <1>7, <3>1, <3>2, ScalarDo
  <2>9. CASE SubscriptWrite(n)
    <3>1. At(n, {"write"}) /\ KindOf(n) = "write" /\ UNCHANGED symbols
      BY <2>9 DEF SubscriptWrite, At
    <3>2. PICK v : Result(n, v)
      BY <2>9 DEF SubscriptWrite
    <3> QED
      BY <1>7, <3>1, <3>2, ScalarDo
  <2>10. CASE OperateNumbers(n)
    <3>1. CASE OperatorCase(n) = "numbers" /\ Overwrite(n, Num)
      BY <1>7, <2>10, <3>1, ScalarDo DEF OperateNumbers, Overwrite, Num
    <3>2. CASE UNCHANGED <<val, lost>>
      BY <1>0, <2>10, <3>2 DEF OperateNumbers
    <3> QED
      BY <2>10, <3>1, <3>2 DEF OperateNumbers
  <2>11. CASE OperateHandles(n)
    <3>1. PICK v : v.t = "handle" /\ Result(n, v)
      BY <2>11 DEF OperateHandles, Overwrite, HandleTo
    <3>2. At(n, {"operator"}) /\ UNCHANGED symbols
      BY <2>11 DEF OperateHandles
    <3> QED
      BY <1>7, <3>1, <3>2, ScalarDo
  <2>12. CASE OperateList(n)
    <3>1. At(n, {"operator"}) /\ OperatorCase(n) = "iterate"
      BY <2>12 DEF OperateList
    <3>2. n \in Nodes /\ KindOf(n) = "operator"
      BY <1>7, <3>1, DoFacts
    <3>3. Kid(n, 1).t # "list" /\ Kid(n, 2).t # "list"
      BY <3>2 DEF Scalar, ScalarInv, Kid
    <3> QED
      BY <3>1, <3>3 DEF OperatorCase
  <2>13. CASE Call(n) \/ CallTable(n) \/ CallNote(n) \/ CallMixed(n)
    <3>1. At(n, {"call"}) /\ UNCHANGED symbols
      BY <2>13 DEF Call, CallTable, CallNote, CallMixed, Returns
    <3>2. PICK v : v.t # "list" /\ Result(n, v)
      BY <2>13 DEF Call, CallTable, CallNote, CallMixed, Returns, Num, HandleTo
    <3> QED
      BY <1>7, <3>1, <3>2, ScalarDo
  <2> QED
    BY <1>7, <2>1, <2>2, <2>3, <2>4, <2>5, <2>6, <2>7, <2>8, <2>9, <2>10, <2>11, <2>12,
       <2>13 DEF Visit
<1> QED
  BY <1>1, <1>2, <1>3, <1>4, <1>5, <1>6, <1>7 DEF Next

(* exct_operator() is where arithmetic goes wrong, and only on lists: a    *)
(* script whose operators meet none keeps exact counts and unreferences    *)
(* only what is live, with no more said of what it does when it runs.      *)
THEOREM ScalarScriptsCount ==
  ASSUME ScalarScript
  PROVE  Spec => [](PlainArithmetic /\ RefsExact /\ UnrefsLive)
<1>1. PICK S, N : Scalar(S, N)
  BY DEF ScalarScript
<1> DEFINE SInv == HeapInv /\ ListsInv /\ ScalarInv(S, N)
<1>2. Init => SInv
  BY <1>1, HeapInit, ListsInit, ScalarInit
<1>3. SInv /\ [Next]_vars => SInv'
  <2>1. SUFFICES ASSUME SInv, [Next]_vars PROVE SInv'
    OBVIOUS
  <2>2. PlainArithmetic
    BY <1>1, <2>1, ScalarPlain
  <2>3. HeapInv' /\ ListsInv'
    BY <2>1, <2>2, HeapNext, ListsStep DEF HeapStep
  <2>4. ScalarInv(S, N)'
    BY <1>1, <2>1, ScalarNext
  <2> QED
    BY <2>3, <2>4
<1>4. SInv => PlainArithmetic /\ RefsExact /\ UnrefsLive
  BY <1>1, ScalarPlain, HeapExact
<1> HIDE DEF SInv
<1> QED
  BY <1>2, <1>3, <1>4, PTL DEF Spec
=============================================================================
