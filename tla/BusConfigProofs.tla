-------------------------- MODULE BusConfigProofs --------------------------
(***************************************************************************)
(* Theorems of BusConfig, for every number of buses and every set of slots *)
(* that leaves room in the input lists.                                    *)
(***************************************************************************)
EXTENDS BusConfig, WellFoundedInduction, SequenceTheorems, FiniteSetTheorems,
        TLAPS

(***************************************************************************)
(* Loops.  The code's loops are recursive functions of the model; these    *)
(* two lemmas are the induction behind every fact about them.              *)
(***************************************************************************)
(* A non-empty set of naturals has a least element.                        *)
LEMMA LeastNat ==
  ASSUME NEW S \in SUBSET Nat, S # {}
  PROVE  \E m \in S : \A x \in S : m <= x
<1> DEFINE R == {p \in Nat \X Nat : p[1] < p[2]}
<1>1. IsWellFoundedOn(R, Nat)
  BY NatLessThanWellFounded DEF OpToRel
<1>2. PICK m \in S : \A x \in S : <<x, m>> \notin R
  BY <1>1, WFMin
<1>3. \A x \in S : m <= x
  <2> TAKE x \in S
  <2>1. ~(x < m)
    BY <1>2
  <2> QED
    BY <2>1
<1> QED
  BY <1>3

(* What holds before a loop and is kept by each turn holds throughout.     *)
LEMMA Throughout ==
  ASSUME NEW n \in Nat, NEW P, 0 \in P, \A k \in 1 .. n : k - 1 \in P => k \in P
  PROVE  \A k \in 0 .. n : k \in P
<1> SUFFICES ASSUME NEW k \in 0 .. n, k \notin P PROVE FALSE
  OBVIOUS
<1>1. PICK m \in {x \in 0 .. n : x \notin P} : \A x \in {y \in 0 .. n : y \notin P} : m <= x
  <2>1. {x \in 0 .. n : x \notin P} \in SUBSET Nat
    OBVIOUS
  <2> QED
    BY <2>1, LeastNat
<1>2. m \in 1 .. n
  BY <1>1
<1>3. m - 1 \in P
  BY <1>1, <1>2
<1> QED
  BY <1>1, <1>2, <1>3

(* A loop over a set of states, and that it has a value at every turn.     *)
Turns(n, S) == [1 .. n -> [S -> S]]
IsLoop(f, n, S, start, turn) ==
  /\ f \in [0 .. n -> S]
  /\ f[0] = start
  /\ \A k \in 1 .. n : f[k] = turn[k][f[k - 1]]
LEMMA LoopExists ==
  ASSUME NEW n \in Nat, NEW S, NEW start \in S, NEW turn \in Turns(n, S)
  PROVE  \E f : IsLoop(f, n, S, start, turn)
<1> DEFINE P == {k \in 0 .. n : \E f \in [0 .. k -> S] :
                   f[0] = start /\ \A j \in 1 .. k : f[j] = turn[j][f[j - 1]]}
<1>1. 0 \in P
  <2> DEFINE g == [j \in 0 .. 0 |-> start]
  <2>1. g \in [0 .. 0 -> S] /\ g[0] = start
    OBVIOUS
  <2> HIDE DEF g
  <2>2. \A j \in 1 .. 0 : g[j] = turn[j][g[j - 1]]
    OBVIOUS
  <2> QED
    BY <2>1, <2>2
<1>2. ASSUME NEW k \in 1 .. n, k - 1 \in P PROVE k \in P
  <2>1. PICK f \in [0 .. k - 1 -> S] :
          f[0] = start /\ \A j \in 1 .. k - 1 : f[j] = turn[j][f[j - 1]]
    BY <1>2
  <2> DEFINE g == [j \in 0 .. k |-> IF j < k THEN f[j] ELSE turn[k][f[k - 1]]]
  <2>2. f[k - 1] \in S /\ turn[k] \in [S -> S]
    BY <2>1 DEF Turns
  <2>3. \A j \in 0 .. k : g[j] \in S
    BY <2>1, <2>2
  <2>4. g \in [0 .. k -> S]
    BY <2>3
  <2>5. g[0] = start /\ \A j \in 1 .. k : g[j] = turn[j][g[j - 1]]
    BY <2>1
  <2> HIDE DEF g
  <2> QED
    BY <2>4, <2>5
<1>3. n \in P
  <2> HIDE DEF P
  <2>1. \A k \in 0 .. n : k \in P
    BY <1>1, <1>2, Throughout
  <2> QED
    BY <2>1
<1> QED
  BY <1>3 DEF IsLoop

(***************************************************************************)
(* The lists of buses.                                                     *)
(***************************************************************************)
LEMMA ConstantFacts ==
  /\ MAXBUS \in Nat /\ MAXBUS - 1 \in Nat /\ MAXBUS > 1 /\ Bus = 0 .. MAXBUS - 2
  /\ NCHANS \in Nat /\ NCHANS < MAXBUS /\ MaxConfigs \in Nat
BY MaxbusAssumption, NchansAssumption, BoundAssumption DEF Bus

(* The loop of Ascending, turn by turn.                                    *)
LEMMA AscendingLoop ==
  ASSUME NEW S
  PROVE  \E upto \in [0 .. MAXBUS - 1 -> Seq(Bus)] :
           /\ Ascending(S) = upto[MAXBUS - 1] /\ upto[0] = <<>>
           /\ \A i \in 1 .. MAXBUS - 1 :
                upto[i] = IF i - 1 \in S THEN Append(upto[i - 1], i - 1) ELSE upto[i - 1]
<1> DEFINE N == MAXBUS - 1
           turn == [i \in 1 .. N |->
                      [q \in Seq(Bus) |-> IF i - 1 \in S THEN Append(q, i - 1) ELSE q]]
           Solves(f) == f = [i \in 0 .. N |->
                          IF i = 0 THEN <<>>
                          ELSE IF i - 1 \in S THEN Append(f[i - 1], i - 1) ELSE f[i - 1]]
           u == CHOOSE f : Solves(f)
<1>1. N \in Nat /\ \A i \in 1 .. N : i - 1 \in Bus /\ i - 1 \in 0 .. N /\ i \in 0 .. N /\ i # 0
  BY ConstantFacts
<1>2. Ascending(S) = u[N]
  BY DEF Ascending
<1> HIDE DEF N
<1>3. turn \in Turns(N, Seq(Bus))
  <2>1. \A i \in 1 .. N : \A q \in Seq(Bus) : Append(q, i - 1) \in Seq(Bus)
    BY <1>1, AppendProperties
  <2> QED
    BY <2>1 DEF Turns
<1>4. <<>> \in Seq(Bus)
  BY EmptySeq
<1>5. PICK h : IsLoop(h, N, Seq(Bus), <<>>, turn)
  <2> HIDE DEF turn
  <2> QED
    BY <1>1, <1>3, <1>4, LoopExists
<1>6. /\ h \in [0 .. N -> Seq(Bus)] /\ h[0] = <<>>
      /\ \A i \in 1 .. N :
           h[i] = IF i - 1 \in S THEN Append(h[i - 1], i - 1) ELSE h[i - 1]
  <2>1. /\ h \in [0 .. N -> Seq(Bus)] /\ h[0] = <<>>
        /\ \A i \in 1 .. N : h[i] = turn[i][h[i - 1]]
    BY <1>5 DEF IsLoop
  <2>2. \A i \in 1 .. N : h[i - 1] \in Seq(Bus)
    BY <1>1, <2>1
  <2>3. \A i \in 1 .. N : \A q \in Seq(Bus) :
          turn[i][q] = IF i - 1 \in S THEN Append(q, i - 1) ELSE q
    OBVIOUS
  <2> HIDE DEF turn
  <2>4. ASSUME NEW i \in 1 .. N
        PROVE  h[i] = IF i - 1 \in S THEN Append(h[i - 1], i - 1) ELSE h[i - 1]
    <3>1. PICK q \in Seq(Bus) : q = h[i - 1]
      BY <2>2
    <3>2. h[i] = turn[i][q]
      BY <2>1, <3>1
    <3>3. turn[i][q] = IF i - 1 \in S THEN Append(q, i - 1) ELSE q
      BY <2>3
    <3> QED
      BY <3>1, <3>2, <3>3
  <2> QED
    BY <2>1, <2>4
<1>7. Solves(h)
  <2> DEFINE g == [i \in 0 .. N |->
                     IF i = 0 THEN <<>>
                     ELSE IF i - 1 \in S THEN Append(h[i - 1], i - 1) ELSE h[i - 1]]
  <2>1. ASSUME NEW i \in 0 .. N PROVE g[i] = h[i]
    <3>1. i = 0 \/ i \in 1 .. N
      BY <1>1
    <3> QED
      BY <1>1, <1>6, <3>1
  <2>2. DOMAIN g = 0 .. N /\ DOMAIN h = 0 .. N
    BY <1>6
  <2>3. g = [i \in 0 .. N |-> g[i]] /\ h = [i \in 0 .. N |-> h[i]]
    BY <1>6
  <2>4. h = g
    <3> HIDE DEF g
    <3> QED
      BY <2>1, <2>3
  <2> QED
    BY <2>4
<1>8. Solves(u)
  <2> HIDE DEF Solves
  <2> QED
    BY <1>7
<1> HIDE DEF u
<1>9. \A i \in 0 .. N : u[i] = h[i]
  <2> DEFINE P == {i \in 0 .. N : u[i] = h[i]}
  <2>1. 0 \in P
    BY <1>1, <1>6, <1>8
  <2>2. \A i \in 1 .. N : i - 1 \in P => i \in P
    BY <1>1, <1>6, <1>8
  <2> HIDE DEF P
  <2>3. \A i \in 0 .. N : i \in P
    BY <1>1, <2>1, <2>2, Throughout
  <2> QED
    BY <2>3 DEF P
<1> QED
  BY <1>1, <1>2, <1>6, <1>9 DEF N

(* It returns the buses of a set, each once.                               *)
LEMMA AscendingProperties ==
  ASSUME NEW S \in SUBSET Bus
  PROVE  /\ Ascending(S) \in Seq(Bus)
         /\ ToSet(Ascending(S)) = S
         /\ IsInjective(Ascending(S))
<1> DEFINE N == MAXBUS - 1
<1>0. N \in Nat /\ Bus = 0 .. N - 1
  BY ConstantFacts
<1>1. PICK upto \in [0 .. N -> Seq(Bus)] :
        /\ Ascending(S) = upto[N] /\ upto[0] = <<>>
        /\ \A i \in 1 .. N :
             upto[i] = IF i - 1 \in S THEN Append(upto[i - 1], i - 1) ELSE upto[i - 1]
  BY AscendingLoop
<1> HIDE DEF N
<1> DEFINE Good(q, i) == /\ q \in Seq(Bus)
                         /\ \A j \in 1 .. Len(q) : q[j] \in S /\ q[j] < i
                         /\ \A b \in S : b < i => \E j \in 1 .. Len(q) : q[j] = b
                         /\ \A j, l \in 1 .. Len(q) : q[j] = q[l] => j = l
           P == {i \in 0 .. N : Good(upto[i], i)}
<1>2. 0 \in P
  <2>1. <<>> \in Seq(Bus) /\ Len(<<>>) = 0
    OBVIOUS
  <2> QED
    BY <1>0, <1>1, <2>1
<1>3. ASSUME NEW i \in 1 .. N, i - 1 \in P PROVE i \in P
  <2> DEFINE q == upto[i - 1]
             r == upto[i]
  <2>0. i - 1 \in 0 .. N /\ i - 1 \in Bus
    BY <1>0
  <2>1. Good(q, i - 1)
    BY <1>3
  <2>2. CASE i - 1 \notin S
    <3>1. r = q
      BY <1>1, <2>2
    <3>2. ASSUME NEW b \in S, b < i PROVE b < i - 1
      <4>1. b # i - 1
        BY <2>2
      <4>2. b \in 0 .. N - 1
        BY <1>0
      <4> QED
        BY <1>0, <3>2, <4>1, <4>2
    <3>3. Good(q, i)
      <4>1. ASSUME NEW j \in 1 .. Len(q) PROVE q[j] \in S /\ q[j] < i
        <5>1. q[j] \in S /\ q[j] < i - 1
          BY <2>1
        <5>2. q[j] \in Int /\ i \in Int
          BY <1>0, <5>1
        <5> QED
          BY <5>1, <5>2
      <4>2. \A b \in S : b < i => \E j \in 1 .. Len(q) : q[j] = b
        BY <2>1, <3>2
      <4>3. q \in Seq(Bus) /\ \A j, l \in 1 .. Len(q) : q[j] = q[l] => j = l
        BY <2>1
      <4> QED
        BY <4>1, <4>2, <4>3
    <3> QED
      BY <3>1, <3>3
  <2>3. CASE i - 1 \in S
    <3>1. r = Append(q, i - 1)
      BY <1>1, <2>3
    <3> HIDE DEF q, r
    <3>2. /\ r \in Seq(Bus) /\ Len(q) \in Nat /\ Len(r) = Len(q) + 1
          /\ \A j \in 1 .. Len(q) : r[j] = q[j]
          /\ r[Len(r)] = i - 1
      <4>1. q \in Seq(Bus)
        BY <2>1
      <4> QED
        BY <2>0, <3>1, <4>1, AppendProperties, LenProperties
    <3>3. \A j \in 1 .. Len(r) : j \in 1 .. Len(q) \/ j = Len(r)
      BY <3>2
    <3>4. ASSUME NEW j \in 1 .. Len(r) PROVE r[j] \in S /\ r[j] < i
      <4>1. CASE j \in 1 .. Len(q)
        <5>1. PICK b \in S : b = r[j] /\ b < i - 1
          BY <2>1, <3>2, <4>1
        <5>2. b \in 0 .. N - 1
          BY <1>0
        <5>3. b < i
          BY <1>0, <5>1, <5>2
        <5> QED
          BY <5>1, <5>3
      <4>2. CASE j = Len(r)
        BY <1>0, <2>3, <3>2, <4>2
      <4> QED
        BY <3>3, <4>1, <4>2
    <3>5. \A b \in S : b < i => \E j \in 1 .. Len(r) : r[j] = b
      <4> SUFFICES ASSUME NEW b \in S, b < i PROVE \E j \in 1 .. Len(r) : r[j] = b
        OBVIOUS
      <4>1. CASE b = i - 1
        BY <3>2, <4>1
      <4>2. CASE b < i - 1
        <5>1. PICK j \in 1 .. Len(q) : q[j] = b
          BY <2>1, <4>2
        <5>2. j \in 1 .. Len(r) /\ r[j] = b
          BY <3>2, <5>1
        <5> QED
          BY <5>2
      <4> QED
        BY <1>0, <4>1, <4>2
    <3>6. \A j, l \in 1 .. Len(r) : r[j] = r[l] => j = l
      <4>1. \A j \in 1 .. Len(q) : r[j] # i - 1
        BY <1>0, <2>0, <2>1, <3>2
      <4> QED
        BY <2>1, <3>2, <3>3, <4>1
    <3>7. Good(r, i)
      BY <3>2, <3>4, <3>5, <3>6
    <3> QED
      BY <3>7 DEF r
  <2> QED
    BY <2>2, <2>3
<1>4. Good(upto[N], N)
  <2> HIDE DEF P
  <2>1. \A i \in 0 .. N : i \in P
    BY <1>0, <1>2, <1>3, Throughout
  <2>2. N \in P
    BY <1>0, <2>1
  <2> QED
    BY <2>2 DEF P
<1>5. PICK q : q = Ascending(S) /\ Good(q, N)
  BY <1>1, <1>4
<1>6. DOMAIN q = 1 .. Len(q)
  BY <1>5
<1>7. \A b \in S : b < N
  BY <1>0
<1> QED
  BY <1>5, <1>6, <1>7 DEF ToSet, IsInjective

(***************************************************************************)
(* check_bus_inst_config().                                                *)
(***************************************************************************)
BusGraphs == [AuxInUse : SUBSET Bus, HasParent : SUBSET Bus,
              HasChild : SUBSET Bus, BusIn : [Bus -> Seq(Bus)]]
WalkStates == [todo : Seq(Seq(Bus)), visited : SUBSET Bus, rev : Seq(Bus),
               met : SUBSET Bus]

(* One bus of a node. *)
LEMMA MeetType ==
  ASSUME NEW g \in BusGraphs, NEW w \in WalkStates, NEW b \in Bus
  PROVE  Meet(g, w, b) \in WalkStates
<1>1. g.BusIn[b] \in Seq(Bus)
  BY DEF BusGraphs
<1>2. /\ w.todo \in Seq(Seq(Bus)) /\ w.visited \in SUBSET Bus /\ w.rev \in Seq(Bus)
      /\ w.met \in SUBSET Bus
  BY DEF WalkStates
<1>3. Append(w.todo, g.BusIn[b]) \in Seq(Seq(Bus)) /\ Append(w.rev, b) \in Seq(Bus)
  BY <1>1, <1>2, AppendProperties
<1> QED
  BY <1>2, <1>3 DEF Meet, WalkStates

(* The loop over the buses of a node.                                       *)
LEMMA MeetAllLoop ==
  ASSUME NEW g \in BusGraphs, NEW w \in WalkStates, NEW buses \in Seq(Bus)
  PROVE  \E after \in [0 .. Len(buses) -> WalkStates] :
           /\ MeetAll(g, w, buses) = after[Len(buses)] /\ after[0] = w
           /\ \A i \in 1 .. Len(buses) : after[i] = Meet(g, after[i - 1], buses[i])
<1> DEFINE N == Len(buses)
           S == WalkStates
           start == w
           turn == [i \in 1 .. N |-> [x \in S |-> Meet(g, x, buses[i])]]
           Solves(f) == f = [i \in 0 .. N |-> IF i = 0 THEN start ELSE Meet(g, f[i - 1], buses[i])]
           u == CHOOSE f : Solves(f)
<1>1. N \in Nat
  BY LenProperties
<1>2. start \in S
  OBVIOUS
<1>3. \A i \in 1 .. N : \A x \in S : Meet(g, x, buses[i]) \in S
  BY MeetType
<1>4. MeetAll(g, w, buses) = u[N]
  BY DEF MeetAll
<1> HIDE DEF N, S, start
<1>5. \A i \in 1 .. N : i - 1 \in 0 .. N /\ i \in 0 .. N /\ i # 0
  BY <1>1
<1>6. turn \in Turns(N, S)
  BY <1>3 DEF Turns
<1>7. PICK h : IsLoop(h, N, S, start, turn)
  <2> HIDE DEF turn
  <2> QED
    BY <1>1, <1>2, <1>6, LoopExists
<1>8. h \in [0 .. N -> S] /\ h[0] = start
  BY <1>7 DEF IsLoop
<1>9. ASSUME NEW i \in 1 .. N
      PROVE  h[i] = Meet(g, h[i - 1], buses[i])
  <2>1. PICK x \in S : x = h[i - 1]
    BY <1>5, <1>8
  <2>2. h[i] = turn[i][x]
    <3> HIDE DEF turn
    <3> QED
      BY <1>7, <2>1 DEF IsLoop
  <2>3. turn[i][x] = Meet(g, x, buses[i])
    OBVIOUS
  <2> QED
    BY <2>1, <2>2, <2>3
<1>10. Solves(h)
  <2> DEFINE r == [i \in 0 .. N |-> IF i = 0 THEN start ELSE Meet(g, h[i - 1], buses[i])]
  <2>1. ASSUME NEW i \in 0 .. N PROVE r[i] = h[i]
    <3>1. i = 0 \/ i \in 1 .. N
      BY <1>1
    <3> QED
      BY <1>8, <1>9, <3>1
  <2>2. r = [i \in 0 .. N |-> r[i]] /\ h = [i \in 0 .. N |-> h[i]]
    BY <1>8
  <2>3. h = r
    <3> HIDE DEF r
    <3> QED
      BY <2>1, <2>2
  <2> QED
    BY <2>3
<1>11. Solves(u)
  <2> HIDE DEF Solves
  <2> QED
    BY <1>10
<1> HIDE DEF u
<1>12. u[0] = start /\ \A i \in 1 .. N : u[i] = Meet(g, u[i - 1], buses[i])
  <2>1. 0 \in 0 .. N
    BY <1>1
  <2> QED
    BY <1>5, <1>11, <2>1
<1>13. \A i \in 0 .. N : u[i] = h[i]
  <2> DEFINE P == {i \in 0 .. N : u[i] = h[i]}
  <2>1. 0 \in P
    BY <1>1, <1>8, <1>12
  <2>2. ASSUME NEW i \in 1 .. N, i - 1 \in P PROVE i \in P
    <3>1. u[i - 1] = h[i - 1]
      BY <2>2
    <3>2. u[i] = h[i]
      BY <1>9, <1>12, <3>1
    <3> QED
      BY <1>5, <3>2
  <2> HIDE DEF P
  <2>3. \A i \in 0 .. N : i \in P
    BY <1>1, <2>1, <2>2, Throughout
  <2> QED
    BY <2>3 DEF P
<1>14. MeetAll(g, w, buses) = h[N]
  BY <1>1, <1>4, <1>13
<1> QED
  BY <1>8, <1>9, <1>14 DEF N, S, start

LEMMA MeetAllType ==
  ASSUME NEW g \in BusGraphs, NEW w \in WalkStates, NEW buses \in Seq(Bus)
  PROVE  MeetAll(g, w, buses) \in WalkStates
<1>1. Len(buses) \in 0 .. Len(buses)
  BY LenProperties
<1> QED
  BY <1>1, MeetAllLoop

(* One node of the queue. *)
LEMMA ServeType ==
  ASSUME NEW g \in BusGraphs, NEW w \in WalkStates
  PROVE  Serve(g, w) \in WalkStates
<1>1. CASE w.todo = <<>>
  BY <1>1 DEF Serve
<1>2. CASE w.todo # <<>>
  <2>1. w.todo \in Seq(Seq(Bus))
    BY DEF WalkStates
  <2>2. Head(w.todo) \in Seq(Bus) /\ Tail(w.todo) \in Seq(Seq(Bus))
    BY <1>2, <2>1, HeadTailProperties
  <2>3. [w EXCEPT !.todo = Tail(@)] \in WalkStates
    BY <2>2 DEF WalkStates
  <2> QED
    BY <1>2, <2>2, <2>3, MeetAllType DEF Serve
<1> QED
  BY <1>1, <1>2

(* The loop over the nodes.                                                 *)
LEMMA WalkLoop ==
  ASSUME NEW g \in BusGraphs, NEW buses \in Seq(Bus), NEW visited \in SUBSET Bus
  PROVE  \E node \in [0 .. MAXBUS -> WalkStates] :
           /\ Walk(g, buses, visited) = node[MAXBUS] /\ node[0] = [todo |-> <<buses>>, visited |-> visited, rev |-> <<>>, met |-> {}]
           /\ \A i \in 1 .. MAXBUS : node[i] = Serve(g, node[i - 1])
<1> DEFINE N == MAXBUS
           S == WalkStates
           start == [todo |-> <<buses>>, visited |-> visited, rev |-> <<>>, met |-> {}]
           turn == [i \in 1 .. N |-> [x \in S |-> Serve(g, x)]]
           Solves(f) == f = [i \in 0 .. N |-> IF i = 0 THEN start ELSE Serve(g, f[i - 1])]
           u == CHOOSE f : Solves(f)
<1>1. N \in Nat
  BY ConstantFacts
<1>2. start \in S
  <2>1. <<buses>> \in Seq(Seq(Bus)) /\ <<>> \in Seq(Bus)
    OBVIOUS
  <2> QED
    BY <2>1 DEF WalkStates
<1>3. \A i \in 1 .. N : \A x \in S : Serve(g, x) \in S
  BY ServeType
<1>4. Walk(g, buses, visited) = u[N]
  BY DEF Walk
<1> HIDE DEF N, S, start
<1>5. \A i \in 1 .. N : i - 1 \in 0 .. N /\ i \in 0 .. N /\ i # 0
  BY <1>1
<1>6. turn \in Turns(N, S)
  BY <1>3 DEF Turns
<1>7. PICK h : IsLoop(h, N, S, start, turn)
  <2> HIDE DEF turn
  <2> QED
    BY <1>1, <1>2, <1>6, LoopExists
<1>8. h \in [0 .. N -> S] /\ h[0] = start
  BY <1>7 DEF IsLoop
<1>9. ASSUME NEW i \in 1 .. N
      PROVE  h[i] = Serve(g, h[i - 1])
  <2>1. PICK x \in S : x = h[i - 1]
    BY <1>5, <1>8
  <2>2. h[i] = turn[i][x]
    <3> HIDE DEF turn
    <3> QED
      BY <1>7, <2>1 DEF IsLoop
  <2>3. turn[i][x] = Serve(g, x)
    OBVIOUS
  <2> QED
    BY <2>1, <2>2, <2>3
<1>10. Solves(h)
  <2> DEFINE r == [i \in 0 .. N |-> IF i = 0 THEN start ELSE Serve(g, h[i - 1])]
  <2>1. ASSUME NEW i \in 0 .. N PROVE r[i] = h[i]
    <3>1. i = 0 \/ i \in 1 .. N
      BY <1>1
    <3> QED
      BY <1>8, <1>9, <3>1
  <2>2. r = [i \in 0 .. N |-> r[i]] /\ h = [i \in 0 .. N |-> h[i]]
    BY <1>8
  <2>3. h = r
    <3> HIDE DEF r
    <3> QED
      BY <2>1, <2>2
  <2> QED
    BY <2>3
<1>11. Solves(u)
  <2> HIDE DEF Solves
  <2> QED
    BY <1>10
<1> HIDE DEF u
<1>12. u[0] = start /\ \A i \in 1 .. N : u[i] = Serve(g, u[i - 1])
  <2>1. 0 \in 0 .. N
    BY <1>1
  <2> QED
    BY <1>5, <1>11, <2>1
<1>13. \A i \in 0 .. N : u[i] = h[i]
  <2> DEFINE P == {i \in 0 .. N : u[i] = h[i]}
  <2>1. 0 \in P
    BY <1>1, <1>8, <1>12
  <2>2. ASSUME NEW i \in 1 .. N, i - 1 \in P PROVE i \in P
    <3>1. u[i - 1] = h[i - 1]
      BY <2>2
    <3>2. u[i] = h[i]
      BY <1>9, <1>12, <3>1
    <3> QED
      BY <1>5, <3>2
  <2> HIDE DEF P
  <2>3. \A i \in 0 .. N : i \in P
    BY <1>1, <2>1, <2>2, Throughout
  <2> QED
    BY <2>3 DEF P
<1>14. Walk(g, buses, visited) = h[N]
  BY <1>1, <1>4, <1>13
<1> QED
  BY <1>8, <1>9, <1>14 DEF N, S, start

(***************************************************************************)
(* What the walk has done: `e` is the list whose buses are being met.      *)
(***************************************************************************)
Pred(g, b) == ToSet(g.BusIn[b])
ParentsRight(g) == g.HasParent = {b \in Bus : g.BusIn[b] # <<>>}
ListsOf(g, buses, w) == {buses} \cup {g.BusIn[a] : a \in ToSet(w.rev)}
NotedOnce(w, visited) ==
  /\ w.visited = visited \cup ToSet(w.rev)
  /\ IsInjective(w.rev) /\ ToSet(w.rev) \cap visited = {}
MetVisited(g, w) == \A b \in w.met : g.BusIn[b] = <<>> \/ b \in w.visited
MetOrQueued(g, buses, w, e) ==
  \A l \in ListsOf(g, buses, w) : l = e \/ ToSet(l) \subseteq w.met \/ l \in ToSet(w.todo)
QueuedFrom(g, buses, w, e) ==
  {e} \cup ToSet(w.todo) \subseteq {<<>>} \cup ListsOf(g, buses, w)
NotedFrom(g, buses, rev) ==
  \A r \in 1 .. Len(rev) :
    /\ g.BusIn[rev[r]] # <<>>
    /\ rev[r] \in ToSet(buses) \/ \E q \in 1 .. r - 1 : rev[r] \in Pred(g, rev[q])
WalkInv(g, buses, visited, w, e) ==
  /\ NotedOnce(w, visited) /\ MetVisited(g, w) /\ MetOrQueued(g, buses, w, e)
  /\ QueuedFrom(g, buses, w, e) /\ NotedFrom(g, buses, w.rev)

(* The nodes still to serve, against the buses noted.                      *)
Depth(w) == Len(w.todo) - Len(w.rev)
LEMMA DepthType == \A w \in WalkStates : Depth(w) \in Int
<1> SUFFICES ASSUME NEW w \in WalkStates PROVE Depth(w) \in Int
  OBVIOUS
<1>1. w.todo \in Seq(Seq(Bus)) /\ w.rev \in Seq(Bus)
  BY DEF WalkStates
<1>2. Len(w.todo) \in Nat /\ Len(w.rev) \in Nat
  BY <1>1, LenProperties
<1> QED
  BY <1>2 DEF Depth

(* A sequence and one more element.                                        *)
LEMMA AppendSet ==
  ASSUME NEW S, NEW q \in Seq(S), NEW x \in S
  PROVE  /\ Append(q, x) \in Seq(S) /\ Len(Append(q, x)) = Len(q) + 1
         /\ \A j \in 1 .. Len(q) : Append(q, x)[j] = q[j]
         /\ Append(q, x)[Len(q) + 1] = x
         /\ ToSet(Append(q, x)) = ToSet(q) \cup {x}
         /\ IsInjective(q) /\ x \notin ToSet(q) => IsInjective(Append(q, x))
<1> DEFINE r == Append(q, x)
<1>1. /\ r \in Seq(S) /\ Len(q) \in Nat /\ Len(r) = Len(q) + 1
      /\ \A j \in 1 .. Len(q) : r[j] = q[j]
      /\ r[Len(q) + 1] = x
      /\ DOMAIN q = 1 .. Len(q) /\ DOMAIN r = 1 .. Len(r)
  BY AppendProperties, LenProperties
<1> HIDE DEF r
<1>2. \A j \in 1 .. Len(r) : j \in 1 .. Len(q) \/ j = Len(q) + 1
  BY <1>1
<1>3. ToSet(r) = ToSet(q) \cup {x}
  <2>1. \A j \in 1 .. Len(q) : j \in 1 .. Len(r)
    BY <1>1
  <2>2. Len(q) + 1 \in 1 .. Len(r)
    BY <1>1
  <2> QED
    BY <1>1, <1>2, <2>1, <2>2 DEF ToSet
<1>4. ASSUME IsInjective(q), x \notin ToSet(q) PROVE IsInjective(r)
  <2> SUFFICES ASSUME NEW j \in 1 .. Len(r), NEW l \in 1 .. Len(r), r[j] = r[l]
               PROVE  j = l
    BY <1>1 DEF IsInjective
  <2>1. CASE j \in 1 .. Len(q) /\ l \in 1 .. Len(q)
    BY <1>1, <1>4, <2>1 DEF IsInjective
  <2>2. \A k \in 1 .. Len(q) : r[k] # x
    BY <1>1, <1>4 DEF ToSet
  <2> QED
    BY <1>1, <1>2, <2>1, <2>2
<1> QED
  BY <1>1, <1>3, <1>4 DEF r

(* Meeting a bus of the list being served.                                 *)
LEMMA MeetKeeps ==
  ASSUME NEW g \in BusGraphs, ParentsRight(g), NEW w \in WalkStates, NEW b \in Bus,
         NEW buses \in Seq(Bus), NEW visited \in SUBSET Bus, NEW e \in Seq(Bus),
         b \in ToSet(e), WalkInv(g, buses, visited, w, e)
  PROVE  /\ WalkInv(g, buses, visited, Meet(g, w, b), e)
         /\ Meet(g, w, b).met = w.met \cup {b}
         /\ Depth(Meet(g, w, b)) = Depth(w)
<1> DEFINE m == Meet(g, w, b)
<1>0. /\ w.todo \in Seq(Seq(Bus)) /\ w.visited \in SUBSET Bus /\ w.rev \in Seq(Bus)
      /\ w.met \in SUBSET Bus /\ g.BusIn[b] \in Seq(Bus)
      /\ Len(w.todo) \in Nat /\ Len(w.rev) \in Nat
  BY LenProperties DEF WalkStates, BusGraphs
<1>1. CASE g.BusIn[b] = <<>> \/ b \in w.visited
  <2>1. /\ m.todo = w.todo /\ m.visited = w.visited /\ m.rev = w.rev
        /\ m.met = w.met \cup {b}
    BY <1>1 DEF Meet, WalkStates
  <2> HIDE DEF m
  <2>2. MetVisited(g, m)
    BY <1>1, <2>1 DEF WalkInv, MetVisited
  <2>3. NotedOnce(m, visited) /\ NotedFrom(g, buses, m.rev)
    BY <2>1 DEF WalkInv, NotedOnce
  <2>4. MetOrQueued(g, buses, m, e) /\ QueuedFrom(g, buses, m, e)
    <3>1. ListsOf(g, buses, m) = ListsOf(g, buses, w)
      BY <2>1 DEF ListsOf
    <3> QED
      BY <2>1, <3>1 DEF WalkInv, MetOrQueued, QueuedFrom
  <2>5. WalkInv(g, buses, visited, m, e)
    BY <2>2, <2>3, <2>4 DEF WalkInv
  <2> QED
    BY <1>0, <2>1, <2>5 DEF m, Depth
<1>2. CASE g.BusIn[b] # <<>> /\ b \notin w.visited
  <2>0. b \in g.HasParent
    BY <1>2 DEF ParentsRight
  <2>1. /\ m.todo = Append(w.todo, g.BusIn[b]) /\ m.visited = w.visited \cup {b}
        /\ m.rev = Append(w.rev, b) /\ m.met = w.met \cup {b}
    BY <1>2, <2>0 DEF Meet
  <2> HIDE DEF m
  <2>2. /\ ToSet(m.todo) = ToSet(w.todo) \cup {g.BusIn[b]}
        /\ Len(m.todo) = Len(w.todo) + 1
    BY <1>0, <2>1, AppendSet
  <2>3. NotedOnce(w, visited) /\ b \notin ToSet(w.rev) /\ b \notin visited
    BY <1>2 DEF WalkInv, NotedOnce
  <2>4. /\ ToSet(m.rev) = ToSet(w.rev) \cup {b} /\ IsInjective(m.rev)
        /\ Len(m.rev) = Len(w.rev) + 1 /\ m.rev[Len(w.rev) + 1] = b
        /\ \A j \in 1 .. Len(w.rev) : m.rev[j] = w.rev[j]
    BY <1>0, <2>1, <2>3, AppendSet DEF NotedOnce
  <2>5. NotedOnce(m, visited)
    BY <2>1, <2>3, <2>4 DEF NotedOnce
  <2>6. MetVisited(g, m)
    BY <2>1 DEF WalkInv, MetVisited
  <2>7. ListsOf(g, buses, m) = ListsOf(g, buses, w) \cup {g.BusIn[b]}
    BY <2>4 DEF ListsOf
  <2>8. MetOrQueued(g, buses, m, e)
    BY <2>1, <2>2, <2>7 DEF WalkInv, MetOrQueued
  <2>9. QueuedFrom(g, buses, m, e)
    BY <2>2, <2>7 DEF WalkInv, QueuedFrom
  <2>10. NotedFrom(g, buses, m.rev)
    <3>1. e = buses \/ \E q \in 1 .. Len(w.rev) : e = g.BusIn[w.rev[q]]
      <4>1. e # <<>>
        BY DEF ToSet
      <4>2. e \in ListsOf(g, buses, w)
        BY <4>1 DEF WalkInv, QueuedFrom
      <4>3. DOMAIN w.rev = 1 .. Len(w.rev)
        BY <1>0, LenProperties
      <4> QED
        BY <4>2, <4>3 DEF ListsOf, ToSet
    <3> SUFFICES ASSUME NEW r \in 1 .. Len(m.rev)
                 PROVE  /\ g.BusIn[m.rev[r]] # <<>>
                        /\ \/ m.rev[r] \in ToSet(buses)
                           \/ \E q \in 1 .. r - 1 : m.rev[r] \in Pred(g, m.rev[q])
      BY DEF NotedFrom
    <3>2. CASE r \in 1 .. Len(w.rev)
      <4>1. /\ g.BusIn[w.rev[r]] # <<>>
            /\ \/ w.rev[r] \in ToSet(buses)
               \/ \E q \in 1 .. r - 1 : w.rev[r] \in Pred(g, w.rev[q])
        BY <3>2 DEF WalkInv, NotedFrom
      <4>2. \A q \in 1 .. r - 1 : q \in 1 .. Len(w.rev)
        BY <1>0, <3>2
      <4> QED
        BY <2>4, <3>2, <4>1, <4>2
    <3>3. CASE r = Len(w.rev) + 1
      <4>1. m.rev[r] = b
        BY <2>4, <3>3
      <4>2. \A q \in 1 .. Len(w.rev) : q \in 1 .. r - 1
        BY <1>0, <3>3
      <4>3. g.BusIn[b] # <<>>
        BY <1>2
      <4>4. \/ b \in ToSet(buses)
            \/ \E q \in 1 .. Len(w.rev) : b \in Pred(g, w.rev[q])
        BY <3>1 DEF Pred
      <4>5. CASE b \in ToSet(buses)
        BY <4>1, <4>3, <4>5
      <4>6. CASE \E q \in 1 .. Len(w.rev) : b \in Pred(g, w.rev[q])
        <5>1. PICK q \in 1 .. Len(w.rev) : b \in Pred(g, w.rev[q])
          BY <4>6
        <5>2. q \in 1 .. r - 1 /\ m.rev[q] = w.rev[q]
          BY <2>4, <4>2
        <5>3. m.rev[r] \in Pred(g, m.rev[q])
          BY <4>1, <5>1, <5>2
        <5> QED
          BY <4>1, <4>3, <5>2, <5>3
      <4> QED
        BY <4>4, <4>5, <4>6
    <3> QED
      BY <1>0, <2>4, <3>2, <3>3
  <2>11. WalkInv(g, buses, visited, m, e)
    BY <2>5, <2>6, <2>8, <2>9, <2>10 DEF WalkInv
  <2> QED
    BY <1>0, <2>1, <2>2, <2>4, <2>11 DEF m, Depth
<1> QED
  BY <1>1, <1>2

(* A list in which every bus occurs once is as long as its set of buses.   *)
LEMMA BusFinite == IsFiniteSet(Bus) /\ Cardinality(Bus) = MAXBUS - 1
<1>1. MAXBUS - 2 \in Int /\ 0 \in Int /\ MAXBUS - 2 >= 0
  BY ConstantFacts
<1> QED
  BY <1>1, ConstantFacts, FS_Interval

LEMMA InjectiveLength ==
  ASSUME NEW q \in Seq(Bus), IsInjective(q)
  PROVE  /\ Len(q) = Cardinality(ToSet(q)) /\ Len(q) \in Nat
         /\ Len(q) < MAXBUS
<1>1. Len(q) \in Nat /\ DOMAIN q = 1 .. Len(q)
  BY LenProperties
<1>2. q \in [1 .. Len(q) -> ToSet(q)]
  BY <1>1 DEF ToSet
<1>3. q \in Bijection(1 .. Len(q), ToSet(q))
  BY <1>1, <1>2 DEF Bijection, Injection, Surjection, ToSet
<1>4. IsFiniteSet(1 .. Len(q)) /\ Cardinality(1 .. Len(q)) = Len(q)
  BY <1>1, FS_Interval
<1>5. Cardinality(ToSet(q)) = Len(q)
  BY <1>3, <1>4, FS_Bijection DEF ExistsBijection
<1>6. ToSet(q) \in SUBSET Bus
  BY <1>1 DEF ToSet
<1>7. Cardinality(ToSet(q)) <= MAXBUS - 1
  BY <1>6, BusFinite, FS_Subset
<1> QED
  BY <1>1, <1>5, <1>7, ConstantFacts

LEMMA HeadAndTail ==
  ASSUME NEW S, NEW q \in Seq(S), q # <<>>
  PROVE  /\ Head(q) \in ToSet(q) /\ ToSet(Tail(q)) \subseteq ToSet(q)
         /\ ToSet(q) \subseteq ToSet(Tail(q)) \cup {Head(q)}
         /\ Tail(q) \in Seq(S) /\ Head(q) \in S /\ Len(Tail(q)) = Len(q) - 1
<1>1. /\ Tail(q) \in Seq(S) /\ Len(Tail(q)) = Len(q) - 1 /\ Head(q) \in S
      /\ \A i \in 1 .. Len(Tail(q)) : Tail(q)[i] = q[i + 1]
      /\ Len(q) \in Nat /\ Len(q) > 0 /\ Head(q) = q[1]
      /\ DOMAIN q = 1 .. Len(q) /\ DOMAIN Tail(q) = 1 .. Len(Tail(q))
  BY HeadTailProperties, LenProperties, EmptySeq
<1>2. 1 \in 1 .. Len(q) /\ \A i \in 1 .. Len(Tail(q)) : i + 1 \in 1 .. Len(q)
  BY <1>1
<1>3. \A i \in 1 .. Len(q) : i = 1 \/ (i - 1 \in 1 .. Len(Tail(q)) /\ (i - 1) + 1 = i)
  BY <1>1
<1>4. ToSet(Tail(q)) \subseteq ToSet(q)
  BY <1>1, <1>2 DEF ToSet
<1>5. ASSUME NEW x \in ToSet(q) PROVE x = Head(q) \/ x \in ToSet(Tail(q))
  <2>1. PICK i \in 1 .. Len(q) : x = q[i]
    BY <1>1 DEF ToSet
  <2>2. CASE i = 1
    BY <1>1, <2>1, <2>2
  <2>3. CASE i # 1
    <3>1. Tail(q)[i - 1] = x
      BY <1>1, <1>3, <2>1, <2>3
    <3> QED
      BY <1>1, <1>3, <2>3, <3>1 DEF ToSet
  <2> QED
    BY <2>2, <2>3
<1>6. Head(q) \in ToSet(q)
  BY <1>1, <1>2 DEF ToSet
<1> QED
  BY <1>1, <1>4, <1>5, <1>6

(* All buses of a list.                                                    *)
LEMMA MeetAllKeeps ==
  ASSUME NEW g \in BusGraphs, ParentsRight(g), NEW w \in WalkStates,
         NEW buses \in Seq(Bus), NEW visited \in SUBSET Bus, NEW e \in Seq(Bus),
         WalkInv(g, buses, visited, w, e)
  PROVE  LET m == MeetAll(g, w, e)
         IN  /\ WalkInv(g, buses, visited, m, <<>>)
             /\ Depth(m) = Depth(w)
<1> DEFINE n == Len(e)
<1>1. n \in Nat /\ DOMAIN e = 1 .. n /\ \A i \in 1 .. n : e[i] \in Bus /\ e[i] \in ToSet(e)
  BY LenProperties DEF ToSet
<1>2. PICK after \in [0 .. n -> WalkStates] :
        /\ MeetAll(g, w, e) = after[n] /\ after[0] = w
        /\ \A i \in 1 .. n : after[i] = Meet(g, after[i - 1], e[i])
  BY MeetAllLoop
<1> HIDE DEF n
<1> DEFINE P == {i \in 0 .. n :
                   /\ WalkInv(g, buses, visited, after[i], e)
                   /\ Depth(after[i]) = Depth(w)
                   /\ \A j \in 1 .. i : e[j] \in after[i].met}
<1>3. 0 \in P
  BY <1>1, <1>2
<1>4. ASSUME NEW i \in 1 .. n, i - 1 \in P PROVE i \in P
  <2>1. PICK v \in WalkStates : v = after[i - 1]
    BY <1>1, <1>2
  <2>2. /\ WalkInv(g, buses, visited, v, e)
        /\ Depth(v) = Depth(w)
        /\ \A j \in 1 .. i - 1 : e[j] \in v.met
    BY <1>4, <2>1
  <2>3. /\ WalkInv(g, buses, visited, Meet(g, v, e[i]), e)
        /\ Meet(g, v, e[i]).met = v.met \cup {e[i]}
        /\ Depth(Meet(g, v, e[i])) = Depth(v)
    <3>1. e[i] \in Bus /\ e[i] \in ToSet(e)
      BY <1>1
    <3>2. WalkInv(g, buses, visited, v, e)
      BY <2>2
    <3> QED
      BY <3>1, <3>2, MeetKeeps
  <2>4. after[i] = Meet(g, v, e[i])
    BY <1>2, <2>1
  <2>5. \A j \in 1 .. i : j \in 1 .. i - 1 \/ j = i
    BY <1>1
  <2> QED
    BY <1>1, <2>2, <2>3, <2>4, <2>5
<1>5. n \in P
  <2> HIDE DEF P
  <2>1. \A i \in 0 .. n : i \in P
    BY <1>1, <1>3, <1>4, Throughout
  <2> QED
    BY <1>1, <2>1
<1>6. PICK m : /\ m = MeetAll(g, w, e) /\ WalkInv(g, buses, visited, m, e)
               /\ Depth(m) = Depth(w)
               /\ \A j \in 1 .. n : e[j] \in m.met
  BY <1>2, <1>5
<1>7. ToSet(e) \subseteq m.met
  BY <1>1, <1>6 DEF ToSet
<1>8. WalkInv(g, buses, visited, m, <<>>)
  <2>1. MetOrQueued(g, buses, m, <<>>)
    BY <1>6, <1>7 DEF WalkInv, MetOrQueued
  <2>2. QueuedFrom(g, buses, m, <<>>)
    BY <1>6 DEF WalkInv, QueuedFrom
  <2> QED
    BY <1>6, <2>1, <2>2 DEF WalkInv
<1> QED
  BY <1>6, <1>8

(* A node of the queue.                                                    *)
LEMMA ServeKeeps ==
  ASSUME NEW g \in BusGraphs, ParentsRight(g), NEW w \in WalkStates,
         NEW buses \in Seq(Bus), NEW visited \in SUBSET Bus,
         WalkInv(g, buses, visited, w, <<>>), w.todo # <<>>
  PROVE  LET m == Serve(g, w)
         IN  /\ WalkInv(g, buses, visited, m, <<>>)
             /\ Depth(m) = Depth(w) - 1
<1> DEFINE v == [w EXCEPT !.todo = Tail(@)]
           e == Head(w.todo)
<1>1. w.todo \in Seq(Seq(Bus)) /\ w.rev \in Seq(Bus)
  BY DEF WalkStates
<1>2. /\ e \in ToSet(w.todo) /\ ToSet(Tail(w.todo)) \subseteq ToSet(w.todo)
      /\ ToSet(w.todo) \subseteq ToSet(Tail(w.todo)) \cup {e}
      /\ Tail(w.todo) \in Seq(Seq(Bus)) /\ e \in Seq(Bus)
      /\ Len(Tail(w.todo)) = Len(w.todo) - 1
  BY <1>1, HeadAndTail
<1>3. /\ v \in WalkStates /\ v.todo = Tail(w.todo) /\ v.visited = w.visited
      /\ v.rev = w.rev /\ v.met = w.met
  BY <1>2 DEF WalkStates
<1>4. Serve(g, w) = MeetAll(g, v, e)
  BY DEF Serve
<1> HIDE DEF v, e
<1>5. WalkInv(g, buses, visited, v, e)
  <2>0. ListsOf(g, buses, v) = ListsOf(g, buses, w)
    BY <1>3 DEF ListsOf
  <2>1. MetOrQueued(g, buses, v, e)
    <3> SUFFICES ASSUME NEW l \in ListsOf(g, buses, w), l # e
                 PROVE  ToSet(l) \subseteq w.met \/ l \in ToSet(Tail(w.todo))
      BY <1>3, <2>0 DEF MetOrQueued
    <3>1. l = <<>> => ToSet(l) = {}
      BY DEF ToSet
    <3> QED
      BY <1>2, <3>1 DEF WalkInv, MetOrQueued
  <2>2. QueuedFrom(g, buses, v, e)
    BY <1>2, <1>3, <2>0 DEF WalkInv, QueuedFrom
  <2>3. NotedOnce(v, visited) /\ MetVisited(g, v) /\ NotedFrom(g, buses, v.rev)
    BY <1>3 DEF WalkInv, NotedOnce, MetVisited
  <2> QED
    BY <2>1, <2>2, <2>3 DEF WalkInv
<1>6. LET m == MeetAll(g, v, e)
      IN  /\ WalkInv(g, buses, visited, m, <<>>)
          /\ Depth(m) = Depth(v)
  BY <1>2, <1>3, <1>5, MeetAllKeeps
<1>7. Len(w.todo) \in Nat /\ Len(w.rev) \in Nat
  BY <1>1, LenProperties
<1>8. Depth(v) = Depth(w) - 1
  BY <1>2, <1>3, <1>7 DEF Depth
<1> QED
  BY <1>4, <1>6, <1>8

(* The walk has served its whole queue.                                    *)
LEMMA WalkDone ==
  ASSUME NEW g \in BusGraphs, ParentsRight(g), NEW buses \in Seq(Bus),
         NEW visited \in SUBSET Bus
  PROVE  LET w == Walk(g, buses, visited)
         IN  w \in WalkStates /\ w.todo = <<>> /\ WalkInv(g, buses, visited, w, <<>>)
<1> DEFINE start == [todo |-> <<buses>>, visited |-> visited, rev |-> <<>>, met |-> {}]
<1>1. PICK node \in [0 .. MAXBUS -> WalkStates] :
        /\ Walk(g, buses, visited) = node[MAXBUS] /\ node[0] = start
        /\ \A i \in 1 .. MAXBUS : node[i] = Serve(g, node[i - 1])
  BY WalkLoop
<1> DEFINE P == {k \in 0 .. MAXBUS :
                   /\ WalkInv(g, buses, visited, node[k], <<>>)
                   /\ \/ node[k].todo = <<>>
                      \/ Depth(node[k]) + k = 1}
<1>2. 0 \in P
  <2>1. start.todo = <<buses>> /\ start.visited = visited /\ start.rev = <<>> /\ start.met = {}
    OBVIOUS
  <2> HIDE DEF start
  <2>2. ToSet(<<buses>>) = {buses} /\ Len(<<buses>>) = 1 /\ Len(<<>>) = 0 /\ ToSet(<<>>) = {}
    BY DEF ToSet
  <2>3. ListsOf(g, buses, start) = {buses}
    BY <2>1, <2>2 DEF ListsOf
  <2>4. NotedOnce(start, visited)
    BY <2>1, <2>2 DEF NotedOnce, IsInjective
  <2>5. MetVisited(g, start)
    BY <2>1 DEF MetVisited
  <2>6. MetOrQueued(g, buses, start, <<>>) /\ QueuedFrom(g, buses, start, <<>>)
    BY <2>1, <2>2, <2>3 DEF MetOrQueued, QueuedFrom
  <2>7. NotedFrom(g, buses, start.rev)
    BY <2>1, <2>2 DEF NotedFrom
  <2>8. WalkInv(g, buses, visited, start, <<>>)
    BY <2>4, <2>5, <2>6, <2>7 DEF WalkInv
  <2>9. Depth(start) + 0 = 1
    BY <2>1, <2>2 DEF Depth
  <2> QED
    BY <1>1, <2>8, <2>9, ConstantFacts
<1> HIDE DEF start
<1>3. ASSUME NEW k \in 1 .. MAXBUS, k - 1 \in P PROVE k \in P
  <2>1. PICK v \in WalkStates : v = node[k - 1]
    BY <1>1, ConstantFacts
  <2>2. /\ WalkInv(g, buses, visited, v, <<>>)
        /\ v.todo = <<>> \/ Depth(v) + (k - 1) = 1
    BY <1>3, <2>1
  <2>3. node[k] = Serve(g, v)
    BY <1>1, <2>1
  <2>4. CASE v.todo = <<>>
    <3>1. node[k] = v
      BY <2>3, <2>4 DEF Serve
    <3> QED
      BY <2>2, <2>4, <3>1, ConstantFacts
  <2>5. CASE v.todo # <<>>
    <3>1. /\ WalkInv(g, buses, visited, node[k], <<>>)
          /\ Depth(node[k]) = Depth(v) - 1
      BY <2>2, <2>3, <2>5, ServeKeeps
    <3>2. Depth(node[k]) + k = 1
      BY <2>2, <2>5, <3>1, DepthType, ConstantFacts
    <3> QED
      BY <3>1, <3>2, ConstantFacts
  <2> QED
    BY <2>4, <2>5
<1>4. MAXBUS \in P
  <2> HIDE DEF P
  <2>1. \A k \in 0 .. MAXBUS : k \in P
    BY <1>2, <1>3, ConstantFacts, Throughout
  <2> QED
    BY <2>1, ConstantFacts
<1>5. PICK w \in WalkStates :
        /\ w = Walk(g, buses, visited) /\ WalkInv(g, buses, visited, w, <<>>)
        /\ w.todo = <<>> \/ Depth(w) + MAXBUS = 1
  BY <1>1, <1>4, ConstantFacts
<1>6. w.todo = <<>>
  <2>1. w.todo \in Seq(Seq(Bus)) /\ w.rev \in Seq(Bus)
    BY DEF WalkStates
  <2>2. Len(w.todo) \in Nat
    BY <2>1, LenProperties
  <2>3. Len(w.rev) \in Nat /\ Len(w.rev) < MAXBUS
    BY <1>5, <2>1, InjectiveLength DEF WalkInv, NotedOnce
  <2>4. Len(w.todo) = 0 => w.todo = <<>>
    BY <2>1, EmptySeq
  <2>5. Depth(w) = Len(w.todo) - Len(w.rev)
    BY DEF Depth
  <2>6. Depth(w) + MAXBUS = 1 => Len(w.todo) = 0
    BY <2>2, <2>3, <2>5, ConstantFacts
  <2> QED
    BY <1>5, <2>4, <2>6
<1> QED
  BY <1>5, <1>6

(***************************************************************************)
(* insert_bus_slot().                                                      *)
(***************************************************************************)
(* Products, kept from the provers where they are only compared. *)
Times(m, i) == m * i
LEMMA Products ==
  /\ \A m \in Nat, i \in Nat : Times(m, i) \in Nat
  /\ \A m \in Nat, i \in Nat : i > 0 => Times(m, i - 1) + m = Times(m, i)
  /\ \A m, i, n \in Nat : i <= n => Times(m, i) <= Times(m, n)
  /\ \A m \in Nat : Times(m, 0) = 0
<1> USE DEF Times
<1>1. \A m \in Nat, i \in Nat : m * i \in Nat
  OBVIOUS
<1>2. \A m \in Nat, i \in Nat : i > 0 => m * (i - 1) + m = m * i
  OBVIOUS
<1>3. ASSUME NEW m \in Nat, NEW i \in Nat, NEW n \in Nat, i <= n PROVE m * i <= m * n
  <2>1. PICK d \in Nat : n = i + d
    <3>1. n - i \in Nat /\ n = i + (n - i)
      BY <1>3
    <3> QED
      BY <3>1
  <2>2. m * n = m * i + m * d
    BY <2>1
  <2> QED
    BY <1>1, <2>2
<1> QED
  BY <1>1, <1>2, <1>3

LEMMA AddInType ==
  ASSUME NEW list \in Seq(Bus), NEW b \in Bus
  PROVE  AddIn(list, b) \in Seq(Bus)
BY AppendProperties, EmptySeq DEF AddIn

(* The loop over the inputs of a slot.                                      *)
LEMMA AddInsLoop ==
  ASSUME NEW list \in Seq(Bus), NEW ins \in Seq(Bus)
  PROVE  \E upto \in [0 .. Len(ins) -> Seq(Bus)] :
           /\ AddIns(list, ins) = upto[Len(ins)] /\ upto[0] = list
           /\ \A i \in 1 .. Len(ins) : upto[i] = AddIn(upto[i - 1], ins[i])
<1> DEFINE N == Len(ins)
           S == Seq(Bus)
           start == list
           turn == [i \in 1 .. N |-> [x \in S |-> AddIn(x, ins[i])]]
           Solves(f) == f = [i \in 0 .. N |-> IF i = 0 THEN start ELSE AddIn(f[i - 1], ins[i])]
           u == CHOOSE f : Solves(f)
<1>1. N \in Nat
  BY LenProperties
<1>2. start \in S
  OBVIOUS
<1>3. \A i \in 1 .. N : \A x \in S : AddIn(x, ins[i]) \in S
  BY AddInType
<1>4. AddIns(list, ins) = u[N]
  BY DEF AddIns
<1> HIDE DEF N, S, start
<1>5. \A i \in 1 .. N : i - 1 \in 0 .. N /\ i \in 0 .. N /\ i # 0
  BY <1>1
<1>6. turn \in Turns(N, S)
  BY <1>3 DEF Turns
<1>7. PICK h : IsLoop(h, N, S, start, turn)
  <2> HIDE DEF turn
  <2> QED
    BY <1>1, <1>2, <1>6, LoopExists
<1>8. h \in [0 .. N -> S] /\ h[0] = start
  BY <1>7 DEF IsLoop
<1>9. ASSUME NEW i \in 1 .. N
      PROVE  h[i] = AddIn(h[i - 1], ins[i])
  <2>1. PICK x \in S : x = h[i - 1]
    BY <1>5, <1>8
  <2>2. h[i] = turn[i][x]
    <3> HIDE DEF turn
    <3> QED
      BY <1>7, <2>1 DEF IsLoop
  <2>3. turn[i][x] = AddIn(x, ins[i])
    OBVIOUS
  <2> QED
    BY <2>1, <2>2, <2>3
<1>10. Solves(h)
  <2> DEFINE r == [i \in 0 .. N |-> IF i = 0 THEN start ELSE AddIn(h[i - 1], ins[i])]
  <2>1. ASSUME NEW i \in 0 .. N PROVE r[i] = h[i]
    <3>1. i = 0 \/ i \in 1 .. N
      BY <1>1
    <3> QED
      BY <1>8, <1>9, <3>1
  <2>2. r = [i \in 0 .. N |-> r[i]] /\ h = [i \in 0 .. N |-> h[i]]
    BY <1>8
  <2>3. h = r
    <3> HIDE DEF r
    <3> QED
      BY <2>1, <2>2
  <2> QED
    BY <2>3
<1>11. Solves(u)
  <2> HIDE DEF Solves
  <2> QED
    BY <1>10
<1> HIDE DEF u
<1>12. u[0] = start /\ \A i \in 1 .. N : u[i] = AddIn(u[i - 1], ins[i])
  <2>1. 0 \in 0 .. N
    BY <1>1
  <2> QED
    BY <1>5, <1>11, <2>1
<1>13. \A i \in 0 .. N : u[i] = h[i]
  <2> DEFINE P == {i \in 0 .. N : u[i] = h[i]}
  <2>1. 0 \in P
    BY <1>1, <1>8, <1>12
  <2>2. ASSUME NEW i \in 1 .. N, i - 1 \in P PROVE i \in P
    <3>1. u[i - 1] = h[i - 1]
      BY <2>2
    <3>2. u[i] = h[i]
      BY <1>9, <1>12, <3>1
    <3> QED
      BY <1>5, <3>2
  <2> HIDE DEF P
  <2>3. \A i \in 0 .. N : i \in P
    BY <1>1, <2>1, <2>2, Throughout
  <2> QED
    BY <2>3 DEF P
<1>14. AddIns(list, ins) = h[N]
  <2>1. N \in 0 .. N
    BY <1>1
  <2> QED
    BY <1>4, <1>13, <2>1
<1> QED
  BY <1>8, <1>9, <1>14 DEF N, S, start

LEMMA AddInsType ==
  ASSUME NEW list \in Seq(Bus), NEW ins \in Seq(Bus)
  PROVE  AddIns(list, ins) \in Seq(Bus)
<1>1. Len(ins) \in 0 .. Len(ins)
  BY LenProperties
<1>2. PICK upto \in [0 .. Len(ins) -> Seq(Bus)] : AddIns(list, ins) = upto[Len(ins)]
  BY AddInsLoop
<1> QED
  BY <1>1, <1>2

LEMMA AddEdgesToType ==
  ASSUME NEW b \in Bus, NEW busIn \in [Bus -> Seq(Bus)], NEW ins \in Seq(Bus)
  PROVE  /\ AddEdgesTo(b, busIn, ins) \in [Bus -> Seq(Bus)]
         /\ \A c \in Bus : AddEdgesTo(b, busIn, ins)[c] =
                            IF c = b THEN AddIns(busIn[b], ins) ELSE busIn[c]
<1>1. AddIns(busIn[b], ins) \in Seq(Bus)
  BY AddInsType
<1> QED
  BY <1>1 DEF AddEdgesTo

(* A list with room for them gets all the inputs.                          *)
LEMMA AddInsRoom ==
  ASSUME NEW list \in Seq(Bus), NEW ins \in Seq(Bus), Len(list) + Len(ins) < MAXBUS
  PROVE  /\ Len(AddIns(list, ins)) = Len(list) + Len(ins)
         /\ ToSet(AddIns(list, ins)) = ToSet(list) \cup ToSet(ins)
<1> DEFINE n == Len(ins)
           m == Len(list)
           First(i) == {ins[j] : j \in 1 .. i}
<1>1. n \in Nat /\ m \in Nat /\ m + n < MAXBUS /\ DOMAIN ins = 1 .. n /\ \A i \in 1 .. n : ins[i] \in Bus
  BY LenProperties
<1>2. PICK upto \in [0 .. n -> Seq(Bus)] :
        /\ AddIns(list, ins) = upto[n] /\ upto[0] = list
        /\ \A i \in 1 .. n : upto[i] = AddIn(upto[i - 1], ins[i])
  BY AddInsLoop
<1> HIDE DEF n, m
<1> DEFINE P == {i \in 0 .. n : /\ Len(upto[i]) = m + i
                                /\ ToSet(upto[i]) = ToSet(list) \cup First(i)}
<1>3. 0 \in P
  <2>1. Len(list) = m + 0
    BY <1>1 DEF m
  <2>2. First(0) = {}
    OBVIOUS
  <2> HIDE DEF First
  <2> QED
    BY <1>1, <1>2, <2>1, <2>2
<1>4. ASSUME NEW i \in 1 .. n, i - 1 \in P PROVE i \in P
  <2>1. PICK q \in Seq(Bus) : q = upto[i - 1]
    BY <1>1, <1>2
  <2>2. Len(q) = m + (i - 1) /\ ToSet(q) = ToSet(list) \cup First(i - 1)
    BY <1>4, <2>1
  <2>3. Len(q) + 1 < MAXBUS
    BY <1>1, <2>2, ConstantFacts
  <2>4. upto[i] = Append(q, ins[i])
    <3>1. upto[i] = AddIn(q, ins[i])
      BY <1>2, <2>1
    <3>2. ~(Len(q) + 1 >= MAXBUS)
      BY <1>1, <2>2, <2>3, ConstantFacts
    <3> QED
      BY <3>1, <3>2 DEF AddIn
  <2>5. Len(upto[i]) = Len(q) + 1 /\ ToSet(upto[i]) = ToSet(q) \cup {ins[i]}
    BY <1>1, <2>4, AppendSet
  <2>6. Len(upto[i]) = m + i
    BY <1>1, <2>2, <2>5
  <2>7. \A j \in 1 .. i : j \in 1 .. i - 1 \/ j = i
    BY <1>1
  <2>8. \A j \in 1 .. i - 1 : j \in 1 .. i
    BY <1>1
  <2>9. First(i) = First(i - 1) \cup {ins[i]}
    BY <1>1, <2>7, <2>8
  <2>10. i \in 0 .. n
    BY <1>1
  <2> HIDE DEF First
  <2> QED
    BY <2>2, <2>5, <2>6, <2>9, <2>10
<1>5. n \in P
  <2> HIDE DEF P
  <2>1. \A i \in 0 .. n : i \in P
    BY <1>1, <1>3, <1>4, Throughout
  <2> QED
    BY <1>1, <2>1
<1>6. ToSet(ins) = First(n)
  BY <1>1 DEF ToSet
<1> HIDE DEF First
<1> QED
  BY <1>2, <1>5, <1>6 DEF n, m

(* The loop over the outputs of a slot.                                     *)
LEMMA AddEdgesLoop ==
  ASSUME NEW busIn \in [Bus -> Seq(Bus)], NEW ins \in Seq(Bus), NEW outs \in Seq(Bus)
  PROVE  \E upto \in [0 .. Len(outs) -> [Bus -> Seq(Bus)]] :
           /\ AddEdges(busIn, ins, outs) = upto[Len(outs)] /\ upto[0] = busIn
           /\ \A i \in 1 .. Len(outs) : upto[i] = AddEdgesTo(outs[i], upto[i - 1], ins)
<1> DEFINE N == Len(outs)
           S == [Bus -> Seq(Bus)]
           start == busIn
           turn == [i \in 1 .. N |-> [x \in S |-> AddEdgesTo(outs[i], x, ins)]]
           Solves(f) == f = [i \in 0 .. N |-> IF i = 0 THEN start ELSE AddEdgesTo(outs[i], f[i - 1], ins)]
           u == CHOOSE f : Solves(f)
<1>1. N \in Nat
  BY LenProperties
<1>2. start \in S
  OBVIOUS
<1>3. \A i \in 1 .. N : \A x \in S : AddEdgesTo(outs[i], x, ins) \in S
  <2>1. \A i \in 1 .. N : outs[i] \in Bus
    OBVIOUS
  <2> QED
    BY <2>1, AddEdgesToType
<1>4. AddEdges(busIn, ins, outs) = u[N]
  BY DEF AddEdges
<1> HIDE DEF N, S, start
<1>5. \A i \in 1 .. N : i - 1 \in 0 .. N /\ i \in 0 .. N /\ i # 0
  BY <1>1
<1>6. turn \in Turns(N, S)
  BY <1>3 DEF Turns
<1>7. PICK h : IsLoop(h, N, S, start, turn)
  <2> HIDE DEF turn
  <2> QED
    BY <1>1, <1>2, <1>6, LoopExists
<1>8. h \in [0 .. N -> S] /\ h[0] = start
  BY <1>7 DEF IsLoop
<1>9. ASSUME NEW i \in 1 .. N
      PROVE  h[i] = AddEdgesTo(outs[i], h[i - 1], ins)
  <2>1. PICK x \in S : x = h[i - 1]
    BY <1>5, <1>8
  <2>2. h[i] = turn[i][x]
    <3> HIDE DEF turn
    <3> QED
      BY <1>7, <2>1 DEF IsLoop
  <2>3. turn[i][x] = AddEdgesTo(outs[i], x, ins)
    OBVIOUS
  <2> QED
    BY <2>1, <2>2, <2>3
<1>10. Solves(h)
  <2> DEFINE r == [i \in 0 .. N |-> IF i = 0 THEN start ELSE AddEdgesTo(outs[i], h[i - 1], ins)]
  <2>1. ASSUME NEW i \in 0 .. N PROVE r[i] = h[i]
    <3>1. i = 0 \/ i \in 1 .. N
      BY <1>1
    <3> QED
      BY <1>8, <1>9, <3>1
  <2>2. r = [i \in 0 .. N |-> r[i]] /\ h = [i \in 0 .. N |-> h[i]]
    BY <1>8
  <2>3. h = r
    <3> HIDE DEF r
    <3> QED
      BY <2>1, <2>2
  <2> QED
    BY <2>3
<1>11. Solves(u)
  <2> HIDE DEF Solves
  <2> QED
    BY <1>10
<1> HIDE DEF u
<1>12. u[0] = start /\ \A i \in 1 .. N : u[i] = AddEdgesTo(outs[i], u[i - 1], ins)
  <2>1. 0 \in 0 .. N
    BY <1>1
  <2> QED
    BY <1>5, <1>11, <2>1
<1>13. \A i \in 0 .. N : u[i] = h[i]
  <2> DEFINE P == {i \in 0 .. N : u[i] = h[i]}
  <2>1. 0 \in P
    BY <1>1, <1>8, <1>12
  <2>2. ASSUME NEW i \in 1 .. N, i - 1 \in P PROVE i \in P
    <3>1. u[i - 1] = h[i - 1]
      BY <2>2
    <3>2. u[i] = h[i]
      BY <1>9, <1>12, <3>1
    <3> QED
      BY <1>5, <3>2
  <2> HIDE DEF P
  <2>3. \A i \in 0 .. N : i \in P
    BY <1>1, <2>1, <2>2, Throughout
  <2> QED
    BY <2>3 DEF P
<1>14. AddEdges(busIn, ins, outs) = h[N]
  <2>1. N \in 0 .. N
    BY <1>1
  <2> QED
    BY <1>4, <1>13, <2>1
<1> QED
  BY <1>8, <1>9, <1>14 DEF N, S, start

(* Lists with room for them get all the edges.                             *)
HasRoom(busIn, ins, outs) ==
  \A b \in Bus : Len(busIn[b]) + Times(Len(ins), Len(outs)) < MAXBUS
EdgesAdded(busIn, new, ins, outs) ==
  /\ new \in [Bus -> Seq(Bus)]
  /\ \A b \in Bus :
       /\ Len(new[b]) <= Len(busIn[b]) + Times(Len(ins), Len(outs))
       /\ ToSet(new[b]) = ToSet(busIn[b]) \cup (IF b \in ToSet(outs) THEN ToSet(ins) ELSE {})
LEMMA AddEdgesRoom ==
  ASSUME NEW busIn \in [Bus -> Seq(Bus)], NEW ins \in Seq(Bus), NEW outs \in Seq(Bus),
         HasRoom(busIn, ins, outs)
  PROVE  EdgesAdded(busIn, AddEdges(busIn, ins, outs), ins, outs)
<1> USE DEF HasRoom, EdgesAdded
<1> DEFINE n == Len(outs)
           m == Len(ins)
           Named(b, i) == IF \E j \in 1 .. i : outs[j] = b THEN ToSet(ins) ELSE {}
<1>1. /\ n \in Nat /\ m \in Nat /\ DOMAIN outs = 1 .. n
      /\ \A i \in 1 .. n : outs[i] \in Bus
      /\ \A b \in Bus : Len(busIn[b]) \in Nat
  BY LenProperties
<1>0. PICK z \in Nat : z = Times(m, n)
  BY <1>1, Products
<1>9. \A b \in Bus : Len(busIn[b]) + z < MAXBUS
  <2> SUFFICES ASSUME NEW b \in Bus PROVE Len(busIn[b]) + z < MAXBUS
    OBVIOUS
  <2>1. Len(busIn[b]) + Times(m, n) < MAXBUS
    OBVIOUS
  <2> HIDE DEF n, m
  <2> QED
    BY <1>0, <2>1
<1>2. PICK upto \in [0 .. n -> [Bus -> Seq(Bus)]] :
        /\ AddEdges(busIn, ins, outs) = upto[n] /\ upto[0] = busIn
        /\ \A i \in 1 .. n : upto[i] = AddEdgesTo(outs[i], upto[i - 1], ins)
  BY Zenon, AddEdgesLoop
<1> HIDE DEF n, m
<1> DEFINE P == {i \in 0 .. n : \A b \in Bus :
                   /\ Len(upto[i][b]) <= Len(busIn[b]) + Times(m, i)
                   /\ ToSet(upto[i][b]) = ToSet(busIn[b]) \cup Named(b, i)}
<1>3. 0 \in P
  <2>1. \A b \in Bus : Named(b, 0) = {}
    OBVIOUS
  <2>2. Times(m, 0) = 0
    BY <1>1, Products
  <2>3. \A b \in Bus : Len(busIn[b]) <= Len(busIn[b]) + 0
    BY <1>1
  <2> HIDE DEF Named
  <2> QED
    BY <1>1, <1>2, <2>1, <2>2, <2>3
<1>4. ASSUME NEW i \in 1 .. n, i - 1 \in P PROVE i \in P
  <2>0. i - 1 \in 0 .. n /\ i \in 0 .. n /\ i \in 1 .. i
    BY <1>1
  <2>1. PICK q \in [Bus -> Seq(Bus)] : q = upto[i - 1]
    BY <1>2, <2>0
  <2>2. PICK x \in Nat, y \in Nat :
          x = Times(m, i - 1) /\ y = Times(m, i) /\ x + m = y /\ y <= z
    <3>1. i - 1 \in Nat /\ i \in Nat /\ i > 0 /\ i <= n
      BY <1>1
    <3>2. Times(m, i - 1) \in Nat /\ Times(m, i) \in Nat
      BY <1>1, <3>1, Products
    <3>3. Times(m, i - 1) + m = Times(m, i)
      BY <1>1, <3>1, Products
    <3>4. Times(m, i) <= Times(m, n)
      BY <1>1, <3>1, Products
    <3> QED
      BY <1>0, <3>2, <3>3, <3>4
  <2>7. x + m = y /\ y <= z
    BY <2>2
  <2>3. upto[i] = AddEdgesTo(outs[i], q, ins)
    BY <1>2, <2>1
  <2>4. \A c \in Bus : upto[i][c] = IF c = outs[i] THEN AddIns(q[c], ins) ELSE q[c]
    <3>1. PICK b \in Bus : b = outs[i]
      BY <1>1
    <3>2. AddEdgesTo(b, q, ins) = upto[i]
      BY <2>3, <3>1
    <3>3. q = [c \in Bus |-> q[c]] /\ DOMAIN q = Bus
      OBVIOUS
    <3>4. AddEdgesTo(b, q, ins) = [c \in Bus |-> IF c = b THEN AddIns(q[b], ins) ELSE q[c]]
      BY <3>3 DEF AddEdgesTo
    <3>5. upto[i] = [c \in Bus |-> IF c = b THEN AddIns(q[b], ins) ELSE q[c]]
      BY <3>2, <3>4
    <3> QED
      BY <3>1, <3>5
  <2>5. ASSUME NEW b \in Bus
        PROVE  /\ Len(upto[i][b]) <= Len(busIn[b]) + y
               /\ ToSet(upto[i][b]) = ToSet(busIn[b]) \cup Named(b, i)
    <3>1. /\ Len(q[b]) <= Len(busIn[b]) + x
          /\ ToSet(q[b]) = ToSet(busIn[b]) \cup Named(b, i - 1)
      BY <1>4, <2>1, <2>2
    <3>2. q[b] \in Seq(Bus) /\ Len(q[b]) \in Nat
      BY LenProperties
    <3>3. Len(busIn[b]) \in Nat /\ Len(busIn[b]) + z < MAXBUS
      BY <1>1, <1>9
    <3>4. CASE b = outs[i]
      <4>1. upto[i][b] = AddIns(q[b], ins)
        BY <2>4, <3>4
      <4>2. Len(q[b]) + m < MAXBUS
        BY <1>1, <2>7, <3>1, <3>2, <3>3, ConstantFacts
      <4>3. /\ Len(upto[i][b]) = Len(q[b]) + m
            /\ ToSet(upto[i][b]) = ToSet(q[b]) \cup ToSet(ins)
        BY <3>2, <4>1, <4>2, AddInsRoom DEF m
      <4>4. Named(b, i) = ToSet(ins) /\ (Named(b, i - 1) = {} \/ Named(b, i - 1) = ToSet(ins))
        BY <2>0, <3>4
      <4>5. Len(upto[i][b]) <= Len(busIn[b]) + y
        BY <1>1, <2>7, <3>1, <3>2, <3>3, <4>3
      <4> HIDE DEF Named
      <4> QED
        BY <3>1, <4>3, <4>4, <4>5
    <3>5. CASE b # outs[i]
      <4>1. upto[i][b] = q[b]
        BY <2>4, <3>5
      <4>2. \A j \in 1 .. i : j \in 1 .. i - 1 \/ j = i
        BY <1>1
      <4>3. \A j \in 1 .. i - 1 : j \in 1 .. i
        BY <1>1
      <4>4. Named(b, i) = Named(b, i - 1)
        BY <3>5, <4>2, <4>3
      <4>5. Len(q[b]) <= Len(busIn[b]) + y
        BY <1>1, <2>7, <3>1, <3>2, <3>3
      <4> HIDE DEF Named
      <4> QED
        BY <3>1, <4>1, <4>4, <4>5
    <3> QED
      BY <3>4, <3>5
  <2> HIDE DEF Named
  <2>6. i \in 0 .. n
    BY <1>1
  <2> QED
    BY <2>2, <2>5, <2>6
<1>5. n \in P
  <2> HIDE DEF P
  <2>1. \A i \in 0 .. n : i \in P
    BY <1>1, <1>3, <1>4, Throughout
  <2> QED
    BY <1>1, <2>1
<1>6. \A b \in Bus : b \in ToSet(outs) <=> \E j \in 1 .. n : outs[j] = b
  BY <1>1 DEF ToSet
<1>7. \A b \in Bus : Named(b, n) = IF b \in ToSet(outs) THEN ToSet(ins) ELSE {}
  BY <1>6
<1> HIDE DEF Named
<1>8. upto[n] \in [Bus -> Seq(Bus)]
  BY <1>1, <1>2
<1> QED
  BY <1>2, <1>5, <1>7, <1>8 DEF n, m

(***************************************************************************)
(* The graph after a call.                                                 *)
(***************************************************************************)
(* What the walk of the loop check meets is closed under inputs.           *)
LEMMA MetClosed ==
  ASSUME NEW g \in BusGraphs, ParentsRight(g), NEW buses \in Seq(Bus)
  PROVE  LET m == Walk(g, buses, {}).met
         IN  /\ m \subseteq Bus /\ ToSet(buses) \subseteq m
             /\ \A b \in m : Pred(g, b) \subseteq m
<1>1. PICK w \in WalkStates :
        w = Walk(g, buses, {}) /\ w.todo = <<>> /\ WalkInv(g, buses, {}, w, <<>>)
  BY WalkDone
<1>2. /\ NotedOnce(w, {}) /\ MetVisited(g, w) /\ MetOrQueued(g, buses, w, <<>>)
  BY <1>1 DEF WalkInv
<1>3. w.visited = ToSet(w.rev)
  BY <1>2 DEF NotedOnce
<1>4. ToSet(<<>>) = {}
  BY DEF ToSet
<1>5. \A l \in ListsOf(g, buses, w) : ToSet(l) \subseteq w.met
  BY <1>1, <1>2, <1>4 DEF MetOrQueued
<1>6. ToSet(buses) \subseteq w.met
  BY <1>5 DEF ListsOf
<1>7. \A b \in w.met : Pred(g, b) \subseteq w.met
  <2> SUFFICES ASSUME NEW b \in w.met PROVE Pred(g, b) \subseteq w.met
    OBVIOUS
  <2>1. CASE g.BusIn[b] = <<>>
    BY <1>4, <2>1 DEF Pred
  <2>2. CASE b \in ToSet(w.rev)
    BY <1>5, <2>2 DEF ListsOf, Pred
  <2> QED
    BY <1>2, <1>3, <2>1, <2>2 DEF MetVisited
<1>8. w.met \subseteq Bus
  BY DEF WalkStates
<1> QED
  BY <1>1, <1>6, <1>7, <1>8

(* New edges that end outside a set closed under inputs, where all of them *)
(* begin, close no loop.                                                   *)
ClosesNone(g, h, M, I, O) ==
  /\ I \subseteq M /\ M \subseteq Bus /\ O \cap M = {}
  /\ \A b \in M : Pred(g, b) \subseteq M
  /\ \A b \in Bus : Pred(h, b) = Pred(g, b) \cup (IF b \in O THEN I ELSE {})
LEMMA StaysLoopFree ==
  ASSUME NEW g, NEW h, LoopFree(g), NEW M, NEW I, NEW O, ClosesNone(g, h, M, I, O)
  PROVE  LoopFree(h)
<1> SUFFICES ASSUME NEW S \in (SUBSET Bus) \ {{}}
             PROVE  \E b \in S : \A a \in S : a \notin Pred(h, b)
  BY DEF LoopFree, Pred
<1>0. \A T \in (SUBSET Bus) \ {{}} : \E b \in T : \A a \in T : a \notin Pred(g, b)
  BY DEF LoopFree, Pred
<1> USE DEF ClosesNone
<1>1. CASE S \cap M # {}
  <2>1. S \cap M \in (SUBSET Bus) \ {{}}
    BY <1>1
  <2>2. PICK b \in S \cap M : \A a \in S \cap M : a \notin Pred(g, b)
    BY <1>0, <2>1
  <2>3. Pred(h, b) = Pred(g, b) /\ Pred(g, b) \subseteq M
    BY <2>2
  <2> QED
    BY <2>2, <2>3
<1>2. CASE S \cap M = {}
  <2>1. PICK b \in S : \A a \in S : a \notin Pred(g, b)
    BY <1>0
  <2>2. Pred(h, b) \subseteq Pred(g, b) \cup I
    BY <2>1
  <2> QED
    BY <1>2, <2>1, <2>2
<1> QED
  BY <1>1, <1>2

LEMMA EmptyList == \A q \in Seq(Bus) : q = <<>> <=> ToSet(q) = {}
<1> SUFFICES ASSUME NEW q \in Seq(Bus) PROVE q = <<>> <=> ToSet(q) = {}
  OBVIOUS
<1>1. Len(q) \in Nat /\ DOMAIN q = 1 .. Len(q) /\ (q # <<>> => Len(q) \in Nat \ {0})
  BY EmptySeq, LenProperties
<1>2. q # <<>> => 1 \in DOMAIN q
  BY <1>1
<1> QED
  BY <1>2 DEF ToSet

LEMMA InsertedGraph ==
  ASSUME NEW g \in BusGraphs, GraphShape(g), LoopFree(g), NEW s \in BusSlots,
         ~Loops(g, s),
         \A b \in Bus : Len(g.BusIn[b]) + Times(Len(s.auxin), Len(s.auxout)) < MAXBUS
  PROVE  LET h == Inserted(g, s)
         IN  /\ h \in BusGraphs /\ GraphShape(h) /\ LoopFree(h)
             /\ g.AuxInUse \cup ToSet(s.auxout) \subseteq h.AuxInUse
             /\ \A b \in Bus :
                  /\ Pred(h, b) = Pred(g, b) \cup
                                  (IF b \in ToSet(s.auxout) THEN ToSet(s.auxin) ELSE {})
                  /\ Len(h.BusIn[b]) <= Len(g.BusIn[b]) + Times(Len(s.auxin), Len(s.auxout))
<1> DEFINE h == Inserted(g, s)
           I == ToSet(s.auxin)
           O == ToSet(s.auxout)
           ins == IF s.auxout = <<>> THEN {} ELSE I
<1>1. /\ g.BusIn \in [Bus -> Seq(Bus)] /\ s.auxin \in Seq(Bus) /\ s.auxout \in Seq(Bus)
      /\ g.AuxInUse \in SUBSET Bus /\ g.HasParent \in SUBSET Bus /\ g.HasChild \in SUBSET Bus
  BY DEF BusGraphs, BusSlots
<1>2. /\ h.AuxInUse = (g.AuxInUse \cup O) \cup ins
      /\ h.HasParent = g.HasParent \cup (IF ins = {} THEN {} ELSE O)
      /\ h.HasChild = g.HasChild \cup ins
      /\ h.BusIn = AddEdges(g.BusIn, s.auxin, s.auxout)
      /\ h = [AuxInUse |-> h.AuxInUse, HasParent |-> h.HasParent,
              HasChild |-> h.HasChild, BusIn |-> h.BusIn]
  BY DEF Inserted
<1>3. I \subseteq Bus /\ O \subseteq Bus /\ (s.auxin = <<>> <=> I = {}) /\ (s.auxout = <<>> <=> O = {})
  <2>1. I \subseteq Bus /\ O \subseteq Bus
    BY <1>1, LenProperties DEF ToSet
  <2> QED
    BY <1>1, <2>1, EmptyList
<1> HIDE DEF h, I, O
<1>4. /\ h.BusIn \in [Bus -> Seq(Bus)]
      /\ \A b \in Bus :
           /\ Len(h.BusIn[b]) <= Len(g.BusIn[b]) + Times(Len(s.auxin), Len(s.auxout))
           /\ Pred(h, b) = Pred(g, b) \cup (IF b \in O THEN I ELSE {})
  <2>1. HasRoom(g.BusIn, s.auxin, s.auxout)
    BY DEF HasRoom
  <2>2. EdgesAdded(g.BusIn, h.BusIn, s.auxin, s.auxout)
    <3>1. EdgesAdded(g.BusIn, AddEdges(g.BusIn, s.auxin, s.auxout), s.auxin, s.auxout)
      BY <1>1, <2>1, AddEdgesRoom
    <3>2. h.BusIn = AddEdges(g.BusIn, s.auxin, s.auxout)
      BY <1>2
    <3> QED
      BY <3>1, <3>2
  <2>3. \A b \in Bus :
          /\ Len(h.BusIn[b]) <= Len(g.BusIn[b]) + Times(Len(s.auxin), Len(s.auxout))
          /\ ToSet(h.BusIn[b]) = ToSet(g.BusIn[b]) \cup
                 (IF b \in ToSet(s.auxout) THEN ToSet(s.auxin) ELSE {})
    BY <2>2 DEF EdgesAdded
  <2>4. h.BusIn \in [Bus -> Seq(Bus)]
    BY <2>2 DEF EdgesAdded
  <2>5. \A b \in Bus : Pred(h, b) = Pred(g, b) \cup (IF b \in O THEN I ELSE {})
    BY <2>3 DEF Pred, I, O
  <2> QED
    BY <2>3, <2>4, <2>5
<1>5. h \in BusGraphs
  BY <1>1, <1>2, <1>3, <1>4 DEF BusGraphs
<1>6. /\ g.HasParent = {b \in Bus : Pred(g, b) # {}}
      /\ g.HasChild = UNION {Pred(g, b) : b \in Bus}
      /\ g.HasParent \cup g.HasChild \subseteq g.AuxInUse
  <2>1. \A b \in Bus : g.BusIn[b] = <<>> <=> Pred(g, b) = {}
    BY <1>1, EmptyList DEF Pred
  <2> QED
    BY <2>1 DEF GraphShape, Pred
<1>7. GraphShape(h)
  <2>1. \A b \in Bus : h.BusIn[b] = <<>> <=> Pred(h, b) = {}
    BY <1>4, EmptyList DEF Pred
  <2>2. h.HasParent = {b \in Bus : Pred(h, b) # {}}
    <3>1. \A b \in Bus : Pred(h, b) # {} <=> Pred(g, b) # {} \/ (b \in O /\ I # {})
      BY <1>4
    <3>2. ins # {} <=> O # {} /\ I # {}
      BY <1>3
    <3>3. \A b \in Bus : b \in h.HasParent <=> b \in g.HasParent \/ (b \in O /\ I # {})
      BY <1>2, <3>2
    <3>4. h.HasParent \subseteq Bus
      BY <1>1, <1>2, <1>3
    <3> HIDE DEF ins
    <3> QED
      BY <1>6, <3>1, <3>3, <3>4
  <2>3. h.HasChild = UNION {Pred(h, b) : b \in Bus}
    <3>1. ASSUME NEW a \in h.HasChild PROVE \E b \in Bus : a \in Pred(h, b)
      <4>1. CASE a \in g.HasChild
        BY <1>4, <1>6, <4>1
      <4>2. CASE a \in ins
        BY <1>3, <1>4, <4>2
      <4> QED
        BY <1>2, <3>1, <4>1, <4>2
    <3>2. ASSUME NEW b \in Bus, NEW a \in Pred(h, b) PROVE a \in h.HasChild
      <4>1. CASE a \in Pred(g, b)
        BY <1>2, <1>6, <4>1
      <4>2. CASE b \in O /\ a \in I
        BY <1>2, <1>3, <4>2
      <4> QED
        BY <1>4, <4>1, <4>2
    <3> HIDE DEF ins
    <3> QED
      BY <3>1, <3>2
  <2>4. h.HasParent \cup h.HasChild \subseteq h.AuxInUse
    BY <1>2, <1>6
  <2> QED
    BY <2>1, <2>2, <2>3, <2>4 DEF GraphShape, Pred
<1>8. LoopFree(h)
  <2> DEFINE M == Walk(g, s.auxin, {}).met
  <2>1. M \subseteq Bus /\ I \subseteq M /\ \A b \in M : Pred(g, b) \subseteq M
    BY <1>1, MetClosed DEF I, GraphShape, ParentsRight
  <2>2. O \cap M = {}
    BY DEF Loops, O
  <2>3. \A b \in Bus : Pred(h, b) = Pred(g, b) \cup (IF b \in O THEN I ELSE {})
    BY <1>4
  <2> HIDE DEF M
  <2>4. ClosesNone(g, h, M, I, O)
    BY <2>1, <2>2, <2>3 DEF ClosesNone
  <2> QED
    BY <2>4, StaysLoopFree
<1> QED
  BY <1>2, <1>4, <1>5, <1>7, <1>8 DEF h, I, O

(***************************************************************************)
(* create_play_order().                                                    *)
(***************************************************************************)
Before(q, a, b) == \E i, j \in 1 .. Len(q) : i < j /\ q[i] = a /\ q[j] = b

LEMMA ReverseSet ==
  ASSUME NEW q \in Seq(Bus)
  PROVE  /\ Reverse(q) \in Seq(Bus) /\ ToSet(Reverse(q)) = ToSet(q)
         /\ IsInjective(q) => IsInjective(Reverse(q))
         /\ \A i, j \in 1 .. Len(q) : i < j => Before(Reverse(q), q[j], q[i])
<1> DEFINE n == Len(q)
           r == Reverse(q)
<1>1. n \in Nat /\ DOMAIN q = 1 .. n /\ \A i \in 1 .. n : q[i] \in Bus
  BY LenProperties
<1>2. r = [i \in 1 .. n |-> q[(n - i) + 1]]
  BY DEF Reverse
<1>3. \A i \in 1 .. n : (n - i) + 1 \in 1 .. n /\ (n - ((n - i) + 1)) + 1 = i
  BY <1>1
<1> HIDE DEF n, r
<1>4. r \in [1 .. n -> Bus] /\ \A i \in 1 .. n : r[i] = q[(n - i) + 1]
  BY <1>1, <1>2, <1>3
<1>5. r \in Seq(Bus) /\ Len(r) = n /\ DOMAIN r = 1 .. n
  <2>1. r \in Seq(Bus)
    BY <1>1, <1>4, SeqDef
  <2> QED
    BY <1>1, <1>4, <2>1, LenProperties
<1>6. ToSet(r) = ToSet(q)
  BY <1>1, <1>3, <1>4, <1>5 DEF ToSet
<1>7. ASSUME IsInjective(q) PROVE IsInjective(r)
  <2> SUFFICES ASSUME NEW i \in 1 .. n, NEW j \in 1 .. n, r[i] = r[j] PROVE i = j
    BY <1>5 DEF IsInjective
  <2>1. (n - i) + 1 = (n - j) + 1
    BY <1>1, <1>3, <1>4, <1>7 DEF IsInjective
  <2> QED
    BY <1>1, <2>1
<1>8. ASSUME NEW i \in 1 .. n, NEW j \in 1 .. n, i < j PROVE Before(r, q[j], q[i])
  <2>1. (n - j) + 1 \in 1 .. n /\ (n - i) + 1 \in 1 .. n /\ (n - j) + 1 < (n - i) + 1
    BY <1>1, <1>8
  <2>2. r[(n - j) + 1] = q[j] /\ r[(n - i) + 1] = q[i]
    BY <1>3, <1>4, <2>1
  <2> QED
    BY <1>5, <2>1, <2>2 DEF Before
<1> QED
  BY <1>5, <1>6, <1>7, <1>8 DEF n, r

LEMMA ConcatSet ==
  ASSUME NEW p \in Seq(Bus), NEW q \in Seq(Bus)
  PROVE  /\ p \o q \in Seq(Bus) /\ ToSet(p \o q) = ToSet(p) \cup ToSet(q)
         /\ IsInjective(p) /\ IsInjective(q) /\ ToSet(p) \cap ToSet(q) = {}
              => IsInjective(p \o q)
         /\ \A a, b \in Bus : Before(p, a, b) => Before(p \o q, a, b)
         /\ \A a, b \in Bus : Before(q, a, b) => Before(p \o q, a, b)
         /\ \A a \in ToSet(p), b \in ToSet(q) : Before(p \o q, a, b)
<1> DEFINE m == Len(p)
           n == Len(q)
           r == p \o q
<1>1. /\ m \in Nat /\ n \in Nat /\ DOMAIN p = 1 .. m /\ DOMAIN q = 1 .. n
      /\ r \in Seq(Bus) /\ Len(r) = m + n /\ DOMAIN r = 1 .. m + n
      /\ \A i \in 1 .. m + n : r[i] = IF i <= m THEN p[i] ELSE q[i - m]
  BY ConcatProperties, LenProperties
<1> HIDE DEF m, n, r
<1>2. \A i \in 1 .. m : i \in 1 .. m + n /\ r[i] = p[i]
  BY <1>1
<1>3. ASSUME NEW i \in 1 .. n PROVE m + i \in 1 .. m + n /\ r[m + i] = q[i]
  <2>1. m + i \in 1 .. m + n /\ ~(m + i <= m) /\ (m + i) - m = i
    BY <1>1
  <2> QED
    BY <1>1, <2>1
<1>4. \A i \in 1 .. m + n : i \in 1 .. m \/ \E j \in 1 .. n : i = m + j
  <2> SUFFICES ASSUME NEW i \in 1 .. m + n, i \notin 1 .. m PROVE \E j \in 1 .. n : i = m + j
    OBVIOUS
  <2>1. i - m \in 1 .. n /\ i = m + (i - m)
    BY <1>1
  <2> QED
    BY <2>1
<1>5. ToSet(r) = ToSet(p) \cup ToSet(q)
  <2>1. ASSUME NEW x \in ToSet(r) PROVE x \in ToSet(p) \cup ToSet(q)
    <3>1. PICK i \in 1 .. m + n : x = r[i]
      BY <1>1 DEF ToSet
    <3>2. CASE i \in 1 .. m
      BY <1>1, <1>2, <3>1, <3>2 DEF ToSet
    <3>3. CASE i \notin 1 .. m
      <4>1. PICK j \in 1 .. n : i = m + j
        BY <1>4, <3>3
      <4> QED
        BY <1>1, <1>3, <3>1, <4>1 DEF ToSet
    <3> QED
      BY <3>2, <3>3
  <2>2. ToSet(p) \subseteq ToSet(r)
    BY <1>1, <1>2 DEF ToSet
  <2>3. ToSet(q) \subseteq ToSet(r)
    BY <1>1, <1>3 DEF ToSet
  <2> QED
    BY <2>1, <2>2, <2>3
<1>6. ASSUME IsInjective(p), IsInjective(q), ToSet(p) \cap ToSet(q) = {} PROVE IsInjective(r)
  <2> SUFFICES ASSUME NEW i \in 1 .. m + n, NEW j \in 1 .. m + n, r[i] = r[j] PROVE i = j
    BY <1>1 DEF IsInjective
  <2>0. \A k \in 1 .. m, l \in 1 .. n : p[k] # q[l]
    BY <1>1, <1>6 DEF ToSet
  <2>1. CASE i \in 1 .. m /\ j \in 1 .. m
    BY <1>1, <1>2, <1>6, <2>1 DEF IsInjective
  <2>2. CASE i \notin 1 .. m /\ j \notin 1 .. m
    <3>1. PICK k \in 1 .. n, l \in 1 .. n : i = m + k /\ j = m + l
      BY <1>4, <2>2
    <3>2. q[k] = q[l]
      BY <1>3, <3>1
    <3> QED
      BY <1>1, <1>6, <3>1, <3>2 DEF IsInjective
  <2>3. CASE i \in 1 .. m /\ j \notin 1 .. m
    <3>1. PICK l \in 1 .. n : j = m + l
      BY <1>4, <2>3
    <3> QED
      BY <1>2, <1>3, <2>0, <2>3, <3>1
  <2>4. CASE i \notin 1 .. m /\ j \in 1 .. m
    <3>1. PICK l \in 1 .. n : i = m + l
      BY <1>4, <2>4
    <3> QED
      BY <1>2, <1>3, <2>0, <2>4, <3>1
  <2> QED
    BY <2>1, <2>2, <2>3, <2>4
<1>7. ASSUME NEW a \in Bus, NEW b \in Bus, Before(p, a, b) PROVE Before(r, a, b)
  BY <1>1, <1>2, <1>7 DEF Before, m
<1>8. ASSUME NEW a \in Bus, NEW b \in Bus, Before(q, a, b) PROVE Before(r, a, b)
  <2>1. PICK i \in 1 .. n, j \in 1 .. n : i < j /\ q[i] = a /\ q[j] = b
    BY <1>8 DEF Before, n
  <2>2. m + i < m + j
    BY <1>1, <2>1
  <2>3. m + i \in 1 .. Len(r) /\ m + j \in 1 .. Len(r) /\ r[m + i] = a /\ r[m + j] = b
    BY <1>1, <1>3, <2>1
  <2> QED
    BY <2>2, <2>3 DEF Before
<1>9. ASSUME NEW a \in ToSet(p), NEW b \in ToSet(q) PROVE Before(r, a, b)
  <2>1. PICK i \in 1 .. m, j \in 1 .. n : p[i] = a /\ q[j] = b
    BY <1>1 DEF ToSet
  <2>2. i < m + j
    BY <1>1
  <2>3. i \in 1 .. Len(r) /\ m + j \in 1 .. Len(r) /\ r[i] = a /\ r[m + j] = b
    BY <1>1, <1>2, <1>3, <2>1
  <2> QED
    BY <2>2, <2>3 DEF Before
<1> QED
  BY <1>1, <1>5, <1>6, <1>7, <1>8, <1>9 DEF r

(* Where a traversal has come to. *)
Accs == [visited : SUBSET Bus, order : Seq(Bus)]
SinglePath(g) == \A a, b, c \in Bus : a \in Pred(g, b) /\ a \in Pred(g, c) => b = c
OrderKnown(g, acc) ==
  /\ IsInjective(acc.order)
  /\ ToSet(acc.order) = (g.AuxInUse \ g.HasParent) \cup acc.visited
  /\ acc.visited \subseteq g.HasParent
  /\ \A b \in acc.visited : \A a \in Pred(g, b) : g.BusIn[a] = <<>> \/ a \in acc.visited
InOrder(g, acc) ==
  \A b \in acc.visited : \A a \in Pred(g, b) : Before(acc.order, a, b)

LEMMA ExtendType ==
  ASSUME NEW g \in BusGraphs, NEW acc \in Accs, NEW leaf \in Bus, ParentsRight(g)
  PROVE  Extend(g, acc, leaf) \in Accs
<1>1. <<leaf>> \in Seq(Bus) /\ acc.visited \in SUBSET Bus /\ acc.order \in Seq(Bus)
  BY DEF Accs
<1>2. PICK w \in WalkStates : w = Walk(g, <<leaf>>, acc.visited)
  BY <1>1, WalkDone
<1>3. w.rev \in Seq(Bus) /\ w.visited \in SUBSET Bus
  BY DEF WalkStates
<1>4. acc.order \o Reverse(w.rev) \in Seq(Bus)
  BY <1>1, <1>3, ReverseSet, ConcatSet
<1>5. Extend(g, acc, leaf) = [visited |-> w.visited, order |-> acc.order \o Reverse(w.rev)]
  BY <1>2 DEF Extend, Traverse, Backwards
<1> QED
  BY <1>3, <1>4, <1>5 DEF Accs

LEMMA NoSelfInput ==
  ASSUME NEW g, LoopFree(g), NEW b \in Bus
  PROVE  b \notin Pred(g, b)
<1>1. PICK S : S = {b}
  OBVIOUS
<1>2. S \in (SUBSET Bus) \ {{}}
  BY <1>1
<1>3. PICK c \in S : \A a \in S : a \notin ToSet(g.BusIn[c])
  BY <1>2 DEF LoopFree
<1> QED
  BY <1>1, <1>3 DEF Pred

(* The traversal from one bus without a child.                             *)
LEMMA ExtendKeeps ==
  ASSUME NEW g \in BusGraphs, GraphShape(g), LoopFree(g), NEW acc \in Accs,
         NEW leaf \in Bus, leaf \notin g.HasChild, OrderKnown(g, acc)
  PROVE  LET new == Extend(g, acc, leaf)
         IN  /\ OrderKnown(g, new) /\ acc.visited \subseteq new.visited
             /\ g.BusIn[leaf] = <<>> \/ leaf \in new.visited
             /\ SinglePath(g) /\ InOrder(g, acc) => InOrder(g, new)
<1> DEFINE new == Extend(g, acc, leaf)
<1>0. ParentsRight(g) /\ <<leaf>> \in Seq(Bus) /\ acc.visited \in SUBSET Bus /\ acc.order \in Seq(Bus)
  BY DEF GraphShape, ParentsRight, Accs
<1>1. PICK w \in WalkStates :
        /\ w = Walk(g, <<leaf>>, acc.visited) /\ w.todo = <<>>
        /\ WalkInv(g, <<leaf>>, acc.visited, w, <<>>)
  BY <1>0, WalkDone
<1>2. new.visited = w.visited /\ new.order = acc.order \o Reverse(w.rev)
  BY <1>1 DEF Extend, Traverse, Backwards
<1> HIDE DEF new
<1> DEFINE rev == w.rev
           m == Len(w.rev)
<1>3. rev \in Seq(Bus) /\ m \in Nat /\ DOMAIN rev = 1 .. m /\ \A r \in 1 .. m : rev[r] \in Bus
  <2>1. rev \in Seq(Bus)
    BY DEF WalkStates
  <2> QED
    BY <2>1, LenProperties
<1>4. /\ w.visited = acc.visited \cup ToSet(rev) /\ IsInjective(rev)
      /\ ToSet(rev) \cap acc.visited = {}
  BY <1>1 DEF WalkInv, NotedOnce
<1>5. ToSet(<<leaf>>) = {leaf} /\ ToSet(<<>>) = {}
  BY DEF ToSet
<1>6. \A l \in ListsOf(g, <<leaf>>, w) : ToSet(l) \subseteq w.met
  BY <1>1, <1>5 DEF WalkInv, MetOrQueued
<1>7. leaf \in w.met /\ \A b \in ToSet(rev) : Pred(g, b) \subseteq w.met
  BY <1>5, <1>6 DEF ListsOf, Pred
<1>8. \A b \in w.met : g.BusIn[b] = <<>> \/ b \in w.visited
  BY <1>1 DEF WalkInv, MetVisited
<1>9. \A r \in 1 .. m :
        /\ g.BusIn[rev[r]] # <<>>
        /\ rev[r] = leaf \/ \E q \in 1 .. r - 1 : rev[r] \in Pred(g, rev[q])
  BY <1>1, <1>5 DEF WalkInv, NotedFrom
<1> HIDE DEF rev, m
<1>10. ToSet(rev) \subseteq g.HasParent
  BY <1>0, <1>3, <1>9 DEF ParentsRight, ToSet
<1>11. /\ Reverse(rev) \in Seq(Bus) /\ ToSet(Reverse(rev)) = ToSet(rev)
       /\ IsInjective(Reverse(rev))
       /\ \A i, j \in 1 .. m : i < j => Before(Reverse(rev), rev[j], rev[i])
  BY <1>3, <1>4, ReverseSet DEF m, rev
<1>12. /\ ToSet(acc.order) = (g.AuxInUse \ g.HasParent) \cup acc.visited
       /\ acc.visited \subseteq g.HasParent /\ IsInjective(acc.order)
       /\ \A b \in acc.visited : \A a \in Pred(g, b) : g.BusIn[a] = <<>> \/ a \in acc.visited
  BY DEF OrderKnown
<1>13. ToSet(acc.order) \cap ToSet(Reverse(rev)) = {}
  BY <1>4, <1>10, <1>11, <1>12
<1>14. /\ ToSet(new.order) = ToSet(acc.order) \cup ToSet(rev) /\ IsInjective(new.order)
  <2>1. new.order = acc.order \o Reverse(rev)
    BY <1>2 DEF rev
  <2> QED
    BY <1>0, <1>11, <1>12, <1>13, <2>1, ConcatSet
<1>19. ASSUME NEW a \in Bus, NEW b \in Bus,
               \/ Before(acc.order, a, b)
               \/ Before(Reverse(rev), a, b)
               \/ a \in ToSet(acc.order) /\ b \in ToSet(Reverse(rev))
       PROVE  Before(new.order, a, b)
  <2>1. new.order = acc.order \o Reverse(rev)
    BY <1>2 DEF rev
  <2>2. CASE Before(acc.order, a, b)
    BY <1>0, <1>11, <2>1, <2>2, ConcatSet
  <2>3. CASE Before(Reverse(rev), a, b)
    BY <1>0, <1>11, <2>1, <2>3, ConcatSet
  <2>4. CASE a \in ToSet(acc.order) /\ b \in ToSet(Reverse(rev))
    BY <1>0, <1>11, <2>1, <2>4, ConcatSet
  <2> QED
    BY <1>19, <2>2, <2>3, <2>4
<1>15. new.visited = acc.visited \cup ToSet(rev)
  BY <1>2, <1>4
<1>16. OrderKnown(g, new)
  <2>1. \A b \in new.visited : \A a \in Pred(g, b) : g.BusIn[a] = <<>> \/ a \in new.visited
    BY <1>2, <1>7, <1>8, <1>12, <1>15
  <2> QED
    BY <1>10, <1>12, <1>14, <1>15, <2>1 DEF OrderKnown
<1>17. g.BusIn[leaf] = <<>> \/ leaf \in new.visited
  BY <1>2, <1>7, <1>8
<1>18. ASSUME SinglePath(g), InOrder(g, acc) PROVE InOrder(g, new)
  <2> SUFFICES ASSUME NEW b \in new.visited, NEW a \in Pred(g, b)
               PROVE  Before(new.order, a, b)
    BY DEF InOrder
  <2>0. a \in Bus /\ b \in Bus
    <3>0. b \in Bus
      BY <1>0, <1>3, <1>15 DEF ToSet
    <3>1. g.BusIn[b] \in Seq(Bus)
      BY <3>0 DEF BusGraphs
    <3> QED
      BY <3>0, <3>1, LenProperties DEF Pred, ToSet
  <2>1. CASE b \in acc.visited
    <3>1. Before(acc.order, a, b)
      BY <1>18, <2>1 DEF InOrder
    <3> QED
      BY <1>19, <2>0, <3>1
  <2>2. CASE b \in ToSet(rev)
    <3>3. a \in g.HasChild /\ a \in g.AuxInUse
      BY <2>0 DEF GraphShape, Pred
    <3>4. g.BusIn[a] = <<>> \/ a \in acc.visited \/ a \in ToSet(rev)
      BY <1>4, <1>7, <1>8, <2>2
    <3>5. CASE g.BusIn[a] = <<>> \/ a \in acc.visited
      <4>1. a \in ToSet(acc.order)
        BY <1>0, <1>12, <2>0, <3>3, <3>5 DEF ParentsRight
      <4> QED
        BY <1>11, <1>19, <2>0, <2>2, <4>1
    <3>6. CASE a \in ToSet(rev)
      <4>1. PICK p \in 1 .. m, q \in 1 .. m : rev[p] = b /\ rev[q] = a
        BY <1>3, <2>2, <3>6 DEF ToSet
      <4>2. p # q
        <5>1. b \notin Pred(g, b)
          BY <2>0, NoSelfInput
        <5> QED
          BY <4>1, <5>1
      <4>3. ~(q < p)
        <5> SUFFICES ASSUME q < p PROVE FALSE
          OBVIOUS
        <5>1. a # leaf
          BY <3>3
        <5>2. PICK k \in 1 .. q - 1 : rev[q] \in Pred(g, rev[k])
          BY <1>9, <4>1, <5>1
        <5>3. k \in 1 .. m /\ k # p
          BY <1>3
        <5>4. rev[k] = b
          BY <1>3, <1>18, <2>0, <4>1, <5>2, <5>3 DEF SinglePath
        <5> QED
          BY <1>3, <1>4, <4>1, <5>3, <5>4 DEF IsInjective
      <4>4. p < q
        BY <1>3, <4>2, <4>3
      <4> QED
        <5>1. Before(Reverse(rev), a, b)
          BY <1>11, <4>1, <4>4
        <5> QED
          BY <1>19, <2>0, <5>1
    <3> QED
      BY <3>4, <3>5, <3>6
  <2> QED
    BY <1>15, <2>1, <2>2
<1> QED
  BY <1>15, <1>16, <1>17, <1>18 DEF new

(* The traversals.                                                          *)
LEMMA TraversalsLoop ==
  ASSUME NEW g \in BusGraphs, ParentsRight(g), NEW leaves \in Seq(Bus)
  PROVE  \E upto \in [0 .. Len(leaves) -> Accs] :
           /\ Traversals(g, leaves) = upto[Len(leaves)] /\ upto[0] = [visited |-> {}, order |-> Ascending(g.AuxInUse \ g.HasParent)]
           /\ \A i \in 1 .. Len(leaves) : upto[i] = Extend(g, upto[i - 1], leaves[i])
<1> DEFINE N == Len(leaves)
           S == Accs
           start == [visited |-> {}, order |-> Ascending(g.AuxInUse \ g.HasParent)]
           turn == [i \in 1 .. N |-> [x \in S |-> Extend(g, x, leaves[i])]]
           Solves(f) == f = [i \in 0 .. N |-> IF i = 0 THEN start ELSE Extend(g, f[i - 1], leaves[i])]
           u == CHOOSE f : Solves(f)
<1>1. N \in Nat
  BY LenProperties
<1>2. start \in S
  <2>1. g.AuxInUse \ g.HasParent \in SUBSET Bus
    BY DEF BusGraphs
  <2> QED
    BY <2>1, AscendingProperties DEF Accs
<1>3. \A i \in 1 .. N : \A x \in S : Extend(g, x, leaves[i]) \in S
  <2>1. \A i \in 1 .. N : leaves[i] \in Bus
    OBVIOUS
  <2> QED
    BY <2>1, ExtendType
<1>4. Traversals(g, leaves) = u[N]
  BY DEF Traversals
<1> HIDE DEF N, S, start
<1>5. \A i \in 1 .. N : i - 1 \in 0 .. N /\ i \in 0 .. N /\ i # 0
  BY <1>1
<1>6. turn \in Turns(N, S)
  BY <1>3 DEF Turns
<1>7. PICK h : IsLoop(h, N, S, start, turn)
  <2> HIDE DEF turn
  <2> QED
    BY <1>1, <1>2, <1>6, LoopExists
<1>8. h \in [0 .. N -> S] /\ h[0] = start
  BY <1>7 DEF IsLoop
<1>9. ASSUME NEW i \in 1 .. N
      PROVE  h[i] = Extend(g, h[i - 1], leaves[i])
  <2>1. PICK x \in S : x = h[i - 1]
    BY <1>5, <1>8
  <2>2. h[i] = turn[i][x]
    <3> HIDE DEF turn
    <3> QED
      BY <1>7, <2>1 DEF IsLoop
  <2>3. turn[i][x] = Extend(g, x, leaves[i])
    OBVIOUS
  <2> QED
    BY <2>1, <2>2, <2>3
<1>10. Solves(h)
  <2> DEFINE r == [i \in 0 .. N |-> IF i = 0 THEN start ELSE Extend(g, h[i - 1], leaves[i])]
  <2>1. ASSUME NEW i \in 0 .. N PROVE r[i] = h[i]
    <3>1. i = 0 \/ i \in 1 .. N
      BY <1>1
    <3> QED
      BY <1>8, <1>9, <3>1
  <2>2. r = [i \in 0 .. N |-> r[i]] /\ h = [i \in 0 .. N |-> h[i]]
    BY <1>8
  <2>3. h = r
    <3> HIDE DEF r
    <3> QED
      BY <2>1, <2>2
  <2> QED
    BY <2>3
<1>11. Solves(u)
  <2> HIDE DEF Solves
  <2> QED
    BY <1>10
<1> HIDE DEF u
<1>12. u[0] = start /\ \A i \in 1 .. N : u[i] = Extend(g, u[i - 1], leaves[i])
  <2>1. 0 \in 0 .. N
    BY <1>1
  <2> QED
    BY <1>5, <1>11, <2>1
<1>13. \A i \in 0 .. N : u[i] = h[i]
  <2> DEFINE P == {i \in 0 .. N : u[i] = h[i]}
  <2>1. 0 \in P
    BY <1>1, <1>8, <1>12
  <2>2. ASSUME NEW i \in 1 .. N, i - 1 \in P PROVE i \in P
    <3>1. u[i - 1] = h[i - 1]
      BY <2>2
    <3>2. u[i] = h[i]
      BY <1>9, <1>12, <3>1
    <3> QED
      BY <1>5, <3>2
  <2> HIDE DEF P
  <2>3. \A i \in 0 .. N : i \in P
    BY <1>1, <2>1, <2>2, Throughout
  <2> QED
    BY <2>3 DEF P
<1>14. Traversals(g, leaves) = h[N]
  <2>1. N \in 0 .. N
    BY <1>1
  <2> QED
    BY <1>4, <1>13, <2>1
<1> QED
  BY <1>8, <1>9, <1>14 DEF N, S, start

(* Some bus of a set feeds no bus of the set: a smallest set without one   *)
(* would still be without one when the bus with no input from it is gone.  *)
LEMMA SomeLeaf ==
  ASSUME NEW g, LoopFree(g), NEW X \in SUBSET Bus, X # {}
  PROVE  \E x \in X : \A c \in X : x \notin Pred(g, c)
<1> DEFINE Feeds(T) == T # {} /\ \A x \in T : \E c \in T : x \in Pred(g, c)
           F == {T \in SUBSET Bus : Feeds(T)}
           K == {Cardinality(T) : T \in F}
<1> SUFFICES ASSUME F # {} PROVE FALSE
  OBVIOUS
<1>1. \A T \in SUBSET Bus : IsFiniteSet(T) /\ Cardinality(T) \in Nat
  BY BusFinite, FS_Subset, FS_CardinalityType
<1>2. K \in SUBSET Nat /\ K # {}
  BY <1>1
<1>3. PICK m \in K : \A k \in K : m <= k
  <2> HIDE DEF K
  <2> QED
    BY <1>2, LeastNat
<1>4. PICK T \in F : \A U \in F : Cardinality(T) <= Cardinality(U)
  BY <1>3
<1>5. T \in SUBSET Bus /\ Feeds(T)
  OBVIOUS
<1>6. PICK b \in T : \A a \in T : a \notin Pred(g, b)
  <2>1. T \in (SUBSET Bus) \ {{}}
    BY <1>5
  <2> QED
    BY <2>1 DEF LoopFree, Pred
<1> DEFINE U == T \ {b}
<1>7. Feeds(U)
  <2>1. \A x \in T : \E c \in U : x \in Pred(g, c)
    BY <1>5, <1>6
  <2> QED
    BY <2>1
<1>8. U \in F
  BY <1>5, <1>7
<1>9. Cardinality(U) = Cardinality(T) - 1
  BY <1>1, <1>5, FS_RemoveElement
<1>10. Cardinality(T) <= Cardinality(U) /\ Cardinality(T) \in Nat
  BY <1>1, <1>4, <1>5, <1>8
<1> QED
  BY <1>9, <1>10

(* Every bus in use has its place in the play order, and only one; where   *)
(* only one path leads on from each bus, it comes before those it feeds.   *)
LEMMA PlayOrderRight ==
  ASSUME NEW g \in BusGraphs, GraphShape(g), LoopFree(g)
  PROVE  /\ PlayOrder(g) \in Seq(Bus) /\ IsInjective(PlayOrder(g))
         /\ ToSet(PlayOrder(g)) = g.AuxInUse
         /\ SinglePath(g) =>
              \A b \in Bus : \A a \in Pred(g, b) : Before(PlayOrder(g), a, b)
<1> DEFINE leaves == Ascending(g.AuxInUse \ g.HasChild)
           n == Len(leaves)
<1>1. /\ g.AuxInUse \in SUBSET Bus /\ g.HasParent \in SUBSET Bus /\ g.HasChild \in SUBSET Bus
      /\ g.BusIn \in [Bus -> Seq(Bus)]
  BY DEF BusGraphs
<1>2. /\ ParentsRight(g) /\ g.HasParent \subseteq g.AuxInUse
      /\ g.HasChild = UNION {Pred(g, b) : b \in Bus}
  BY DEF GraphShape, ParentsRight, Pred
<1>3. leaves \in Seq(Bus) /\ ToSet(leaves) = g.AuxInUse \ g.HasChild
  BY <1>1, AscendingProperties
<1>4. PICK upto \in [0 .. n -> Accs] :
        /\ Traversals(g, leaves) = upto[n]
        /\ upto[0] = [visited |-> {}, order |-> Ascending(g.AuxInUse \ g.HasParent)]
        /\ \A i \in 1 .. n : upto[i] = Extend(g, upto[i - 1], leaves[i])
  BY <1>2, <1>3, TraversalsLoop
<1>5. PlayOrder(g) = upto[n].order
  BY <1>4 DEF PlayOrder
<1> HIDE DEF leaves
<1>6. n \in Nat /\ DOMAIN leaves = 1 .. n /\ \A i \in 1 .. n : leaves[i] \in Bus
  BY <1>3, LenProperties
<1>7. \A i \in 1 .. n : leaves[i] \notin g.HasChild
  BY <1>3, <1>6 DEF ToSet
<1> HIDE DEF n
<1> DEFINE Served(acc, i) ==
             \A j \in 1 .. i : g.BusIn[leaves[j]] = <<>> \/ leaves[j] \in acc.visited
           P == {i \in 0 .. n : /\ OrderKnown(g, upto[i]) /\ Served(upto[i], i)
                                /\ SinglePath(g) => InOrder(g, upto[i])}
<1>8. 0 \in P
  <2> DEFINE acc == upto[0]
  <2>1. acc.visited = {} /\ acc.order = Ascending(g.AuxInUse \ g.HasParent)
    BY <1>4
  <2> HIDE DEF acc
  <2>2. /\ ToSet(acc.order) = g.AuxInUse \ g.HasParent /\ IsInjective(acc.order)
    BY <1>1, <2>1, AscendingProperties
  <2>3. OrderKnown(g, acc) /\ InOrder(g, acc)
    BY <2>1, <2>2 DEF OrderKnown, InOrder
  <2>4. Served(acc, 0)
    BY <1>6
  <2> HIDE DEF Served
  <2> QED
    BY <1>6, <2>3, <2>4 DEF acc
<1>9. ASSUME NEW i \in 1 .. n, i - 1 \in P PROVE i \in P
  <2>0. i - 1 \in 0 .. n /\ i \in 0 .. n /\ \A j \in 1 .. i : j \in 1 .. i - 1 \/ j = i
    BY <1>6
  <2>1. PICK acc \in Accs : acc = upto[i - 1]
    BY <1>4, <2>0
  <2>2. PICK leaf \in Bus : leaf = leaves[i]
    BY <1>6
  <2>3. PICK new : new = Extend(g, acc, leaf) /\ upto[i] = new
    BY <1>4, <2>1, <2>2
  <2>4. OrderKnown(g, acc) /\ Served(acc, i - 1) /\ (SinglePath(g) => InOrder(g, acc))
    BY <1>9, <2>1
  <2>5. leaf \notin g.HasChild
    BY <1>7, <2>2
  <2>6. /\ OrderKnown(g, new) /\ acc.visited \subseteq new.visited
        /\ g.BusIn[leaf] = <<>> \/ leaf \in new.visited
        /\ SinglePath(g) /\ InOrder(g, acc) => InOrder(g, new)
    BY <2>3, <2>4, <2>5, ExtendKeeps
  <2>7. Served(new, i)
    BY <2>0, <2>2, <2>4, <2>6
  <2> HIDE DEF Served
  <2> QED
    BY <2>0, <2>3, <2>4, <2>6, <2>7
<1>10. n \in P
  <2> HIDE DEF P
  <2>1. \A i \in 0 .. n : i \in P
    BY <1>6, <1>8, <1>9, Throughout
  <2> QED
    BY <1>6, <2>1
<1>11. PICK acc \in Accs :
         /\ acc = upto[n] /\ OrderKnown(g, acc) /\ Served(acc, n)
         /\ SinglePath(g) => InOrder(g, acc)
  BY <1>4, <1>6, <1>10
<1>12. PlayOrder(g) = acc.order /\ acc.order \in Seq(Bus) /\ acc.visited \in SUBSET Bus
  BY <1>5, <1>11 DEF Accs
<1>13. /\ IsInjective(acc.order)
       /\ ToSet(acc.order) = (g.AuxInUse \ g.HasParent) \cup acc.visited
       /\ acc.visited \subseteq g.HasParent
       /\ \A b \in acc.visited : \A a \in Pred(g, b) : g.BusIn[a] = <<>> \/ a \in acc.visited
  BY <1>11 DEF OrderKnown
<1>14. g.HasParent \subseteq acc.visited
  <2> DEFINE X == g.HasParent \ acc.visited
  <2> SUFFICES ASSUME X # {} PROVE FALSE
    OBVIOUS
  <2>1. X \in SUBSET Bus
    BY <1>1
  <2>2. PICK x \in X : \A c \in X : x \notin Pred(g, c)
    <3> HIDE DEF X
    <3> QED
      BY <2>1, SomeLeaf
  <2>3. g.BusIn[x] # <<>> /\ x \in Bus
    BY <1>1, <1>2 DEF ParentsRight
  <2>4. CASE x \notin g.HasChild
    <3>1. x \in ToSet(leaves)
      BY <1>2, <1>3, <2>4 DEF leaves
    <3>2. PICK j \in 1 .. n : leaves[j] = x
      BY <1>6, <3>1 DEF ToSet
    <3> QED
      BY <1>11, <2>3, <3>2
  <2>5. CASE x \in g.HasChild
    <3>1. PICK c \in Bus : x \in Pred(g, c)
      BY <1>2, <2>5
    <3>2. c \in g.HasParent
      <4>1. g.BusIn[c] # <<>>
        BY <3>1 DEF Pred, ToSet
      <4> QED
        BY <1>2, <4>1 DEF ParentsRight
    <3>3. c \in acc.visited
      BY <2>2, <3>1, <3>2
    <3> QED
      BY <1>13, <2>3, <3>1, <3>3
  <2> QED
    BY <2>4, <2>5
<1>15. ToSet(acc.order) = g.AuxInUse
  BY <1>2, <1>13, <1>14
<1>16. ASSUME SinglePath(g), NEW b \in Bus, NEW a \in Pred(g, b)
       PROVE  Before(acc.order, a, b)
  <2>1. g.BusIn[b] # <<>>
    BY DEF Pred, ToSet
  <2>2. b \in acc.visited
    BY <1>2, <1>14, <2>1 DEF ParentsRight
  <2> QED
    BY <1>11, <1>16, <2>2 DEF InOrder
<1> QED
  BY <1>12, <1>13, <1>15, <1>16

(***************************************************************************)
(* The play lists.                                                         *)
(***************************************************************************)
LEMMA RewriteOver ==
  ASSUME NEW list, NEW p \in Seq(Bus), NEW q \in Seq(Bus), Len(p) <= Len(q)
  PROVE  Rewrite(Rewrite(list, p), q) = Rewrite(list, q)
<1>1. Len(p) \in Nat /\ Len(q) \in Nat
  BY LenProperties
<1>2. ASSUME NEW i \in 1 .. MAXBUS
      PROVE  Rewrite(Rewrite(list, p), q)[i] = Rewrite(list, q)[i]
  <2>1. CASE i <= Len(q)
    BY <2>1 DEF Rewrite
  <2>2. CASE ~(i <= Len(q))
    <3>1. ~(i <= Len(p))
      BY <1>1, <2>2, ConstantFacts
    <3> QED
      BY <2>2, <3>1 DEF Rewrite
  <2> QED
    BY <2>1, <2>2
<1>3. \A l, r : Rewrite(l, r) = [i \in 1 .. MAXBUS |-> Rewrite(l, r)[i]]
  BY DEF Rewrite
<1> QED
  BY <1>2, <1>3

LEMMA RewriteType ==
  ASSUME NEW list \in Lists, NEW q \in Seq(Bus)
  PROVE  Rewrite(list, q) \in Lists
<1>1. Len(q) \in Nat /\ DOMAIN q = 1 .. Len(q)
  BY LenProperties
<1>2. \A i \in 1 .. MAXBUS : i <= Len(q) => q[i] \in Bus
  BY <1>1, ConstantFacts
<1> QED
  BY <1>2 DEF Rewrite, Lists

LEMMA UnusedType == Unused \in Lists
BY DEF Unused, Lists

(* The traversal of a list reads what was written, and no more.            *)
LEMMA PlayedRight ==
  ASSUME NEW q \in Seq(Bus), Len(q) < MAXBUS
  PROVE  Played(Rewrite(Unused, q)) = q
<1> DEFINE list == Rewrite(Unused, q)
           m == Len(q)
           ends == {i \in 1 .. MAXBUS : list[i] = -1}
           n == CHOOSE i \in ends : \A j \in ends : i <= j
<1>1. m \in Nat /\ m < MAXBUS /\ \A i \in 1 .. m : q[i] \in Bus
  BY LenProperties
<1>2. \A i \in 1 .. MAXBUS : list[i] = IF i <= m THEN q[i] ELSE -1
  BY DEF Rewrite, Unused
<1> HIDE DEF list, m
<1>3. \A i \in 1 .. m : i \in 1 .. MAXBUS /\ list[i] = q[i] /\ list[i] # -1
  <2> SUFFICES ASSUME NEW i \in 1 .. m PROVE i \in 1 .. MAXBUS /\ list[i] = q[i] /\ list[i] # -1
    OBVIOUS
  <2>1. i \in 1 .. MAXBUS /\ i <= m
    BY <1>1, ConstantFacts
  <2>2. PICK b \in 0 .. MAXBUS - 2 : b = q[i]
    BY <1>1, ConstantFacts
  <2>3. b # -1
    BY ConstantFacts
  <2> QED
    BY <1>2, <2>1, <2>2, <2>3
<1>4. m + 1 \in ends
  <2>1. m + 1 \in 1 .. MAXBUS /\ ~(m + 1 <= m)
    BY <1>1, ConstantFacts
  <2> QED
    BY <1>2, <2>1
<1>5. \A i \in ends : m + 1 <= i
  <2> SUFFICES ASSUME NEW i \in ends PROVE m + 1 <= i
    OBVIOUS
  <2>1. i \notin 1 .. m /\ i \in 1 .. MAXBUS
    BY <1>3
  <2> QED
    BY <1>1, <2>1, ConstantFacts
<1>6. \A i \in ends : i \in Nat
  BY ConstantFacts
<1> HIDE DEF ends
<1>7. n \in ends /\ \A j \in ends : n <= j
  BY <1>4, <1>5
<1>8. n = m + 1
  <2>1. n <= m + 1 /\ m + 1 <= n /\ n \in Nat
    BY <1>4, <1>5, <1>6, <1>7
  <2> QED
    BY <1>1, <2>1
<1>9. Played(list) = SubSeq(list, 1, n - 1)
  BY <1>4 DEF Played, ends
<1> HIDE DEF n
<1>10. n - 1 = m
  BY <1>1, <1>8
<1>11. /\ SubSeq(list, 1, m) \in Seq(Bus) /\ Len(SubSeq(list, 1, m)) = m
       /\ \A i \in 1 .. m : SubSeq(list, 1, m)[i] = q[i]
  <2>1. 1 \in Int /\ m \in Int /\ \A i \in 1 .. m : list[i] \in Bus
    BY <1>1, <1>3
  <2>2. /\ SubSeq(list, 1, m) \in Seq(Bus)
        /\ Len(SubSeq(list, 1, m)) = IF 1 <= m THEN m - 1 + 1 ELSE 0
        /\ \A i \in 1 .. m - 1 + 1 : SubSeq(list, 1, m)[i] = list[1 + i - 1]
    BY <2>1, SubSeqProperties
  <2>3. m - 1 + 1 = m /\ \A i \in 1 .. m : 1 + i - 1 = i
    BY <1>1
  <2> QED
    BY <1>1, <1>3, <2>2, <2>3
<1>12. SubSeq(list, 1, m) = q
  BY <1>11, SeqEqual DEF m
<1> QED
  BY <1>9, <1>10, <1>12 DEF list

LEMMA AscendingLength ==
  ASSUME NEW S \in SUBSET Bus, NEW q \in Seq(Bus), IsInjective(q), ToSet(q) \subseteq S
  PROVE  Len(q) <= Len(Ascending(S)) /\ Len(Ascending(S)) < MAXBUS
<1>1. Len(Ascending(S)) = Cardinality(S) /\ Len(Ascending(S)) < MAXBUS
  <2>1. PICK r \in Seq(Bus) : r = Ascending(S) /\ ToSet(r) = S /\ IsInjective(r)
    BY AscendingProperties
  <2> QED
    BY <2>1, InjectiveLength
<1>2. Len(q) = Cardinality(ToSet(q))
  BY InjectiveLength
<1>3. Cardinality(ToSet(q)) <= Cardinality(S)
  <2>1. IsFiniteSet(S)
    BY BusFinite, FS_Subset
  <2> QED
    BY <2>1, FS_Subset
<1>4. Len(q) <= Len(Ascending(S))
  <2>1. Len(q) <= Cardinality(S)
    BY <1>2, <1>3
  <2> QED
    BY <1>1, <2>1
<1> QED
  BY <1>1, <1>4

(* A list of the buses of a set, written again for a larger set.           *)
LEMMA ListRenewed ==
  ASSUME NEW S \in SUBSET Bus, NEW T \in SUBSET Bus, S \subseteq T
  PROVE  Rewrite(Rewrite(Unused, Ascending(S)), Ascending(T)) = Rewrite(Unused, Ascending(T))
<1>1. /\ Ascending(S) \in Seq(Bus) /\ ToSet(Ascending(S)) = S /\ IsInjective(Ascending(S))
      /\ Ascending(T) \in Seq(Bus)
  BY AscendingProperties
<1>2. Len(Ascending(S)) <= Len(Ascending(T))
  BY <1>1, AscendingLength
<1> QED
  BY <1>1, <1>2, RewriteOver

LEMMA DefaultSlotFacts ==
  /\ DefaultSlot \in BusSlots /\ DefaultSlot.auxin = <<>> /\ DefaultSlot.auxout = <<>>
  /\ DefaultSlot.out \in Seq(Bus) /\ IsInjective(DefaultSlot.out)
  /\ ToSet(DefaultSlot.out) \subseteq Bus
<1> DEFINE out == [i \in 1 .. NCHANS |-> i - 1]
<1>1. \A i \in 1 .. NCHANS : i - 1 \in Bus
  BY ConstantFacts
<1>2. out \in [1 .. NCHANS -> Bus] /\ NCHANS \in Nat
  BY <1>1, ConstantFacts
<1>3. out \in Seq(Bus)
  BY <1>2, SeqDef
<1>4. IsInjective(out)
  <2> SUFFICES ASSUME NEW i \in 1 .. NCHANS, NEW j \in 1 .. NCHANS, out[i] = out[j]
               PROVE  i = j
    BY DEF IsInjective
  <2>1. i - 1 = j - 1
    OBVIOUS
  <2> QED
    BY <2>1, ConstantFacts
<1>5. DefaultSlot = [auxin |-> <<>>, out |-> out, auxout |-> <<>>]
  <2>1. DefaultSlot = [NoSlot EXCEPT !.out = out]
    BY DEF DefaultSlot
  <2> HIDE DEF out
  <2> QED
    BY <2>1 DEF NoSlot
<1>6. <<>> \in Seq(Bus)
  BY EmptySeq
<1>7. ToSet(out) \subseteq Bus
  BY <1>1 DEF ToSet
<1> HIDE DEF out
<1> QED
  BY <1>3, <1>4, <1>5, <1>6, <1>7 DEF BusSlots

(***************************************************************************)
(* The invariant.                                                          *)
(***************************************************************************)
LEMMA RoomArithmetic ==
  ASSUME NEW l \in Nat, NEW t \in Nat, NEW c \in Nat, NEW m \in Nat, NEW n \in Nat,
         c < m, l * m <= c * n, t * m <= n
  PROVE  l + t <= n /\ (l + t) * m <= (c + 1) * n
<1>1. (l + t) * m = l * m + t * m /\ (c + 1) * n = c * n + n
  OBVIOUS
<1>2. l * m \in Nat /\ t * m \in Nat /\ c * n \in Nat
  OBVIOUS
<1>3. (l + t) * m <= (c + 1) * n
  BY <1>1, <1>2
<1>4. (c + 1) * n <= m * n
  <2>1. Times(n, c + 1) <= Times(n, m)
    BY Products
  <2>2. Times(n, c + 1) = (c + 1) * n /\ Times(n, m) = m * n
    BY DEF Times
  <2> QED
    BY <2>1, <2>2
<1>5. ASSUME l + t > n PROVE FALSE
  <2>1. n + 1 \in Nat /\ l + t \in Nat /\ n + 1 <= l + t
    BY <1>5
  <2>2. Times(m, n + 1) <= Times(m, l + t)
    BY <2>1, Products
  <2>3. Times(m, n + 1) = m * n + m /\ Times(m, l + t) = (l + t) * m
    BY DEF Times
  <2>4. m * n \in Nat /\ (l + t) * m \in Nat /\ (c + 1) * n \in Nat
    OBVIOUS
  <2> QED
    BY <1>3, <1>4, <2>2, <2>3, <2>4
<1> QED
  BY <1>3, <1>5

LEMMA SlotRoom ==
  ASSUME Room, NEW s \in Configs
  PROVE  /\ s \in BusSlots /\ Times(Len(s.auxin), Len(s.auxout)) \in Nat
         /\ Times(Len(s.auxin), Len(s.auxout)) * MaxConfigs <= MAXBUS - 1
<1>1. s \in BusSlots
  BY ConfigsAssumption
<1>2. s.auxin \in Seq(Bus) /\ s.auxout \in Seq(Bus)
  BY <1>1 DEF BusSlots
<1>3. Len(s.auxin) \in Nat /\ Len(s.auxout) \in Nat
  BY <1>2, LenProperties
<1>4. PICK t \in Nat : t = Times(Len(s.auxin), Len(s.auxout))
  BY <1>3, Products
<1>5. t * MaxConfigs < MAXBUS
  BY <1>4 DEF Room, Times
<1>6. t * MaxConfigs \in Nat
  BY ConstantFacts
<1> QED
  BY <1>1, <1>4, <1>5, <1>6, ConstantFacts

(* The parts of the invariant about the lists of inputs. *)
EdgesKnown == \A a, b \in Bus : <<a, b>> \in Edges <=> a \in Pred(graph, b)
AuxKnown == \A s \in accepted : ToSet(s.auxout) \subseteq graph.AuxInUse
InputsFit == \A b \in Bus : Len(graph.BusIn[b]) * MaxConfigs <= calls * (MAXBUS - 1)
LEMMA GraphInvParts ==
  GraphInv <=> EdgesKnown /\ GraphShape(graph) /\ LoopFree(graph) /\ AuxKnown /\ InputsFit
BY DEF GraphInv, EdgesKnown, AuxKnown, InputsFit, Pred

LEMMA SlotType == \A s \in BusSlots : /\ s.auxin \in Seq(Bus) /\ s.out \in Seq(Bus)
                                      /\ s.auxout \in Seq(Bus)
                                      /\ ToSet(s.auxin) \subseteq Bus
                                      /\ ToSet(s.out) \subseteq Bus
                                      /\ ToSet(s.auxout) \subseteq Bus
<1> SUFFICES ASSUME NEW s \in BusSlots
             PROVE  /\ s.auxin \in Seq(Bus) /\ s.out \in Seq(Bus) /\ s.auxout \in Seq(Bus)
                    /\ ToSet(s.auxin) \subseteq Bus /\ ToSet(s.out) \subseteq Bus
                    /\ ToSet(s.auxout) \subseteq Bus
  OBVIOUS
<1>1. s.auxin \in Seq(Bus) /\ s.out \in Seq(Bus) /\ s.auxout \in Seq(Bus)
  BY DEF BusSlots
<1>2. \A q \in Seq(Bus) : ToSet(q) \subseteq Bus
  BY LenProperties DEF ToSet
<1> QED
  BY <1>1, <1>2

LEMMA InputLength ==
  ASSUME NEW g \in BusGraphs, NEW b \in Bus
  PROVE  Len(g.BusIn[b]) \in Nat
<1>1. g.BusIn[b] \in Seq(Bus)
  BY DEF BusGraphs
<1> QED
  BY <1>1, LenProperties

(* With room left, a call's inputs fit in the lists.                       *)
LEMMA FitsNow ==
  ASSUME Room, TypeOK, InputsFit, calls < MaxConfigs, NEW s \in Configs
  PROVE  LET t == Times(Len(s.auxin), Len(s.auxout))
         IN  \A b \in Bus :
               /\ Len(graph.BusIn[b]) + t < MAXBUS
               /\ (Len(graph.BusIn[b]) + t) * MaxConfigs <= (calls + 1) * (MAXBUS - 1)
<1>1. PICK t \in Nat : /\ t = Times(Len(s.auxin), Len(s.auxout))
                       /\ t * MaxConfigs <= MAXBUS - 1
  BY SlotRoom
<1>2. graph \in BusGraphs /\ calls \in Nat /\ MAXBUS - 1 \in Nat /\ MaxConfigs \in Nat
  BY ConstantFacts DEF TypeOK, BusGraphs
<1>3. ASSUME NEW b \in Bus
      PROVE  /\ Len(graph.BusIn[b]) + t < MAXBUS
             /\ (Len(graph.BusIn[b]) + t) * MaxConfigs <= (calls + 1) * (MAXBUS - 1)
  <2>1. PICK l \in Nat : l = Len(graph.BusIn[b])
    BY <1>2, InputLength
  <2>2. l * MaxConfigs <= calls * (MAXBUS - 1)
    BY <2>1 DEF InputsFit
  <2>3. PICK n \in Nat : n = MAXBUS - 1
    BY <1>2
  <2>4. l + t <= n /\ (l + t) * MaxConfigs <= (calls + 1) * n
    BY <1>1, <1>2, <2>2, <2>3, RoomArithmetic
  <2>5. l + t < MAXBUS
    BY <2>3, <2>4, ConstantFacts
  <2> QED
    BY <2>1, <2>3, <2>4, <2>5
<1> QED
  BY <1>1, <1>3

LEMMA EdgesMeaning ==
  /\ \A a, b \in Bus :
       <<a, b>> \in Edges <=> \E s \in accepted : a \in ToSet(s.auxin) /\ b \in ToSet(s.auxout)
  /\ \A a, b \in Bus :
       <<a, b>> \in Edges' <=>
         \E s \in accepted' : a \in ToSet(s.auxin) /\ b \in ToSet(s.auxout)
<1>1. ASSUME NEW a \in Bus, NEW b \in Bus, NEW A
      PROVE  <<a, b>> \in UNION {ToSet(s.auxin) \X ToSet(s.auxout) : s \in A} <=>
               \E s \in A : a \in ToSet(s.auxin) /\ b \in ToSet(s.auxout)
  OBVIOUS
<1>2. Edges = UNION {ToSet(s.auxin) \X ToSet(s.auxout) : s \in accepted}
  BY DEF Edges
<1>3. Edges' = UNION {ToSet(s.auxin) \X ToSet(s.auxout) : s \in accepted'}
  BY DEF Edges
<1> QED
  BY <1>1, <1>2, <1>3

GraphGains(s) ==
  /\ calls < MaxConfigs /\ ~Loops(graph, s) /\ calls' = calls + 1
  /\ graph' = Inserted(graph, s) /\ accepted' = accepted \cup {s}
GraphStays ==
  /\ graph' = graph
  /\ accepted' = accepted \/ accepted' = accepted \cup {DefaultSlot}
  /\ calls' = calls \/ calls' = calls + 1

LEMMA GraphKept ==
  ASSUME TypeOK, GraphInv, GraphStays
  PROVE  GraphInv'
<1> USE DEF GraphStays
<1>1. EdgesKnown /\ GraphShape(graph) /\ LoopFree(graph) /\ AuxKnown /\ InputsFit
  BY GraphInvParts
<1>2. ToSet(<<>>) = {}
  BY DEF ToSet
<1>3. EdgesKnown'
  <2> SUFFICES ASSUME NEW a \in Bus, NEW b \in Bus
               PROVE  <<a, b>> \in Edges' <=> a \in Pred(graph, b)
    BY DEF EdgesKnown
  <2>1. <<a, b>> \in Edges' <=> <<a, b>> \in Edges
    BY <1>2, EdgesMeaning, DefaultSlotFacts
  <2> QED
    BY <1>1, <2>1 DEF EdgesKnown
<1>4. AuxKnown'
  BY <1>1, <1>2, DefaultSlotFacts DEF AuxKnown
<1>5. InputsFit'
  <2>1. calls \in Nat /\ MAXBUS - 1 \in Nat
    BY ConstantFacts DEF TypeOK
  <2>2. PICK x \in Nat, y \in Nat : x = calls * (MAXBUS - 1) /\ y = calls' * (MAXBUS - 1) /\ x <= y
    <3>1. PICK n \in Nat : n = MAXBUS - 1
      BY <2>1
    <3>2. calls * n \in Nat /\ (calls + 1) * n = calls * n + n
      BY <2>1
    <3> QED
      BY <3>1, <3>2
  <2> SUFFICES ASSUME NEW b \in Bus PROVE Len(graph.BusIn[b]) * MaxConfigs <= y
    BY <2>2 DEF InputsFit
  <2>3. PICK l \in Nat : l = Len(graph.BusIn[b])
    BY InputLength DEF TypeOK, BusGraphs
  <2>4. PICK k \in Nat : k = l * MaxConfigs
    BY ConstantFacts
  <2>5. k <= x
    BY <1>1, <2>2, <2>3, <2>4 DEF InputsFit
  <2>6. k <= y
    BY <2>2, <2>5
  <2> QED
    BY <2>3, <2>4, <2>6
<1>6. GraphShape(graph') /\ LoopFree(graph')
  BY <1>1
<1> QED
  BY <1>3, <1>4, <1>5, <1>6 DEF GraphInv, EdgesKnown, AuxKnown, InputsFit, Pred

LEMMA GraphGrows ==
  ASSUME Room, TypeOK, GraphInv, NEW s \in Configs, GraphGains(s)
  PROVE  GraphInv' /\ graph' \in BusGraphs /\ graph.AuxInUse \subseteq graph'.AuxInUse
<1> USE DEF GraphGains
<1>1. EdgesKnown /\ GraphShape(graph) /\ LoopFree(graph) /\ AuxKnown /\ InputsFit
  BY GraphInvParts
<1>2. s \in BusSlots /\ graph \in BusGraphs
  BY SlotRoom DEF TypeOK, BusGraphs
<1>3. PICK t \in Nat :
        /\ t = Times(Len(s.auxin), Len(s.auxout))
        /\ \A b \in Bus :
             /\ Len(graph.BusIn[b]) + t < MAXBUS
             /\ (Len(graph.BusIn[b]) + t) * MaxConfigs <= (calls + 1) * (MAXBUS - 1)
  BY <1>1, SlotRoom, FitsNow
<1>4. PICK h : h = Inserted(graph, s)
  OBVIOUS
<1>5. /\ h \in BusGraphs /\ GraphShape(h) /\ LoopFree(h)
      /\ graph.AuxInUse \cup ToSet(s.auxout) \subseteq h.AuxInUse
      /\ \A b \in Bus :
           /\ Pred(h, b) = Pred(graph, b) \cup
                           (IF b \in ToSet(s.auxout) THEN ToSet(s.auxin) ELSE {})
           /\ Len(h.BusIn[b]) <= Len(graph.BusIn[b]) + Times(Len(s.auxin), Len(s.auxout))
  <2>1. \A b \in Bus : Len(graph.BusIn[b]) + Times(Len(s.auxin), Len(s.auxout)) < MAXBUS
    BY <1>3
  <2>2. ~Loops(graph, s)
    OBVIOUS
  <2> QED
    BY <1>1, <1>2, <1>4, <2>1, <2>2, InsertedGraph
<1>6. graph' = h
  BY <1>4
<1>7. EdgesKnown'
  <2> SUFFICES ASSUME NEW a \in Bus, NEW b \in Bus
               PROVE  <<a, b>> \in Edges' <=> a \in Pred(h, b)
    BY <1>6 DEF EdgesKnown
  <2>1. <<a, b>> \in Edges' <=>
          <<a, b>> \in Edges \/ (a \in ToSet(s.auxin) /\ b \in ToSet(s.auxout))
    BY EdgesMeaning
  <2>2. a \in Pred(h, b) <=>
          a \in Pred(graph, b) \/ (b \in ToSet(s.auxout) /\ a \in ToSet(s.auxin))
    BY <1>5
  <2>3. <<a, b>> \in Edges <=> a \in Pred(graph, b)
    BY <1>1 DEF EdgesKnown
  <2> QED
    BY <2>1, <2>2, <2>3
<1>8. AuxKnown'
  <2> SUFFICES ASSUME NEW r \in accepted' PROVE ToSet(r.auxout) \subseteq h.AuxInUse
    BY <1>6 DEF AuxKnown
  <2>1. r \in accepted \/ r = s
    OBVIOUS
  <2> QED
    BY <1>1, <1>5, <2>1 DEF AuxKnown
<1>9. InputsFit'
  <2> SUFFICES ASSUME NEW b \in Bus
               PROVE  Len(h.BusIn[b]) * MaxConfigs <= (calls + 1) * (MAXBUS - 1)
    BY <1>6 DEF InputsFit
  <2>1. PICK l \in Nat, k \in Nat : l = Len(graph.BusIn[b]) /\ k = Len(h.BusIn[b])
    BY <1>2, <1>5, InputLength
  <2>2. k <= l + t
    BY <1>3, <1>5, <2>1
  <2>3. PICK x \in Nat : x = (calls + 1) * (MAXBUS - 1)
    <3>1. calls + 1 \in Nat /\ MAXBUS - 1 \in Nat
      BY ConstantFacts DEF TypeOK
    <3>2. PICK n \in Nat, c \in Nat : n = MAXBUS - 1 /\ c = calls + 1
      BY <3>1
    <3>3. c * n \in Nat
      OBVIOUS
    <3> QED
      BY <3>2, <3>3
  <2>4. (l + t) * MaxConfigs <= x
    BY <1>3, <2>1, <2>3
  <2>5. k * MaxConfigs <= (l + t) * MaxConfigs
    <3>1. l + t \in Nat /\ MaxConfigs \in Nat
      BY <1>3, ConstantFacts
    <3>2. Times(MaxConfigs, k) <= Times(MaxConfigs, l + t)
      BY <2>2, <3>1, Products
    <3>3. Times(MaxConfigs, k) = k * MaxConfigs
          /\ Times(MaxConfigs, l + t) = (l + t) * MaxConfigs
      BY <3>1 DEF Times
    <3> QED
      BY <3>2, <3>3
  <2>6. PICK u \in Nat, v \in Nat : u = k * MaxConfigs /\ v = (l + t) * MaxConfigs
    BY ConstantFacts
  <2>7. u <= x
    BY <2>4, <2>5, <2>6
  <2> QED
    BY <2>1, <2>3, <2>6, <2>7
<1> QED
  BY <1>5, <1>6, <1>7, <1>8, <1>9 DEF GraphInv, EdgesKnown, AuxKnown, InputsFit, Pred

(* The parts of the invariant about the play lists. *)
OutKnown ==
  \E S \in SUBSET OutInUse :
    /\ ToOutPlayList = Rewrite(Unused, Ascending(S))
    /\ \A s \in accepted : ToSet(s.out) \subseteq S
ToAuxKnown ==
  \E S \in SUBSET AuxOutInUse :
    /\ ToAuxPlayList = Rewrite(Unused, Ascending(S))
    /\ \A s \in accepted : ToSet(s.auxout) \subseteq S
AuxToAuxKnown == AuxToAuxPlayList = Rewrite(Unused, PlayOrder(graph))
FreshLists ==
  ~Bus_Config_Status =>
    /\ accepted = {}
    /\ {ToOutPlayList, ToAuxPlayList, AuxToAuxPlayList} = {Unused}
LEMMA ListsInvParts == ListsInv <=> OutKnown /\ ToAuxKnown /\ AuxToAuxKnown /\ FreshLists
BY DEF ListsInv, OutKnown, ToAuxKnown, AuxToAuxKnown, FreshLists

LEMMA LongerList ==
  ASSUME NEW p \in Seq(Bus), NEW q \in Seq(Bus), IsInjective(p), IsInjective(q),
         ToSet(p) \subseteq ToSet(q)
  PROVE  Len(p) <= Len(q)
<1>1. Len(p) = Cardinality(ToSet(p)) /\ Len(q) = Cardinality(ToSet(q))
  BY InjectiveLength
<1>2. ToSet(q) \in SUBSET Bus
  BY LenProperties DEF ToSet
<1>3. IsFiniteSet(ToSet(q))
  BY <1>2, BusFinite, FS_Subset
<1> QED
  BY <1>1, <1>3, FS_Subset

LEMMA EmptyAscending == Ascending({}) = <<>>
<1>1. {} \in SUBSET Bus
  OBVIOUS
<1>2. Ascending({}) \in Seq(Bus) /\ ToSet(Ascending({})) = {}
  BY <1>1, AscendingProperties
<1> QED
  BY <1>2, EmptyList

LEMMA UnusedRewritten == Rewrite(Unused, <<>>) = Unused
<1>1. \A i \in 1 .. MAXBUS : ~(i <= Len(<<>>))
  BY ConstantFacts
<1>2. Rewrite(Unused, <<>>) = [i \in 1 .. MAXBUS |-> Unused[i]]
  BY <1>1 DEF Rewrite
<1> QED
  BY <1>2 DEF Unused

LEMMA OrderOf ==
  ASSUME TypeOK, GraphInv
  PROVE  /\ PlayOrder(graph) \in Seq(Bus) /\ IsInjective(PlayOrder(graph))
         /\ ToSet(PlayOrder(graph)) = graph.AuxInUse
         /\ SinglePath(graph) =>
              \A b \in Bus : \A a \in Pred(graph, b) : Before(PlayOrder(graph), a, b)
<1>1. graph \in BusGraphs /\ GraphShape(graph) /\ LoopFree(graph)
  BY DEF TypeOK, GraphInv, BusGraphs
<1> QED
  BY <1>1, PlayOrderRight

(* bus_config(). *)
LEMMA BusConfigKeeps ==
  ASSUME Room, BusInv, NEW name \in Names, NEW s \in Configs, BusConfig(name, s)
  PROVE  BusInv'
<1>1. TypeOK /\ GraphInv /\ OutKnown /\ ToAuxKnown /\ AuxToAuxKnown
  BY ListsInvParts DEF BusInv
<1>2. /\ calls < MaxConfigs /\ calls' = calls + 1 /\ Bus_Config_Status' = TRUE
      /\ OutInUse' = OutInUse \cup ToSet(s.out)
      /\ AuxOutInUse' = AuxOutInUse \cup ToSet(s.auxout)
      /\ ToOutPlayList' = Rewrite(ToOutPlayList, Ascending(OutInUse'))
      /\ ToAuxPlayList' = Rewrite(ToAuxPlayList, Ascending(AuxOutInUse'))
      /\ AuxToAuxPlayList' = Rewrite(AuxToAuxPlayList, PlayOrder(graph'))
      /\ aux_buffer' = aux_buffer \cup ToSet(s.auxin) \cup ToSet(s.auxout)
      /\ \/ GraphGains(s) /\ Inst_Bus_Config' = [Inst_Bus_Config EXCEPT ![name] = s]
         \/ GraphStays /\ accepted' = accepted /\ Inst_Bus_Config' = Inst_Bus_Config
  BY DEF BusConfig, Parse, RenewLists, InUseList, GraphGains, GraphStays
<1>3. s \in BusSlots
  BY SlotRoom
<1>4. GraphInv' /\ graph' \in BusGraphs /\ graph.AuxInUse \subseteq graph'.AuxInUse
  <2>1. CASE GraphGains(s)
    BY <1>1, <2>1, GraphGrows
  <2>2. CASE GraphStays
    BY <1>1, <2>2, GraphKept DEF GraphStays, TypeOK, BusGraphs
  <2> QED
    BY <1>2, <2>1, <2>2
<1>5. /\ PlayOrder(graph') \in Seq(Bus) /\ IsInjective(PlayOrder(graph'))
      /\ ToSet(PlayOrder(graph')) = graph'.AuxInUse
  <2>1. GraphShape(graph') /\ LoopFree(graph')
    BY <1>4 DEF GraphInv
  <2> QED
    BY <1>4, <2>1, PlayOrderRight
<1>6. /\ accepted' \subseteq accepted \cup {s}
      /\ OutInUse' \in SUBSET Bus /\ AuxOutInUse' \in SUBSET Bus
      /\ OutInUse \subseteq OutInUse' /\ AuxOutInUse \subseteq AuxOutInUse'
  BY <1>1, <1>2, <1>3, SlotType DEF GraphGains, GraphStays, TypeOK
<1>7. TypeOK'
  <2>1. ToOutPlayList' \in Lists /\ ToAuxPlayList' \in Lists
    <3>1. ToOutPlayList \in Lists /\ ToAuxPlayList \in Lists
      BY <1>1 DEF TypeOK
    <3>2. Ascending(OutInUse') \in Seq(Bus) /\ Ascending(AuxOutInUse') \in Seq(Bus)
      BY <1>6, AscendingProperties
    <3> QED
      BY <1>2, <3>1, <3>2, RewriteType
  <2>2. AuxToAuxPlayList' \in Lists
    BY <1>1, <1>2, <1>5, RewriteType DEF TypeOK
  <2>3. aux_buffer' \subseteq Bus
    BY <1>1, <1>2, <1>3, SlotType DEF TypeOK
  <2>4. calls' \in 0 .. MaxConfigs
    BY <1>1, <1>2, ConstantFacts DEF TypeOK
  <2>5. accepted' \subseteq BusSlots
    BY <1>1, <1>3, <1>6 DEF TypeOK
  <2>6. Inst_Bus_Config' \in [Names -> BusSlots]
    BY <1>1, <1>2, <1>3 DEF TypeOK
  <2>7. Bus_Config_Status' \in BOOLEAN
    BY <1>2
  <2> QED
    BY <1>4, <1>6, <2>1, <2>2, <2>3, <2>4, <2>5, <2>6, <2>7 DEF TypeOK, BusGraphs
<1>8. OutKnown'
  <2>1. PICK S \in SUBSET OutInUse : /\ ToOutPlayList = Rewrite(Unused, Ascending(S))
                                     /\ \A r \in accepted : ToSet(r.out) \subseteq S
    BY <1>1 DEF OutKnown
  <2>2. ToOutPlayList' = Rewrite(Unused, Ascending(OutInUse'))
    <3>1. S \in SUBSET Bus /\ S \subseteq OutInUse'
      BY <1>1, <1>6 DEF TypeOK
    <3> QED
      BY <1>2, <1>6, <2>1, <3>1, ListRenewed
  <2>3. \A r \in accepted' : ToSet(r.out) \subseteq OutInUse'
    BY <1>2, <1>6, <2>1
  <2> QED
    BY <2>2, <2>3 DEF OutKnown
<1>9. ToAuxKnown'
  <2>1. PICK S \in SUBSET AuxOutInUse : /\ ToAuxPlayList = Rewrite(Unused, Ascending(S))
                                        /\ \A r \in accepted : ToSet(r.auxout) \subseteq S
    BY <1>1 DEF ToAuxKnown
  <2>2. ToAuxPlayList' = Rewrite(Unused, Ascending(AuxOutInUse'))
    <3>1. S \in SUBSET Bus /\ S \subseteq AuxOutInUse'
      BY <1>1, <1>6 DEF TypeOK
    <3> QED
      BY <1>2, <1>6, <2>1, <3>1, ListRenewed
  <2>3. \A r \in accepted' : ToSet(r.auxout) \subseteq AuxOutInUse'
    BY <1>2, <1>6, <2>1
  <2> QED
    BY <2>2, <2>3 DEF ToAuxKnown
<1>10. AuxToAuxKnown'
  <2>1. /\ PlayOrder(graph) \in Seq(Bus) /\ IsInjective(PlayOrder(graph))
        /\ ToSet(PlayOrder(graph)) = graph.AuxInUse
    BY <1>1, OrderOf
  <2>2. Len(PlayOrder(graph)) <= Len(PlayOrder(graph'))
    BY <1>4, <1>5, <2>1, LongerList
  <2>3. AuxToAuxPlayList' = Rewrite(Rewrite(Unused, PlayOrder(graph)), PlayOrder(graph'))
    BY <1>1, <1>2 DEF AuxToAuxKnown
  <2>4. AuxToAuxPlayList' = Rewrite(Unused, PlayOrder(graph'))
    BY <1>5, <2>1, <2>2, <2>3, RewriteOver
  <2> QED
    BY <2>4 DEF AuxToAuxKnown
<1>11. FreshLists'
  BY <1>2 DEF FreshLists
<1> QED
  BY <1>4, <1>7, <1>8, <1>9, <1>10, <1>11
     DEF BusInv, ListsInv, OutKnown, ToAuxKnown, AuxToAuxKnown, FreshLists

(* The same, cut short by a name that does not parse. *)
LEMMA BusConfigErrorKeeps ==
  ASSUME Room, BusInv, NEW s \in Configs, BusConfigError(s)
  PROVE  BusInv'
<1>1. TypeOK /\ GraphInv /\ OutKnown /\ ToAuxKnown /\ AuxToAuxKnown /\ FreshLists
  BY ListsInvParts DEF BusInv
<1>2. /\ calls < MaxConfigs /\ calls' = calls + 1
      /\ OutInUse' = OutInUse \cup ToSet(s.out)
      /\ AuxOutInUse' = AuxOutInUse \cup ToSet(s.auxout)
      /\ UNCHANGED <<Bus_Config_Status, graph, ToOutPlayList, ToAuxPlayList,
                     AuxToAuxPlayList, aux_buffer, Inst_Bus_Config, accepted>>
  BY DEF BusConfigError, Parse
<1>3. GraphInv'
  BY <1>1, <1>2, GraphKept DEF GraphStays
<1>4. s \in BusSlots
  BY SlotRoom
<1>5. TypeOK'
  <2>1. OutInUse' \subseteq Bus /\ AuxOutInUse' \subseteq Bus
    BY <1>1, <1>2, <1>4, SlotType DEF TypeOK
  <2>2. calls' \in 0 .. MaxConfigs
    BY <1>1, <1>2, ConstantFacts DEF TypeOK
  <2> QED
    BY <1>1, <1>2, <2>1, <2>2 DEF TypeOK
<1>6. OutKnown' /\ ToAuxKnown'
  BY <1>1, <1>2 DEF OutKnown, ToAuxKnown
<1>7. AuxToAuxKnown' /\ FreshLists'
  BY <1>1, <1>2 DEF AuxToAuxKnown, FreshLists
<1> QED
  BY <1>3, <1>5, <1>6, <1>7
     DEF BusInv, ListsInv, OutKnown, ToAuxKnown, AuxToAuxKnown, FreshLists

(* get_bus_config() for a name without a slot. *)
LEMMA GetBusConfigKeeps ==
  ASSUME BusInv, NEW name \in Names, GetBusConfig(name)
  PROVE  BusInv'
<1>1. TypeOK /\ GraphInv /\ OutKnown /\ ToAuxKnown /\ AuxToAuxKnown /\ FreshLists
  BY ListsInvParts DEF BusInv
<1> DEFINE old == IF Bus_Config_Status THEN OutInUse ELSE {}
           list == IF Bus_Config_Status THEN ToOutPlayList ELSE Unused
           auxlist == IF Bus_Config_Status THEN ToAuxPlayList ELSE Unused
           d == DefaultSlot
<1>2. /\ OutInUse' = old \cup ToSet(d.out)
      /\ ToOutPlayList' = Rewrite(Rewrite(list, d.out), Ascending(OutInUse'))
      /\ ToAuxPlayList' = Rewrite(auxlist, Ascending(AuxOutInUse))
      /\ AuxToAuxPlayList' = (IF Bus_Config_Status THEN AuxToAuxPlayList ELSE Unused)
      /\ Bus_Config_Status' = TRUE
      /\ Inst_Bus_Config' = [Inst_Bus_Config EXCEPT ![name] = d]
      /\ accepted' = accepted \cup {d}
      /\ UNCHANGED <<AuxOutInUse, graph, aux_buffer, calls>>
  BY DEF GetBusConfig, InUseList
<1>3. /\ d \in BusSlots /\ d.auxin = <<>> /\ d.auxout = <<>> /\ d.out \in Seq(Bus)
      /\ IsInjective(d.out) /\ ToSet(d.out) \subseteq Bus /\ ToSet(<<>>) = {}
  BY DefaultSlotFacts DEF ToSet
<1> HIDE DEF d
<1>4. GraphInv'
  BY <1>1, <1>2, GraphKept DEF GraphStays, d
<1>5. OutInUse' \in SUBSET Bus /\ AuxOutInUse \in SUBSET Bus
  BY <1>1, <1>2, <1>3 DEF TypeOK
<1>6. \E S \in SUBSET old : /\ list = Rewrite(Unused, Ascending(S))
                            /\ \A r \in accepted : ToSet(r.out) \subseteq S
  <2>1. CASE Bus_Config_Status
    BY <1>1, <2>1 DEF OutKnown
  <2>2. CASE ~Bus_Config_Status
    <3>1. accepted = {} /\ Rewrite(Unused, Ascending({})) = Unused
      BY <1>1, <2>2, EmptyAscending, UnusedRewritten DEF FreshLists
    <3> QED
      BY <2>2, <3>1
  <2> QED
    BY <2>1, <2>2
<1>7. \E S \in SUBSET AuxOutInUse : /\ auxlist = Rewrite(Unused, Ascending(S))
                                    /\ \A r \in accepted : ToSet(r.auxout) \subseteq S
  <2>1. auxlist = ToAuxPlayList
    BY <1>1 DEF FreshLists
  <2> QED
    BY <1>1, <2>1 DEF ToAuxKnown
<1>8. AuxToAuxPlayList' = AuxToAuxPlayList
  BY <1>1, <1>2 DEF FreshLists
<1>9. list \in Lists /\ auxlist \in Lists
  BY <1>1, UnusedType DEF TypeOK
<1> HIDE DEF old, list, auxlist
<1>10. /\ Ascending(OutInUse') \in Seq(Bus) /\ Ascending(AuxOutInUse) \in Seq(Bus)
       /\ Len(d.out) <= Len(Ascending(OutInUse'))
  <2>1. ToSet(d.out) \subseteq OutInUse'
    BY <1>2
  <2> QED
    BY <1>3, <1>5, <2>1, AscendingProperties, AscendingLength
<1>11. TypeOK'
  <2>1. ToOutPlayList' \in Lists
    <3>1. Rewrite(list, d.out) \in Lists
      BY <1>3, <1>9, RewriteType
    <3> QED
      BY <1>2, <1>10, <3>1, RewriteType
  <2>2. ToAuxPlayList' \in Lists
    BY <1>2, <1>9, <1>10, RewriteType
  <2>3. Inst_Bus_Config' \in [Names -> BusSlots] /\ accepted' \subseteq BusSlots
    BY <1>1, <1>2, <1>3 DEF TypeOK
  <2>4. Bus_Config_Status' \in BOOLEAN
    BY <1>2
  <2> QED
    BY <1>1, <1>2, <1>5, <1>8, <2>1, <2>2, <2>3, <2>4 DEF TypeOK
<1>12. OutKnown'
  <2>1. PICK S \in SUBSET old : /\ list = Rewrite(Unused, Ascending(S))
                                /\ \A r \in accepted : ToSet(r.out) \subseteq S
    BY <1>6
  <2>2. S \in SUBSET Bus /\ S \subseteq OutInUse'
    BY <1>2, <1>5
  <2>3. ToOutPlayList' = Rewrite(list, Ascending(OutInUse'))
    BY <1>2, <1>3, <1>10, RewriteOver
  <2>4. ToOutPlayList' = Rewrite(Unused, Ascending(OutInUse'))
    BY <1>5, <2>1, <2>2, <2>3, ListRenewed
  <2>5. \A r \in accepted' : ToSet(r.out) \subseteq OutInUse'
    BY <1>2, <2>1, <2>2
  <2> QED
    BY <2>4, <2>5 DEF OutKnown
<1>13. ToAuxKnown'
  <2>1. PICK S \in SUBSET AuxOutInUse : /\ auxlist = Rewrite(Unused, Ascending(S))
                                        /\ \A r \in accepted : ToSet(r.auxout) \subseteq S
    BY <1>7
  <2>2. S \in SUBSET Bus /\ S \subseteq AuxOutInUse
    BY <1>5
  <2>3. ToAuxPlayList' = Rewrite(Unused, Ascending(AuxOutInUse))
    BY <1>2, <1>5, <2>1, <2>2, ListRenewed
  <2>4. \A r \in accepted' : ToSet(r.auxout) \subseteq AuxOutInUse
    BY <1>2, <1>3, <2>1
  <2> QED
    BY <1>2, <2>3, <2>4 DEF ToAuxKnown
<1>14. AuxToAuxKnown' /\ FreshLists'
  BY <1>1, <1>2, <1>8 DEF AuxToAuxKnown, FreshLists
<1> QED
  BY <1>4, <1>11, <1>12, <1>13, <1>14
     DEF BusInv, ListsInv, OutKnown, ToAuxKnown, AuxToAuxKnown, FreshLists

(* Before the first call nothing is in use. *)
LEMMA BusInit == Init => BusInv
<1> SUFFICES ASSUME Init PROVE BusInv
  OBVIOUS
<1> USE DEF Init
<1>1. /\ graph.AuxInUse = {} /\ graph.HasParent = {} /\ graph.HasChild = {}
      /\ graph.BusIn = [b \in Bus |-> <<>>] /\ graph \in BusGraphs
  <2>1. <<>> \in Seq(Bus)
    BY EmptySeq
  <2> QED
    BY <2>1 DEF BusGraphs
<1>2. \A b \in Bus : graph.BusIn[b] = <<>> /\ Pred(graph, b) = {}
  BY <1>1 DEF Pred, ToSet
<1>3. TypeOK
  <2>1. NoSlot \in BusSlots
    <3>1. <<>> \in Seq(Bus)
      BY EmptySeq
    <3> QED
      BY <3>1 DEF NoSlot, BusSlots
  <2>2. calls \in 0 .. MaxConfigs
    BY ConstantFacts
  <2> QED
    BY <1>1, <2>1, <2>2, UnusedType DEF TypeOK, BusGraphs
<1>4. GraphInv
  <2>1. EdgesKnown
    BY <1>2, EdgesMeaning DEF EdgesKnown
  <2>2. GraphShape(graph)
    <3>1. \A b \in Bus : ToSet(graph.BusIn[b]) = {}
      BY <1>2 DEF Pred
    <3> QED
      BY <1>1, <1>2, <3>1 DEF GraphShape
  <2>3. LoopFree(graph)
    BY <1>2 DEF LoopFree, Pred
  <2>4. AuxKnown
    BY DEF AuxKnown
  <2>5. InputsFit
    <3>1. \A b \in Bus : Len(graph.BusIn[b]) = 0
      BY <1>2
    <3>2. 0 * MaxConfigs = 0 /\ 0 * (MAXBUS - 1) = 0
      BY ConstantFacts
    <3> QED
      BY <3>1, <3>2 DEF InputsFit
  <2> QED
    BY <2>1, <2>2, <2>3, <2>4, <2>5, GraphInvParts
<1>5. ListsInv
  <2>1. Rewrite(Unused, Ascending({})) = Unused
    BY EmptyAscending, UnusedRewritten
  <2>2. OutKnown /\ ToAuxKnown
    BY <2>1 DEF OutKnown, ToAuxKnown
  <2>3. PlayOrder(graph) = <<>>
    BY <1>1, <1>3, <1>4, OrderOf, EmptyList
  <2>4. AuxToAuxKnown
    BY <2>3, UnusedRewritten DEF AuxToAuxKnown
  <2>5. FreshLists
    BY DEF FreshLists
  <2> QED
    BY <2>2, <2>4, <2>5, ListsInvParts
<1> QED
  BY <1>3, <1>4, <1>5 DEF BusInv

LEMMA BusNext == Room /\ BusInv /\ [Next]_vars => BusInv'
<1> SUFFICES ASSUME Room, BusInv, [Next]_vars PROVE BusInv'
  OBVIOUS
<1>1. ASSUME NEW n \in Names, NEW s \in Configs, BusConfig(n, s) PROVE BusInv'
  BY <1>1, BusConfigKeeps
<1>2. ASSUME NEW s \in Configs, BusConfigError(s) PROVE BusInv'
  BY <1>2, BusConfigErrorKeeps
<1>3. ASSUME NEW n \in Names, GetBusConfig(n) PROVE BusInv'
  BY <1>3, GetBusConfigKeeps
<1>4. CASE UNCHANGED vars
  BY <1>4 DEF vars, BusInv, TypeOK, GraphInv, ListsInv, Edges
<1>5. ASSUME NEW n \in Names, GetKnownConfig(n) PROVE BusInv'
  BY <1>4, <1>5 DEF GetKnownConfig
<1> QED
  BY <1>1, <1>2, <1>3, <1>4, <1>5 DEF Next

(* The graph the loop check and the play order work on is the graph of the *)
(* instruments, has no loop, and the three play lists are what this graph  *)
(* and the buses named so far make them.                                   *)
THEOREM BusInvariant ==
  ASSUME Room
  PROVE  Spec => []BusInv
BY BusInit, BusNext, PTL DEF Spec

(* bus_config's loop check works: whatever calls a score makes, accepted,  *)
(* refused or cut short, no aux bus comes to feed itself.                  *)
THEOREM NoBusFeedsItself ==
  ASSUME Room
  PROVE  Spec => []Acyclic
<1>1. BusInv => Acyclic
  <2> SUFFICES ASSUME BusInv,
                      NEW S \in (SUBSET {e[1] : e \in Edges}) \ {{}}
               PROVE  \E b \in S : \A a \in S : <<a, b>> \notin Edges
    BY DEF Acyclic
  <2>1. TypeOK /\ EdgesKnown /\ LoopFree(graph)
    BY GraphInvParts DEF BusInv
  <2>2. \A e \in Edges : e[1] \in Bus
    <3> SUFFICES ASSUME NEW e \in Edges PROVE e[1] \in Bus
      OBVIOUS
    <3>1. PICK s \in accepted : e \in ToSet(s.auxin) \X ToSet(s.auxout)
      BY DEF Edges
    <3>2. ToSet(s.auxin) \subseteq Bus
      BY <2>1, SlotType DEF TypeOK
    <3> QED
      BY <3>1, <3>2
  <2>3. S \in (SUBSET Bus) \ {{}}
    BY <2>2
  <2>4. PICK b \in S : \A a \in S : a \notin Pred(graph, b)
    BY <2>1, <2>3 DEF LoopFree, Pred
  <2> QED
    BY <2>1, <2>3, <2>4 DEF EdgesKnown
<1> QED
  BY <1>1, BusInvariant, PTL

(* What the traversal reads off the three lists. *)
LEMMA PlayedLists ==
  ASSUME BusInv
  PROVE  /\ \E S \in SUBSET Bus :
              /\ Played(ToOutPlayList) = Ascending(S)
              /\ \A s \in accepted : ToSet(s.out) \subseteq S
         /\ \E S \in SUBSET Bus :
              /\ Played(ToAuxPlayList) = Ascending(S)
              /\ \A s \in accepted : ToSet(s.auxout) \subseteq S
         /\ Played(AuxToAuxPlayList) = PlayOrder(graph)
<1>1. TypeOK /\ GraphInv /\ OutKnown /\ ToAuxKnown /\ AuxToAuxKnown
  BY ListsInvParts DEF BusInv
<1>2. \A S \in SUBSET Bus : Played(Rewrite(Unused, Ascending(S))) = Ascending(S)
  <2> SUFFICES ASSUME NEW S \in SUBSET Bus
               PROVE  Played(Rewrite(Unused, Ascending(S))) = Ascending(S)
    OBVIOUS
  <2>1. Ascending(S) \in Seq(Bus) /\ IsInjective(Ascending(S))
    BY AscendingProperties
  <2> QED
    BY <2>1, InjectiveLength, PlayedRight
<1>3. Played(AuxToAuxPlayList) = PlayOrder(graph)
  <2>1. PlayOrder(graph) \in Seq(Bus) /\ IsInjective(PlayOrder(graph))
    BY <1>1, OrderOf
  <2> QED
    BY <1>1, <2>1, InjectiveLength, PlayedRight DEF AuxToAuxKnown
<1>4. \E S \in SUBSET Bus : /\ Played(ToOutPlayList) = Ascending(S)
                            /\ \A s \in accepted : ToSet(s.out) \subseteq S
  <2>1. PICK S \in SUBSET OutInUse : /\ ToOutPlayList = Rewrite(Unused, Ascending(S))
                                     /\ \A s \in accepted : ToSet(s.out) \subseteq S
    BY <1>1 DEF OutKnown
  <2>2. S \in SUBSET Bus
    BY <1>1 DEF TypeOK
  <2> QED
    BY <1>2, <2>1, <2>2
<1>5. \E S \in SUBSET Bus : /\ Played(ToAuxPlayList) = Ascending(S)
                            /\ \A s \in accepted : ToSet(s.auxout) \subseteq S
  <2>1. PICK S \in SUBSET AuxOutInUse : /\ ToAuxPlayList = Rewrite(Unused, Ascending(S))
                                        /\ \A s \in accepted : ToSet(s.auxout) \subseteq S
    BY <1>1 DEF ToAuxKnown
  <2>2. S \in SUBSET Bus
    BY <1>1 DEF TypeOK
  <2> QED
    BY <1>2, <2>1, <2>2
<1> QED
  BY <1>3, <1>4, <1>5

(* No play list names a bus twice: no queue is played twice in a period,   *)
(* however often the lists were written over.                              *)
THEOREM NoQueueTwice ==
  ASSUME Room
  PROVE  Spec => []PlayedOnce
<1>1. BusInv => PlayedOnce
  <2> SUFFICES ASSUME BusInv PROVE PlayedOnce
    OBVIOUS
  <2>1. \A S \in SUBSET Bus : IsInjective(Ascending(S))
    BY AscendingProperties
  <2>2. IsInjective(PlayOrder(graph))
    BY OrderOf DEF BusInv
  <2> QED
    BY <2>1, <2>2, PlayedLists DEF PlayedOnce, PlayLists
<1> QED
  BY <1>1, BusInvariant, PTL

(* Every bus an instrument can be pushed on is on the list inTraverse()    *)
(* walks for its class: create_play_order() leaves out no bus of the       *)
(* graph, whatever its shape.                                              *)
THEOREM EveryBusPlayed ==
  ASSUME Room
  PROVE  Spec => []AllPlayed
<1>1. BusInv => AllPlayed
  <2> SUFFICES ASSUME BusInv, NEW s \in accepted
               PROVE  /\ ToSet(s.out) \subseteq ToSet(Played(ToOutPlayList))
                      /\ ToSet(s.auxout) \subseteq ToSet(Played(ToAuxPlayList))
                      /\ ToSet(s.auxout) \subseteq ToSet(Played(AuxToAuxPlayList))
    BY DEF AllPlayed
  <2>1. \A S \in SUBSET Bus : ToSet(Ascending(S)) = S
    BY AscendingProperties
  <2>2. ToSet(PlayOrder(graph)) = graph.AuxInUse
    BY OrderOf DEF BusInv
  <2>3. AuxKnown
    BY GraphInvParts DEF BusInv
  <2>4. ToSet(s.auxout) \subseteq ToSet(Played(AuxToAuxPlayList))
    BY <2>2, <2>3, PlayedLists DEF AuxKnown
  <2> QED
    BY <2>1, <2>4, PlayedLists
<1> QED
  BY <1>1, BusInvariant, PTL

(* Where no bus feeds two others, every aux bus is played before those     *)
(* made from it: the breadth-first walks and RevPlay sort the graph.       *)
THEOREM SourcesComeFirst ==
  ASSUME Room
  PROVE  Spec => []PlayedInOrderOnOnePath
<1>1. BusInv => PlayedInOrderOnOnePath
  <2> SUFFICES ASSUME BusInv, OnePath, NEW e \in Edges PROVE PlayedBefore(e[1], e[2])
    BY DEF PlayedInOrderOnOnePath, PlayedInOrder
  <2>1. TypeOK /\ EdgesKnown /\ GraphInv
    BY GraphInvParts DEF BusInv
  <2>2. PICK a \in Bus, b \in Bus : e = <<a, b>>
    <3>1. PICK s \in accepted : e \in ToSet(s.auxin) \X ToSet(s.auxout)
      BY DEF Edges
    <3>2. ToSet(s.auxin) \subseteq Bus /\ ToSet(s.auxout) \subseteq Bus
      BY <2>1, SlotType DEF TypeOK
    <3> QED
      BY <3>1, <3>2
  <2>3. SinglePath(graph)
    BY <2>1 DEF SinglePath, OnePath, EdgesKnown
  <2>4. a \in Pred(graph, b)
    BY <2>1, <2>2 DEF EdgesKnown
  <2>5. Before(PlayOrder(graph), a, b)
    BY <2>1, <2>3, <2>4, OrderOf
  <2>6. Before(Played(AuxToAuxPlayList), a, b)
    BY <2>5, PlayedLists
  <2> QED
    BY <2>2, <2>6 DEF PlayedBefore, Before
<1> QED
  BY <1>1, BusInvariant, PTL

-----------------------------------------------------------------------------
(* Scheduler takes slots and play lists as constants and relies on some    *)
(* facts about them.  Here they are those of a state of BusConfig: a slot  *)
(* stands for the instruments that were made with it.                      *)
Order ==
  [c \in {"TO_AUX", "AUX_TO_AUX", "TO_OUT"} |->
     CASE c = "TO_OUT" -> Played(ToOutPlayList)
       [] c = "TO_AUX" -> Played(ToAuxPlayList)
       [] c = "AUX_TO_AUX" -> Played(AuxToAuxPlayList)]
Queues == INSTANCE BusQueues
            WITH Notes <- accepted, Slot <- [s \in accepted |-> s], PlayList <- Order

(* The queues of a slot with one kind of output are those of its outputs.  *)
LEMMA SlotKeys ==
  ASSUME TypeOK, Queues!OneKind, NEW s \in accepted, NEW k \in Queues!KeysOf(s)
  PROVE  /\ k = <<k[1], k[2]>>
         /\ \/ k[1] = "TO_AUX" /\ s.auxin = <<>> /\ k[2] \in ToSet(s.auxout)
            \/ k[1] = "AUX_TO_AUX" /\ s.auxin # <<>> /\ k[2] \in ToSet(s.auxout)
            \/ k[1] = "TO_OUT" /\ k[2] \in ToSet(s.out)
<1>1. PICK i \in 1 .. Len(Queues!QueuesOf(s)) : k = Queues!QueuesOf(s)[i]
  BY DEF Queues!KeysOf
<1>2. /\ s.auxin \in Seq(Bus) /\ s.out \in Seq(Bus) /\ s.auxout \in Seq(Bus)
  BY DEF TypeOK, BusSlots
<1>3. Queues!ClassOf(s) # "TO_AUX_AND_OUT"
  BY DEF Queues!OneKind
<1>4. ASSUME NEW c, NEW buses \in Seq(Bus), NEW j \in 1 .. Len(Queues!On(c, buses))
      PROVE  /\ Queues!On(c, buses)[j] = <<c, buses[j]>>
             /\ buses[j] \in ToSet(buses)
  BY DEF Queues!On, ToSet
<1>5. CASE s.auxin = <<>> /\ s.auxout # <<>> /\ s.out = <<>>
  <2>1. Queues!QueuesOf(s) = Queues!On("TO_AUX", s.auxout)
    BY <1>5 DEF Queues!QueuesOf, Queues!ClassOf
  <2> QED
    BY <1>1, <1>2, <1>4, <1>5, <2>1
<1>6. CASE s.auxin # <<>> /\ s.auxout # <<>>
  <2>1. Queues!QueuesOf(s) = Queues!On("AUX_TO_AUX", s.auxout)
    BY <1>6 DEF Queues!QueuesOf, Queues!ClassOf
  <2> QED
    BY <1>1, <1>2, <1>4, <1>6, <2>1
<1>7. CASE s.auxout = <<>> /\ s.out # <<>>
  <2>1. Queues!QueuesOf(s) = Queues!On("TO_OUT", s.out)
    BY <1>7 DEF Queues!QueuesOf, Queues!ClassOf
  <2> QED
    BY <1>1, <1>2, <1>4, <1>7, <2>1
<1>8. CASE s.auxout = <<>> /\ s.out = <<>>
  <2>1. Queues!QueuesOf(s) = <<>>
    BY <1>8 DEF Queues!QueuesOf, Queues!ClassOf
  <2> QED
    BY <1>1, <2>1
<1> QED
  BY <1>3, <1>5, <1>6, <1>7, <1>8 DEF Queues!ClassOf

(* create_play_order() and create_play_lists() make what inTraverse()      *)
(* relies on: in every state that calls of bus_config() can lead to, the   *)
(* play lists and the slots instruments can have got satisfy the           *)
(* assumptions on them under which Scheduler's theorems hold, if no slot   *)
(* has both kinds of output and, for the order, no bus feeds two others.   *)
THEOREM ListsServeScheduler ==
  ASSUME Room
  PROVE  Spec => [](/\ Order \in [Queues!Classes -> Seq(Bus)]
                    /\ Queues!NoRepeats
                    /\ Queues!OneKind => Queues!AllPlayed
                    /\ Queues!OneKind /\ OnePath => Queues!AuxOrdered)
<1>1. ASSUME BusInv, NEW list \in PlayLists PROVE Played(list) \in Seq(Bus)
  <2>1. \A S \in SUBSET Bus : Ascending(S) \in Seq(Bus)
    BY AscendingProperties
  <2>2. PlayOrder(graph) \in Seq(Bus)
    BY <1>1, OrderOf DEF BusInv
  <2> QED
    BY <1>1, <2>1, <2>2, PlayedLists DEF PlayLists
<1>2. BusInv => Order \in [Queues!Classes -> Seq(Bus)]
  <2> SUFFICES ASSUME BusInv, NEW c \in Queues!Classes PROVE Order[c] \in Seq(Bus)
    BY DEF Order, Queues!Classes
  <2>1. Order[c] \in {Played(list) : list \in PlayLists}
    BY DEF Order, Queues!Classes, PlayLists
  <2> QED
    BY <1>1, <2>1
<1>3. BusInv /\ PlayedOnce => Queues!NoRepeats
  <2> SUFFICES ASSUME BusInv, PlayedOnce, NEW c \in Queues!Classes,
                      NEW i \in 1 .. Len(Order[c]), NEW j \in 1 .. Len(Order[c]),
                      Order[c][i] = Order[c][j]
               PROVE  i = j
    BY DEF Queues!NoRepeats
  <2>1. PICK list \in PlayLists : Order[c] = Played(list)
    BY DEF Order, Queues!Classes, PlayLists
  <2>2. IsInjective(Played(list)) /\ Played(list) \in Seq(Bus)
    BY <1>1 DEF PlayedOnce
  <2> QED
    BY <2>1, <2>2 DEF IsInjective
<1>4. BusInv /\ AllPlayed /\ Queues!OneKind => Queues!AllPlayed
  <2> SUFFICES ASSUME BusInv, AllPlayed, Queues!OneKind,
                      NEW s \in accepted, NEW k \in Queues!KeysOf(s)
               PROVE  \E i \in 1 .. Len(Order[k[1]]) : Order[k[1]][i] = k[2]
    BY DEF Queues!AllPlayed
  <2>1. /\ \/ k[1] = "TO_AUX" /\ s.auxin = <<>> /\ k[2] \in ToSet(s.auxout)
           \/ k[1] = "AUX_TO_AUX" /\ s.auxin # <<>> /\ k[2] \in ToSet(s.auxout)
           \/ k[1] = "TO_OUT" /\ k[2] \in ToSet(s.out)
    BY SlotKeys DEF BusInv
  <2>2. /\ k[1] = "TO_AUX" => Order[k[1]] = Played(ToAuxPlayList)
        /\ k[1] = "AUX_TO_AUX" => Order[k[1]] = Played(AuxToAuxPlayList)
        /\ k[1] = "TO_OUT" => Order[k[1]] = Played(ToOutPlayList)
    BY DEF Order
  <2>3. k[2] \in ToSet(Order[k[1]])
    BY <2>1, <2>2 DEF AllPlayed
  <2>4. Order[k[1]] \in Seq(Bus)
    BY <1>1, <2>1, <2>2 DEF PlayLists
  <2> QED
    BY <2>3, <2>4 DEF ToSet
<1>5. BusInv /\ PlayedInOrderOnOnePath /\ Queues!OneKind /\ OnePath => Queues!AuxOrdered
  <2> SUFFICES ASSUME BusInv, PlayedInOrder, Queues!OneKind,
                      NEW s \in accepted, NEW t \in accepted,
                      NEW k \in Queues!KeysOf(s), NEW c \in {"TO_AUX", "AUX_TO_AUX"},
                      NEW i \in 1 .. Len(s.auxin)
               PROVE  Queues!Before(<<c, s.auxin[i]>>, k)
    BY DEF Queues!AuxOrdered, PlayedInOrderOnOnePath
  <2>1. s.auxin \in Seq(Bus) /\ s.auxout \in Seq(Bus)
    BY DEF BusInv, TypeOK, BusSlots
  <2>2. s.auxin # <<>> /\ s.auxin[i] \in ToSet(s.auxin)
    BY <2>1 DEF ToSet
  <2>3. \/ k[1] = "AUX_TO_AUX" /\ k[2] \in ToSet(s.auxout)
        \/ k[1] = "TO_OUT"
    BY <2>2, SlotKeys DEF BusInv
  <2>4. CASE k[1] = "TO_OUT" \/ c = "TO_AUX"
    BY <2>3, <2>4 DEF Queues!Before, Queues!Earlier
  <2>5. CASE k[1] = "AUX_TO_AUX" /\ k[2] \in ToSet(s.auxout) /\ c = "AUX_TO_AUX"
    <3>1. <<s.auxin[i], k[2]>> \in Edges
      BY <2>2, <2>5 DEF Edges
    <3>2. PlayedBefore(s.auxin[i], k[2])
      BY <3>1 DEF PlayedInOrder
    <3>3. Order["AUX_TO_AUX"] = Played(AuxToAuxPlayList)
      BY DEF Order
    <3> QED
      BY <2>5, <3>2, <3>3 DEF PlayedBefore, Queues!Before
  <2> QED
    BY <2>3, <2>4, <2>5
<1> QED
  BY <1>2, <1>3, <1>4, <1>5, BusInvariant, NoQueueTwice, EveryBusPlayed, SourcesComeFirst, PTL
=============================================================================
