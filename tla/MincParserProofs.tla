-------------------------- MODULE MincParserProofs --------------------------
(***************************************************************************)
(* Theorems of MincParser, for scripts of any length and any number of     *)
(* them: what `level` says of the structures on the parser's stack.        *)
(***************************************************************************)
EXTENDS MincParser, FiniteSetTheorems, SequenceTheorems, TLAPS

(* The if-structures of a stack: finitely many. *)
LEMMA IfsFinite ==
  ASSUME NEW s \in Seq(Entries)
  PROVE  /\ Ifs(s) \subseteq 1 .. Len(s) /\ IsFiniteSet(Ifs(s))
         /\ Cardinality(Ifs(s)) \in Nat
<1>1. Ifs(s) \subseteq 1 .. Len(s)
  BY DEF Ifs
<1>2. IsFiniteSet(1 .. Len(s))
  BY FS_Interval
<1> QED
  BY <1>1, <1>2, FS_Subset, FS_CardinalityType

(* One more if, if that is what is pushed.                                 *)
LEMMA IfsOfAppend ==
  ASSUME NEW s \in Seq(Entries), NEW e \in Entries
  PROVE  /\ Append(s, e) \in Seq(Entries)
         /\ Cardinality(Ifs(Append(s, e))) =
              IF e.s \in Structure THEN Cardinality(Ifs(s)) + 1 ELSE Cardinality(Ifs(s))
<1> DEFINE t == Append(s, e)
<1>1. /\ t \in Seq(Entries) /\ DOMAIN t = 1 .. Len(s) + 1 /\ DOMAIN s = 1 .. Len(s)
      /\ Len(s) \in Nat
      /\ t[Len(s) + 1] = e /\ \A i \in 1 .. Len(s) : t[i] = s[i]
  OBVIOUS
<1>2. CASE e.s \in Structure
  <2>1. Ifs(t) = Ifs(s) \cup {Len(s) + 1} /\ Len(s) + 1 \notin Ifs(s)
    BY <1>1, <1>2 DEF Ifs
  <2> QED
    BY <1>1, <1>2, <2>1, IfsFinite, FS_AddElement
<1>3. CASE e.s \notin Structure
  <2>1. Ifs(t) = Ifs(s)
    BY <1>1, <1>3 DEF Ifs
  <2> QED
    BY <1>1, <1>3, <2>1
<1> QED
  BY <1>2, <1>3

(* What is popped leaves no more than there were, and exactly those below. *)
LEMMA Prefix ==
  ASSUME NEW s \in Seq(Entries), NEW n \in 0 .. Len(s)
  PROVE  /\ SubSeq(s, 1, n) \in Seq(Entries) /\ Len(SubSeq(s, 1, n)) = n
         /\ \A i \in 1 .. n : SubSeq(s, 1, n)[i] = s[i]
<1>1. n \in Int /\ 1 \in Int /\ n - 1 + 1 = n /\ \A i \in 1 .. n : 1 + i - 1 = i
  OBVIOUS
<1>2. \A i \in 1 .. n : s[i] \in Entries
  OBVIOUS
<1> DEFINE t == SubSeq(s, 1, n)
<1>3. /\ t \in Seq(Entries)
      /\ Len(t) = IF 1 <= n THEN n - 1 + 1 ELSE 0
      /\ \A i \in 1 .. n - 1 + 1 : t[i] = s[1 + i - 1]
  BY <1>1, <1>2, SubSeqProperties
<1> HIDE DEF t
<1>4. \A i \in 1 .. n : t[i] = s[i]
  BY <1>1, <1>3, Zenon
<1>5. (IF 1 <= n THEN n - 1 + 1 ELSE 0) = n
  OBVIOUS
<1>6. Len(t) = n
  BY <1>3, <1>5
<1> QED
  BY <1>3, <1>4, <1>6, Zenon DEF t

LEMMA IfsOfDrop ==
  ASSUME NEW s \in Seq(Entries), NEW k \in 0 .. Len(s)
  PROVE  /\ SubSeq(s, 1, Len(s) - k) \in Seq(Entries)
         /\ Len(SubSeq(s, 1, Len(s) - k)) = Len(s) - k
         /\ Ifs(SubSeq(s, 1, Len(s) - k)) = {i \in Ifs(s) : i <= Len(s) - k}
         /\ Cardinality(Ifs(SubSeq(s, 1, Len(s) - k))) <= Cardinality(Ifs(s))
<1> DEFINE n == Len(s) - k
           t == SubSeq(s, 1, n)
<1>1. n \in 0 .. Len(s) /\ DOMAIN s = 1 .. Len(s)
  OBVIOUS
<1> HIDE DEF n
<1>2. t \in Seq(Entries) /\ Len(t) = n /\ \A i \in 1 .. n : t[i] = s[i]
  BY <1>1, Prefix
<1> HIDE DEF t
<1>3. DOMAIN t = 1 .. n
  BY <1>2
<1>4. Ifs(t) = {i \in Ifs(s) : i <= n}
  BY <1>1, <1>2, <1>3 DEF Ifs
<1>5. Cardinality(Ifs(t)) <= Cardinality(Ifs(s))
  BY <1>4, IfsFinite, FS_Subset
<1> QED
  BY <1>2, <1>4, <1>5 DEF n, t

(* Only what stands for a structure takes one with it when it is popped.    *)
LEMMA DropOne ==
  ASSUME NEW s \in Seq(Entries), Len(s) > 0
  PROVE  /\ SubSeq(s, 1, Len(s) - 1) \in Seq(Entries)
         /\ Cardinality(Ifs(SubSeq(s, 1, Len(s) - 1))) =
              IF s[Len(s)].s \in Structure THEN Cardinality(Ifs(s)) - 1
                                          ELSE Cardinality(Ifs(s))
<1> DEFINE t == SubSeq(s, 1, Len(s) - 1)
<1>1. t \in Seq(Entries) /\ Ifs(t) = {i \in Ifs(s) : i <= Len(s) - 1}
  BY IfsOfDrop
<1>2. \A i \in Ifs(s) : i \in 1 .. Len(s)
  BY IfsFinite
<1>3. CASE s[Len(s)].s \in Structure
  <2>1. Len(s) \in Ifs(s)
    BY <1>3 DEF Ifs
  <2>2. \A i \in 1 .. Len(s) : i <= Len(s) - 1 <=> i # Len(s)
    OBVIOUS
  <2>3. Ifs(t) = Ifs(s) \ {Len(s)}
    BY <1>1, <1>2, <2>2
  <2> QED
    BY <1>1, <1>3, <2>1, <2>3, IfsFinite, FS_RemoveElement
<1>4. CASE s[Len(s)].s \notin Structure
  <2>1. Len(s) \notin Ifs(s)
    BY <1>4 DEF Ifs
  <2>2. \A i \in Ifs(s) : i <= Len(s) - 1
    BY <1>2, <2>1
  <2>3. Ifs(t) = Ifs(s)
    BY <1>1, <2>2
  <2> QED
    BY <1>1, <1>4, <2>3
<1> QED
  BY <1>3, <1>4

LEMMA DropTwo ==
  ASSUME NEW s \in Seq(Entries), Len(s) > 1, s[Len(s)].s \notin Structure
  PROVE  /\ SubSeq(s, 1, Len(s) - 2) \in Seq(Entries)
         /\ Cardinality(Ifs(SubSeq(s, 1, Len(s) - 2))) =
              IF s[Len(s) - 1].s \in Structure THEN Cardinality(Ifs(s)) - 1
                                        ELSE Cardinality(Ifs(s))
<1> DEFINE t == SubSeq(s, 1, Len(s) - 2)
<1>1. \A i \in Ifs(s) : i \in 1 .. Len(s) /\ i # Len(s)
  BY IfsFinite DEF Ifs
<1>2. /\ t \in Seq(Entries)
      /\ Ifs(t) = {i \in Ifs(s) : i <= Len(s) - 2}
  BY IfsOfDrop
<1>3. CASE s[Len(s) - 1].s \in Structure
  <2>1. Len(s) - 1 \in Ifs(s)
    BY <1>3 DEF Ifs
  <2>2. Ifs(t) = Ifs(s) \ {Len(s) - 1}
    BY <1>1, <1>2
  <2> QED
    BY <1>2, <1>3, <2>1, <2>2, IfsFinite, FS_RemoveElement
<1>4. CASE s[Len(s) - 1].s \notin Structure
  <2>1. Len(s) - 1 \notin Ifs(s)
    BY <1>4 DEF Ifs
  <2>2. \A i \in Ifs(s) : i <= Len(s) - 2
    BY <1>1, <2>1
  <2>3. Ifs(t) = Ifs(s)
    BY <1>2, <2>2
  <2> QED
    BY <1>2, <1>4, <2>3
<1> QED
  BY <1>3, <1>4

-----------------------------------------------------------------------------
LEMMA SameDistance ==
  ASSUME NEW l \in Nat, NEW m \in Int, NEW n \in Nat, NEW o \in Nat,
         NEW k \in Nat, m - o = l - n, l >= k + n
  PROVE  m \in Nat /\ m >= k + o
  OBVIOUS

LEMMA AtMost ==
  ASSUME NEW l \in Nat, NEW m \in Int, NEW n \in Nat, NEW o \in Nat,
         NEW k \in Nat, m - o = l - n, l <= k + n
  PROVE  m <= k + o
  OBVIOUS

(* Of what was dropped the level stays, and nothing more runs.             *)
LeakKept == Leaked => Leaked' /\ (ran' = ran \/ ran' = <<>>)

LEMMA StillLeaked ==
  ASSUME NEW l \in Nat, NEW m \in Int, NEW n \in Nat, NEW o \in Nat,
         m - o = l - n, l > n
  PROVE  m > o /\ m # 0
  OBVIOUS

(* A move of the parser that is no error: level goes with the structures on *)
(* the stack, and calls are executed at level 0 only.                       *)
LEMMA MoveKeepsIInv ==
  ASSUME IInv, running, Quiet, stack' \in Seq(Entries), Top' # "error",
         yychar' \in {yychar, "bad", NoToken},
         yyerrflag' \in 0 .. 3, yyerrflag' > 0 => errors > 0,
         level' \in Int, level' - Open' = level - Open,
         ran' \in Seq(Nat), ran' = ran \/ level' = 0
  PROVE  IInv' /\ LeakKept
<1>1. Open \in Nat /\ Open' \in Nat
  BY IfsFinite DEF IInv, TypeOK, Open
<1>2. /\ running' = running /\ errors' = errors /\ startLevel' = startLevel
      /\ UNCHANGED <<cond, comments, read, plain, calls, scripts>>
  BY DEF Quiet, scanner
<1>3. /\ level \in Nat /\ startLevel \in Nat /\ errors \in Nat
      /\ level >= startLevel + Open
      /\ errors = 0 => level <= startLevel + Open
  BY DEF IInv, TypeOK, Covered, Balanced
<1>4. /\ level' \in Nat /\ level' >= startLevel + Open'
      /\ errors = 0 => level' <= startLevel + Open'
  <2>1. level' - Open' = level - Open /\ level' \in Int
    OBVIOUS
  <2>2. level' \in Nat
    BY <1>1, <1>3, <2>1, SameDistance
  <2>3. level' >= startLevel + Open'
    BY <1>1, <1>3, <2>1, SameDistance
  <2>4. ASSUME level <= startLevel + Open PROVE level' <= startLevel + Open'
    BY <1>1, <1>3, <2>1, <2>4, AtMost
  <2>6. errors = 0 => level' <= startLevel + Open'
    BY <1>3, <2>4, Zenon
  <2> QED
    BY <2>2, <2>3, <2>6, Zenon
<1>5. TypeOK'
  BY <1>2, <1>4 DEF IInv, TypeOK
<1>6. Covered' /\ Balanced'
  BY <1>2, <1>4 DEF Covered, Balanced
<1>7. CommentDepth' /\ ErrorCounted' /\ AllClosed'
  BY <1>2 DEF IInv, CommentDepth, ErrorCounted, AllClosed
<1>8. LeakKept
  <2>1. ASSUME level > Open PROVE level' > Open' /\ level' # 0
    BY <1>1, <1>3, <2>1, StillLeaked
  <2> QED
    BY <1>2, <2>1 DEF LeakKept, Leaked
<1> QED
  BY <1>5, <1>6, <1>7, <1>8 DEF IInv

(* What is on top of the stack after a push.                               *)
LEMMA PushedTop ==
  ASSUME NEW s \in Seq(Entries), NEW e \in Entries, stack' = Append(s, e)
  PROVE  /\ Top' = e.s /\ stack' \in Seq(Entries)
         /\ Open' = IF e.s \in Structure THEN Cardinality(Ifs(s)) + 1
                                  ELSE Cardinality(Ifs(s))
<1>1. Len(stack') = Len(s) + 1 /\ stack'[Len(s) + 1] = e /\ Len(s) \in Nat
  OBVIOUS
<1>2. Top' = e.s
  BY <1>1 DEF Top, SymbolAt
<1> QED
  BY <1>2, IfsOfAppend DEF Open

LEMMA ShiftFlag ==
  ASSUME IInv, Shifted
  PROVE  /\ yychar' = NoToken /\ yyerrflag' \in 0 .. 3
         /\ yyerrflag' > 0 => errors > 0
  BY DEF IInv, TypeOK, ErrorCounted, Shifted

LEMMA AllShiftedFlag ==
  ASSUME AllShifted
  PROVE  yychar' = NoToken /\ yyerrflag' \in 0 .. 3 /\ ~(yyerrflag' > 0)
  BY DEF AllShifted

LEMMA KeptFlag ==
  ASSUME IInv, Kept
  PROVE  /\ yychar' = yychar /\ yyerrflag' \in 0 .. 3
         /\ yyerrflag' > 0 => errors > 0
  BY DEF IInv, TypeOK, ErrorCounted, Kept

LEMMA StackTypes ==
  ASSUME IInv
  PROVE  /\ stack \in Seq(Entries) /\ Len(stack) \in Nat /\ Open \in Nat
         /\ Cardinality(Ifs(stack)) = Open
         /\ level \in Nat /\ ran \in Seq(Nat) /\ calls \in Nat
         /\ <<calls>> \in Seq(Nat) /\ <<>> \in Seq(Nat)
         /\ Top # "start" => /\ Len(stack) > 0 /\ TopIds \in Seq(Nat)
                             /\ stack[Len(stack)].s = Top
         /\ Below # "start" => /\ Len(stack) > 1
                               /\ stack[Len(stack) - 1].s = Below
                               /\ stack[Len(stack) - 1].ids \in Seq(Nat)
<1>1. /\ stack \in Seq(Entries) /\ level \in Nat /\ ran \in Seq(Nat) /\ calls \in Nat
  BY DEF IInv, TypeOK
<1>2. Open \in Nat /\ Cardinality(Ifs(stack)) = Open
  BY <1>1, IfsFinite DEF Open
<1>3. Len(stack) \in Nat /\ \A i \in 1 .. Len(stack) : stack[i] \in Entries
  BY <1>1
<1>4. Top # "start" => /\ Len(stack) > 0 /\ TopIds \in Seq(Nat)
                       /\ stack[Len(stack)].s = Top
  BY <1>3 DEF Top, SymbolAt, TopIds, Entries
<1>5. Below # "start" => /\ Len(stack) > 1
                         /\ stack[Len(stack) - 1].s = Below
                         /\ stack[Len(stack) - 1].ids \in Seq(Nat)
  BY <1>3 DEF Below, SymbolAt, Entries
<1> QED
  BY <1>1, <1>2, <1>3, <1>4, <1>5

(* go() runs calls at level 0 only.                                        *)
LEMMA GoTypes ==
  ASSUME NEW l, NEW ids \in Seq(Nat), ran \in Seq(Nat), Go(l, ids)
  PROVE  ran' \in Seq(Nat) /\ (ran' = ran \/ l = 0)
<1>1. ran \o ids \in Seq(Nat)
  OBVIOUS
<1> QED
  BY <1>1 DEF Go

LEMMA EntryTypes ==
  ASSUME NEW x \in Symbols, NEW ids \in Seq(Nat)
  PROVE  Entry(x, ids) \in Entries /\ Entry(x, ids).s = x
  BY DEF Entry, Entries

(* Likewise for any move that pushes one entry: the number of structures on *)
(* the stack, and level, are what they were, or both change by one.         *)
LEMMA PushKeepsIInv ==
  ASSUME IInv, running, Quiet, NEW s \in Seq(Entries), NEW e \in Entries,
         stack' = Append(s, e), e.s # "error", Shifted \/ AllShifted \/ Kept,
         \/ Cardinality(Ifs(s)) = Open /\ e.s \notin Structure /\ level' = level
         \/ Cardinality(Ifs(s)) = Open /\ e.s \in Structure /\ level' = level + 1
         \/ Cardinality(Ifs(s)) = Open - 1 /\ e.s \notin Structure /\ level' = level - 1
         \/ Cardinality(Ifs(s)) = Open - 1 /\ e.s \in Structure /\ level' = level,
         ran' \in Seq(Nat), ran' = ran \/ level' = 0
  PROVE  IInv' /\ LeakKept
<1>1. /\ Top' = e.s /\ stack' \in Seq(Entries)
      /\ Open' = IF e.s \in Structure THEN Cardinality(Ifs(s)) + 1
                               ELSE Cardinality(Ifs(s))
  BY PushedTop
<1>2. Open \in Nat /\ level \in Nat
  BY StackTypes
<1>3. level' \in Int /\ level' - Open' = level - Open
  BY <1>1, <1>2
<1>4. /\ yychar' \in {yychar, "bad", NoToken} /\ yyerrflag' \in 0 .. 3
      /\ yyerrflag' > 0 => errors > 0
  BY ShiftFlag, AllShiftedFlag, KeptFlag
<1> QED
  BY <1>1, <1>3, <1>4, MoveKeepsIInv

LEMMA CallKeepsIInv ==
  ASSUME IInv, ShiftCall \/ ReduceCall
  PROVE  IInv' /\ LeakKept
<1>1. CASE ShiftCall
  <2>1. CASE Top = "{"
    <3> DEFINE e == Entry("call", <<calls>>)
    <3>1. /\ running /\ Quiet /\ AllShifted /\ stack' = Append(stack, e)
          /\ level' = level /\ ran' = ran
      BY <1>1, <2>1 DEF ShiftCall, Reads
    <3>2. e \in Entries /\ e.s = "call"
      BY EntryTypes, StackTypes DEF Symbols
    <3> HIDE DEF e
    <3> QED
      BY <3>1, <3>2, StackTypes, PushKeepsIInv DEF Structure
  <2>2. CASE Top # "{"
    <3> DEFINE e == Entry("stmt", <<calls>>)
    <3>1. /\ running /\ Quiet /\ AllShifted /\ stack' = Append(stack, e)
          /\ level' = level /\ Go(level, <<calls>>)
      BY <1>1, <2>2 DEF ShiftCall, Reads
    <3>2. e \in Entries /\ e.s = "stmt"
      BY EntryTypes, StackTypes DEF Symbols
    <3>3. ran' \in Seq(Nat) /\ (ran' = ran \/ level = 0)
      BY <3>1, GoTypes, StackTypes
    <3> HIDE DEF e
    <3> QED
      BY <3>1, <3>2, <3>3, StackTypes, PushKeepsIInv DEF Structure
  <2> QED
    BY <2>1, <2>2
<1>2. CASE ReduceCall
  <2> DEFINE e == Entry("stmt", TopIds)
             s == Drop(1)
  <2>1. /\ running /\ Quiet /\ Kept /\ stack' = Append(s, e)
        /\ level' = level /\ Go(level, TopIds) /\ Top = "call"
    BY <1>2 DEF ReduceCall, Reads
  <2>2. /\ Len(stack) > 0 /\ stack[Len(stack)].s \notin Structure /\ TopIds \in Seq(Nat)
        /\ stack \in Seq(Entries)
    BY <2>1, StackTypes DEF Structure
  <2>3. e \in Entries /\ e.s = "stmt"
    BY <2>2, EntryTypes DEF Symbols
  <2>4. ran' \in Seq(Nat) /\ (ran' = ran \/ level = 0)
    BY <2>1, <2>2, GoTypes, StackTypes
  <2>5. s \in Seq(Entries) /\ Cardinality(Ifs(s)) = Open
    BY <2>2, DropOne, StackTypes DEF Drop
  <2> HIDE DEF e, s
  <2> QED
    BY <2>1, <2>3, <2>4, <2>5, PushKeepsIInv DEF Structure
<1> QED
  BY <1>1, <1>2

LEMMA BlockKeepsIInv ==
  ASSUME IInv, OpenBlock \/ CloseBlock \/ EmptyList
  PROVE  IInv' /\ LeakKept
<1>1. CASE OpenBlock
  <2> DEFINE e == Entry("{", <<>>)
  <2>1. /\ running /\ Quiet /\ Shifted /\ stack' = Append(stack, e)
        /\ level' = level /\ ran' = ran
    BY <1>1 DEF OpenBlock, Reads
  <2>2. e \in Entries /\ e.s = "{"
    BY EntryTypes, StackTypes DEF Symbols
  <2> HIDE DEF e
  <2> QED
    BY <2>1, <2>2, StackTypes, PushKeepsIInv DEF Structure
<1>2. CASE CloseBlock
  <2> DEFINE e == Entry("stmt", TopIds)
             s == Drop(2)
  <2>1. /\ running /\ Quiet /\ Shifted /\ stack' = Append(s, e)
        /\ level' = level /\ ran' = ran /\ Top = "stml" /\ Below = "{"
    BY <1>2 DEF CloseBlock, Reads
  <2>2. /\ Len(stack) > 1 /\ stack[Len(stack)].s = "stml"
        /\ stack[Len(stack) - 1].s = "{"
        /\ TopIds \in Seq(Nat) /\ stack \in Seq(Entries)
    BY <2>1, StackTypes
  <2>3. e \in Entries /\ e.s = "stmt"
    BY <2>2, EntryTypes DEF Symbols
  <2>4. s \in Seq(Entries) /\ Cardinality(Ifs(s)) = Open
    BY <2>2, DropTwo, StackTypes DEF Drop, Structure
  <2> HIDE DEF e, s
  <2> QED
    BY <2>1, <2>3, <2>4, StackTypes, PushKeepsIInv DEF Structure
<1>3. CASE EmptyList
  <2> DEFINE x == IF Below = "{" THEN "call" ELSE "stmt"
             e == Entry(x, <<>>)
             s == Drop(1)
  <2>1. /\ running /\ Quiet /\ Shifted /\ stack' = Append(s, e)
        /\ level' = level /\ ran' = ran /\ Top = "{"
    BY <1>3 DEF EmptyList, Reads
  <2>2. /\ Len(stack) > 0 /\ stack[Len(stack)].s \notin Structure
        /\ stack \in Seq(Entries)
    BY <2>1, StackTypes DEF Structure
  <2>3. x \in {"call", "stmt"} /\ x \in Symbols /\ <<>> \in Seq(Nat)
    BY StackTypes DEF Symbols
  <2> HIDE DEF x
  <2>4. e \in Entries /\ e.s = x
    BY <2>3, EntryTypes
  <2>5. s \in Seq(Entries) /\ Cardinality(Ifs(s)) = Open
    BY <2>2, DropOne, StackTypes DEF Drop
  <2> HIDE DEF e, s
  <2> QED
    BY <2>1, <2>3, <2>4, <2>5, StackTypes, PushKeepsIInv DEF Structure
<1> QED
  BY <1>1, <1>2, <1>3

LEMMA ListKeepsIInv ==
  ASSUME IInv, ReduceList
  PROVE  IInv' /\ LeakKept
<1>1. Top = "stmt"
  BY DEF ReduceList
<1>2. /\ Len(stack) > 0 /\ stack[Len(stack)].s = "stmt"
      /\ TopIds \in Seq(Nat) /\ stack \in Seq(Entries)
  BY <1>1, StackTypes
<1>3. running /\ Quiet /\ (Shifted \/ Kept) /\ level' = level /\ ran' = ran
  BY DEF ReduceList, Reads
<1>4. CASE Below = "stml"
  <2> DEFINE ids == stack[Len(stack) - 1].ids \o TopIds
             e == Entry("stml", ids)
             s == Drop(2)
  <2>1. stack' = Append(s, e)
    BY <1>4 DEF ReduceList
  <2>2. /\ Len(stack) > 1 /\ stack[Len(stack) - 1].s = "stml"
        /\ stack[Len(stack) - 1].ids \in Seq(Nat)
    BY <1>4, StackTypes
  <2>3. ids \in Seq(Nat)
    BY <1>2, <2>2
  <2> HIDE DEF ids
  <2>4. e \in Entries /\ e.s = "stml"
    BY <2>3, EntryTypes DEF Symbols
  <2>5. s \in Seq(Entries) /\ Cardinality(Ifs(s)) = Open
    BY <1>2, <2>2, DropTwo, StackTypes DEF Drop, Structure
  <2> HIDE DEF e, s
  <2> QED
    BY <1>3, <2>1, <2>4, <2>5, StackTypes, PushKeepsIInv DEF Structure
<1>5. CASE Below # "stml"
  <2> DEFINE e == Entry("stml", TopIds)
             s == Drop(1)
  <2>1. stack' = Append(s, e)
    BY <1>5 DEF ReduceList
  <2>2. e \in Entries /\ e.s = "stml"
    BY <1>2, EntryTypes DEF Symbols
  <2>3. s \in Seq(Entries) /\ Cardinality(Ifs(s)) = Open
    BY <1>2, DropOne, StackTypes DEF Drop, Structure
  <2> HIDE DEF e, s
  <2> QED
    BY <1>3, <2>1, <2>2, <2>3, StackTypes, PushKeepsIInv DEF Structure
<1> QED
  BY <1>4, <1>5

(* The structures: each that comes or goes takes level along.              *)
LEMMA IfKeepsIInv ==
  ASSUME IInv, ShiftIf \/ ReduceCond \/ ReduceIf
  PROVE  IInv' /\ LeakKept
<1>1. CASE ShiftIf
  <2> DEFINE e == Entry("level", <<>>)
  <2>1. /\ running /\ Quiet /\ AllShifted /\ stack' = Append(stack, e)
        /\ level' = level + 1 /\ ran' = ran
    BY <1>1 DEF ShiftIf, Reads, Enter
  <2>2. e \in Entries /\ e.s \in Structure /\ e.s # "error"
    BY EntryTypes, StackTypes DEF Symbols, Structure
  <2> HIDE DEF e
  <2> QED
    BY <2>1, <2>2, StackTypes, PushKeepsIInv
<1>2. CASE ReduceCond
  <2> DEFINE e == Entry("if", <<>>)
             s == Drop(1)
  <2>1. /\ running /\ Quiet /\ Kept /\ stack' = Append(s, e)
        /\ level' = level /\ ran' = ran /\ Top = "level"
    BY <1>2 DEF ReduceCond, Reads
  <2>2. /\ Len(stack) > 0 /\ stack[Len(stack)].s \in Structure
        /\ stack \in Seq(Entries)
    BY <2>1, StackTypes DEF Structure
  <2>3. e \in Entries /\ e.s \in Structure /\ e.s # "error"
    BY EntryTypes, StackTypes DEF Symbols, Structure
  <2>4. s \in Seq(Entries) /\ Cardinality(Ifs(s)) = Open - 1
    BY <2>2, DropOne, StackTypes DEF Drop
  <2> HIDE DEF e, s
  <2> QED
    BY <2>1, <2>3, <2>4, StackTypes, PushKeepsIInv
<1>3. CASE ReduceIf
  <2> DEFINE e == Entry("stmt", TopIds)
             s == Drop(2)
  <2>1. /\ running /\ Quiet /\ Kept /\ stack' = Append(s, e)
        /\ level' = level - 1 /\ Go(level - 1, TopIds)
        /\ Top = "stmt" /\ Below = "if"
    BY <1>3 DEF ReduceIf, Reads, Leave
  <2>2. /\ Len(stack) > 1 /\ stack[Len(stack)].s \notin Structure
        /\ stack[Len(stack) - 1].s \in Structure
        /\ TopIds \in Seq(Nat) /\ stack \in Seq(Entries)
    BY <2>1, StackTypes DEF Structure
  <2>3. e \in Entries /\ e.s \notin Structure /\ e.s # "error"
    BY <2>2, EntryTypes DEF Symbols, Structure
  <2>4. s \in Seq(Entries) /\ Cardinality(Ifs(s)) = Open - 1
    BY <2>2, DropTwo, StackTypes DEF Drop
  <2>5. ran' \in Seq(Nat) /\ (ran' = ran \/ level' = 0)
    <3>1. ran' \in Seq(Nat) /\ (ran' = ran \/ level - 1 = 0)
      BY <2>1, <2>2, GoTypes, StackTypes
    <3> QED
      BY <2>1, <3>1
  <2> HIDE DEF e, s
  <2> QED
    BY <2>1, <2>3, <2>4, <2>5, PushKeepsIInv
<1> QED
  BY <1>1, <1>2, <1>3

LEMMA Between ==
  ASSUME NEW l \in Nat, NEW k \in Nat, l >= k + 0, l <= k + 0
  PROVE  l = k
  OBVIOUS

LEMMA StillAbove ==
  ASSUME NEW l \in Nat, NEW k \in Nat, NEW n \in Nat, NEW o \in Nat,
         l >= k + n, o <= n
  PROVE  l >= k + o
  OBVIOUS

(* Recovery may drop structures, never add one; level stays above.         *)
LEMMA ErrorKeepsIInv ==
  ASSUME IInv, Error
  PROVE  IInv' /\ LeakKept
<1> DEFINE e == Entry("error", <<>>)
<1>1. PICK k \in 0 .. Len(stack) : stack' = Append(Drop(k), e)
  BY DEF Error
<1>2. /\ running /\ errors' > 0 /\ errors' \in Nat /\ yyerrflag' = 3
      /\ UNCHANGED <<running, yychar, level, scanner, calls, ran, startLevel,
                     scripts>>
  BY DEF Error, IInv, TypeOK, ErrorCounted
<1>3. e \in Entries /\ e.s = "error"
  BY EntryTypes, StackTypes DEF Symbols
<1> HIDE DEF e
<1>4. Drop(k) \in Seq(Entries) /\ Cardinality(Ifs(Drop(k))) <= Open
  BY IfsOfDrop, StackTypes DEF Drop
<1>5. /\ Cardinality(Ifs(Drop(k))) \in Nat
      /\ stack' \in Seq(Entries) /\ Open' = Cardinality(Ifs(Drop(k)))
  BY <1>1, <1>3, <1>4, PushedTop, IfsFinite DEF Structure
<1>6. Covered'
  <2>1. /\ level \in Nat /\ startLevel \in Nat /\ Open \in Nat /\ Open' \in Nat
        /\ level >= startLevel + Open /\ Open' <= Open
    BY <1>4, <1>5, StackTypes DEF IInv, TypeOK, Covered
  <2>2. level >= startLevel + Open'
    BY <2>1, StillAbove
  <2> QED
    BY <1>2, <2>2 DEF Covered
<1>7. TypeOK'
  BY <1>2, <1>5 DEF IInv, TypeOK, scanner
<1>8. Balanced' /\ ErrorCounted' /\ AllClosed'
  BY <1>2 DEF Balanced, ErrorCounted, AllClosed
<1>9. CommentDepth'
  BY <1>2 DEF IInv, CommentDepth, scanner
<1>10. LeakKept
  <2>1. level \in Nat /\ Open \in Nat /\ Open' \in Nat /\ Open' <= Open
    BY <1>4, <1>5, StackTypes
  <2>2. level > Open => level > Open'
    BY <2>1
  <2> QED
    BY <1>2, <2>2 DEF LeakKept, Leaked
<1> QED
  BY <1>6, <1>7, <1>8, <1>9, <1>10 DEF IInv

LEMMA EndErrorKeepsIInv ==
  ASSUME IInv, EndError
  PROVE  IInv' /\ LeakKept
<1> DEFINE e == Entry("stmt", <<>>)
           s == Drop(1)
<1>1. /\ running /\ Quiet /\ stack' = Append(s, e) /\ Top = "error"
      /\ yychar' \in {"bad", NoToken} /\ yyerrflag' = 2
      /\ level' = level /\ ran' = ran
  BY DEF EndError, Reads
<1>2. errors > 0
  BY <1>1 DEF IInv, ErrorCounted
<1>3. /\ Len(stack) > 0 /\ stack[Len(stack)].s \notin Structure /\ stack \in Seq(Entries)
  BY <1>1, StackTypes DEF Structure
<1>4. e \in Entries /\ e.s = "stmt"
  BY EntryTypes, StackTypes DEF Symbols
<1>5. s \in Seq(Entries) /\ Cardinality(Ifs(s)) = Open
  BY <1>3, DropOne, StackTypes DEF Drop
<1> HIDE DEF e, s
<1>6. stack' \in Seq(Entries) /\ Top' = "stmt" /\ Open' = Open
  BY <1>1, <1>4, <1>5, PushedTop DEF Structure
<1>7. level' \in Int /\ level' - Open' = level - Open
  BY <1>1, <1>6, StackTypes
<1> QED
  BY <1>1, <1>2, <1>6, <1>7, StackTypes, MoveKeepsIInv

(* The lookahead and the scanner: the stack and level stay.                *)
LEMMA ScanKeepsIInv ==
  ASSUME IInv, UNCHANGED <<running, stack, yyerrflag, level, ran, errors,
                           startLevel, scripts>>,
         yychar' \in Lexemes \cup {"bad", NoToken, EOF}, calls' \in Nat,
         CommentDepth', cond' \in {"INIT", "COM", "CPCOM"}, comments' \in Nat,
         read' \in 0 .. MaxLexemes, plain' \in BOOLEAN
  PROVE  IInv' /\ LeakKept
<1>1. Top' = Top /\ Open' = Open
  BY DEF Top, SymbolAt, Open
<1>2. LeakKept
  BY <1>1 DEF LeakKept, Leaked
<1> QED
  BY <1>1, <1>2 DEF IInv, TypeOK, Covered, Balanced, ErrorCounted, AllClosed

LEMMA JustOne ==
  ASSUME NEW n \in Nat, n > 0, n <= 1
  PROVE  n = 1
  OBVIOUS

(* A structure on the stack would have kept the script from being complete. *)
LEMMA CompleteIsClosed ==
  ASSUME IInv, Complete
  PROVE  Open = 0
<1>1. /\ stack \in Seq(Entries) /\ Len(stack) \in Nat
      /\ \A i \in 1 .. Len(stack) : stack[i] \in Entries
  BY StackTypes
<1>2. \A i \in 1 .. Len(stack) : stack[i].s # "start"
  BY <1>1 DEF Entries, Symbols
<1>3. ASSUME Top = "start" PROVE Len(stack) = 0
  <2>1. CASE Len(stack) > 0
    <3>1. Top = stack[Len(stack)].s /\ Len(stack) \in 1 .. Len(stack)
      BY <1>1, <2>1 DEF Top, SymbolAt
    <3>2. stack[Len(stack)].s # "start"
      BY <1>2, <3>1
    <3> QED
      BY <1>3, <3>1, <3>2
  <2> QED
    BY <1>1, <2>1
<1>4. ASSUME Below = "start" PROVE Len(stack) <= 1
  <2>1. CASE Len(stack) > 1
    <3>1. Below = stack[Len(stack) - 1].s /\ Len(stack) - 1 \in 1 .. Len(stack)
      BY <1>1, <2>1 DEF Below, SymbolAt
    <3>2. stack[Len(stack) - 1].s # "start"
      BY <1>2, <3>1
    <3> QED
      BY <1>4, <3>1, <3>2
  <2> QED
    BY <1>1, <2>1
<1>5. Ifs(stack) = {}
  <2>1. CASE Top = "start"
    <3>1. Len(stack) = 0
      BY <1>3, <2>1
    <3>2. Ifs(stack) \subseteq 1 .. 0
      BY <1>1, <3>1, IfsFinite
    <3> QED
      BY <3>2
  <2>2. CASE Top = "stml" /\ Below = "start"
    <3>1. Len(stack) > 0 /\ stack[Len(stack)].s = "stml"
      BY <2>2, StackTypes
    <3>2. Len(stack) <= 1
      BY <1>4, <2>2
    <3>3. Len(stack) = 1
      BY <1>1, <3>1, <3>2, JustOne
    <3> QED
      BY <1>1, <3>1, <3>3 DEF Ifs, Structure
  <2> QED
    BY <2>1, <2>2 DEF Complete
<1> QED
  BY <1>5, FS_EmptySet DEF Open

(* yyparse() returns: nothing is open, or there was an error.              *)
LEMMA ReturnKeepsIInv ==
  ASSUME IInv, Accept \/ Abort
  PROVE  IInv' /\ LeakKept
<1>1. /\ running' = FALSE
      /\ UNCHANGED <<stack, yychar, yyerrflag, level, scanner, history, scripts>>
  BY DEF Accept, Abort
<1>2. Top' = Top /\ Open' = Open
  BY <1>1 DEF Top, SymbolAt, Open
<1>3. errors = 0 => Open = 0
  BY CompleteIsClosed DEF Accept, Abort, IInv, ErrorCounted
<1>4. AllClosed'
  BY <1>1, <1>2, <1>3 DEF AllClosed, history
<1>5. LeakKept
  <2>1. level \in Nat /\ Open \in Nat /\ (level > Open => level > 0)
    BY StackTypes
  <2> QED
    BY <1>1, <2>1 DEF LeakKept, Leaked, Accept, Abort, Reads, history
<1> QED
  BY <1>1, <1>2, <1>4, <1>5 DEF IInv, TypeOK, CommentDepth, Covered, Balanced,
     ErrorCounted, scanner, history

LEMMA DiscardKeepsIInv ==
  ASSUME IInv, Discard
  PROVE  IInv' /\ LeakKept
<1>1. /\ UNCHANGED <<running, stack, yyerrflag, level, ran, errors, startLevel,
                     scripts>>
      /\ UNCHANGED <<cond, comments, read, plain, calls>> /\ yychar' = NoToken
  BY DEF Discard, Discarded, Quiet, scanner
<1>2. CommentDepth'
  BY <1>1 DEF IInv, CommentDepth
<1> QED
  BY <1>1, <1>2, ScanKeepsIInv DEF IInv, TypeOK

LEMMA LexemesKeepIInv ==
  ASSUME IInv, Scan
  PROVE  IInv' /\ LeakKept
<1>0. /\ MaxLexemes \in Nat /\ read \in 0 .. MaxLexemes /\ comments \in Nat
      /\ calls \in Nat /\ plain \in BOOLEAN /\ cond \in {"INIT", "COM", "CPCOM"}
      /\ cond = "COM" <=> comments > 0
      /\ yychar \in Lexemes \cup {"bad", NoToken, EOF}
  BY BoundsAssumption DEF IInv, TypeOK, CommentDepth
<1>1. CASE \E x \in Lexemes : ReadComment(x)
  <2>1. PICK x \in Lexemes : ReadComment(x)
    BY <1>1
  <2>2. /\ UNCHANGED <<running, stack, yychar, yyerrflag, level, history, scripts>>
        /\ Comment(x) /\ read < MaxLexemes /\ read' = read + 1 /\ plain' = FALSE
    BY <2>1 DEF ReadComment
  <2>3. comments' \in Nat /\ cond' \in {"INIT", "COM", "CPCOM"} /\ CommentDepth'
    BY <1>0, <2>2 DEF Comment, CommentDepth
  <2>4. read' \in 0 .. MaxLexemes
    BY <1>0, <2>2
  <2> QED
    BY <1>0, <2>2, <2>3, <2>4, ScanKeepsIInv DEF history
<1>2. CASE \E x \in Lexemes : ReadToken(x)
  <2>1. PICK x \in Lexemes : ReadToken(x)
    BY <1>2
  <2>2. /\ UNCHANGED <<running, stack, yyerrflag, level, cond, comments, plain,
                       ran, errors, startLevel, scripts>>
        /\ read < MaxLexemes /\ read' = read + 1 /\ yychar' \in {x, "bad"}
        /\ calls' \in {calls, calls + 1}
    BY <2>1 DEF ReadToken, Token
  <2>3. CommentDepth' /\ read' \in 0 .. MaxLexemes /\ calls' \in Nat
    BY <1>0, <2>2 DEF CommentDepth
  <2> QED
    BY <1>0, <2>2, <2>3, ScanKeepsIInv
<1>3. CASE ReadNewline
  <2>1. /\ UNCHANGED <<running, stack, yychar, yyerrflag, level, cond, comments,
                       plain, history, scripts>>
        /\ read < MaxLexemes /\ read' = read + 1
    BY <1>3 DEF ReadNewline
  <2>2. CommentDepth' /\ read' \in 0 .. MaxLexemes
    BY <1>0, <2>1 DEF CommentDepth
  <2> QED
    BY <1>0, <2>1, <2>2, ScanKeepsIInv DEF history
<1>4. CASE ReadEOF
  <2>1. /\ UNCHANGED <<running, stack, yyerrflag, level, scanner, history, scripts>>
        /\ yychar' = EOF
    BY <1>4 DEF ReadEOF
  <2>2. CommentDepth'
    BY <1>0, <2>1 DEF CommentDepth, scanner
  <2> QED
    BY <1>0, <2>1, <2>2, ScanKeepsIInv DEF history, scanner
<1> QED
  BY <1>1, <1>2, <1>3, <1>4 DEF Scan

(* The next script starts with an empty stack, and with level as it is.    *)
LEMMA BeginKeepsIInv ==
  ASSUME IInv, Begin
  PROVE  IInv' /\ LeakKept
<1>1. /\ running' = TRUE /\ scripts < MaxScripts /\ scripts' = scripts + 1
      /\ stack' = <<>> /\ yychar' = NoToken /\ yyerrflag' = 0 /\ errors' = 0
      /\ read' = 0 /\ calls' = 0 /\ ran' = <<>> /\ startLevel' = level
      /\ plain' \in BOOLEAN /\ UNCHANGED <<level, cond, comments>>
  BY DEF Begin
<1>2. /\ scripts' \in 0 .. MaxScripts /\ 0 \in 0 .. MaxLexemes
      /\ level \in Nat /\ <<>> \in Seq(Entries)
  BY <1>1, BoundsAssumption DEF IInv, TypeOK
<1>3. Top' = "start"
  BY <1>1 DEF Top, SymbolAt
<1>4. Ifs(stack') = {}
  BY <1>1 DEF Ifs
<1>5. Open' = 0
  BY <1>4, FS_EmptySet DEF Open
<1>6. TypeOK'
  BY <1>1, <1>2 DEF IInv, TypeOK
<1>7. Covered' /\ Balanced'
  <2>1. level >= level + 0 /\ level <= level + 0
    BY <1>2
  <2> QED
    BY <1>1, <1>5, <2>1 DEF Covered, Balanced
<1>8. LeakKept
  BY <1>1, <1>5 DEF LeakKept, Leaked, Begin
<1> QED
  BY <1>1, <1>3, <1>6, <1>7, <1>8 DEF IInv, CommentDepth, ErrorCounted, AllClosed

LEMMA InitIInv == Init => IInv
<1> SUFFICES ASSUME Init PROVE IInv
  OBVIOUS
<1>1. 0 \in 0 .. MaxLexemes /\ 0 \in 0 .. MaxScripts
  BY BoundsAssumption
<1>2. TypeOK
  <2>1. <<>> \in Seq(Entries) /\ <<>> \in Seq(Nat)
    OBVIOUS
  <2>2. stack \in Seq(Entries) /\ ran \in Seq(Nat)
    BY <2>1 DEF Init
  <2>3. /\ running \in BOOLEAN /\ plain \in BOOLEAN
        /\ cond \in {"INIT", "COM", "CPCOM"}
        /\ yychar \in Lexemes \cup {"bad", NoToken, EOF}
    BY DEF Init
  <2>4. /\ yyerrflag \in 0 .. 3 /\ level \in Nat /\ startLevel \in Nat
        /\ errors \in Nat /\ comments \in Nat /\ calls \in Nat
    BY DEF Init
  <2>5. read \in 0 .. MaxLexemes /\ scripts \in 0 .. MaxScripts
    BY <1>1 DEF Init
  <2> QED
    BY <2>2, <2>3, <2>4, <2>5 DEF TypeOK
<1>3. Ifs(stack) = {}
  BY DEF Init, Ifs
<1>4. Open = 0
  BY <1>3, FS_EmptySet DEF Open
<1>5. Top = "start"
  BY DEF Init, Top, SymbolAt
<1> QED
  BY <1>2, <1>4, <1>5 DEF Init, IInv, CommentDepth, Covered, Balanced,
     ErrorCounted, AllClosed

LEMMA NextIInv == IInv /\ [Next]_vars => IInv' /\ LeakKept
<1> SUFFICES ASSUME IInv, [Next]_vars PROVE IInv' /\ LeakKept
  OBVIOUS
<1>1. CASE Begin
  BY <1>1, BeginKeepsIInv
<1>2. CASE Scan
  BY <1>2, LexemesKeepIInv
<1>3. CASE Parse
  BY <1>3, CallKeepsIInv, BlockKeepsIInv, ListKeepsIInv, IfKeepsIInv,
     ErrorKeepsIInv, EndErrorKeepsIInv, ReturnKeepsIInv, DiscardKeepsIInv
     DEF Parse
<1>4. CASE UNCHANGED vars
  <2>1. CommentDepth'
    BY <1>4 DEF vars, scanner, IInv, CommentDepth
  <2> QED
    BY <1>4, <2>1, ScanKeepsIInv DEF vars, scanner, history, IInv, TypeOK
<1> QED
  BY <1>1, <1>2, <1>3, <1>4 DEF Next

LEMMA Inductive == Spec => []IInv
  BY InitIInv, NextIInv, PTL DEF Spec

(* For scripts of any length and any number of them, scanner and parser    *)
(* keep their types: comments never close more than were opened, and level *)
(* is never negative, wherever recovery leaves a structure.                *)
THEOREM TypeCorrect == Spec => []TypeOK
<1>1. IInv => TypeOK
  BY DEF IInv
<1> QED
  BY <1>1, Inductive, PTL

(* Nothing in a structure runs before the structure is complete: level is  *)
(* at least the number of structures on the parser's stack.                *)
THEOREM StructuresAreCovered == Spec => []LevelCovers
<1>1. IInv => LevelCovers
  BY DEF IInv, Covered, LevelCovers
<1> QED
  BY <1>1, Inductive, PTL

(* A script without a syntax error leaves level as it found it.            *)
THEOREM OnlyErrorsLeak == Spec => []LevelReturns
<1>1. ASSUME IInv PROVE LevelReturns
  <2>1. level \in Nat /\ startLevel \in Nat
    BY <1>1 DEF IInv, TypeOK
  <2>2. ASSUME ~running, errors = 0 PROVE level = startLevel
    <3>1. Open = 0
      BY <1>1, <2>2 DEF IInv, AllClosed
    <3>2. level >= startLevel + Open /\ level <= startLevel + Open
      BY <1>1, <2>2 DEF IInv, Covered, Balanced
    <3>3. level >= startLevel + 0 /\ level <= startLevel + 0
      BY <3>1, <3>2, Zenon
    <3> QED
      BY <2>1, <3>3, Between
  <2> QED
    BY <2>2 DEF LevelReturns
<1> QED
  BY <1>1, Inductive, PTL

(* A structure that recovery dropped is never made good: level stays above  *)
(* the structures that are open, in this script and in all later ones, and  *)
(* nothing more is executed.                                                *)
THEOREM LeaksSilence == Spec => LeakLasts
<1>1. IInv /\ [Next]_vars => [Leaked => Leaked' /\ (ran' = ran \/ ran' = <<>>)]_vars
  BY NextIInv DEF LeakKept
<1> QED
  BY <1>1, Inductive, PTL DEF Spec, LeakLasts

-----------------------------------------------------------------------------
(* What runs, and in which order.                                          *)

LEMMA Stacks ==
  ASSUME NEW st \in Seq(Entries)
  PROVE  /\ Len(st) \in Nat /\ DOMAIN st = 1 .. Len(st)
         /\ \A i \in 1 .. Len(st) : st[i] \in Entries /\ st[i].ids \in Seq(Nat)
         /\ Waiting(st) \subseteq 1 .. Len(st)
<1>1. DOMAIN st = 1 .. Len(st) /\ \A i \in 1 .. Len(st) : st[i] \in Entries
  OBVIOUS
<1> QED
  BY <1>1 DEF Waiting, Entries

LEMMA Pushed ==
  ASSUME NEW s \in Seq(Entries), NEW e \in Entries
  PROVE  /\ Append(s, e) \in Seq(Entries) /\ Len(Append(s, e)) = Len(s) + 1
         /\ Append(s, e)[Len(s) + 1] = e
         /\ \A i \in 1 .. Len(s) : Append(s, e)[i] = s[i]
  OBVIOUS

(* What waits below a push is what waited, and what is pushed waits if it  *)
(* is a call or in a structure.                                            *)
LEMMA WaitingAfterPush ==
  ASSUME NEW s \in Seq(Entries), NEW e \in Entries
  PROVE  /\ Waiting(s) = Waiting(Append(s, e)) \cap (1 .. Len(s))
         /\ Waiting(Append(s, e)) \subseteq Waiting(s) \cup {Len(s) + 1}
         /\ Len(s) + 1 \in Waiting(Append(s, e)) <=> e.s = "call" \/ Ifs(s) # {}
<1> DEFINE t == Append(s, e)
<1>1. /\ t \in Seq(Entries) /\ DOMAIN t = 1 .. Len(s) + 1 /\ DOMAIN s = 1 .. Len(s)
      /\ Len(s) \in Nat /\ t[Len(s) + 1] = e
      /\ \A i \in 1 .. Len(s) : t[i] = s[i]
  BY Pushed
<1> HIDE DEF t
<1>2. \A i \in 1 .. Len(s) : i \in Waiting(t) <=> i \in Waiting(s)
  <2> TAKE i \in 1 .. Len(s)
  <2>1. \A j \in 1 .. i - 1 : j \in 1 .. Len(s) /\ t[j] = s[j]
    BY <1>1
  <2>2. t[i] = s[i] /\ i \in DOMAIN t /\ i \in DOMAIN s
    BY <1>1
  <2> QED
    BY <2>1, <2>2 DEF Waiting
<1>3. Len(s) + 1 \in Waiting(t) <=> e.s = "call" \/ Ifs(s) # {}
  <2>1. (Len(s) + 1) - 1 = Len(s) /\ Len(s) + 1 \in DOMAIN t
    BY <1>1
  <2>2. (\E j \in 1 .. Len(s) : t[j].s \in Structure) <=> Ifs(s) # {}
    BY <1>1 DEF Ifs
  <2> QED
    BY <1>1, <2>1, <2>2 DEF Waiting
<1>4. Waiting(t) \subseteq (1 .. Len(s)) \cup {Len(s) + 1}
  BY <1>1 DEF Waiting
<1>5. Waiting(s) \subseteq 1 .. Len(s)
  BY Stacks
<1> QED
  BY <1>2, <1>3, <1>4, <1>5 DEF t

LEMMA WaitingBelow ==
  ASSUME NEW st \in Seq(Entries), NEW k \in 0 .. Len(st)
  PROVE  Waiting(SubSeq(st, 1, k)) = Waiting(st) \cap (1 .. k)
<1> DEFINE s == SubSeq(st, 1, k)
<1>1. /\ s \in Seq(Entries) /\ Len(s) = k /\ \A i \in 1 .. k : s[i] = st[i]
  BY Prefix
<1>2. k \in Nat /\ DOMAIN s = 1 .. k /\ DOMAIN st = 1 .. Len(st) /\ 1 .. k \subseteq DOMAIN st
  BY <1>1
<1> HIDE DEF s
<1>3. \A i \in 1 .. k : i \in Waiting(s) <=> i \in Waiting(st)
  <2> TAKE i \in 1 .. k
  <2>1. \A j \in 1 .. i - 1 : j \in 1 .. k /\ s[j] = st[j]
    BY <1>1, <1>2
  <2> QED
    BY <1>1, <1>2, <2>1 DEF Waiting
<1>4. Waiting(s) \subseteq 1 .. k
  BY <1>2 DEF Waiting
<1> QED
  BY <1>3, <1>4 DEF s

(* Calls that may follow all those a stack holds and all that ran.         *)
Follows(ids, s, r, n) ==
  /\ ids \in Seq(Nat) /\ Increasing(ids) /\ Range(ids) \subseteq 1 .. n
  /\ Before(Range(r), Range(ids))
  /\ \A j \in Waiting(s) : Before(Range(s[j].ids), Range(ids))

LEMMA NoneFollow ==
  ASSUME NEW s, NEW r, NEW n
  PROVE  Follows(<<>>, s, r, n)
  BY DEF Follows, Increasing, Range, Before

LEMMA OrderedBelow ==
  ASSUME NEW st \in Seq(Entries), NEW k \in 0 .. Len(st), NEW r, NEW n,
         Ordered(st, r, n)
  PROVE  Ordered(SubSeq(st, 1, k), r, n)
<1> DEFINE s == SubSeq(st, 1, k)
<1>1. \A i \in Waiting(s) : i \in Waiting(st) /\ s[i] = st[i]
  BY WaitingBelow, Prefix
<1> HIDE DEF s
<1> QED
  BY <1>1 DEF Ordered, s

(* What waits at some height follows all that waits below.                 *)
LEMMA TopFollows ==
  ASSUME NEW st \in Seq(Entries), NEW k \in 0 .. Len(st), NEW r, NEW n,
         Ordered(st, r, n), NEW i \in Waiting(st), i > k
  PROVE  Follows(st[i].ids, SubSeq(st, 1, k), r, n)
<1> DEFINE s == SubSeq(st, 1, k)
<1>1. \A j \in Waiting(s) : j \in Waiting(st) /\ j < i /\ s[j] = st[j]
  <2>1. \A j \in 1 .. k : j < i
    BY Stacks
  <2> QED
    BY <2>1, WaitingBelow, Prefix
<1>2. st[i].ids \in Seq(Nat)
  BY Stacks
<1> HIDE DEF s
<1>3. \A j \in Waiting(s) : Before(Range(s[j].ids), Range(st[i].ids))
  BY <1>1 DEF Ordered
<1> QED
  BY <1>2, <1>3 DEF Ordered, Follows, s

LEMMA OrderedPush ==
  ASSUME NEW s \in Seq(Entries), NEW e \in Entries, NEW r,
         NEW n \in Nat, NEW m \in Nat, n <= m, Ordered(s, r, n),
         (e.s = "call" \/ Ifs(s) # {}) => Follows(e.ids, s, r, m)
  PROVE  Ordered(Append(s, e), r, m)
<1> DEFINE t == Append(s, e)
<1>1. /\ Waiting(s) = Waiting(t) \cap (1 .. Len(s))
      /\ Waiting(t) \subseteq Waiting(s) \cup {Len(s) + 1}
      /\ Len(s) + 1 \in Waiting(t) <=> e.s = "call" \/ Ifs(s) # {}
  BY WaitingAfterPush
<1>2. /\ t[Len(s) + 1] = e /\ Len(s) \in Nat
      /\ \A i \in 1 .. Len(s) : t[i] = s[i] /\ i < Len(s) + 1 /\ ~ (Len(s) + 1 < i)
  BY Pushed
<1>3. 1 .. n \subseteq 1 .. m
  OBVIOUS
<1> HIDE DEF t
<1>4. \A i \in Waiting(s) : i \in Waiting(t) /\ t[i] = s[i] /\ ~ (Len(s) + 1 < i)
  BY <1>1, <1>2
<1>5. Increasing(r) /\ Range(r) \subseteq 1 .. m
  BY <1>3 DEF Ordered
<1>6. ASSUME NEW i \in Waiting(t)
      PROVE  /\ Increasing(t[i].ids) /\ Range(t[i].ids) \subseteq 1 .. m
             /\ Before(Range(r), Range(t[i].ids))
             /\ \A j \in Waiting(t) :
                  j < i => Before(Range(t[j].ids), Range(t[i].ids))
  <2>1. CASE i \in Waiting(s)
    <3>1. \A j \in Waiting(t) : j < i => j \in Waiting(s) /\ t[j] = s[j]
      BY <1>1, <1>4, <2>1
    <3> QED
      BY <1>3, <1>4, <2>1, <3>1 DEF Ordered
  <2>2. CASE i = Len(s) + 1
    <3>1. Follows(e.ids, s, r, m)
      BY <1>1, <2>2
    <3>2. \A j \in Waiting(t) : j < i => j \in Waiting(s) /\ t[j] = s[j]
      BY <1>1, <1>2, <1>4, <2>2
    <3>3. t[i] = e
      BY <1>2, <2>2
    <3> QED
      BY <3>1, <3>2, <3>3 DEF Follows
  <2> QED
    BY <1>1, <2>1, <2>2
<1> QED
  BY <1>5, <1>6 DEF Ordered, t

LEMMA RangeOfConcat ==
  ASSUME NEW a \in Seq(Nat), NEW b \in Seq(Nat)
  PROVE  Range(a \o b) = Range(a) \cup Range(b)
<1>1. /\ Len(a \o b) = Len(a) + Len(b) /\ Len(a) \in Nat /\ Len(b) \in Nat
      /\ DOMAIN a = 1 .. Len(a) /\ DOMAIN b = 1 .. Len(b)
      /\ DOMAIN (a \o b) = 1 .. Len(a) + Len(b)
      /\ \A i \in 1 .. Len(a) : (a \o b)[i] = a[i]
      /\ \A i \in Len(a) + 1 .. Len(a) + Len(b) : (a \o b)[i] = b[i - Len(a)]
  OBVIOUS
<1> DEFINE c == a \o b
<1> HIDE DEF c
<1>2. Range(c) \subseteq Range(a) \cup Range(b)
  <2> SUFFICES ASSUME NEW i \in DOMAIN c PROVE c[i] \in Range(a) \cup Range(b)
    BY DEF Range
  <2>1. CASE i <= Len(a)
    BY <1>1, <2>1 DEF c, Range
  <2>2. CASE i > Len(a)
    <3>1. i - Len(a) \in DOMAIN b /\ c[i] = b[i - Len(a)]
      BY <1>1, <2>2 DEF c
    <3> QED
      BY <3>1 DEF Range
  <2> QED
    BY <1>1, <2>1, <2>2 DEF c
<1>3. Range(a) \subseteq Range(c)
  <2> SUFFICES ASSUME NEW i \in DOMAIN a PROVE a[i] \in Range(c)
    BY DEF Range
  <2>1. i \in DOMAIN c /\ c[i] = a[i]
    BY <1>1 DEF c
  <2> QED
    BY <2>1 DEF Range
<1>4. Range(b) \subseteq Range(c)
  <2> SUFFICES ASSUME NEW i \in DOMAIN b PROVE b[i] \in Range(c)
    BY DEF Range
  <2>1. i + Len(a) \in DOMAIN c /\ i + Len(a) - Len(a) = i /\ i + Len(a) \in Len(a) + 1 .. Len(a) + Len(b)
    BY <1>1 DEF c
  <2>2. c[i + Len(a)] = b[i]
    BY <1>1, <2>1 DEF c
  <2> QED
    BY <2>1, <2>2 DEF Range
<1> QED
  BY <1>2, <1>3, <1>4 DEF c

LEMMA IncreasingConcat ==
  ASSUME NEW a \in Seq(Nat), NEW b \in Seq(Nat), Increasing(a), Increasing(b),
         Before(Range(a), Range(b))
  PROVE  Increasing(a \o b)
<1>1. /\ Len(a) \in Nat /\ Len(b) \in Nat
      /\ DOMAIN a = 1 .. Len(a) /\ DOMAIN b = 1 .. Len(b)
      /\ DOMAIN (a \o b) = 1 .. Len(a) + Len(b)
      /\ \A i \in 1 .. Len(a) : (a \o b)[i] = a[i]
      /\ \A i \in Len(a) + 1 .. Len(a) + Len(b) : (a \o b)[i] = b[i - Len(a)]
  OBVIOUS
<1> DEFINE c == a \o b
<1> HIDE DEF c
<1> SUFFICES ASSUME NEW i \in DOMAIN c, NEW j \in DOMAIN c, i < j
             PROVE  c[i] < c[j]
  BY DEF Increasing, c
<1>2. CASE j <= Len(a)
  <2>1. i \in DOMAIN a /\ j \in DOMAIN a /\ c[i] = a[i] /\ c[j] = a[j]
    BY <1>1, <1>2 DEF c
  <2> QED
    BY <2>1 DEF Increasing
<1>3. CASE i > Len(a)
  <2>1. /\ i - Len(a) \in DOMAIN b /\ j - Len(a) \in DOMAIN b
        /\ i - Len(a) < j - Len(a)
        /\ c[i] = b[i - Len(a)] /\ c[j] = b[j - Len(a)]
    BY <1>1, <1>3 DEF c
  <2> QED
    BY <2>1 DEF Increasing
<1>4. CASE i <= Len(a) /\ j > Len(a)
  <2>1. /\ i \in DOMAIN a /\ j - Len(a) \in DOMAIN b
        /\ c[i] = a[i] /\ c[j] = b[j - Len(a)]
    BY <1>1, <1>4 DEF c
  <2> QED
    BY <2>1 DEF Before, Range
<1> QED
  BY <1>1, <1>2, <1>3, <1>4 DEF c

(* Calls that are executed when nothing waits below them.                  *)
LEMMA OrderedRun ==
  ASSUME NEW s \in Seq(Entries), NEW r \in Seq(Nat), NEW n \in Nat,
         NEW m \in Nat, n <= m, NEW ids, Ordered(s, r, n), Waiting(s) = {},
         Follows(ids, s, r, m)
  PROVE  Ordered(s, r \o ids, m) /\ Range(r \o ids) = Range(r) \cup Range(ids)
<1>1. ids \in Seq(Nat) /\ 1 .. n \subseteq 1 .. m
  BY DEF Follows
<1>2. Range(r \o ids) = Range(r) \cup Range(ids)
  BY <1>1, RangeOfConcat
<1>3. Increasing(r \o ids)
  BY <1>1, IncreasingConcat DEF Ordered, Follows
<1> QED
  BY <1>1, <1>2, <1>3 DEF Ordered, Follows

(* An entry takes the place of those above the k-th: its calls follow what *)
(* is below and what ran, and may run unless there is a structure below.   *)
Joins(st, k, e, r, q, n, m) ==
  /\ n \in Nat /\ m \in Nat /\ n <= m
  /\ \A i \in 1 .. k : st[i].s # "call"
  /\ \/ e.s = "call" \/ Ifs(SubSeq(st, 1, k)) # {} \/ q # r
     => Follows(e.ids, SubSeq(st, 1, k), r, m)
  /\ \/ q = r
     \/ q = r \o e.ids /\ Ifs(SubSeq(st, 1, k)) = {} /\ e.s # "call"

LEMMA JoinOrdered ==
  ASSUME NEW st \in Seq(Entries), NEW k \in 0 .. Len(st), NEW e \in Entries,
         NEW r \in Seq(Nat), NEW q, NEW n, NEW m,
         Ordered(st, r, n), Joins(st, k, e, r, q, n, m)
  PROVE  /\ Ordered(Append(SubSeq(st, 1, k), e), q, m)
         /\ CallOnTop(Append(SubSeq(st, 1, k), e))
<1> DEFINE s == SubSeq(st, 1, k)
<1>1. s \in Seq(Entries) /\ Len(s) = k /\ \A i \in 1 .. k : s[i] = st[i]
  BY Prefix
<1>2. n \in Nat /\ m \in Nat /\ n <= m /\ \A i \in 1 .. k : st[i].s # "call"
  BY DEF Joins
<1>3. Ordered(s, r, n)
  BY OrderedBelow
<1>4. CallOnTop(Append(s, e))
  BY <1>1, <1>2, Pushed DEF CallOnTop
<1>5. CASE q = r
  <2>1. e.s = "call" \/ Ifs(s) # {} => Follows(e.ids, s, r, m)
    BY DEF Joins
  <2> HIDE DEF s
  <2>2. Ordered(Append(s, e), r, m)
    BY <1>1, <1>2, <1>3, <2>1, OrderedPush
  <2> QED
    BY <1>4, <1>5, <2>2 DEF s
<1>6. CASE q # r
  <2>1. /\ q = r \o e.ids /\ Ifs(s) = {} /\ e.s # "call"
        /\ Follows(e.ids, s, r, m)
    BY <1>6 DEF Joins
  <2>2. Waiting(s) = {}
    <3>1. \A i \in 1 .. k : s[i].s \notin Structure
      <4>1. DOMAIN s = 1 .. k /\ Ifs(s) = {}
        BY <1>1, <2>1
      <4> HIDE DEF s
      <4> QED
        BY <4>1 DEF Ifs
    <3>2. k \in Nat /\ \A i \in 1 .. k : s[i].s # "call" /\ \A j \in 1 .. i - 1 : j \in 1 .. k
      BY <1>1, <1>2
    <3> HIDE DEF s
    <3> QED
      BY <1>1, <3>1, <3>2 DEF Waiting
  <2> HIDE DEF s
  <2>3. Ordered(s, q, m)
    BY <1>1, <1>2, <1>3, <2>1, <2>2, OrderedRun
  <2>4. Ordered(Append(s, e), q, m)
    BY <1>1, <1>2, <2>1, <2>3, OrderedPush
  <2> QED
    BY <1>4, <2>4 DEF s
<1> QED
  BY <1>5, <1>6

(* None of the calls is lost: those of the entries that go are in the one  *)
(* that comes, and it waits or they run.                                   *)
Passes(st, k, e, r, q, n, m) ==
  LET on == e.s = "call" \/ Ifs(SubSeq(st, 1, k)) # {} \/ q = r \o e.ids
  IN  /\ \A i \in Waiting(st) :
           i > k => \A c \in Range(st[i].ids) : c \in Range(e.ids) /\ on
      /\ m = n \/ (m = n + 1 /\ m \in Range(e.ids) /\ on)

LEMMA JoinKept ==
  ASSUME NEW st \in Seq(Entries), NEW k \in 0 .. Len(st), NEW e \in Entries,
         NEW r \in Seq(Nat), NEW q, NEW n, NEW m, AllKept(st, r, n),
         Joins(st, k, e, r, q, n, m), Passes(st, k, e, r, q, n, m)
  PROVE  AllKept(Append(SubSeq(st, 1, k), e), q, m)
<1> DEFINE s == SubSeq(st, 1, k)
           t == Append(s, e)
           on == e.s = "call" \/ Ifs(s) # {} \/ q = r \o e.ids
<1>1. s \in Seq(Entries) /\ Len(s) = k /\ \A i \in 1 .. k : s[i] = st[i]
  BY Prefix
<1>2. /\ Waiting(s) = Waiting(st) \cap (1 .. k)
      /\ Waiting(st) \subseteq 1 .. Len(st) /\ Len(st) \in Nat
  BY WaitingBelow, Stacks
<1>3. /\ Waiting(s) = Waiting(t) \cap (1 .. k)
      /\ k + 1 \in Waiting(t) <=> e.s = "call" \/ Ifs(s) # {}
      /\ t[k + 1] = e /\ \A i \in 1 .. k : t[i] = s[i]
  <2> HIDE DEF s
  <2> QED
    BY <1>1, WaitingAfterPush, Pushed
<1>4. Range(r) \subseteq Range(q) /\ (q = r \o e.ids => Range(e.ids) \subseteq Range(q))
  <2>1. e.ids \in Seq(Nat)
    BY DEF Entries
  <2>2. q = r \/ q = r \o e.ids
    BY DEF Joins
  <2> QED
    BY <2>1, <2>2, RangeOfConcat
<1>5. /\ \A i \in Waiting(st) :
           i > k => \A c \in Range(st[i].ids) : c \in Range(e.ids) /\ on
      /\ m = n \/ (m = n + 1 /\ m \in Range(e.ids) /\ on)
  BY DEF Passes
<1>6. n \in Nat
  BY DEF Joins
<1>7. \A i \in 1 .. k : t[i] = st[i]
  BY <1>1, <1>3
<1> HIDE DEF s, t
<1>8. ASSUME NEW c \in Range(e.ids), on
      PROVE  c \in Range(q) \/ \E i \in Waiting(t) : c \in Range(t[i].ids)
  <2>1. CASE q = r \o e.ids
    BY <1>4, <2>1
  <2>2. CASE e.s = "call" \/ Ifs(s) # {}
    BY <1>3, <2>2
  <2> QED
    BY <1>8, <2>1, <2>2
<1>9. ASSUME NEW c \in 1 .. m
      PROVE  c \in Range(q) \/ \E i \in Waiting(t) : c \in Range(t[i].ids)
  <2>1. CASE c \in 1 .. n
    <3>1. CASE c \in Range(r)
      BY <1>4, <3>1
    <3>2. CASE \E i \in Waiting(st) : c \in Range(st[i].ids)
      <4>1. PICK i \in Waiting(st) : c \in Range(st[i].ids)
        BY <3>2
      <4>2. CASE i > k
        BY <1>5, <1>8, <4>1, <4>2
      <4>3. CASE ~ (i > k)
        <5>1. i \in 1 .. k
          BY <1>2, <4>3
        <5> QED
          BY <1>2, <1>3, <1>7, <4>1, <5>1
      <4> QED
        BY <4>2, <4>3
    <3> QED
      BY <2>1, <3>1, <3>2 DEF AllKept
  <2>2. CASE c \notin 1 .. n
    <3>1. c = m /\ m # n
      BY <1>5, <1>6, <2>2
    <3> QED
      BY <1>5, <1>8, <3>1
  <2> QED
    BY <2>1, <2>2
<1> QED
  BY <1>9 DEF AllKept, t, s

LEMMA SeenTypes ==
  ASSUME IInv, OrderInv
  PROVE  /\ Seen \in Nat /\ calls \in Nat
         /\ yychar = "call" => calls = Seen + 1
         /\ yychar # "call" => calls = Seen
  BY DEF IInv, TypeOK, OrderInv, Seen

Bare(e) == e.s \in {"{", "level", "if"} => e.ids = <<>>

LEMMA KeywordsAfterPush ==
  ASSUME NEW st \in Seq(Entries), NEW k \in 0 .. Len(st), NEW e \in Entries,
         Bare(e), \A i \in DOMAIN st : Bare(st[i])
  PROVE  \A i \in DOMAIN Append(SubSeq(st, 1, k), e) :
           Bare(Append(SubSeq(st, 1, k), e)[i])
<1> DEFINE s == SubSeq(st, 1, k)
           t == Append(s, e)
<1>1. s \in Seq(Entries) /\ Len(s) = k /\ \A i \in 1 .. k : s[i] = st[i]
  BY Prefix
<1>2. 1 .. k \subseteq DOMAIN st /\ k \in Nat
  BY Stacks
<1> HIDE DEF s
<1>3. /\ t \in Seq(Entries) /\ Len(t) = k + 1 /\ t[k + 1] = e
      /\ \A i \in 1 .. k : t[i] = st[i]
  BY <1>1, Pushed
<1> HIDE DEF t
<1>4. \A i \in DOMAIN t : i \in 1 .. k \/ i = k + 1
  BY <1>2, <1>3
<1> QED
  BY <1>2, <1>3, <1>4 DEF s, t

(* Likewise for the parser's moves: what they keep of the stack holds no   *)
(* call, and what they push is as above.                                   *)
LEMMA MoveKeepsOrder ==
  ASSUME IInv, OrderInv, running, UNCHANGED <<running, startLevel>>,
         errors' = 0 => errors = 0,
         NEW k \in 0 .. Len(stack), NEW e \in Entries,
         stack' = Append(SubSeq(stack, 1, k), e),
         e.s \in {"{", "level", "if"} => e.ids = <<>>,
         Joins(stack, k, e, ran, ran', Seen, Seen'),
         errors' = 0 /\ startLevel = 0 =>
           Passes(stack, k, e, ran, ran', Seen, Seen')
  PROVE  OrderInv'
<1>0. stack \in Seq(Entries) /\ ran \in Seq(Nat)
  BY DEF IInv, TypeOK
<1>1. /\ stack \in Seq(Entries) /\ ran \in Seq(Nat) /\ Len(stack) \in Nat
      /\ DOMAIN stack = 1 .. Len(stack)
  BY <1>0, Stacks
<1>2. Ordered(stack, ran, Seen) /\ KeywordsHoldNone /\ NoneLost
  BY DEF OrderInv
<1>3. Ordered(stack', ran', Seen') /\ CallOnTop(stack')
  BY <1>1, <1>2, JoinOrdered
<1>4. Seen' \in Nat
  BY DEF Joins
<1>5. NoneLost'
  <2> SUFFICES ASSUME errors' = 0, startLevel = 0
               PROVE  AllKept(stack', ran', Seen')
    BY DEF NoneLost
  <2>2. AllKept(stack, ran, Seen)
    BY <1>2 DEF NoneLost
  <2> QED
    BY <1>1, <2>2, JoinKept
<1>6. KeywordsHoldNone'
  <2>1. Bare(e) /\ \A i \in DOMAIN stack : Bare(stack[i])
    BY <1>2 DEF KeywordsHoldNone, Bare
  <2>2. \A i \in DOMAIN stack' : Bare(stack'[i])
    BY <1>1, <2>1, KeywordsAfterPush
  <2> QED
    BY <2>2 DEF KeywordsHoldNone, Bare
<1>7. Finished'
  BY DEF Finished
<1> QED
  BY <1>3, <1>4, <1>5, <1>6, <1>7 DEF OrderInv

(* What stays on the stack holds no call.                                  *)
LEMMA NoCallBelow ==
  ASSUME IInv, OrderInv, NEW k \in 0 .. Len(stack),
         k < Len(stack) \/ Top # "call"
  PROVE  \A i \in 1 .. k : stack[i].s # "call"
<1>1. stack \in Seq(Entries) /\ Len(stack) \in Nat /\ CallOnTop(stack)
  BY DEF IInv, TypeOK, OrderInv
<1>2. \A i \in 1 .. k : i \in DOMAIN stack /\ (i = Len(stack) => k = Len(stack))
  BY <1>1
<1>3. \A i \in 1 .. k : i = Len(stack) => stack[i].s = Top
  BY <1>1 DEF Top, SymbolAt
<1> QED
  BY <1>1, <1>2, <1>3 DEF CallOnTop

LEMMA WholeStack ==
  ASSUME NEW st \in Seq(Entries)
  PROVE  /\ SubSeq(st, 1, Len(st)) = st
         /\ Len(st) \in 0 .. Len(st)
         /\ \A i \in Waiting(st) : ~ (i > Len(st))
<1>1. SubSeq(st, 1, Len(st)) = st /\ Len(st) \in 0 .. Len(st)
  OBVIOUS
<1>2. Waiting(st) \subseteq 1 .. Len(st) /\ Len(st) \in Nat
  BY Stacks
<1>3. \A i \in 1 .. Len(st) : ~ (i > Len(st))
  BY <1>2
<1> QED
  BY <1>1, <1>2, <1>3

(* A keyword or an empty statement, on top of what is left: nothing runs.  *)
LEMMA BareKeepsOrder ==
  ASSUME IInv, OrderInv, running, UNCHANGED <<running, startLevel, ran>>,
         errors' = 0 => errors = 0,
         NEW k \in 0 .. Len(stack), k < Len(stack) \/ Top # "call",
         NEW x \in Symbols, stack' = Append(SubSeq(stack, 1, k), Entry(x, <<>>)),
         Seen' = Seen,
         \/ errors' > 0
         \/ \A i \in Waiting(stack) : i > k => stack[i].ids = <<>>
  PROVE  OrderInv'
<1> DEFINE e == Entry(x, <<>>)
<1>1. e \in Entries /\ e.ids = <<>>
  <2>1. <<>> \in Seq(Nat)
    BY StackTypes
  <2> QED
    BY <2>1, EntryTypes DEF Entry
<1> HIDE DEF e
<1>2. \A i \in 1 .. k : stack[i].s # "call"
  BY NoCallBelow
<1>3. Follows(e.ids, SubSeq(stack, 1, k), ran, Seen')
  BY <1>1, NoneFollow
<1>4. Seen \in Nat /\ Seen <= Seen
  BY DEF OrderInv
<1>5. Joins(stack, k, e, ran, ran', Seen, Seen')
  BY <1>2, <1>3, <1>4 DEF Joins
<1>6. ASSUME errors' = 0 PROVE Passes(stack, k, e, ran, ran', Seen, Seen')
  <2>1. \A i \in Waiting(stack) : i > k => Range(stack[i].ids) = {}
    BY <1>6 DEF Range
  <2> QED
    BY <2>1 DEF Passes
<1> QED
  BY <1>1, <1>5, <1>6, MoveKeepsOrder DEF e

LEMMA SameSeen ==
  ASSUME IInv, OrderInv, calls' = calls,
         \/ yychar' = yychar
         \/ yychar # "call" /\ yychar' # "call"
  PROVE  Seen' = Seen
  BY DEF Seen

LEMMA ShiftsCall ==
  ASSUME IInv, OrderInv, calls' = calls, yychar = "call", yychar' # "call"
  PROVE  Seen' = Seen + 1 /\ Seen' = calls
<1>1. Seen' = calls
  BY DEF Seen
<1> QED
  BY <1>1, SeenTypes

(* At level 0 there is no structure on the stack, and where no structure   *)
(* was left behind there is none only at level 0.                          *)
LEMMA LevelZero ==
  ASSUME IInv
  PROVE  /\ level = 0 => Ifs(stack) = {}
         /\ errors = 0 /\ startLevel = 0 /\ level # 0 => Ifs(stack) # {}
<1>1. /\ level \in Nat /\ startLevel \in Nat /\ Open \in Nat
      /\ level >= startLevel + Open
      /\ errors = 0 => level <= startLevel + Open
      /\ IsFiniteSet(Ifs(stack)) /\ Cardinality(Ifs(stack)) = Open
  BY IfsFinite DEF IInv, TypeOK, Covered, Balanced, Open
<1>2. Ifs(stack) = {} <=> Open = 0
  BY <1>1, FS_EmptySet
<1>3. level = 0 => Open = 0
  BY <1>1
<1>4. errors = 0 /\ startLevel = 0 /\ level # 0 => Open # 0
  BY <1>1
<1> QED
  BY <1>2, <1>3, <1>4

LEMMA ShiftCallKeepsOrder ==
  ASSUME IInv, OrderInv, ShiftCall
  PROVE  OrderInv'
<1> DEFINE k == Len(stack)
           ids == <<calls>>
           x == IF Top = "{" THEN "call" ELSE "stmt"
           e == Entry(x, ids)
<1>1. /\ running /\ Starts(Top) /\ yychar = "call" /\ yychar' = NoToken
      /\ stack' = Append(stack, e)
      /\ UNCHANGED <<running, startLevel, errors, calls, level>>
      /\ Top = "{" => ran' = ran
      /\ Top # "{" => Go(level, ids)
  BY DEF ShiftCall, Reads, AllShifted, Quiet
<1>2. stack \in Seq(Entries) /\ ids \in Seq(Nat) /\ calls \in Nat
  BY StackTypes
<1>3. /\ SubSeq(stack, 1, k) = stack /\ k \in 0 .. Len(stack)
      /\ \A i \in Waiting(stack) : ~ (i > k)
  BY <1>2, WholeStack
<1>4. Seen' = Seen + 1 /\ Seen' = calls /\ Seen \in Nat
  BY <1>1, ShiftsCall, SeenTypes DEF NoToken
<1>5. Top # "call"
  BY <1>1 DEF Starts
<1>6. \A i \in 1 .. k : stack[i].s # "call"
  BY <1>3, <1>5, NoCallBelow
<1>7. Range(ids) = {calls} /\ Increasing(ids)
  BY DEF Range, Increasing
<1>8. Follows(ids, SubSeq(stack, 1, k), ran, Seen')
  <2>1. \A c \in 1 .. Seen : c < calls
    BY <1>4
  <2>2. Range(ran) \subseteq 1 .. Seen /\ \A i \in Waiting(stack) : Range(stack[i].ids) \subseteq 1 .. Seen
    BY DEF OrderInv, Ordered
  <2>3. calls \in 1 .. Seen'
    BY <1>2, <1>4
  <2> HIDE DEF ids, k
  <2> QED
    BY <1>2, <1>3, <1>7, <2>1, <2>2, <2>3 DEF Follows, Before
<1>9. e \in Entries /\ e.s = x /\ e.ids = ids /\ x \in {"call", "stmt"}
  BY <1>2, EntryTypes DEF Symbols, Entry
<1>10. ran' = ran \/ (ran' = ran \o ids /\ level = 0 /\ x = "stmt")
  BY <1>1 DEF Go
<1>11. level = 0 => Ifs(stack) = {}
  BY LevelZero
<1>12. errors = 0 /\ startLevel = 0 =>
         x = "call" \/ Ifs(stack) # {} \/ ran' = ran \o ids
  <2>1. CASE level = 0
    BY <1>1, <2>1 DEF Go
  <2>2. CASE level # 0
    BY <2>2, LevelZero
  <2> QED
    BY <2>1, <2>2
<1> HIDE DEF x, ids, e, k
<1>13. Joins(stack, k, e, ran, ran', Seen, Seen')
  <2>1. Seen' \in Nat /\ Seen <= Seen'
    BY <1>4
  <2> QED
    BY <1>3, <1>4, <1>6, <1>8, <1>9, <1>10, <1>11, <2>1 DEF Joins
<1>14. errors = 0 /\ startLevel = 0 => Passes(stack, k, e, ran, ran', Seen, Seen')
  <2>1. Seen' \in Range(ids)
    BY <1>4, <1>7
  <2> QED
    BY <1>3, <1>4, <1>9, <1>12, <2>1 DEF Passes
<1>15. e.s \notin {"{", "level", "if"}
  BY <1>9
<1> QED
  BY <1>1, <1>3, <1>13, <1>14, <1>15, <1>9, MoveKeepsOrder

(* A statement takes the place of the top entries: it has the calls of the *)
(* top one, and what stood between was a keyword.                          *)
LEMMA WrapKeepsOrder ==
  ASSUME IInv, OrderInv, running, UNCHANGED <<running, startLevel, errors>>,
         Seen' = Seen, Top \in {"call", "stml", "stmt"},
         NEW k \in 0 .. Len(stack), k < Len(stack), NEW x \in {"stmt", "stml"},
         \A i \in k + 1 .. Len(stack) - 1 : stack[i].ids = <<>>,
         stack' = Append(SubSeq(stack, 1, k), Entry(x, TopIds)),
         Ifs(SubSeq(stack, 1, k)) # {} => Len(stack) \in Waiting(stack),
         \/ ran' = ran
         \/ /\ ran' = ran \o TopIds /\ Ifs(SubSeq(stack, 1, k)) = {}
            /\ Len(stack) \in Waiting(stack),
         errors = 0 /\ startLevel = 0 /\ Len(stack) \in Waiting(stack) =>
           ran' = ran \o TopIds \/ Ifs(SubSeq(stack, 1, k)) # {}
  PROVE  OrderInv'
<1> DEFINE e == Entry(x, TopIds)
           s == SubSeq(stack, 1, k)
           n == Len(stack)
<1>1. /\ stack \in Seq(Entries) /\ TopIds \in Seq(Nat) /\ n \in Nat
      /\ TopIds = stack[n].ids
  BY StackTypes DEF TopIds
<1>2. e \in Entries /\ e.s = x /\ e.ids = TopIds
  BY <1>1, EntryTypes DEF Symbols, Entry
<1>3. \A i \in 1 .. k : stack[i].s # "call"
  BY NoCallBelow
<1>4. Ordered(stack, ran, Seen) /\ Seen \in Nat /\ Seen <= Seen
  BY DEF OrderInv
<1>5. n \in Waiting(stack) => Follows(TopIds, s, ran, Seen)
  BY <1>1, <1>4, TopFollows
<1>6. \A i \in Waiting(stack) : i > k => i = n \/ stack[i].ids = <<>>
  <2>1. Waiting(stack) \subseteq 1 .. n
    BY <1>1, Stacks
  <2>2. \A i \in 1 .. n : i > k => i = n \/ i \in k + 1 .. n - 1
    BY <1>1
  <2> QED
    BY <2>1, <2>2
<1> HIDE DEF e, s, n
<1>7. Joins(stack, k, e, ran, ran', Seen, Seen')
  BY <1>2, <1>3, <1>4, <1>5 DEF Joins, s, n
<1>8. errors = 0 /\ startLevel = 0 => Passes(stack, k, e, ran, ran', Seen, Seen')
  <2> SUFFICES ASSUME errors = 0, startLevel = 0
               PROVE  Passes(stack, k, e, ran, ran', Seen, Seen')
    OBVIOUS
  <2>1. ASSUME NEW i \in Waiting(stack), i > k, NEW c \in Range(stack[i].ids)
        PROVE  c \in Range(TopIds) /\ (Ifs(s) # {} \/ ran' = ran \o TopIds)
    <3>1. i = n
      BY <1>6, <2>1 DEF Range
    <3> QED
      BY <1>1, <2>1, <3>1 DEF s, n
  <2> QED
    BY <1>2, <2>1 DEF Passes, s
<1> QED
  BY <1>2, <1>7, <1>8, MoveKeepsOrder DEF e

LEMMA IfsBelow ==
  ASSUME NEW st \in Seq(Entries), NEW k \in 0 .. Len(st)
  PROVE  Ifs(SubSeq(st, 1, k)) = Ifs(st) \cap (1 .. k)
<1> DEFINE s == SubSeq(st, 1, k)
<1>1. s \in Seq(Entries) /\ Len(s) = k /\ \A i \in 1 .. k : s[i] = st[i]
  BY Prefix
<1>2. DOMAIN s = 1 .. k /\ 1 .. k \subseteq DOMAIN st
  BY <1>1, Stacks
<1> HIDE DEF s
<1> QED
  BY <1>1, <1>2 DEF Ifs, s

(* A statement waits if and only if there is a structure below it.         *)
LEMMA StatementWaits ==
  ASSUME NEW st \in Seq(Entries), NEW i \in 1 .. Len(st), NEW k \in 0 .. i - 1,
         st[i].s # "call", \A j \in k + 1 .. i - 1 : st[j].s \notin Structure
  PROVE  i \in Waiting(st) <=> Ifs(SubSeq(st, 1, k)) # {}
<1>1. /\ k \in 0 .. Len(st) /\ i \in DOMAIN st
      /\ \A j \in 1 .. i - 1 : j \in 1 .. k \/ j \in k + 1 .. i - 1
      /\ \A j \in 1 .. k : j \in 1 .. i - 1 /\ j \in DOMAIN st
  BY Stacks
<1>2. Ifs(SubSeq(st, 1, k)) = Ifs(st) \cap (1 .. k)
  BY <1>1, IfsBelow
<1>3. i \in Waiting(st) <=> \E j \in 1 .. i - 1 : st[j].s \in Structure
  BY <1>1 DEF Waiting
<1> QED
  BY <1>1, <1>2, <1>3 DEF Ifs

LEMMA ReduceCallKeepsOrder ==
  ASSUME IInv, OrderInv, ReduceCall
  PROVE  OrderInv'
<1> DEFINE k == Len(stack) - 1
           s == SubSeq(stack, 1, k)
<1>1. /\ running /\ Top = "call" /\ yychar' = yychar
      /\ UNCHANGED <<running, startLevel, errors, calls>>
      /\ stack' = Append(SubSeq(stack, 1, k), Entry("stmt", TopIds))
      /\ Go(level, TopIds)
  BY DEF ReduceCall, Reads, Kept, Quiet, Drop
<1>2. /\ stack \in Seq(Entries) /\ Len(stack) \in Nat /\ Len(stack) > 0
      /\ stack[Len(stack)].s = "call"
  BY <1>1, StackTypes DEF Structure
<1>3. /\ k \in 0 .. Len(stack) /\ k < Len(stack)
      /\ \A i \in k + 1 .. Len(stack) - 1 : stack[i].ids = <<>>
  BY <1>2
<1>4. Len(stack) \in Waiting(stack)
  BY <1>2 DEF Waiting
<1>5. Ifs(s) = Ifs(stack)
  <2>1. Ifs(s) = Ifs(stack) \cap (1 .. k)
    BY <1>2, <1>3, IfsBelow
  <2>2. \A i \in 1 .. Len(stack) : i \in 1 .. k \/ i = Len(stack)
    BY <1>2
  <2>3. DOMAIN stack = 1 .. Len(stack)
    BY <1>2
  <2> HIDE DEF s, k
  <2> QED
    BY <1>2, <2>1, <2>2, <2>3 DEF Ifs, Structure
<1>6. Seen' = Seen
  BY <1>1, SameSeen
<1>7. ran' = ran \/ (ran' = ran \o TopIds /\ Ifs(s) = {})
  BY <1>1, <1>5, LevelZero DEF Go
<1>8. errors = 0 /\ startLevel = 0 => ran' = ran \o TopIds \/ Ifs(s) # {}
  <2>1. CASE level = 0
    BY <1>1, <2>1 DEF Go
  <2>2. CASE level # 0
    BY <1>5, <2>2, LevelZero
  <2> QED
    BY <2>1, <2>2
<1> HIDE DEF k
<1> QED
  BY <1>1, <1>3, <1>4, <1>6, <1>7, <1>8, WrapKeepsOrder

LEMMA CloseBlockKeepsOrder ==
  ASSUME IInv, OrderInv, CloseBlock
  PROVE  OrderInv'
<1> DEFINE k == Len(stack) - 2
           s == SubSeq(stack, 1, k)
<1>1. /\ running /\ Top = "stml" /\ Below = "{" /\ yychar = "}" /\ yychar' = NoToken
      /\ UNCHANGED <<running, startLevel, errors, calls, ran>>
      /\ stack' = Append(SubSeq(stack, 1, k), Entry("stmt", TopIds))
  BY DEF CloseBlock, Reads, Shifted, Quiet, Drop
<1>0. stack[Len(stack) - 1].s = "{"
  BY <1>1, StackTypes, Zenon
<1>2. /\ stack \in Seq(Entries) /\ Len(stack) \in Nat /\ Len(stack) > 1
      /\ stack[Len(stack)].s = "stml" /\ stack[Len(stack) - 1].s \notin Structure
  BY <1>1, StackTypes, Zenon DEF Structure
<1>3. /\ k \in 0 .. Len(stack) /\ k < Len(stack) /\ k \in 0 .. Len(stack) - 1
      /\ Len(stack) \in 1 .. Len(stack)
      /\ \A i \in k + 1 .. Len(stack) - 1 : i = Len(stack) - 1
  BY <1>2
<1>4. \A i \in k + 1 .. Len(stack) - 1 : stack[i].ids = <<>>
  <2>1. Len(stack) - 1 \in DOMAIN stack
    BY <1>2
  <2>2. stack[Len(stack) - 1].ids = <<>>
    BY <1>0, <2>1, Zenon DEF OrderInv, KeywordsHoldNone
  <2> QED
    BY <1>3, <2>2
<1>5. Len(stack) \in Waiting(stack) <=> Ifs(s) # {}
  <2>1. \A i \in k + 1 .. Len(stack) - 1 : stack[i].s \notin Structure
    BY <1>2, <1>3
  <2>2. stack[Len(stack)].s # "call"
    BY <1>2
  <2> HIDE DEF k
  <2> QED
    BY <1>2, <1>3, <2>1, <2>2, StatementWaits
<1>6. Seen' = Seen
  BY <1>1, SameSeen DEF NoToken
<1> HIDE DEF k
<1> QED
  BY <1>1, <1>3, <1>4, <1>5, <1>6, WrapKeepsOrder

LEMMA ReduceIfKeepsOrder ==
  ASSUME IInv, OrderInv, ReduceIf
  PROVE  OrderInv'
<1> DEFINE k == Len(stack) - 2
           s == SubSeq(stack, 1, k)
<1>1. /\ running /\ Top = "stmt" /\ Below = "if" /\ yychar' = yychar
      /\ UNCHANGED <<running, startLevel, errors, calls>>
      /\ stack' = Append(SubSeq(stack, 1, k), Entry("stmt", TopIds))
      /\ Go(level - 1, TopIds)
  BY DEF ReduceIf, Reads, Kept, Quiet, Drop, Leave
<1>2. /\ stack \in Seq(Entries) /\ Len(stack) \in Nat /\ Len(stack) > 1
      /\ stack[Len(stack)].s = "stmt" /\ stack[Len(stack) - 1].s \in Structure
  BY <1>1, StackTypes DEF Structure
<1>3. /\ k \in 0 .. Len(stack) /\ k < Len(stack)
      /\ \A i \in k + 1 .. Len(stack) - 1 : i = Len(stack) - 1
  BY <1>2
<1>4. \A i \in k + 1 .. Len(stack) - 1 : stack[i].ids = <<>>
  <2>1. Len(stack) - 1 \in DOMAIN stack
    BY <1>2
  <2>2. stack[Len(stack) - 1].ids = <<>>
    BY <1>2, <2>1 DEF OrderInv, KeywordsHoldNone, Structure
  <2> QED
    BY <1>3, <2>2
<1>5. Len(stack) \in Waiting(stack)
  <2>1. Len(stack) \in DOMAIN stack /\ Len(stack) - 1 \in 1 .. Len(stack) - 1
    BY <1>2
  <2>2. \E j \in 1 .. Len(stack) - 1 : stack[j].s \in Structure
    BY <1>2, <2>1
  <2> QED
    BY <2>1, <2>2 DEF Waiting
<1>6. Cardinality(Ifs(s)) = Open - 1 /\ (Ifs(s) = {} <=> Open - 1 = 0)
  <2>1. s \in Seq(Entries) /\ Cardinality(Ifs(s)) = Open - 1
    BY <1>2, DropTwo, StackTypes DEF Drop, Structure
  <2> HIDE DEF s
  <2>2. IsFiniteSet(Ifs(s))
    BY <2>1, IfsFinite
  <2> QED
    BY <2>1, <2>2, FS_EmptySet
<1>7. /\ level \in Nat /\ startLevel \in Nat /\ Open \in Nat /\ Open # 0
      /\ level >= startLevel + Open
      /\ errors = 0 => level <= startLevel + Open
  <2>1. Open - 1 \in Nat
    <3>1. s \in Seq(Entries)
      BY <1>2, <1>3, Prefix
    <3> HIDE DEF s
    <3> QED
      BY <1>6, <3>1, IfsFinite
  <2>2. Open \in Nat
    BY StackTypes
  <2>3. Open # 0
    BY <2>1, <2>2
  <2> QED
    BY <2>2, <2>3 DEF IInv, TypeOK, Covered, Balanced
<1>8. level - 1 = 0 => Ifs(s) = {}
  BY <1>6, <1>7
<1>9. errors = 0 /\ startLevel = 0 /\ level - 1 # 0 => Ifs(s) # {}
  BY <1>6, <1>7
<1>10. Seen' = Seen
  BY <1>1, SameSeen
<1>11. ran' = ran \/ (ran' = ran \o TopIds /\ Ifs(s) = {})
  BY <1>1, <1>8 DEF Go
<1>12. errors = 0 /\ startLevel = 0 => ran' = ran \o TopIds \/ Ifs(s) # {}
  BY <1>1, <1>9 DEF Go
<1> HIDE DEF k
<1> QED
  BY <1>1, <1>3, <1>4, <1>5, <1>10, <1>11, <1>12, WrapKeepsOrder

LEMMA ListKeepsOrder ==
  ASSUME IInv, OrderInv, ReduceList
  PROVE  OrderInv'
<1> DEFINE n == Len(stack)
<1>1. /\ running /\ Top = "stmt" /\ Statement(Below)
      /\ UNCHANGED <<running, startLevel, errors, calls, ran>>
      /\ \/ yychar' = yychar
         \/ yychar # "call" /\ yychar' # "call"
  BY DEF ReduceList, Reads, Shifted, Kept, Quiet, NoToken
<1>2. /\ stack \in Seq(Entries) /\ n \in Nat /\ n > 0 /\ TopIds \in Seq(Nat)
      /\ stack[n].s = "stmt"
  BY <1>1, StackTypes
<1>3. Seen' = Seen
  BY <1>1, SameSeen
<1>4. TopIds = stack[n].ids /\ n \in 1 .. n
  BY <1>2 DEF TopIds
<1>5. CASE Below # "stml"
  <2> DEFINE k == n - 1
             s == SubSeq(stack, 1, k)
  <2>1. stack' = Append(SubSeq(stack, 1, k), Entry("stml", TopIds))
    BY <1>5 DEF ReduceList, Drop
  <2>2. /\ k \in 0 .. n /\ k < n /\ k \in 0 .. n - 1
        /\ \A i \in k + 1 .. n - 1 : stack[i].ids = <<>> /\ stack[i].s \notin Structure
    BY <1>2
  <2> HIDE DEF k
  <2>3. n \in Waiting(stack) <=> Ifs(s) # {}
    BY <1>2, <1>4, <2>2, StatementWaits
  <2> QED
    BY <1>1, <1>2, <1>3, <2>1, <2>2, <2>3, WrapKeepsOrder
<1>6. CASE Below = "stml"
  <2> DEFINE k == n - 2
             s == SubSeq(stack, 1, k)
             a == stack[n - 1].ids
             e == Entry("stml", a \o TopIds)
  <2>1. stack' = Append(s, e)
    BY <1>6 DEF ReduceList, Drop
  <2>2. n > 1 /\ stack[n - 1].s = "stml" /\ a \in Seq(Nat)
    BY <1>6, StackTypes
  <2>3. /\ k \in 0 .. n /\ k < n /\ k \in 0 .. n - 1 /\ k \in 0 .. (n - 1) - 1
        /\ n - 1 \in 1 .. n /\ n - 1 < n /\ n > k /\ n - 1 > k
        /\ \A i \in k + 1 .. n - 1 : i = n - 1
        /\ \A i \in 1 .. n : i > k => i \in {n - 1, n}
        /\ k + 1 .. (n - 1) - 1 = {}
    BY <1>2, <2>2
  <2>4. a \o TopIds \in Seq(Nat) /\ Range(a \o TopIds) = Range(a) \cup Range(TopIds)
    BY <1>2, <2>2, RangeOfConcat
  <2>5. e \in Entries /\ e.s = "stml" /\ e.ids = a \o TopIds
    BY <2>4, EntryTypes DEF Entry, Symbols
  <2>6. \A i \in 1 .. k : stack[i].s # "call"
    <3> HIDE DEF k
    <3> QED
      BY <2>3, NoCallBelow
  <2>7. n \in Waiting(stack) <=> Ifs(s) # {}
    <3>1. \A j \in k + 1 .. n - 1 : stack[j].s \notin Structure
      BY <2>2, <2>3 DEF Structure
    <3> HIDE DEF k
    <3> QED
      BY <1>2, <1>4, <2>3, <3>1, StatementWaits
  <2>8. n - 1 \in Waiting(stack) <=> Ifs(s) # {}
    <3>1. stack[n - 1].s # "call" /\ \A j \in k + 1 .. (n - 1) - 1 : stack[j].s \notin Structure
      BY <2>2, <2>3
    <3> DEFINE m == n - 1
    <3> HIDE DEF k, m
    <3>2. m \in 1 .. n /\ k \in 0 .. m - 1 /\ stack[m].s # "call"
          /\ \A j \in k + 1 .. m - 1 : stack[j].s \notin Structure
      BY <2>3, <3>1 DEF m
    <3>3. m \in Waiting(stack) <=> Ifs(s) # {}
      BY <1>2, <3>2, StatementWaits
    <3> QED
      BY <3>3 DEF m
  <2>9. Ordered(stack, ran, Seen) /\ Seen \in Nat /\ Seen <= Seen
    BY DEF OrderInv
  <2>10. Ifs(s) # {} => Follows(a \o TopIds, s, ran, Seen)
    <3> SUFFICES ASSUME Ifs(s) # {} PROVE Follows(a \o TopIds, s, ran, Seen)
      OBVIOUS
    <3>1. Follows(TopIds, s, ran, Seen)
      <4> HIDE DEF k
      <4> QED
        BY <1>2, <1>4, <2>3, <2>7, <2>9, TopFollows
    <3>2. Follows(a, s, ran, Seen)
      <4> HIDE DEF k
      <4> QED
        BY <1>2, <2>3, <2>8, <2>9, TopFollows
    <3>3. Before(Range(a), Range(TopIds))
      BY <1>4, <2>3, <2>7, <2>8, <2>9 DEF Ordered
    <3> HIDE DEF a, s, k
    <3>4. Increasing(a \o TopIds)
      BY <1>2, <2>2, <3>1, <3>2, <3>3, IncreasingConcat DEF Follows
    <3> QED
      BY <2>4, <3>1, <3>2, <3>4 DEF Follows, Before
  <2> HIDE DEF e, s, a, k
  <2>11. Joins(stack, k, e, ran, ran', Seen, Seen')
    BY <1>1, <1>3, <2>5, <2>6, <2>9, <2>10 DEF Joins, s
  <2>12. Passes(stack, k, e, ran, ran', Seen, Seen')
    <3> SUFFICES ASSUME NEW i \in Waiting(stack), i > k, NEW c \in Range(stack[i].ids)
                 PROVE  c \in Range(e.ids) /\ Ifs(s) # {}
      BY <1>3 DEF Passes, s
    <3>1. i \in {n - 1, n}
      BY <1>2, <2>3, Stacks
    <3> HIDE DEF n
    <3> QED
      BY <1>4, <2>4, <2>5, <2>7, <2>8, <3>1 DEF a
  <2>13. e.s \notin {"{", "level", "if"}
    BY <2>5
  <2> QED
    BY <1>1, <2>1, <2>3, <2>5, <2>11, <2>12, <2>13, MoveKeepsOrder DEF s
<1> QED
  BY <1>5, <1>6

(* A keyword on top of a stack changes nothing of what waits.              *)
LEMMA OpenKeepsOrder ==
  ASSUME IInv, OrderInv, ShiftIf \/ OpenBlock
  PROVE  OrderInv'
<1> DEFINE k == Len(stack)
<1>1. PICK x \in Symbols : /\ running /\ Starts(Top)
        /\ stack' = Append(stack, Entry(x, <<>>))
        /\ yychar # "call" /\ yychar' # "call"
        /\ UNCHANGED <<running, startLevel, errors, calls, ran>>
  BY Zenon DEF ShiftIf, OpenBlock, Reads, Shifted, AllShifted, Quiet, NoToken, Symbols
<1>2. SubSeq(stack, 1, k) = stack /\ k \in 0 .. k /\ \A i \in Waiting(stack) : ~ (i > k)
  BY StackTypes, WholeStack
<1>3. Top # "call"
  BY <1>1 DEF Starts
<1>4. Seen' = Seen
  BY <1>1, SameSeen
<1> HIDE DEF k
<1>5. stack' = Append(SubSeq(stack, 1, k), Entry(x, <<>>))
  BY <1>1, <1>2
<1>6. k \in 0 .. Len(stack) /\ \A i \in Waiting(stack) : i > k => stack[i].ids = <<>>
  BY <1>2 DEF k
<1> QED
  BY <1>1, <1>3, <1>4, <1>5, <1>6, BareKeepsOrder

LEMMA EmptyListKeepsOrder ==
  ASSUME IInv, OrderInv, EmptyList
  PROVE  OrderInv'
<1> DEFINE k == Len(stack) - 1
<1>1. PICK x \in Symbols : /\ running /\ Top = "{"
        /\ stack' = Append(SubSeq(stack, 1, k), Entry(x, <<>>))
        /\ yychar # "call" /\ yychar' # "call"
        /\ UNCHANGED <<running, startLevel, errors, calls, ran>>
  BY Zenon DEF EmptyList, Reads, Shifted, Quiet, NoToken, Symbols, Drop
<1>2. Top # "start"
  BY <1>1, Zenon
<1>3. stack[Len(stack)].s = "{"
  BY <1>1, <1>2, StackTypes, Zenon
<1>4. stack \in Seq(Entries) /\ Len(stack) \in Nat /\ Len(stack) > 0
  BY <1>2, StackTypes, Zenon
<1>5. /\ k \in 0 .. Len(stack) /\ k < Len(stack) /\ Len(stack) \in DOMAIN stack
      /\ \A i \in 1 .. Len(stack) : i > k => i = Len(stack)
  BY <1>4
<1>6. stack[Len(stack)].ids = <<>>
  BY <1>3, <1>5, Zenon DEF OrderInv, KeywordsHoldNone
<1>7. \A i \in Waiting(stack) : i > k => stack[i].ids = <<>>
  BY <1>4, <1>5, <1>6, Stacks
<1>8. Seen' = Seen
  BY <1>1, SameSeen
<1>9. /\ UNCHANGED <<running, startLevel, ran>> /\ running /\ x \in Symbols
      /\ errors' = 0 => errors = 0
  BY <1>1, Zenon
<1>10. stack' = Append(SubSeq(stack, 1, k), Entry(x, <<>>))
  BY <1>1
<1> HIDE DEF k
<1> QED
  BY <1>5, <1>7, <1>8, <1>9, <1>10, BareKeepsOrder

LEMMA CondKeepsOrder ==
  ASSUME IInv, OrderInv, ReduceCond
  PROVE  OrderInv'
<1> DEFINE k == Len(stack) - 1
<1>1. /\ running /\ Top = "level" /\ yychar' = yychar
      /\ stack' = Append(SubSeq(stack, 1, k), Entry("if", <<>>))
      /\ UNCHANGED <<running, startLevel, errors, calls, ran>>
  BY DEF ReduceCond, Reads, Kept, Quiet, Drop
<1>2. /\ stack \in Seq(Entries) /\ Len(stack) \in Nat /\ Len(stack) > 0
      /\ stack[Len(stack)].s = "level"
  BY <1>1, StackTypes
<1>3. /\ k \in 0 .. Len(stack) /\ k < Len(stack) /\ Len(stack) \in DOMAIN stack
      /\ \A i \in 1 .. Len(stack) : i > k => i = Len(stack)
  BY <1>2
<1>4. stack[Len(stack)].ids = <<>>
  BY <1>2, <1>3 DEF OrderInv, KeywordsHoldNone
<1>5. \A i \in Waiting(stack) : i > k => stack[i].ids = <<>>
  BY <1>2, <1>3, <1>4, Stacks
<1>6. Seen' = Seen
  BY <1>1, SameSeen
<1>7. "if" \in Symbols
  BY DEF Symbols
<1> HIDE DEF k
<1> QED
  BY <1>1, <1>3, <1>5, <1>6, <1>7, BareKeepsOrder

LEMMA ErrorKeepsOrder ==
  ASSUME IInv, OrderInv, Error
  PROVE  OrderInv'
<1>1. PICK j \in 0 .. Len(stack) :
        Starts(SymbolAt(j)) /\ stack' = Append(Drop(j), Entry("error", <<>>))
  BY DEF Error
<1>2. /\ running /\ UNCHANGED <<running, yychar, calls, ran, startLevel>>
      /\ errors' = IF yyerrflag = 0 THEN errors + 1 ELSE errors
  BY DEF Error
<1>3. errors' # 0 /\ errors' > 0
  BY <1>2 DEF IInv, TypeOK, ErrorCounted
<1> DEFINE k == Len(stack) - j
<1>4. k \in 0 .. Len(stack) /\ (j = 0 \/ k < Len(stack))
  BY StackTypes
<1>5. j = 0 => Top # "call"
  BY <1>1 DEF Starts, Top
<1>6. Seen' = Seen
  BY <1>2, SameSeen
<1>7. "error" \in Symbols
  BY DEF Symbols
<1>8. stack' = Append(SubSeq(stack, 1, k), Entry("error", <<>>))
  BY <1>1 DEF Drop
<1> HIDE DEF k
<1> QED
  BY <1>2, <1>3, <1>4, <1>5, <1>6, <1>7, <1>8, BareKeepsOrder

LEMMA EndErrorKeepsOrder ==
  ASSUME IInv, OrderInv, EndError
  PROVE  OrderInv'
<1> DEFINE k == Len(stack) - 1
<1>1. /\ running /\ Top = "error" /\ yychar # "call" /\ yychar' # "call"
      /\ UNCHANGED <<running, calls, ran, startLevel, errors>>
      /\ stack' = Append(SubSeq(stack, 1, k), Entry("stmt", <<>>))
  BY Zenon DEF EndError, Reads, Sync, Quiet, NoToken, Drop
<1>2. errors > 0
  BY <1>1 DEF IInv, ErrorCounted
<1>3. Len(stack) \in Nat /\ Len(stack) > 0
  BY <1>1, StackTypes
<1>4. k \in 0 .. Len(stack) /\ k < Len(stack)
  BY <1>3
<1>5. Seen' = Seen
  BY <1>1, SameSeen
<1>6. "stmt" \in Symbols
  BY DEF Symbols
<1> HIDE DEF k
<1> QED
  BY <1>1, <1>2, <1>4, <1>5, <1>6, BareKeepsOrder

(* The stack and the calls that ran stay.                                  *)
LEMMA SameOrder ==
  ASSUME IInv, OrderInv, UNCHANGED <<stack, ran>>, Seen' \in Nat, Seen <= Seen',
         \/ errors > 0 /\ errors' = errors
         \/ Seen' = Seen /\ UNCHANGED <<errors, startLevel>>,
         Finished'
  PROVE  OrderInv'
<1>1. /\ Ordered(stack, ran, Seen) /\ CallOnTop(stack) /\ KeywordsHoldNone
      /\ NoneLost /\ Seen \in Nat
  BY DEF OrderInv
<1>2. 1 .. Seen \subseteq 1 .. Seen'
  BY <1>1
<1>3. Ordered(stack, ran, Seen')
  BY <1>1, <1>2 DEF Ordered
<1>4. NoneLost'
  BY <1>1 DEF NoneLost
<1>5. KeywordsHoldNone'
  BY <1>1 DEF KeywordsHoldNone
<1> QED
  BY <1>1, <1>3, <1>4, <1>5 DEF OrderInv

LEMMA DiscardKeepsOrder ==
  ASSUME IInv, OrderInv, Discard
  PROVE  OrderInv'
<1>1. /\ running /\ Top = "error" /\ yychar' = NoToken
      /\ UNCHANGED <<running, stack, ran, calls, errors>>
  BY DEF Discard, Discarded, Quiet
<1>2. errors > 0
  BY <1>1 DEF IInv, ErrorCounted
<1>3. Seen' = calls /\ Seen' \in Nat /\ Seen <= Seen'
  <2>1. Seen' = calls
    BY <1>1 DEF Seen, NoToken
  <2> QED
    BY <2>1, SeenTypes
<1>4. Finished'
  BY <1>1 DEF Finished
<1> QED
  BY <1>1, <1>2, <1>3, <1>4, SameOrder

LEMMA ReturnKeepsOrder ==
  ASSUME IInv, OrderInv, Accept \/ Abort
  PROVE  OrderInv'
<1>1. /\ UNCHANGED <<stack, yychar, ran, calls, errors, startLevel>>
      /\ yychar = EOF
  BY DEF Accept, Abort, Reads, history
<1>2. Seen' = Seen /\ Seen \in Nat /\ Seen <= Seen
  BY <1>1, SameSeen DEF OrderInv
<1>3. errors = 0 => Complete
  BY DEF Accept, Abort, IInv, ErrorCounted
<1>4. Complete' = Complete
  BY <1>1 DEF Complete, Top, Below, SymbolAt
<1>5. Finished'
  BY <1>1, <1>3, <1>4 DEF Finished, EOF
<1> QED
  BY <1>1, <1>2, <1>5, SameOrder

LEMMA ScanKeepsOrder ==
  ASSUME IInv, OrderInv, Scan
  PROVE  OrderInv'
<1>1. UNCHANGED <<running, stack, ran, errors, startLevel>>
  BY Zenon DEF Scan, ReadComment, ReadToken, ReadNewline, ReadEOF, history
<1>2. running /\ yychar = NoToken
  BY Zenon DEF Scan, ReadComment, ReadToken, ReadNewline, ReadEOF, Scans
<1>3. Seen = calls /\ calls \in Nat
  BY <1>2, SeenTypes DEF NoToken
<1>4. Seen' = Seen
  <2>1. CASE UNCHANGED calls /\ yychar' # "call"
    BY <1>3, <2>1 DEF Seen
  <2>2. CASE \E x \in Lexemes : ReadToken(x)
    <3>1. PICK x \in Lexemes : ReadToken(x)
      BY <2>2
    <3>2. CASE x = "call"
      <4>1. yychar' = "call" /\ calls' = calls + 1
        BY <3>1, <3>2 DEF ReadToken, Token
      <4> QED
        BY <1>3, <4>1 DEF Seen
    <3>3. CASE x # "call"
      <4>1. yychar' # "call" /\ calls' = calls
        BY <3>1, <3>3 DEF ReadToken, Token
      <4> QED
        BY <2>1, <4>1
    <3> QED
      BY <3>2, <3>3
  <2>3. CASE (\E x \in Lexemes : ReadComment(x)) \/ ReadNewline
    <3>1. UNCHANGED <<yychar, calls>>
      BY <2>3, Zenon DEF ReadComment, ReadNewline, history
    <3> QED
      BY <1>2, <2>1, <3>1 DEF NoToken
  <2>4. CASE ReadEOF
    <3>1. yychar' = EOF /\ calls' = calls
      BY <2>4 DEF ReadEOF, history
    <3> QED
      BY <2>1, <3>1 DEF EOF
  <2> QED
    BY <2>2, <2>3, <2>4, Zenon DEF Scan
<1>5. Finished'
  BY <1>1, <1>2 DEF Finished
<1>6. Seen <= Seen
  BY <1>3
<1> QED
  BY <1>1, <1>3, <1>4, <1>5, <1>6, SameOrder

LEMMA EmptyOrder ==
  /\ Ordered(<<>>, <<>>, 0) /\ CallOnTop(<<>>) /\ AllKept(<<>>, <<>>, 0)
<1>1. DOMAIN <<>> = {} /\ 1 .. 0 = {}
  OBVIOUS
<1>2. Waiting(<<>>) = {} /\ Range(<<>>) = {}
  BY <1>1 DEF Waiting, Range
<1>3. Ordered(<<>>, <<>>, 0)
  BY <1>1, <1>2 DEF Ordered, Increasing
<1>4. CallOnTop(<<>>)
  BY <1>1 DEF CallOnTop
<1>5. AllKept(<<>>, <<>>, 0)
  BY <1>1 DEF AllKept
<1> QED
  BY <1>3, <1>4, <1>5

LEMMA BeginKeepsOrder ==
  ASSUME IInv, OrderInv, Begin
  PROVE  OrderInv'
<1>1. /\ running' = TRUE /\ stack' = <<>> /\ yychar' = NoToken /\ calls' = 0
      /\ ran' = <<>>
  BY DEF Begin
<1>2. Seen' = 0
  BY <1>1 DEF Seen, NoToken
<1>3. KeywordsHoldNone' /\ Finished'
  BY <1>1 DEF KeywordsHoldNone, Finished
<1> QED
  BY <1>1, <1>2, <1>3, EmptyOrder DEF OrderInv, NoneLost

LEMMA InitOrder == Init => OrderInv
<1> SUFFICES ASSUME Init PROVE OrderInv
  OBVIOUS
<1>1. stack = <<>> /\ yychar = NoToken /\ calls = 0 /\ ran = <<>>
  BY DEF Init
<1>2. Seen = 0
  BY <1>1 DEF Seen, NoToken
<1>3. KeywordsHoldNone
  <2>1. DOMAIN stack = {}
    BY <1>1
  <2> QED
    BY <2>1, Zenon DEF KeywordsHoldNone
<1>4. Top = "start"
  BY <1>1 DEF Top, SymbolAt
<1>5. Finished
  BY <1>1, <1>4 DEF Finished, Complete, NoToken
<1> QED
  BY <1>1, <1>2, <1>3, <1>5, EmptyOrder DEF OrderInv, NoneLost

LEMMA NextOrder == IInv /\ OrderInv /\ [Next]_vars => OrderInv'
<1> SUFFICES ASSUME IInv, OrderInv, [Next]_vars PROVE OrderInv'
  OBVIOUS
<1>1. CASE Begin
  BY <1>1, BeginKeepsOrder
<1>2. CASE Scan
  BY <1>2, ScanKeepsOrder
<1>3. CASE Parse
  BY <1>3, ShiftCallKeepsOrder, ReduceCallKeepsOrder, OpenKeepsOrder,
     CondKeepsOrder, CloseBlockKeepsOrder, EmptyListKeepsOrder, ListKeepsOrder,
     ReduceIfKeepsOrder, ErrorKeepsOrder, EndErrorKeepsOrder, ReturnKeepsOrder,
     DiscardKeepsOrder DEF Parse
<1>4. CASE UNCHANGED vars
  <2>1. UNCHANGED <<running, stack, yychar, ran, calls, errors, startLevel>>
    BY <1>4 DEF vars, history
  <2>2. Seen' = Seen /\ Seen \in Nat /\ Seen <= Seen
    BY <2>1, SameSeen DEF OrderInv
  <2>3. Complete' = Complete
    BY <2>1 DEF Complete, Top, Below, SymbolAt
  <2>4. Finished'
    BY <2>1, <2>3 DEF Finished, OrderInv
  <2> QED
    BY <2>1, <2>2, <2>4, SameOrder
<1> QED
  BY <1>1, <1>2, <1>3, <1>4 DEF Next

LEMMA OrderInductive == Spec => []OrderInv
<1>1. Init /\ [][Next]_vars => []OrderInv
  <2>1. IInv /\ OrderInv /\ [Next]_vars => OrderInv'
    BY NextOrder
  <2> QED
    BY InitOrder, Inductive, <2>1, PTL DEF Spec
<1> QED
  BY <1>1, PTL DEF Spec

(* The calls of a script run in its order and none runs twice, whatever    *)
(* the statements recovery drops, moves past or resumes in.                *)
THEOREM CallsRunOnceInOrder == Spec => []RunsOnceInOrder
<1>1. OrderInv => RunsOnceInOrder
  BY DEF OrderInv, Ordered, RunsOnceInOrder
<1> QED
  BY <1>1, OrderInductive, PTL

LEMMA UpTo ==
  ASSUME NEW n \in Nat
  PROVE  IsFiniteSet(1 .. n) /\ Cardinality(1 .. n) = n
<1>1. 1 \in Int /\ n \in Int /\ (1 > n => n = 0) /\ n - 1 + 1 = n
  OBVIOUS
<1> QED
  BY <1>1, FS_Interval

(* A sequence that holds the numbers up to n in increasing order has as    *)
(* many elements.                                                          *)
LEMMA IncreasingLength ==
  ASSUME NEW r \in Seq(Nat), NEW n \in Nat, Increasing(r), Range(r) = 1 .. n
  PROVE  Len(r) = n
<1>1. Len(r) \in Nat /\ DOMAIN r = 1 .. Len(r) /\ r \in [1 .. Len(r) -> Nat]
  OBVIOUS
<1> DEFINE D == 1 .. Len(r)
           T == 1 .. n
<1>2. IsFiniteSet(D) /\ Cardinality(D) = Len(r)
  BY <1>1, UpTo
<1>3. IsFiniteSet(T) /\ Cardinality(T) = n
  BY UpTo
<1>4. \A i \in D : r[i] \in Nat
  BY <1>1
<1>5. \A i, j \in D : r[i] = r[j] => i = j
  <2> SUFFICES ASSUME NEW i \in D, NEW j \in D, i # j PROVE r[i] # r[j]
    OBVIOUS
  <2>1. i < j \/ j < i
    BY <1>1
  <2> QED
    BY <1>1, <1>4, <2>1 DEF Increasing
<1>6. \A i \in D : r[i] \in T
  BY <1>1 DEF Range
<1>7. \A c \in T : \E i \in D : r[i] = c
  BY <1>1 DEF Range
<1> DEFINE f == [i \in D |-> r[i]]
<1> HIDE DEF D, T
<1>8. f \in Bijection(D, T)
  BY <1>5, <1>6, <1>7 DEF Bijection, Injection, Surjection, IsInjective
<1>9. ExistsBijection(D, T)
  BY <1>8 DEF ExistsBijection
<1> QED
  BY <1>2, <1>3, <1>9, FS_Bijection

(* When a script without errors is complete, nothing waits any more.       *)
LEMMA NothingWaits ==
  ASSUME IInv, OrderInv, ~running, errors = 0
  PROVE  Waiting(stack) = {} /\ Seen = calls
<1>1. Complete /\ yychar # "call" /\ CallOnTop(stack)
  BY DEF OrderInv, Finished
<1>2. /\ stack \in Seq(Entries) /\ Len(stack) \in Nat /\ DOMAIN stack = 1 .. Len(stack)
      /\ Waiting(stack) \subseteq 1 .. Len(stack)
  BY StackTypes, Stacks
<1>3. Ifs(stack) = {}
  <2>1. Open = 0
    BY <1>1, CompleteIsClosed
  <2> QED
    BY <1>2, <2>1, IfsFinite, FS_EmptySet DEF Open
<1>4. \A i \in 1 .. Len(stack) : stack[i].s # "call"
  <2>1. Top # "call" /\ Len(stack) \in 0 .. Len(stack)
    BY <1>1, <1>2 DEF Complete
  <2> QED
    BY <2>1, NoCallBelow
<1>5. \A i \in 1 .. Len(stack) : \A j \in 1 .. i - 1 : j \in DOMAIN stack
  BY <1>2
<1>6. Waiting(stack) = {}
  BY <1>2, <1>3, <1>4, <1>5 DEF Waiting, Ifs
<1> QED
  BY <1>1, <1>6, SeenTypes

(* A script without syntax errors that begins outside of any structure has *)
(* run all of its calls when yyparse() returns.                            *)
THEOREM CorrectScriptsRun == Spec => []RunsAll
<1>1. ASSUME IInv, OrderInv PROVE RunsAll
  <2> SUFFICES ASSUME ~running, errors = 0, startLevel = 0 PROVE Len(ran) = calls
    BY DEF RunsAll
  <2>1. Waiting(stack) = {} /\ Seen = calls
    BY <1>1, NothingWaits
  <2>2. /\ Increasing(ran) /\ Range(ran) \subseteq 1 .. calls
        /\ AllKept(stack, ran, calls)
    BY <1>1, <2>1 DEF OrderInv, Ordered, NoneLost
  <2>3. Range(ran) = 1 .. calls
    BY <2>1, <2>2 DEF AllKept
  <2> QED
    BY <1>1, <2>2, <2>3, StackTypes, IncreasingLength
<1> QED
  BY <1>1, Inductive, OrderInductive, PTL
=============================================================================
