-------------------------------- MODULE Minc --------------------------------
(***************************************************************************)
(* Minc's interpreter (trees.c): exct() walks the trees of a script, and   *)
(* every list, handle and PField is counted by the symbols, tree nodes,    *)
(* argument lists, objects and notes that hold it.  A script stands for a  *)
(* loop over some of Statements under conditions that may have any value,  *)
(* so they are executed in any order.  Numbers and strings are one value:   *)
(* where the code tells them apart, either may be the case.                *)
(***************************************************************************)
EXTENDS Integers, FiniteSets, SequencesExt

CONSTANTS
  Code,             \* the trees: a sequence of nodes, children first
  Statements,       \* the nodes that are statements
  Symbols,
  Declarations,     \* declarations scripts open with: partial functions
  Objs,             \* lists, handles and PFields that may be live at a time
  MAXSTACK,         \* depth of argument lists
  MAXDISPARGS,      \* length of a list that is written out, or of arguments
  MAX_LISTS,        \* lists evaluated before the loop check fires
  MaxNotes,         \* bound: notes that play
  MaxLen,           \* bound: length of lists
  MaxStatements     \* bound: statements executed

Nodes == DOMAIN Code
KindOf(n) == Code[n].k
KidsOf(n) == {Code[n].kids[i] : i \in DOMAIN Code[n].kids}

(* What minc.y builds: trees, whose list elements are below a list, an      *)
(* argument list or another element; binary operators; and three            *)
(* declarations, two of them of one type here.                              *)
ASSUME CodeAssumption ==
  /\ Len(Code) \in Nat /\ Nodes = 1 .. Len(Code)
  /\ \A n \in Nodes : Code[n].kids \in Seq(1 .. n - 1)
  /\ Statements \subseteq {n \in Nodes : KindOf(n) # "elem"}
ASSUME GrammarAssumption ==
  \A n \in Nodes :
    /\ KindOf(n) \in {"name", "store", "opassign", "read", "write"}
         => Code[n].sym \in Symbols
    /\ KindOf(n) \in {"elem", "store", "opassign", "read", "write"}
         => Code[n].kids # <<>>
    /\ KindOf(n) = "operator" => Len(Code[n].kids) = 2
    /\ KindOf(n) \notin {"list", "call", "elem"}
         => \A k \in KidsOf(n) : KindOf(k) # "elem"
ASSUME DeclarationsAssumption ==
  /\ IsFiniteSet(Symbols)
  /\ \A d \in Declarations : \A s \in DOMAIN d : d[s] \in {"num", "handle"}
ASSUME BoundsAssumption ==
  /\ Objs \subseteq Nat \ {0} /\ IsFiniteSet(Objs)
  /\ {MAXSTACK, MAXDISPARGS, MAX_LISTS, MaxNotes, MaxLen, MaxStatements} \subseteq Nat

Types == {"void", "num", "handle", "list", "pfield"}
NULL == 0
Wild == -1          \* the bits of a number, taken for a handle
Value == [t : Types, o : Objs \cup {NULL, Wild}]
Void == [t |-> "void", o |-> NULL]
Num == [t |-> "num", o |-> NULL]
Free == [kind |-> "free", ref |-> 0, elems |-> <<>>]

VARIABLES
  heap,             \* [kind, ref, elems] of every object
  symbols,          \* symbol table: it outlives scripts
  val,              \* the value each tree node keeps between evaluations
  stack,            \* list_stack, the current list last
  list_count,       \* static in check_list_count()
  notes,            \* the PFields of the notes that were started
  script,           \* "none", or "running"
  todo,             \* what is left of the statement: <<phase, node>>
  left,             \* bound: statements that may still be executed
  crashed,          \* the process died: a failed assertion, a wild pointer
  lost              \* history: counted references nothing holds any more

memory == <<heap, lost>>
holders == <<symbols, val, stack, notes>>
control == <<list_count, script, left, crashed>>
vars == <<memory, holders, control, todo>>

-----------------------------------------------------------------------------
(* Reference counts. *)

(* How often a sequence or function of values holds an object, and how      *)
(* often sequences of them do.                                              *)
Held(o, s) == Cardinality({i \in DOMAIN s : s[i].o = o})
HeldAll(o, ss) ==
  Cardinality(UNION {{i} \X {j \in DOMAIN ss[i] : ss[i][j].o = o} : i \in DOMAIN ss})

RefAll(h, s) == [o \in Objs |-> [h[o] EXCEPT !.ref = @ + Held(o, s)]]
Ref(h, v) == RefAll(h, <<v>>)

(* unref_value_list(), unrefHandle(), RefCounted::unref() and the           *)
(* destructors they call, of the first of the values that are left.  An     *)
(* object that is not live fails an assertion.                              *)
UnrefFirst(w) ==
  LET o == Head(w.left).o
      x == w.heap[o]
      rest == Tail(w.left)
  IN  CASE w.left = <<>> -> w
        [] w.left # <<>> /\ o \notin Objs -> [w EXCEPT !.left = rest]
        [] OTHER ->
             CASE x.ref = 0 ->
                    [heap |-> [w.heap EXCEPT ![o].kind = "bad"], left |-> rest]
               [] x.ref = 1 ->
                    [heap |-> [w.heap EXCEPT ![o] = Free], left |-> x.elems \o rest]
               [] OTHER ->
                    [heap |-> [w.heap EXCEPT ![o].ref = @ - 1], left |-> rest]
(* Every value is unreferenced once: no more than these.                    *)
Work(h, s) ==
  Len(s) + Cardinality(UNION {{o} \X DOMAIN h[o].elems : o \in Objs})
UnrefAll(h, s) ==
  LET after[i \in 0 .. Work(h, s)] ==
        IF i = 0 THEN [heap |-> h, left |-> s] ELSE UnrefFirst(after[i - 1])
  IN  after[Work(h, s)].heap
Unref(h, v) == UnrefAll(h, <<v>>)

(* Mutant: the old value is not unreferenced. *)
CopyOver(h, old, new) == Ref(h, new)
(* copy_value(): ref before unref. *)
Copy(h, old, new) == Unref(Ref(h, new), old)

FreeObjs(h) == {o \in Objs : h[o].kind = "free"}
Fresh(h) == CHOOSE o \in FreeObjs(h) : \A p \in FreeObjs(h) : o <= p
Room(n) == Cardinality(FreeObjs(heap)) >= n

(* A new object, not yet referenced, that references its elements. *)
New(h, kind, elems) ==
  [RefAll(h, elems) EXCEPT
     ![Fresh(h)] = [kind |-> kind, ref |-> 0, elems |-> elems]]

(* _createPFieldHandle() of a new PField over operands; its first handle.  *)
NewHandle(h, operands) ==
  LET p == New(h, "pfield", operands)
  IN  New(p, "handle", <<[t |-> "pfield", o |-> Fresh(h)]>>)
HandleTo(h, operands) ==
  [t |-> "handle", o |-> Fresh(New(h, "pfield", operands))]

IsPField(v) == v.t = "handle" /\ v.o \in Objs /\ heap[v.o].kind = "handle"
(* The PField of a handle; the one of a number is not shared. *)
PFieldOf(v) == IF IsPField(v) THEN heap[v.o].elems[1] ELSE Num

LoseAll(l, s) == [o \in Objs |-> l[o] + Held(o, s)]
UncountAll(l, s) == [o \in Objs |-> l[o] - Held(o, s)]

Dead == crashed \/ \E o \in Objs : heap[o].kind = "bad"

-----------------------------------------------------------------------------
(* Control. *)

(* exct() of n: what it visits below it, in order, and then n itself. *)
Below(n) ==
  [i \in DOMAIN Code[n].kids |-> <<"visit", Code[n].kids[i]>>] \o <<<<"do", n>>>>

Init ==
  /\ heap = [o \in Objs |-> Free]
  /\ symbols = [s \in Symbols |-> Void]
  /\ val = [n \in Nodes |-> Void]
  /\ stack = <<>> /\ list_count = 0 /\ notes = <<>>
  /\ script = "none" /\ todo = <<>> /\ left = MaxStatements
  /\ crashed = FALSE
  /\ lost = [o \in Objs |-> 0]

(* declare(): the type of a symbol changes under its value.  A number that  *)
(* becomes a handle is NULL or a wild pointer; nothing is unreferenced.     *)
Declared(d, s, pointer) ==
  LET v == symbols[s] IN
  IF s \notin DOMAIN d \/ d[s] = v.t THEN v
  ELSE IF d[s] = "num" THEN Num
  ELSE [t |-> "handle", o |-> CASE v.t = "void" -> NULL
                                [] v.t = "num" -> pointer
                                [] v.t = "list" -> Wild]

(* yyparse() of the script parses its declarations. *)
BeginScript ==
  /\ script = "none" /\ ~Dead /\ left > 0
  /\ script' = "running"
  /\ \E d \in Declarations, pointer \in {NULL, Wild} :
       symbols' = [s \in Symbols |-> Declared(d, s, pointer)]
  /\ lost' = LoseAll(lost, [s \in {s \in Symbols : symbols'[s] # symbols[s]} |->
                              symbols[s]])
  /\ UNCHANGED <<heap, val, stack, notes, list_count, todo, left, crashed>>

BeginStatement(n) ==
  /\ script = "running" /\ todo = <<>> /\ ~Dead /\ left > 0
  /\ todo' = <<<<"visit", n>>>> /\ left' = left - 1
  /\ UNCHANGED <<memory, holders, list_count, script, crashed>>

(* cleanup(): free_tree() of the whole script.  free_symbols() is not       *)
(* called.                                                                  *)
EndScript ==
  /\ script = "running" /\ todo = <<>> /\ ~Dead
  /\ script' = "none"
  /\ heap' = UnrefAll(heap, val)
  /\ val' = [n \in Nodes |-> Void]
  /\ UNCHANGED <<symbols, stack, notes, list_count, todo, left, crashed, lost>>

(* A syntax error below what was executed: yyparse() returns without        *)
(* cleanup() and drops the trees.                                           *)
ParseError ==
  /\ script = "running" /\ todo = <<>> /\ ~Dead
  /\ script' = "none"
  /\ lost' = LoseAll(lost, val)
  /\ val' = [n \in Nodes |-> Void]
  /\ UNCHANGED <<heap, symbols, stack, notes, list_count, todo, left, crashed>>

(* Between messages a note ends: ~Instrument() deletes its PFieldSet. *)
EndNote(i) ==
  /\ script = "none" /\ ~Dead /\ i \in DOMAIN notes
  /\ heap' = UnrefAll(heap, notes[i])
  /\ notes' = RemoveAt(notes, i)
  /\ UNCHANGED <<lost, symbols, val, stack, control, todo>>

-----------------------------------------------------------------------------
(* exct(): one action for each kind of node. *)

Kid(n, i) == val[Code[n].kids[i]]
Result(n, v) == val' = [val EXCEPT ![n] = v]
At(n, k) ==
  /\ Head(todo) = <<"do", n>> /\ KindOf(n) \in k /\ ~Dead
  /\ todo' = Tail(todo)
  /\ UNCHANGED <<script, left>>

(* The way into a node that is no list and no call. *)
Descend(n) ==
  /\ Head(todo) = <<"visit", n>> /\ KindOf(n) \notin {"list", "call"} /\ ~Dead
  /\ todo' = Below(n) \o Tail(todo)
  /\ UNCHANGED <<memory, holders, list_count, script, left, crashed>>

(* The value of n becomes v by copy_value(): v is counted, the old one no   *)
(* longer.                                                                  *)
Keep(n, v) == heap' = Copy(heap, val[n], v) /\ Result(n, v) /\ UNCHANGED lost
(* The value of n is overwritten as it is: its reference is lost. *)
Overwrite(n, v) == lost' = LoseAll(lost, <<val[n]>>) /\ Result(n, v)

(* push_list() on the way into a list or an argument list. *)
PushList(n) ==
  /\ Head(todo) = <<"visit", n>> /\ KindOf(n) \in {"list", "call"} /\ ~Dead
  /\ Len(stack) < MAXSTACK
  /\ stack' = Append(stack, <<>>)
  /\ todo' = Below(n) \o Tail(todo)
  /\ UNCHANGED <<memory, symbols, val, notes, list_count, script, left, crashed>>

(* NodeConstf, NodeString; also NodeRelation, NodeAnd, NodeOr and NodeNot,  *)
(* whose own value is never anything but a number.                          *)
Constant(n) ==
  /\ At(n, {"const"})
  /\ Result(n, Num)
  /\ UNCHANGED <<memory, symbols, stack, notes, list_count, crashed>>

Name(n) ==
  /\ At(n, {"name"})
  /\ symbols[Code[n].sym].o # Wild
  /\ Keep(n, symbols[Code[n].sym])
  /\ UNCHANGED <<symbols, stack, notes, list_count, crashed>>

(* NodeListElem: the value is copied to the node and to the current list. *)
ListElem(n) ==
  /\ At(n, {"elem"})
  /\ Len(Last(stack)) < MAXDISPARGS
  /\ LET v == Last(Code[n].kids) IN
     /\ heap' = Ref(Copy(heap, val[n], val[v]), val[v])
     /\ Result(n, val[v])
     /\ stack' = [stack EXCEPT ![Len(stack)] = Append(@, val[v])]
  /\ UNCHANGED <<lost, symbols, notes, list_count, crashed>>

(* check_list_count() fails: exct() returns without pop_list(). *)
RefuseList(n) ==
  /\ At(n, {"list"})
  /\ list_count >= MAX_LISTS
  /\ list_count' = list_count + 1
  /\ UNCHANGED <<memory, holders, crashed>>

(* pop_list(): clear_list() of the current list; the one below is current. *)
Pop(h) == UnrefAll(h, Last(stack))
(* Mutant: the list stays on the stack. *)
StackKept(s) == s
StackPopped(s) == Front(s)

(* NodeList: the current list becomes the value of the node. *)
MakeList(n) ==
  /\ At(n, {"list"})
  /\ list_count < MAX_LISTS /\ Room(1)
  /\ list_count' = list_count + 1
  /\ LET unref == Unref(heap, IF val[n].t = "list" THEN val[n] ELSE Void)
         made == New(unref, "list", Last(stack))
         v == [t |-> "list", o |-> Fresh(unref)]
     IN  heap' = Pop(Ref(made, v)) /\ Result(n, v)
  /\ stack' = StackPopped(stack)
  /\ UNCHANGED <<lost, symbols, notes, crashed>>

Store(n) ==
  /\ At(n, {"store"})
  /\ symbols[Code[n].sym].o # Wild
  /\ LET s == Code[n].sym IN
     /\ heap' = Copy(Copy(heap, symbols[s], Kid(n, 1)), val[n], Kid(n, 1))
     /\ symbols' = [symbols EXCEPT ![s] = Kid(n, 1)]
  /\ Result(n, Kid(n, 1))
  /\ UNCHANGED <<lost, stack, notes, list_count, crashed>>

OpAssign(n) ==
  /\ At(n, {"opassign"})
  /\ \/ /\ symbols[Code[n].sym].t = "num" /\ Kid(n, 1).t = "num"
        /\ Overwrite(n, Num) /\ UNCHANGED heap
     \/ symbols[Code[n].sym].o # Wild /\ Keep(n, symbols[Code[n].sym])
  /\ UNCHANGED <<symbols, stack, notes, list_count, crashed>>

IsList(s) == symbols[s].t = "list"
Elems(v) == heap[v.o].elems

(* The variable is no list or the index is no number, which it may be       *)
(* whatever its value here: minc_die() returns, the node keeps its value.   *)
NoItem(n) ==
  /\ At(n, {"read", "write"})
  /\ UNCHANGED <<memory, holders, list_count, crashed>>

(* exct_subscript_read(): an index before the first or past the last item   *)
(* reads the last one; between two numbers it interpolates.                 *)
SubscriptRead(n) ==
  LET items == Elems(symbols[Code[n].sym]) IN
  /\ At(n, {"read"})
  /\ IsList(Code[n].sym) /\ Kid(n, 1).t = "num" /\ items # <<>>
  /\ \/ \E i \in DOMAIN items : Keep(n, items[i])
     \/ /\ \E i \in 1 .. Len(items) - 1 : items[i].t = "num"
        /\ Overwrite(n, Num) /\ UNCHANGED heap
  /\ UNCHANGED <<symbols, stack, notes, list_count, crashed>>

(* exct_subscript_write(): index -1 is the last item, and a list grows to   *)
(* the index it is written at.                                              *)
SubscriptWrite(n) ==
  LET list == symbols[Code[n].sym]
      items == Elems(list)
      v == Kid(n, Len(Code[n].kids))
  IN
  /\ At(n, {"write"})
  /\ IsList(Code[n].sym) /\ Kid(n, 1).t = "num"
  /\ \E i \in 1 .. MaxLen :
       LET old == IF i \in DOMAIN items THEN items[i] ELSE Num
           grown == [j \in 1 .. IF i > Len(items) THEN i ELSE Len(items) |->
                       IF j = i THEN v ELSE IF j \in DOMAIN items THEN items[j] ELSE Num]
           put == [Ref(heap, v) EXCEPT ![list.o].elems = grown]
       IN  heap' = Copy(Unref(put, old), val[n], v)
  /\ Result(n, v)
  /\ UNCHANGED <<lost, symbols, stack, notes, list_count, crashed>>

(* Which of exct_operator()'s cases this is. *)
OperatorCase(n) ==
  LET a == Kid(n, 1)
      b == Kid(n, 2)
  IN  CASE a.t = "num" /\ b.t = "num" -> "numbers"
        [] "handle" \in {a.t, b.t} /\ {a.t, b.t} \subseteq {"num", "handle"} -> "handles"
        [] a.t = "list" /\ b.t = "num" -> "iterate"
        [] a.t = "num" /\ b.t = "list" ->
             IF Code[n].op \in {"-", "/"} THEN "warn" ELSE "iterate"
        [] OTHER -> "warn"

(* An operand minc_binop_handle_float() and its like can take. *)
Operable(v) == v.t = "num" \/ IsPField(v)

(* do_op_num(), do_op_string() and, for values that cannot be combined, a   *)
(* string and anything else among them, minc_warn().                        *)
MayWarn(n) ==
  OperatorCase(n) = "warn" \/ "num" \in {Kid(n, 1).t, Kid(n, 2).t}
OperateNumbers(n) ==
  /\ At(n, {"operator"})
  /\ \/ OperatorCase(n) = "numbers" /\ Overwrite(n, Num)
     \/ MayWarn(n) /\ UNCHANGED <<val, lost>>
  /\ UNCHANGED <<heap, symbols, stack, notes, list_count, crashed>>

(* do_op_handle_num(), do_op_num_handle(), do_op_handle_handle(): a handle  *)
(* of a PField that references those of its operands.                       *)
OperateHandles(n) ==
  LET fields == <<PFieldOf(Kid(n, 1)), PFieldOf(Kid(n, 2))>> IN
  /\ At(n, {"operator"})
  /\ OperatorCase(n) = "handles" /\ Operable(Kid(n, 1)) /\ Operable(Kid(n, 2))
  /\ Room(2)
  /\ heap' = Ref(NewHandle(heap, fields), HandleTo(heap, fields))
  /\ Overwrite(n, HandleTo(heap, fields))
  /\ UNCHANGED <<symbols, stack, notes, list_count, crashed>>

(* do_op_list_iterate(): a new list.  The items that are no numbers are     *)
(* copied without being counted.                                            *)
ListOperand(n) == Elems(IF Kid(n, 1).t = "list" THEN Kid(n, 1) ELSE Kid(n, 2))
OperateList(n) ==
  LET items == ListOperand(n)
      v == [t |-> "list", o |-> Fresh(heap)]
  IN
  /\ At(n, {"operator"})
  /\ OperatorCase(n) = "iterate" /\ val[n].t = "void" /\ Room(1)
  /\ heap' = [heap EXCEPT ![v.o] = [kind |-> "list", ref |-> 1, elems |-> items]]
  /\ Result(n, v)
  /\ lost' = UncountAll(lost, items)
  /\ UNCHANGED <<symbols, stack, notes, list_count, crashed>>

(* NodeCall of a builtin function, or of a function of the engine that       *)
(* returns a number; an unknown function returns 0.                         *)
Returns(n, h, v) ==
  /\ heap' = Pop(Copy(h, val[n], v)) /\ Result(n, v)
  /\ stack' = StackPopped(stack)
  /\ UNCHANGED <<symbols, list_count, crashed>>

Call(n) ==
  /\ At(n, {"call"})
  /\ Code[n].f = "number"
  /\ Returns(n, heap, Num)
  /\ UNCHANGED <<lost, notes>>

Mixed(v) == v.t = "list" /\ \E i \in DOMAIN Elems(v) : Elems(v)[i].t # "num"
MixedArgs == \E i \in DOMAIN Last(stack) : Mixed(Last(stack)[i])
(* One of numbers here may be one of strings. *)
MayBeMixed ==
  \E i \in DOMAIN Last(stack) :
    Last(stack)[i].t = "list" /\ Elems(Last(stack)[i]) # <<>>

(* maketable() and the like: a handle of a new PField. *)
CallTable(n) ==
  /\ At(n, {"call"})
  /\ Code[n].f = "table" /\ ~MixedArgs /\ Room(2)
  /\ Returns(n, NewHandle(heap, <<>>), HandleTo(heap, <<>>))
  /\ UNCHANGED <<lost, notes>>

(* checkInsts(): the PFields of the arguments are referenced by the note    *)
(* that starts, or dropped when an argument is not to be had.  When setup() *)
(* fails nothing frees the instrument and its PFields.                      *)
Bad(v) == ~Operable(v)
(* Mutant: the PFields of a note are not referenced. *)
LoadNone(h, fields) == h
(* PFieldSet::load() of each argument. *)
Load(h, fields) == RefAll(h, fields)
CallNote(n) ==
  LET args == Last(stack)
      fields == [i \in DOMAIN args |-> PFieldOf(args[i])]
      held == Load(heap, fields)
      inst == [t |-> "handle", o |-> Fresh(held)]
  IN
  /\ At(n, {"call"})
  /\ Code[n].f = "note" /\ ~MixedArgs
  /\ IF \E i \in DOMAIN args : Bad(args[i])
     THEN Returns(n, heap, Num) /\ UNCHANGED <<lost, notes>>
     ELSE \/ /\ Returns(n, held, Num)
             /\ lost' = LoseAll(lost, fields) /\ UNCHANGED notes
          \/ /\ Len(notes) < MaxNotes /\ Room(1)
             /\ Returns(n, New(held, "inst", <<>>), inst)
             /\ notes' = Append(notes, fields) /\ UNCHANGED lost

(* A list of anything but numbers is no argument: call_external_function()  *)
(* returns -1 and exct() copies a retval that was never set.                *)
CallMixed(n) ==
  /\ At(n, {"call"})
  /\ Code[n].f # "number" /\ MayBeMixed
  /\ Returns(n, heap, Num)
  /\ UNCHANGED <<lost, notes>>

(* What kills the process at node n: no room on list_stack or in the        *)
(* current list, where minc_die() returns too; a pointer that is none; an   *)
(* item of an empty list, or an index below -1; the assertions on the       *)
(* operands of handles, and on a list that is computed again; NULL from     *)
(* maketable(); garbage from call_external_function().                      *)
Fault(phase, n) ==
  LET c == Code[n] IN
  \/ phase = "visit" /\ c.k \in {"list", "call"} /\ Len(stack) >= MAXSTACK
  \/ phase = "do" /\
     \/ c.k = "elem" /\ Len(Last(stack)) >= MAXDISPARGS
     \/ c.k \in {"name", "store", "opassign"} /\ symbols[c.sym].o = Wild
     \/ c.k \in {"read", "write"} /\ IsList(c.sym) /\ Kid(n, 1).t = "num"
          /\ (c.k = "write" \/ Elems(symbols[c.sym]) = <<>>)
     \/ c.k = "operator" /\ OperatorCase(n) = "handles"
          /\ ~(Operable(Kid(n, 1)) /\ Operable(Kid(n, 2)))
     \/ c.k = "operator" /\ OperatorCase(n) = "iterate" /\ val[n].t # "void"
     \/ c.k = "call" /\ c.f = "table"
     \/ c.k = "call" /\ c.f # "number" /\ MayBeMixed

Crash ==
  /\ ~Dead /\ todo # <<>>
  /\ Fault(Head(todo)[1], Head(todo)[2])
  /\ crashed' = TRUE
  /\ UNCHANGED <<memory, holders, list_count, script, todo, left>>

Visit(n) ==
  \/ Descend(n) \/ PushList(n) \/ Constant(n) \/ Name(n) \/ ListElem(n)
  \/ RefuseList(n) \/ MakeList(n) \/ Store(n) \/ OpAssign(n)
  \/ NoItem(n) \/ SubscriptRead(n) \/ SubscriptWrite(n)
  \/ OperateNumbers(n) \/ OperateHandles(n) \/ OperateList(n)
  \/ Call(n) \/ CallTable(n) \/ CallNote(n) \/ CallMixed(n)

Next ==
  \/ BeginScript \/ EndScript \/ ParseError \/ Crash
  \/ \E n \in Statements : BeginStatement(n)
  \/ todo # <<>> /\ Visit(Head(todo)[2])
  \/ \E i \in DOMAIN notes : EndNote(i)

Spec == Init /\ [][Next]_vars

-----------------------------------------------------------------------------
(* The state is well-typed. *)
TypeOK ==
  /\ \A o \in Objs :
       /\ heap[o].kind \in {"free", "list", "handle", "inst", "pfield", "bad"}
       /\ heap[o].ref \in Nat /\ \A i \in DOMAIN heap[o].elems : heap[o].elems[i] \in Value
  /\ symbols \in [Symbols -> Value] /\ val \in [Nodes -> Value]
  /\ \A i \in DOMAIN stack : \A j \in DOMAIN stack[i] : stack[i][j] \in Value
  /\ \A i \in DOMAIN notes : \A j \in DOMAIN notes[i] : notes[i][j] \in Value
  /\ list_count \in Nat /\ left \in 0 .. MaxStatements
  /\ script \in {"none", "running"} /\ crashed \in BOOLEAN
  /\ lost \in [Objs -> Int]

Elements(h) == [o \in Objs |-> h[o].elems]

(* The count of an object is the number of places that hold it, and of the  *)
(* references that were lost, whatever scripts did and wherever they were   *)
(* given up; what is freed is held nowhere.                                 *)
RefsExact ==
  LET Holders(o) ==
        Held(o, symbols) + Held(o, val)
        + HeldAll(o, stack) + HeldAll(o, notes) + HeldAll(o, Elements(heap))
  IN  \A o \in Objs :
        IF heap[o].kind = "free" THEN Holders(o) = 0
        ELSE heap[o].ref > 0 /\ heap[o].ref = Holders(o) + lost[o]

(* Between statements the stack of lists is empty but for the lists         *)
(* check_list_count() refused: calls and lists never take the items of      *)
(* another statement otherwise.                                             *)
ListsClosed ==
  todo = <<>> /\ ~Dead =>
    Len(stack) = IF list_count > MAX_LISTS THEN list_count - MAX_LISTS ELSE 0

(* The PFields a note reaches: the least set that holds those of its        *)
(* arguments and, with a PField, its operands.                              *)
NoteFields(i) ==
  {o \in Objs :
     \A S \in SUBSET Objs :
       /\ \A j \in DOMAIN notes[i] : notes[i][j].o \in S \cup {NULL}
       /\ \A p \in S : \A k \in DOMAIN heap[p].elems : heap[p].elems[k].o \in S \cup {NULL}
       => o \in S}

(* Whatever scripts do to the tables, variables and lists of a note that    *)
(* was started, its PFields stay what they were until it ends.              *)
NotesKeepFields ==
  [][\A i \in DOMAIN notes :
       (i \in DOMAIN notes' /\ notes'[i] = notes[i] /\ Len(notes') >= Len(notes))
       => \A o \in NoteFields(i) : heap'[o].elems = heap[o].elems
                                  /\ heap'[o].kind = "pfield"]_vars

(* trees.c:1624 and utils.cpp:51 assert it: nothing is unreferenced that is *)
(* already free.                                                            *)
UnrefsLive == \A o \in Objs : heap[o].kind # "bad"

(* No arithmetic on a list that holds lists or handles: what                *)
(* do_op_list_iterate() does not count.                                     *)
PlainArithmetic ==
  \A n \in Nodes :
    todo # <<>> /\ Head(todo) = <<"do", n>> /\ KindOf(n) = "operator"
    /\ OperatorCase(n) = "iterate"
    => \A i \in DOMAIN ListOperand(n) : ListOperand(n)[i].o \notin Objs
=============================================================================
