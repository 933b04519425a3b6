------------------------------- MODULE MincMC -------------------------------
(***************************************************************************)
(* Instances of Minc: the scripts of the runs, as the trees of their       *)
(* statements.                                                             *)
(***************************************************************************)
EXTENDS Minc

Leaf(k, s) == [k |-> k, kids |-> <<>>, sym |-> s, op |-> "", f |-> ""]
Tree(k, kids) == [Leaf(k, "") EXCEPT !.kids = kids]
On(k, s, kids) == [Tree(k, kids) EXCEPT !.sym = s]
Op(op, kids) == [Tree("operator", kids) EXCEPT !.op = op]
Fn(f, kids) == [Tree("call", kids) EXCEPT !.f = f]

Script == <<
  Leaf("name", "b"), Tree("elem", <<1>>), Fn("table", <<2>>),
    On("store", "a", <<3>>),                                \* a = maketable(b)
  Leaf("name", "a"), Leaf("const", ""), On("read", "b", <<6>>),
    Op("*", <<5, 7>>), On("store", "a", <<8>>),             \* a = a * b[i]
  Leaf("name", "a"), Tree("elem", <<10>>), Leaf("const", ""),
    Tree("elem", <<12>>), Tree("list", <<13>>), Leaf("const", ""),
    Op("+", <<14, 15>>), Tree("elem", <<16>>), Fn("number", <<17>>),
    Tree("elem", <<11, 18>>), Tree("list", <<19>>),
    On("store", "b", <<20>>),                         \* b = {a, len({1} + 1)}
  Leaf("const", ""), On("opassign", "a", <<22>>), Tree("elem", <<23>>),
    Fn("note", <<24>>),                                     \* INST(a += 1)
  Leaf("const", ""), Leaf("name", "a"),
    On("write", "b", <<26, 27>>),                           \* b[i] = a
  Leaf("const", ""), Tree("elem", <<29>>), Leaf("const", ""),
    Tree("elem", <<30, 31>>), Leaf("const", ""), Tree("elem", <<32, 33>>),
    Tree("list", <<34>>)                                    \* {1, 2, 3}
>>
ScriptStatements == {4, 9, 21, 25, 28, 35}

(* c = {{1}, 2}; d = c * 2 *)
Nested == <<
  Leaf("const", ""), Tree("elem", <<1>>), Tree("list", <<2>>),
    Tree("elem", <<3>>), Tree("list", <<4>>), On("store", "a", <<5>>),
  Leaf("name", "a"), Leaf("const", ""), Op("*", <<7, 8>>),
    On("store", "b", <<9>>)
>>
NestedStatements == {6, 10}
NoDeclaration == [s \in {} |-> "num"]
OneDeclaration == {NoDeclaration}
Redeclarations ==
  {NoDeclaration, "a" :> "num", "b" :> "handle",
   "a" :> "num" @@ "b" :> "handle"}
TwoSymbols == {"a", "b"}
FiveObjs == 1 .. 5
SevenObjs == 1 .. 7
=============================================================================
