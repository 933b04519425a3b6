----------------------------- MODULE MincParser -----------------------------
(***************************************************************************)
(* Minc's scanner and parser (lex.yy.c, y.tab.c): the shift-reduce parser  *)
(* with its panic-mode error recovery, the counter `level` that decides    *)
(* whether a statement is executed as soon as it is parsed, and the state  *)
(* of both that survives from one script to the next.  The grammar is      *)
(* reduced to calls, ';', blocks and if.  A "call" and an "if" stand for   *)
(* all of their tokens, the if with its condition in parentheses; "bad" is *)
(* a token that neither begins a statement nor ends a condition, and ")"   *)
(* one that begins none but may end a condition.                           *)
(***************************************************************************)
EXTENDS Integers, FiniteSets, Sequences, Functions

CONSTANTS
  Lexemes,          \* what scripts are made of
  MaxLexemes,       \* bound: length of a script
  MaxScripts        \* bound: scripts that are parsed

ASSUME LexemesAssumption ==
  Lexemes \subseteq {"call", ";", "if", "{", "}", ")", "bad",
                     "/*", "*/", "//", "newline"}
ASSUME BoundsAssumption == {MaxLexemes, MaxScripts} \subseteq Nat

NoToken == "none"   \* yychar < 0
EOF == "eof"

VARIABLES
  running,          \* yyparse() has been called and has not returned
  stack,            \* yyssp and yyvsp: symbols with the calls they hold
  yychar,           \* the lookahead
  yyerrflag,
  level,            \* static: structures being parsed
  cond,             \* yy_start: the start condition of the scanner
  comments,         \* static: depth of nested comments
  read,             \* bound and history: lexemes of this script so far
  calls,            \* history: calls the parser was given
  ran,              \* history: calls that were executed, in order
  errors,           \* yynerrs
  startLevel,       \* history: level when this script began
  plain,            \* history: no comment reached this script
  scripts           \* bound: scripts parsed so far

scanner == <<cond, comments, read, plain>>
history == <<calls, ran, errors, startLevel>>
vars == <<running, stack, yychar, yyerrflag, level, scanner, history, scripts>>

-----------------------------------------------------------------------------
(* The automaton: its states are the symbols on top of the stack. *)

Entry(s, ids) == [s |-> s, ids |-> ids]
SymbolAt(k) == IF Len(stack) > k THEN stack[Len(stack) - k].s ELSE "start"
Top == SymbolAt(0)
Below == SymbolAt(1)
TopIds == stack[Len(stack)].ids
Drop(k) == SubSeq(stack, 1, Len(stack) - k)

(* Tokens a statement starts with. *)
First == {"call", "if", "{"}
(* States in which a statement may start, and error may be shifted.  The    *)
(* states before the condition of an if is reduced ("level") are not among  *)
(* them.                                                                    *)
Starts(s) == s \in {"start", "stml", "{", "if"}
Statement(s) == s \in {"start", "stml", "{"}
(* Tokens that end an error. *)
Sync == {";", "if", "{"}

(* A token is shifted; after three of them an error is forgotten, and a     *)
(* call and an if have as many.                                             *)
Shifted ==
  /\ yychar' = NoToken
  /\ yyerrflag' = IF yyerrflag > 0 THEN yyerrflag - 1 ELSE 0
AllShifted == yychar' = NoToken /\ yyerrflag' = 0

(* Mutant: the level is not looked at. *)
GoAlways(l, ids) == ran' = ran \o ids
(* go(): the calls of a tree are executed unless a structure is open. *)
Go(l, ids) == ran' = IF l = 0 THEN ran \o ids ELSE ran

(* Mutant: the level is entered only when the condition is parsed. *)
EnterLate == level
(* The action of the empty rule `level` before the condition of an if. *)
Enter == level + 1
(* Mutants: the level is not left, or set back. *)
Stay == level
SetBack == 0
(* The actions of the rules of if. *)
Leave == level - 1

Init ==
  /\ running = FALSE /\ stack = <<>> /\ yychar = NoToken /\ yyerrflag = 0
  /\ level = 0 /\ cond = "INIT" /\ comments = 0
  /\ read = 0 /\ calls = 0 /\ ran = <<>> /\ errors = 0 /\ startLevel = 0
  /\ plain = TRUE /\ scripts = 0

(* yyparse(): everything is reset but level and the scanner's state. *)
Begin ==
  /\ ~running /\ scripts < MaxScripts
  /\ running' = TRUE /\ scripts' = scripts + 1
  /\ stack' = <<>> /\ yychar' = NoToken /\ yyerrflag' = 0 /\ errors' = 0
  /\ read' = 0 /\ calls' = 0 /\ ran' = <<>> /\ startLevel' = level
  /\ plain' = (cond = "INIT")
  /\ UNCHANGED <<level, cond, comments>>

-----------------------------------------------------------------------------
(* yylex(): a lexeme is a token, or changes the start condition, or is      *)
(* skipped.                                                                 *)
Comment(x) ==
  \/ /\ cond = "INIT" /\ x = "/*"
     /\ cond' = "COM" /\ comments' = comments + 1
  \/ /\ cond = "INIT" /\ x = "//"
     /\ cond' = "CPCOM" /\ UNCHANGED comments
  \/ /\ cond = "COM" /\ x = "/*"
     /\ comments' = comments + 1 /\ UNCHANGED cond
  \/ /\ cond = "COM" /\ x = "*/"
     /\ comments' = comments - 1
     /\ cond' = IF comments = 1 THEN "INIT" ELSE "COM"
  \/ /\ cond = "CPCOM" /\ x = "newline"
     /\ cond' = "INIT" /\ UNCHANGED comments
  \/ /\ \/ cond = "COM" /\ x \notin {"/*", "*/"}
        \/ cond = "CPCOM" /\ x # "newline"
     /\ UNCHANGED <<cond, comments>>

Token(x) == IF x = "*/" THEN "bad" ELSE x

Scans == running /\ yychar = NoToken

ReadComment(x) ==
  /\ Scans /\ read < MaxLexemes
  /\ Comment(x) /\ read' = read + 1 /\ plain' = FALSE
  /\ UNCHANGED <<running, stack, yychar, yyerrflag, level, history, scripts>>

ReadNewline ==
  /\ Scans /\ read < MaxLexemes /\ cond = "INIT" /\ "newline" \in Lexemes
  /\ read' = read + 1
  /\ UNCHANGED <<running, stack, yychar, yyerrflag, level, cond, comments,
                 plain, history, scripts>>

ReadToken(x) ==
  /\ Scans /\ read < MaxLexemes /\ cond = "INIT"
  /\ x \notin {"/*", "//", "newline"}
  /\ read' = read + 1 /\ yychar' = Token(x)
  /\ calls' = IF x = "call" THEN calls + 1 ELSE calls
  /\ UNCHANGED <<running, stack, yyerrflag, level, cond, comments, plain,
                 ran, errors, startLevel, scripts>>

ReadEOF ==
  /\ Scans /\ yychar' = EOF
  /\ UNCHANGED <<running, stack, yyerrflag, level, scanner, history, scripts>>

-----------------------------------------------------------------------------
(* The parser's moves. *)

Follow == First \cup {";", "}"}
Reads(tokens) == running /\ yychar \in tokens
Quiet == UNCHANGED <<running, scanner, calls, errors, startLevel, scripts>>
Kept == UNCHANGED <<yychar, yyerrflag>>

(* A call is a statement at once, but after '{' it may begin a list. *)
ShiftCall ==
  /\ Reads({"call"}) /\ Starts(Top)
  /\ IF Top = "{"
     THEN stack' = Append(stack, Entry("call", <<calls>>)) /\ UNCHANGED ran
     ELSE stack' = Append(stack, Entry("stmt", <<calls>>)) /\ Go(level, <<calls>>)
  /\ AllShifted /\ UNCHANGED level /\ Quiet

ReduceCall ==
  /\ Reads(Follow) /\ Top = "call"
  /\ stack' = Append(Drop(1), Entry("stmt", TopIds)) /\ Go(level, TopIds)
  /\ UNCHANGED level /\ Kept /\ Quiet

(* The level is entered before the condition is read. *)
ShiftIf ==
  /\ Reads({"if"}) /\ Starts(Top)
  /\ stack' = Append(stack, Entry("level", <<>>)) /\ level' = Enter
  /\ AllShifted /\ UNCHANGED ran /\ Quiet

(* The condition ends at what may follow it: a statement is expected. *)
ReduceCond ==
  /\ Reads(First \cup {";", ")"}) /\ Top = "level"
  /\ stack' = Append(Drop(1), Entry("if", <<>>))
  /\ UNCHANGED <<level, ran>> /\ Kept /\ Quiet

OpenBlock ==
  /\ Reads({"{"}) /\ Starts(Top)
  /\ stack' = Append(stack, Entry("{", <<>>))
  /\ Shifted /\ UNCHANGED <<level, ran>> /\ Quiet

CloseBlock ==
  /\ Reads({"}"}) /\ Top = "stml" /\ Below = "{"
  /\ stack' = Append(Drop(2), Entry("stmt", TopIds))
  /\ Shifted /\ UNCHANGED <<level, ran>> /\ Quiet

(* '{' '}' is an empty list, an expression. *)
EmptyList ==
  /\ Reads({"}"}) /\ Top = "{"
  /\ stack' = Append(Drop(1), Entry(IF Below = "{" THEN "call" ELSE "stmt", <<>>))
  /\ Shifted /\ UNCHANGED <<level, ran>> /\ Quiet

(* tseq(): a statement, with or without ';', joins the list it follows. *)
ReduceList ==
  /\ Reads(Follow \cup {EOF}) /\ Top = "stmt" /\ Statement(Below)
  /\ stack' = IF Below = "stml"
              THEN Append(Drop(2), Entry("stml", stack[Len(stack) - 1].ids \o TopIds))
              ELSE Append(Drop(1), Entry("stml", TopIds))
  /\ IF yychar = ";" THEN Shifted ELSE Kept
  /\ UNCHANGED <<level, ran>> /\ Quiet

(* A structure is complete: its level is left, and it is executed if this   *)
(* was the outermost one.                                                   *)
ReduceIf ==
  /\ Reads(Follow \cup {EOF, ")"}) /\ Top = "stmt" /\ Below = "if"
  /\ level' = Leave /\ Go(Leave, TopIds)
  /\ stack' = Append(Drop(2), Entry("stmt", TopIds))
  /\ Kept /\ Quiet

(* The rules of prg: yyparse() returns 0. *)
Complete == Top = "start" \/ (Top = "stml" /\ Below = "start")
Accept ==
  /\ Reads({EOF}) /\ Complete
  /\ running' = FALSE
  /\ UNCHANGED <<stack, yychar, yyerrflag, level, scanner, history, scripts>>

Valid ==
  \/ yychar \in First /\ Starts(Top)
  \/ yychar \in Follow /\ Top = "call"
  \/ yychar \in First \cup {";", ")"} /\ Top = "level"
  \/ yychar \in Follow \cup {EOF} /\ Top = "stmt"
  \/ yychar = ")" /\ Top = "stmt" /\ Below = "if"
  \/ yychar = "}" /\ (Top = "{" \/ (Top = "stml" /\ Below = "{"))
  \/ yychar = EOF /\ Complete

(* yyinrecovery: states are popped until one can shift error.  An if whose  *)
(* condition is not complete is dropped, but its level is not left.         *)
Error ==
  /\ running /\ yychar # NoToken /\ Top # "error" /\ ~Valid
  /\ \E k \in 0 .. Len(stack) :
       /\ Starts(SymbolAt(k)) /\ \A j \in 0 .. k - 1 : ~Starts(SymbolAt(j))
       /\ stack' = Append(Drop(k), Entry("error", <<>>))
  /\ errors' = IF yyerrflag = 0 THEN errors + 1 ELSE errors
  /\ yyerrflag' = 3
  /\ UNCHANGED <<running, yychar, level, scanner, calls, ran, startLevel, scripts>>

(* The rules stmt: error ... : the keyword of an if is taken alone, and     *)
(* what follows it is wrong again.                                          *)
EndError ==
  /\ Reads(Sync) /\ Top = "error"
  /\ stack' = Append(Drop(1), Entry("stmt", <<>>))
  /\ yychar' = IF yychar = "if" THEN "bad" ELSE NoToken
  /\ yyerrflag' = 2
  /\ UNCHANGED <<level, ran>> /\ Quiet

(* Mutant: the token is looked at again. *)
Again == yychar
Discarded == NoToken

Discard ==
  /\ running /\ Top = "error" /\ yychar \notin Sync \cup {EOF, NoToken}
  /\ yychar' = Discarded
  /\ UNCHANGED <<stack, yyerrflag, level, ran>> /\ Quiet

(* yyabort: cleanup() is not called. *)
Abort ==
  /\ Reads({EOF}) /\ Top = "error"
  /\ running' = FALSE
  /\ UNCHANGED <<stack, yychar, yyerrflag, level, scanner, history, scripts>>

Parse ==
  \/ ShiftCall \/ ReduceCall \/ ShiftIf \/ ReduceCond \/ OpenBlock \/ CloseBlock
  \/ EmptyList \/ ReduceList \/ ReduceIf \/ Accept
  \/ Error \/ EndError \/ Discard \/ Abort
Scan ==
  \/ \E x \in Lexemes : ReadComment(x) \/ ReadToken(x)
  \/ ReadNewline \/ ReadEOF

Next == Begin \/ Scan \/ Parse
Spec == Init /\ [][Next]_vars

(* yyparse() is a loop that runs until it returns, and a script has an end. *)
FairSpec == Spec /\ WF_vars(Scan \/ Parse)

-----------------------------------------------------------------------------
Symbols == {"call", "stmt", "stml", "if", "level", "{", "error"}
Entries == [s : Symbols, ids : Seq(Nat)]

(* The state is well-typed. *)
TypeOK ==
  /\ running \in BOOLEAN /\ plain \in BOOLEAN
  /\ stack \in Seq(Entries)
  /\ yychar \in Lexemes \cup {"bad", NoToken, EOF} /\ yyerrflag \in 0 .. 3
  /\ level \in Nat /\ startLevel \in Nat /\ errors \in Nat
  /\ cond \in {"INIT", "COM", "CPCOM"} /\ comments \in Nat
  /\ read \in 0 .. MaxLexemes /\ calls \in Nat /\ scripts \in 0 .. MaxScripts
  /\ ran \in Seq(Nat)

(* A structure, before its condition is complete and after. *)
Structure == {"level", "if"}
Ifs(s) == {i \in DOMAIN s : s[i].s \in Structure}
Open == Cardinality(Ifs(stack))
Increasing(s) == \A i, j \in DOMAIN s : i < j => s[i] < s[j]

(* What error recovery drops, moves past or resumes in, no call is executed *)
(* twice or before one that stands above it.                                *)
RunsOnceInOrder == Increasing(ran)

(* A script without syntax errors and comments that begins outside of any   *)
(* structure has executed all of its calls when yyparse() returns.          *)
RunsAll ==
  ~running /\ errors = 0 /\ plain /\ startLevel = 0 => Len(ran) = calls

(* level never says fewer structures are open than there are: nothing in a  *)
(* structure is executed before the structure is complete.                  *)
LevelCovers == running => level >= startLevel + Open

(* Only a syntax error leaves level behind. *)
LevelReturns == ~running /\ errors = 0 => level = startLevel

(* A structure that was dropped is never made good: its level stays, in     *)
(* this script and in all later ones, and nothing more is executed however  *)
(* well-formed what follows is.                                             *)
Leaked == level > IF running THEN Open ELSE 0
LeakLasts == [][Leaked => Leaked' /\ (ran' = ran \/ ran' = <<>>)]_vars

(* yyparse() returns: recovery does not go round for ever. *)
Returns == running ~> ~running

(* minc.y:25 of level: "keeps track whether we are in a structure".  Between *)
(* scripts none is open.                                                    *)
NoStructureBetween == ~running => level = 0

(* The inductive invariant of the proofs: level has at least the structures *)
(* on the stack, and exactly these unless there was an error.               *)
CommentDepth == cond = "COM" <=> comments > 0
Covered == level >= startLevel + Open
Balanced == errors = 0 => level <= startLevel + Open
ErrorCounted == yyerrflag > 0 \/ Top = "error" => errors > 0
AllClosed == ~running /\ errors = 0 => Open = 0
IInv ==
  /\ TypeOK /\ CommentDepth /\ Covered /\ Balanced /\ ErrorCounted
  /\ AllClosed

(* The inductive invariant for what runs, and when.  The calls on the stack *)
(* that may still run are those in a structure and the one after a '{';     *)
(* they and the calls that ran are in the order of the script, and while    *)
(* nothing was wrong in it they are all of its calls.                       *)
Waiting(st) ==
  {i \in DOMAIN st : st[i].s = "call" \/ \E j \in 1 .. i - 1 : st[j].s \in Structure}
Before(A, B) == \A a \in A, b \in B : a < b
CallOnTop(st) == \A i \in DOMAIN st : st[i].s = "call" => i = Len(st)
Ordered(st, r, n) ==
  /\ Increasing(r) /\ Range(r) \subseteq 1 .. n
  /\ \A i \in Waiting(st) :
       /\ Increasing(st[i].ids) /\ Range(st[i].ids) \subseteq 1 .. n
       /\ Before(Range(r), Range(st[i].ids))
       /\ \A j \in Waiting(st) : j < i => Before(Range(st[j].ids), Range(st[i].ids))
AllKept(st, r, n) ==
  \A c \in 1 .. n : \/ c \in Range(r)
                    \/ \E i \in Waiting(st) : c \in Range(st[i].ids)
(* The call that is the lookahead has a number, but is not on the stack. *)
Seen == IF yychar = "call" THEN calls - 1 ELSE calls

KeywordsHoldNone ==
  \A i \in DOMAIN stack : stack[i].s \in {"{", "level", "if"} => stack[i].ids = <<>>
NoneLost == errors = 0 /\ startLevel = 0 => AllKept(stack, ran, Seen)
Finished == ~running /\ errors = 0 => Complete /\ yychar # "call"
OrderInv ==
  /\ Seen \in Nat /\ CallOnTop(stack) /\ Ordered(stack, ran, Seen)
  /\ KeywordsHoldNone /\ NoneLost /\ Finished
=============================================================================
