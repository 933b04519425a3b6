------------------------------ MODULE PdObject ------------------------------
(***************************************************************************)
(* The rtcmix~ object as Pd drives it (rtcmix~.c) and the engine it loads: *)
(* its messages, the reload of the library by rtcmix_dsp(), and            *)
(* rtcmix_perform() with its outlet.  What an outlet sends may come back   *)
(* as messages to the same object, in the middle of perform.  Time counts  *)
(* in signal vectors; a score is one note of an instrument that plays,     *)
(* MAXBANG or MAXMESSAGE.                                                  *)
(***************************************************************************)
EXTENDS Integers, FiniteSets

CONSTANTS
  Scores,           \* what a message may schedule: records [inst, val, due, len]
  MaxNotes,         \* bound: notes in a behaviour
  MaxLoads,         \* bound: calls of rtcmix_dsp()
  None              \* no values; vals_ready = 0

ASSUME BoundsAssumption == MaxNotes \in Nat /\ MaxLoads \in Nat
ASSUME ScoresAssumption ==
  \A s \in Scores : /\ s.inst \in {"MAXBANG", "MAXMESSAGE", "SOUND"}
                    /\ s.due \in Nat /\ s.len \in Nat \ {0}
                    /\ s.inst # "MAXMESSAGE" => s.val = None
                    /\ s.inst # "SOUND" => s.len = 1

VARIABLES
  canvas_dspstate,
  loaded,           \* the pointers into the library are set
  loads,            \* calls of rtcmix_dsp() so far
  flushflag,
  pc,               \* where perform is: "idle" outside of it
  heap, queue,      \* notes of the engine: to come, playing
  due, left,        \* vectors until a note starts, and those it has to play
  bang_ready, vals_ready,
  alive,            \* no call through a null pointer yet
  score, from,      \* history: what a note plays and the message it came from
  doomed,           \* history: notes in the engine at a flush message
  flushed,          \* history: notes a flush deleted
  lost,             \* history: notes in the engine at a reload
  ran,              \* history: notes run by the last pullTraverse()
  sent              \* history: what perform sent since: bang, values

engine == <<heap, queue, due, left, score, from>>
mailboxes == <<bang_ready, vals_ready>>
history == <<doomed, flushed, lost, ran, sent>>
vars == <<canvas_dspstate, loaded, loads, flushflag, pc, engine, mailboxes,
          alive, history>>

Ids == 1 .. MaxNotes
Notes == DOMAIN score
Inst(n) == score[n].inst
NoneSent == [bang |-> FALSE, vals |-> None]

Init ==
  /\ canvas_dspstate = FALSE /\ loaded = FALSE /\ loads = 0
  /\ flushflag = FALSE /\ pc = "idle" /\ alive = TRUE
  /\ heap = {} /\ queue = {}
  /\ due = <<>> /\ left = <<>> /\ score = <<>> /\ from = <<>>
  /\ bang_ready = FALSE /\ vals_ready = None
  /\ doomed = {} /\ flushed = {} /\ lost = {} /\ ran = {} /\ sent = NoneSent

(***************************************************************************)
(* Messages: between two performs, or from what the outlet is connected to *)
(* while perform sends a bang or values.                                   *)
(***************************************************************************)
Listening == alive /\ pc \in {"idle", "in_bang", "in_vals"}

(* checkInsts(): a note joins the heap of the engine. *)
Schedule(s, message) ==
  LET n == Cardinality(Notes) + 1 IN
  /\ n \in Ids
  /\ heap' = heap \cup {n}
  /\ due' = [i \in 1 .. n |-> IF i = n THEN s.due ELSE due[i]]
  /\ left' = [i \in 1 .. n |-> IF i = n THEN s.len ELSE left[i]]
  /\ score' = [i \in 1 .. n |-> IF i = n THEN s ELSE score[i]]
  /\ from' = [i \in 1 .. n |-> IF i = n THEN message ELSE from[i]]
  /\ UNCHANGED queue

Stay == UNCHANGED <<canvas_dspstate, loaded, loads, pc, mailboxes>>

(* A call of parse_score() or parse_dispatch(): null before the first dsp. *)
Send(message) ==
  /\ Stay /\ UNCHANGED <<flushflag, history>>
  /\ IF loaded THEN UNCHANGED alive /\ \E s \in Scores : Schedule(s, message)
               ELSE alive' = FALSE /\ UNCHANGED engine

Refuse == Stay /\ UNCHANGED <<flushflag, engine, alive, history>>

(* goscript N, or a float: refused while the dacs are off. *)
Goscript(message) == IF canvas_dspstate THEN Send(message) ELSE Refuse
FloatMessage == Listening /\ Goscript("float")

(* Mutant: bang runs the script though a flush is due. *)
BangAlways == Listening /\ Goscript("bang")
Bang == Listening /\ IF flushflag THEN Refuse ELSE Goscript("bang")

(* text and rtcmix: they do not ask for the dacs. *)
Text ==
  /\ Listening
  /\ IF flushflag THEN Refuse ELSE \E m \in {"text", "rtcmix"} : Send(m)

(* pfield_set(): a value for the fields of an inlet, not told apart here. *)
FloatInlet ==
  /\ Listening
  /\ alive' = loaded
  /\ Stay /\ UNCHANGED <<flushflag, engine, history>>

Flush ==
  /\ Listening
  /\ flushflag' = TRUE
  /\ doomed' = doomed \cup heap \cup queue
  /\ Stay /\ UNCHANGED <<engine, alive, flushed, lost, ran, sent>>

(***************************************************************************)
(* Audio on, or a change of the patch while it is on: rtcmix_dsp().        *)
(***************************************************************************)
(* A new library: none of the engine's data is left. *)
Reset ==
  /\ heap' = {} /\ queue' = {} /\ bang_ready' = FALSE /\ vals_ready' = None

Dsp ==
  /\ alive /\ pc = "idle" /\ loads < MaxLoads
  /\ canvas_dspstate' = TRUE
  /\ loads' = loads + 1
  /\ loaded' \in BOOLEAN
  /\ Reset
  /\ lost' = lost \cup heap \cup queue
  /\ UNCHANGED <<flushflag, pc, due, left, score, from, alive, doomed, flushed,
                 ran, sent>>

DspOff ==
  /\ alive /\ pc = "idle" /\ canvas_dspstate
  /\ canvas_dspstate' = FALSE
  /\ UNCHANGED <<loaded, loads, flushflag, pc, engine, mailboxes, alive,
                 history>>

(***************************************************************************)
(* rtcmix_perform().                                                       *)
(***************************************************************************)
Due == {n \in heap : due[n] = 0}

(* Mutant: the time of the scheduler stands still. *)
Waiting(n) == due[n]
Sooner(n) == due[n] - 1

(* The values the last MAXMESSAGE of the vector leaves, in any order. *)
ValsLeft(run) ==
  LET messages == {n \in run : Inst(n) = "MAXMESSAGE"}
  IN  IF messages = {} THEN {vals_ready} ELSE {score[n].val : n \in messages}

PullTraverse ==
  /\ alive /\ pc = "idle" /\ canvas_dspstate
  /\ IF ~loaded THEN alive' = FALSE
                     /\ UNCHANGED <<pc, engine, mailboxes, ran, sent>>
     ELSE LET run == Due \cup queue IN
          /\ heap' = heap \ Due
          /\ queue' = {n \in run : left[n] > 1}
          /\ due' = [n \in Notes |->
                       IF n \in heap \ Due THEN Sooner(n) ELSE due[n]]
          /\ left' = [n \in Notes |-> IF n \in run THEN left[n] - 1 ELSE left[n]]
          /\ bang_ready' = (bang_ready \/ \E n \in run : Inst(n) = "MAXBANG")
          /\ vals_ready' \in ValsLeft(run)
          /\ ran' = run /\ sent' = NoneSent
          /\ pc' = "check_bang"
          /\ UNCHANGED <<score, from, alive>>
  /\ UNCHANGED <<canvas_dspstate, loaded, loads, flushflag, doomed, flushed,
                 lost>>

(* Mutant: what is sent stays in the mailbox. *)
CheckValsKept ==
  /\ alive /\ pc \in {"check_vals", "in_bang"}
  /\ IF vals_ready # None THEN sent' = [sent EXCEPT !.vals = vals_ready]
                               /\ pc' = "in_vals"
                          ELSE pc' = "end" /\ UNCHANGED sent
  /\ UNCHANGED <<canvas_dspstate, loaded, loads, flushflag, engine, bang_ready,
                 vals_ready, alive, doomed, flushed, lost, ran>>

CheckBang ==
  /\ alive /\ pc = "check_bang"
  /\ bang_ready' = FALSE
  /\ IF bang_ready THEN sent' = [sent EXCEPT !.bang = TRUE] /\ pc' = "in_bang"
                   ELSE pc' = "check_vals" /\ UNCHANGED sent
  /\ UNCHANGED <<canvas_dspstate, loaded, loads, flushflag, engine, vals_ready,
                 alive, doomed, flushed, lost, ran>>

CheckVals ==
  /\ alive /\ pc \in {"check_vals", "in_bang"}
  /\ vals_ready' = None
  /\ IF vals_ready # None THEN sent' = [sent EXCEPT !.vals = vals_ready]
                               /\ pc' = "in_vals"
                          ELSE pc' = "end" /\ UNCHANGED sent
  /\ UNCHANGED <<canvas_dspstate, loaded, loads, flushflag, engine, bang_ready,
                 alive, doomed, flushed, lost, ran>>

(* Mutant: the notes that already play are left in their queues. *)
ResetHeap == heap' = {} /\ UNCHANGED queue
(* resetQueueHeap(): new, empty ones. *)
ResetQueueHeap == heap' = {} /\ queue' = {}

(* Mutant: the flag stays set after the flush. *)
FlagStays == UNCHANGED flushflag
FlagReset == flushflag' = FALSE

(* The end of perform: flush if it is due. *)
EndPerform ==
  /\ alive /\ pc \in {"end", "in_vals"}
  /\ pc' = "idle"
  /\ FlagReset
  /\ IF flushflag THEN ResetQueueHeap /\ flushed' = flushed \cup heap \cup queue
                  ELSE UNCHANGED <<heap, queue, flushed>>
  /\ UNCHANGED <<canvas_dspstate, loaded, loads, due, left, score, from,
                 mailboxes, alive, doomed, lost, ran, sent>>

Messages == FloatMessage \/ Bang \/ Text \/ FloatInlet \/ Flush
Perform == PullTraverse \/ CheckBang \/ CheckVals \/ EndPerform

Next == Messages \/ Dsp \/ DspOff \/ Perform

Spec == Init /\ [][Next]_vars

(* Pd calls perform in every vector while its DSP is on, and a message of  *)
(* an outlet returns.                                                      *)
FairSpec == Spec /\ WF_vars(Perform)

-----------------------------------------------------------------------------
Vals == {s.val : s \in Scores} \cup {None}

(* The state is well-typed. *)
TypeOK ==
  /\ canvas_dspstate \in BOOLEAN /\ loaded \in BOOLEAN /\ loads \in 0 .. MaxLoads
  /\ flushflag \in BOOLEAN /\ alive \in BOOLEAN
  /\ pc \in {"idle", "check_bang", "in_bang", "check_vals", "in_vals", "end"}
  /\ Notes \subseteq Ids /\ heap \cap queue = {}
  /\ heap \cup queue \cup doomed \cup flushed \cup lost \cup ran \subseteq Notes
  /\ score \in [Notes -> Scores]
  /\ due \in [Notes -> Nat] /\ left \in [Notes -> Nat]
  /\ from \in [Notes -> {"bang", "float", "text", "rtcmix"}]
  /\ bang_ready \in BOOLEAN
  /\ vals_ready \in Vals /\ sent \in [bang : BOOLEAN, vals : Vals]

(* A flush message was sent for a note, or the note came from a float,     *)
(* which no flush keeps from the engine.                                   *)
MayBeFlushed(n) == n \in doomed \/ from[n] = "float"

(* No note is dropped: whatever messages come in the middle of perform, in *)
(* whatever order with flushes and reloads, a note leaves the engine when  *)
(* it has played all its vectors, in a reload of the library, or in a      *)
(* flush whose message came after it.  Only a float's goes in any flush.   *)
NotesAccounted ==
  \A n \in Notes \ (heap \cup queue) :
    left[n] = 0 \/ n \in lost \/ (n \in flushed /\ MayBeFlushed(n))

(* Once a flush message is done with, no note it was sent for is in the    *)
(* engine, playing or to come, also if the engine was loaded anew between. *)
FlushLeavesNothing == ~flushflag => doomed \cap (heap \cup queue) = {}

(* When perform ends, it has sent one bang if any MAXBANG ran in it and    *)
(* none otherwise; the values it sent are those of a MAXMESSAGE that ran   *)
(* in it, and of the only one if there was one.                            *)
BangOwed(b) == b <=> \E n \in ran : Inst(n) = "MAXBANG"
RanMessages == {n \in ran : Inst(n) = "MAXMESSAGE"}
ValsOwed(v) ==
  /\ v # None => \E n \in RanMessages : v = score[n].val
  /\ \A n \in RanMessages : RanMessages = {n} => v = score[n].val
SentWhatRan == pc = "idle" => BangOwed(sent.bang) /\ ValsOwed(sent.vals)

(* While the DSP stays on, a note in the engine plays to its end, is       *)
(* flushed, or is lost to a reload.                                        *)
NotesEnd ==
  \A n \in Ids :
    (n \in heap \cup queue /\ canvas_dspstate)
      ~> (n \notin heap \cup queue \/ ~canvas_dspstate \/ ~alive)

(* While the DSP stays on, messages are refused only for a while.          *)
RefusalEnds ==
  (flushflag /\ canvas_dspstate) ~> (~flushflag \/ ~canvas_dspstate \/ ~alive)

(* The inductive invariant of the proofs.  Notes are numbered as they      *)
(* come, and those in the engine have something left to play.              *)
NotesNumbered == \E k \in 0 .. MaxNotes : Notes = 1 .. k
ToPlay == \A n \in heap \cup queue : left[n] > 0

(* While a flush is due, it may take all that is in the engine. *)
WindowDoomed == flushflag => \A n \in heap \cup queue : MayBeFlushed(n)

(* What ran is in the mailboxes until it has been sent, and nothing else.  *)
Boxes ==
  /\ pc = "check_bang" => /\ sent = NoneSent
                          /\ BangOwed(bang_ready) /\ ValsOwed(vals_ready)
  /\ pc # "check_bang" => ~bang_ready /\ BangOwed(sent.bang)
  /\ pc \in {"in_bang", "check_vals"} =>
       sent.vals = None /\ ValsOwed(vals_ready)
  /\ pc \in {"in_vals", "end", "idle"} =>
       vals_ready = None /\ ValsOwed(sent.vals)

IInv ==
  /\ TypeOK /\ NotesNumbered /\ ToPlay /\ WindowDoomed
  /\ NotesAccounted /\ FlushLeavesNothing /\ Boxes
=============================================================================
