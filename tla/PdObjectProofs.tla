--------------------------- MODULE PdObjectProofs ---------------------------
(***************************************************************************)
(* Theorems of PdObject, for any scores and any number of notes and loads. *)
(***************************************************************************)
EXTENDS PdObject, FiniteSetTheorems, TLAPS

(* What the notes that have come so far say of themselves stays. *)
NotesKept ==
  \A n \in Notes : /\ n \in Notes' /\ score'[n] = score[n]
                   /\ from'[n] = from[n] /\ left'[n] = left[n]

(* The number of a new note is none that was there before. *)
LEMMA NextNumber ==
  ASSUME NotesNumbered
  PROVE  \E k \in Nat : /\ k <= MaxNotes /\ Notes = 1 .. k
                        /\ Cardinality(Notes) = k /\ k + 1 \notin Notes
<1>1. PICK k \in 0 .. MaxNotes : Notes = 1 .. k
  BY DEF NotesNumbered
<1>2. k \in Nat /\ k <= MaxNotes
  BY BoundsAssumption
<1>3. Cardinality(1 .. k) = k
  BY <1>2, FS_Interval
<1> QED
  BY <1>1, <1>2, <1>3

(* A new note joins the heap and nothing else changes of the engine.       *)
LEMMA ScheduleKeeps ==
  ASSUME TypeOK, NotesNumbered, ToPlay,
         NEW s \in Scores, NEW message \in {"bang", "float", "text", "rtcmix"},
         Schedule(s, message)
  PROVE  /\ NotesNumbered' /\ ToPlay' /\ NotesKept
         /\ Notes' \subseteq Ids /\ heap' \subseteq Notes' /\ queue' = queue
         /\ heap' \cap queue' = {}
         /\ \E n : /\ Notes' = Notes \cup {n} /\ heap' = heap \cup {n}
                  /\ from'[n] = message
         /\ score' \in [Notes' -> Scores]
         /\ due' \in [Notes' -> Nat] /\ left' \in [Notes' -> Nat]
         /\ from' \in [Notes' -> {"bang", "float", "text", "rtcmix"}]
         /\ heap' \cap Notes \subseteq heap
<1> PICK k \in Nat : /\ k <= MaxNotes /\ Notes = 1 .. k
                     /\ Cardinality(Notes) = k /\ k + 1 \notin Notes
  BY NextNumber
<1> DEFINE n == k + 1
<1>1. /\ n \in Ids /\ heap' = heap \cup {n} /\ queue' = queue
      /\ due' = [i \in 1 .. n |-> IF i = n THEN s.due ELSE due[i]]
      /\ left' = [i \in 1 .. n |-> IF i = n THEN s.len ELSE left[i]]
      /\ score' = [i \in 1 .. n |-> IF i = n THEN s ELSE score[i]]
      /\ from' = [i \in 1 .. n |-> IF i = n THEN message ELSE from[i]]
  BY DEF Schedule
<1>2. Notes' = 1 .. n
  BY <1>1 DEF Notes
<1>3. \A i \in 1 .. n : i = n \/ i \in Notes
  OBVIOUS
<1>4. s.due \in Nat /\ s.len \in Nat \ {0}
  BY ScoresAssumption
<1>5. Notes \subseteq Notes' /\ n \in Notes'
  BY <1>2
<1>6. /\ heap \cup queue \subseteq Notes /\ heap \cap queue = {}
      /\ score \in [Notes -> Scores] /\ due \in [Notes -> Nat]
      /\ left \in [Notes -> Nat]
      /\ from \in [Notes -> {"bang", "float", "text", "rtcmix"}]
      /\ Notes \subseteq Ids
  BY DEF TypeOK
<1>7. NotesNumbered'
  <2>1. n \in 0 .. MaxNotes
    BY <1>1, BoundsAssumption DEF Ids
  <2> QED
    BY <2>1, <1>2 DEF NotesNumbered
<1>8. NotesKept
  BY <1>1, <1>2, <1>5, <1>6 DEF NotesKept
<1>9. ToPlay'
  <2>1. \A i \in (heap \cup queue)' : i = n \/ i \in heap \cup queue
    BY <1>1
  <2>2. \A i \in (heap \cup queue)' : left'[i] > 0
    BY <2>1, <1>1, <1>2, <1>4, <1>5, <1>6 DEF ToPlay
  <2> QED
    BY <2>2 DEF ToPlay
<1>10. Notes' = Notes \cup {n} /\ from'[n] = message
  <2>1. 1 .. n = (1 .. k) \cup {n}
    OBVIOUS
  <2>2. from'[n] = message
    BY <1>1, <1>2, <1>5
  <2> QED
    BY <1>2, <2>1, <2>2
<1>11. /\ score' \in [Notes' -> Scores]
       /\ due' \in [Notes' -> Nat] /\ left' \in [Notes' -> Nat]
       /\ from' \in [Notes' -> {"bang", "float", "text", "rtcmix"}]
  BY <1>1, <1>2, <1>3, <1>4, <1>6
<1>12. /\ Notes' \subseteq Ids /\ heap' \subseteq Notes'
       /\ heap' \cap queue' = {} /\ heap' \cap Notes \subseteq heap
  BY <1>1, <1>5, <1>6, <1>2 DEF Ids
<1> QED
  BY <1>1, <1>7, <1>8, <1>9, <1>10, <1>11, <1>12

(* Whether the notes that left are accounted for depends on what is in the *)
(* engine and on the history: it stays so while neither loses anything.    *)
LEMMA AccountsKept ==
  ASSUME WindowDoomed, NotesAccounted, Notes' = Notes, left' = left, from' = from,
         UNCHANGED <<heap, queue, flushed, lost>>, doomed \subseteq doomed'
  PROVE  /\ NotesAccounted'
         /\ flushflag' = flushflag => WindowDoomed'
         /\ ~flushflag' => WindowDoomed'
<1>1. \A n : MayBeFlushed(n) => MayBeFlushed(n)'
  BY DEF MayBeFlushed
<1>2. NotesAccounted'
  BY <1>1 DEF NotesAccounted
<1>3. flushflag' = flushflag => WindowDoomed'
  BY <1>1 DEF WindowDoomed
<1>4. ~flushflag' => WindowDoomed'
  BY DEF WindowDoomed
<1> QED
  BY <1>2, <1>3, <1>4

(* What is owed depends on the mailboxes, on what was sent and on the      *)
(* notes that ran, which keep their scores.                                *)
LEMMA BoxesKept ==
  ASSUME Boxes, pc' = pc, bang_ready' = bang_ready, vals_ready' = vals_ready,
         ran' = ran, sent' = sent, \A n \in ran : score'[n] = score[n]
  PROVE  Boxes'
<1>1. (\E n \in ran : Inst(n) = "MAXBANG")' <=> \E n \in ran : Inst(n) = "MAXBANG"
  BY DEF Inst
<1>2. RanMessages' = RanMessages
  BY DEF RanMessages, Inst
<1>3. \A n \in RanMessages : score'[n] = score[n]
  BY DEF RanMessages
<1>4. BangOwed(bang_ready)' <=> BangOwed(bang_ready)
  BY <1>1 DEF BangOwed
<1>5. BangOwed(sent.bang)' <=> BangOwed(sent.bang)
  BY <1>1 DEF BangOwed
<1>6. ValsOwed(vals_ready)' <=> ValsOwed(vals_ready)
  BY <1>2, <1>3 DEF ValsOwed
<1>7. ValsOwed(sent.vals)' <=> ValsOwed(sent.vals)
  BY <1>2, <1>3 DEF ValsOwed
<1> QED
  BY <1>4, <1>5, <1>6, <1>7 DEF Boxes, NoneSent

(* A message that schedules nothing and asks for no flush.                 *)
LEMMA RefuseKeeps ==
  ASSUME IInv, Stay, UNCHANGED <<flushflag, engine, history>>, alive' \in BOOLEAN
  PROVE  IInv'
<1>1. Boxes'
  BY BoxesKept DEF IInv, Stay, mailboxes, engine, history
<1>2. NotesAccounted' /\ WindowDoomed'
  BY AccountsKept DEF IInv, engine, history, Notes
<1> QED
  BY <1>1, <1>2 DEF IInv, TypeOK, NotesNumbered, ToPlay,
     FlushLeavesNothing, Stay, mailboxes, engine, history, Notes

(* A message that reaches the engine, if it may while a flush is due.      *)
LEMMA SendKeeps ==
  ASSUME IInv, alive, NEW message \in {"bang", "float", "text", "rtcmix"},
         Send(message), flushflag => message = "float"
  PROVE  IInv'
<1>1. CASE ~loaded
  BY <1>1, RefuseKeeps DEF Send
<1>2. CASE loaded
  <2>1. PICK s \in Scores : Schedule(s, message)
    BY <1>2 DEF Send
  <2>2. /\ NotesNumbered' /\ ToPlay' /\ NotesKept
        /\ Notes' \subseteq Ids /\ heap' \subseteq Notes' /\ queue' = queue
        /\ heap' \cap queue' = {}
        /\ \E n : /\ Notes' = Notes \cup {n} /\ heap' = heap \cup {n}
                 /\ from'[n] = message
        /\ score' \in [Notes' -> Scores]
        /\ due' \in [Notes' -> Nat] /\ left' \in [Notes' -> Nat]
        /\ from' \in [Notes' -> {"bang", "float", "text", "rtcmix"}]
        /\ heap' \cap Notes \subseteq heap
    BY <2>1, ScheduleKeeps DEF IInv
  <2>3. /\ heap \cup queue \cup doomed \cup flushed \cup lost \cup ran \subseteq Notes
        /\ Notes \subseteq Notes' /\ \A n \in Notes : score'[n] = score[n]
    BY <2>2 DEF IInv, TypeOK, NotesKept
  <2>4. /\ UNCHANGED <<canvas_dspstate, loaded, loads, pc, bang_ready, vals_ready>>
        /\ UNCHANGED <<flushflag, alive, doomed, flushed, lost, ran, sent>>
    BY <1>2 DEF Send, Stay, mailboxes, history
  <2>5. Boxes'
    BY <2>3, <2>4, BoxesKept DEF IInv
  <2>6. FlushLeavesNothing'
    BY <2>2, <2>3, <2>4 DEF IInv, FlushLeavesNothing
  <2>7. TypeOK'
    BY <2>2, <2>3, <2>4 DEF IInv, TypeOK
  <2>8. PICK n : /\ Notes' = Notes \cup {n} /\ heap' = heap \cup {n}
                 /\ from'[n] = message
    BY <2>2
  <2>9. \A i \in Notes : MayBeFlushed(i) => MayBeFlushed(i)'
    BY <2>2, <2>4 DEF MayBeFlushed, NotesKept
  <2>10. WindowDoomed'
    <3>1. flushflag => MayBeFlushed(n)'
      BY <2>8 DEF MayBeFlushed
    <3>2. flushflag => \A i \in heap \cup queue : MayBeFlushed(i)'
      BY <2>3, <2>9 DEF IInv, WindowDoomed
    <3>3. (heap \cup queue)' = heap \cup queue \cup {n}
      BY <2>2, <2>8
    <3> QED
      BY <3>1, <3>2, <3>3, <2>4 DEF WindowDoomed
  <2>11. NotesAccounted'
    <3>1. \A i \in Notes' \ (heap \cup queue)' : i \in Notes \ (heap \cup queue)
      BY <2>2, <2>8
    <3>2. \A i \in Notes : left'[i] = left[i]
      BY <2>2 DEF NotesKept
    <3> QED
      BY <3>1, <3>2, <2>4, <2>9 DEF IInv, NotesAccounted
  <2> QED
    BY <2>2, <2>5, <2>6, <2>7, <2>10, <2>11 DEF IInv
<1> QED
  BY <1>1, <1>2

LEMMA MessagesKeepIInv ==
  ASSUME IInv, Messages
  PROVE  IInv'
<1>1. CASE FloatMessage
  BY <1>1, SendKeeps, RefuseKeeps
     DEF FloatMessage, Listening, Goscript, Refuse, IInv, TypeOK
<1>2. CASE Bang
  BY <1>2, SendKeeps, RefuseKeeps
     DEF Bang, Listening, Goscript, Refuse, IInv, TypeOK
<1>3. CASE Text
  <2>1. CASE flushflag
    BY <1>3, <2>1, RefuseKeeps DEF Text, Refuse, IInv, TypeOK
  <2>2. CASE ~flushflag
    BY <1>3, <2>2, SendKeeps DEF Text, Listening
  <2> QED
    BY <2>1, <2>2 DEF IInv, TypeOK
<1>4. CASE FloatInlet
  BY <1>4, RefuseKeeps DEF FloatInlet, IInv, TypeOK
<1>5. CASE Flush
  <2>1. Boxes'
    BY <1>5, BoxesKept DEF Flush, IInv, Stay, mailboxes, engine
  <2>2. NotesAccounted'
    BY <1>5, AccountsKept DEF Flush, IInv, engine, Notes
  <2>3. WindowDoomed'
    BY <1>5 DEF Flush, WindowDoomed, MayBeFlushed, engine
  <2> QED
    BY <1>5, <2>1, <2>2, <2>3 DEF Flush, IInv, TypeOK, NotesNumbered, ToPlay,
       FlushLeavesNothing, Stay, mailboxes, engine, Notes
<1> QED
  BY <1>1, <1>2, <1>3, <1>4, <1>5 DEF Messages

(* Between two performs the mailboxes are empty already.                   *)
LEMMA DspKeepsIInv ==
  ASSUME IInv, Dsp \/ DspOff
  PROVE  IInv'
<1>1. CASE Dsp
  <2>1. ~bang_ready /\ vals_ready = None /\ bang_ready \in BOOLEAN
    BY <1>1 DEF Dsp, IInv, Boxes, TypeOK
  <2>2. bang_ready' = bang_ready /\ vals_ready' = vals_ready
    BY <1>1, <2>1 DEF Dsp, Reset
  <2>3. Boxes'
    BY <1>1, <2>2, BoxesKept DEF Dsp, IInv
  <2>4. loads' \in 0 .. MaxLoads
    BY <1>1, BoundsAssumption DEF Dsp, IInv, TypeOK
  <2>5. /\ heap' = {} /\ queue' = {} /\ lost' = lost \cup heap \cup queue
        /\ UNCHANGED <<flushflag, pc, due, left, score, from, alive, doomed,
                       flushed, ran, sent>>
    BY <1>1 DEF Dsp, Reset
  <2>6. NotesAccounted' /\ WindowDoomed'
    BY <2>5 DEF IInv, NotesAccounted, WindowDoomed, MayBeFlushed, Notes
  <2> QED
    BY <1>1, <2>2, <2>3, <2>4, <2>5, <2>6 DEF Dsp, IInv, TypeOK, NotesNumbered,
       ToPlay, FlushLeavesNothing, Notes
<1>2. CASE DspOff
  <2>1. Boxes'
    BY <1>2, BoxesKept DEF DspOff, IInv, mailboxes, engine, history
  <2>2. NotesAccounted' /\ WindowDoomed'
    BY <1>2, AccountsKept DEF DspOff, IInv, engine, history, Notes
  <2> QED
    BY <1>2, <2>1, <2>2 DEF DspOff, IInv, TypeOK, NotesNumbered, ToPlay,
       FlushLeavesNothing, mailboxes, engine, history, Notes
<1> QED
  BY <1>1, <1>2

(* The traversal: what is due joins what plays, and one vector is played.  *)
LEMMA TraverseKeepsIInv ==
  ASSUME IInv, PullTraverse
  PROVE  IInv'
<1>1. CASE ~loaded
  <2>1. Boxes'
    BY <1>1, BoxesKept DEF PullTraverse, IInv, mailboxes, engine
  <2>2. NotesAccounted' /\ WindowDoomed'
    BY <1>1, AccountsKept DEF PullTraverse, IInv, engine, Notes
  <2> QED
    BY <1>1, <2>1, <2>2 DEF PullTraverse, IInv, TypeOK, NotesNumbered, ToPlay,
       FlushLeavesNothing, mailboxes, engine, Notes
<1>2. CASE loaded
  <2> DEFINE run == Due \cup queue
             messages == {n \in run : Inst(n) = "MAXMESSAGE"}
  <2>1. /\ heap' = heap \ Due
        /\ queue' = {n \in run : left[n] > 1}
        /\ due' = [n \in Notes |->
                     IF n \in heap \ Due THEN due[n] - 1 ELSE due[n]]
        /\ left' = [n \in Notes |-> IF n \in run THEN left[n] - 1 ELSE left[n]]
        /\ ran' = run /\ sent' = NoneSent /\ pc' = "check_bang"
        /\ UNCHANGED <<score, from, alive>>
        /\ UNCHANGED <<canvas_dspstate, loaded, loads, flushflag, doomed,
                       flushed, lost>>
    BY <1>2 DEF PullTraverse, Sooner
  <2>2. /\ bang_ready' = (bang_ready \/ \E n \in run : Inst(n) = "MAXBANG")
        /\ vals_ready' \in ValsLeft(run)
        /\ ~bang_ready /\ vals_ready = None
    BY <1>2 DEF PullTraverse, IInv, Boxes
  <2>3. /\ heap \cup queue \subseteq Notes /\ heap \cap queue = {}
        /\ due \in [Notes -> Nat] /\ left \in [Notes -> Nat]
        /\ score \in [Notes -> Scores]
        /\ \A n \in heap \cup queue : left[n] > 0
    BY DEF IInv, TypeOK, ToPlay
  <2>4. Due \subseteq heap /\ \A n \in heap \ Due : due[n] # 0
    BY DEF Due
  <2>5. due' \in [Notes -> Nat]
    BY <2>1, <2>3, <2>4
  <2>6. left' \in [Notes -> Nat]
    <3>1. \A n \in run : left[n] > 0 /\ left[n] \in Nat
      BY <2>3, <2>4
    <3> QED
      BY <2>1, <2>3, <3>1
  <2>7. ToPlay'
    <3>1. \A n \in heap' : left'[n] > 0
      BY <2>1, <2>3, <2>4
    <3>2. \A n \in queue' : left'[n] > 0
      BY <2>1, <2>3, <2>4
    <3> QED
      BY <3>1, <3>2 DEF ToPlay
  <2>8. /\ heap' \cup queue' \subseteq heap \cup queue /\ heap' \cap queue' = {}
        /\ ran' \subseteq Notes /\ Notes' = Notes
    BY <2>1, <2>3, <2>4 DEF Notes
  <2>9. RanMessages' = messages
    BY <2>1 DEF RanMessages, Inst
  <2>10. vals_ready' \in Vals /\ ValsOwed(vals_ready)'
    <3>1. CASE messages = {}
      <4>1. vals_ready' = None
        BY <2>2, <3>1 DEF ValsLeft
      <4> QED
        BY <4>1, <3>1, <2>9 DEF ValsOwed, Vals
    <3>2. CASE messages # {}
      <4>1. PICK n \in messages : vals_ready' = score[n].val
        BY <2>2, <3>2 DEF ValsLeft
      <4>2. score[n] \in Scores
        BY <2>3, <2>4
      <4>3. \A m \in messages : messages = {m} => m = n
        OBVIOUS
      <4>4. ValsOwed(vals_ready)'
        BY <4>1, <4>3, <2>1, <2>9 DEF ValsOwed
      <4> QED
        BY <4>1, <4>2, <4>4 DEF Vals
    <3> QED
      BY <3>1, <3>2
  <2>11. bang_ready' \in BOOLEAN /\ BangOwed(bang_ready)'
    <3>1. (\E n \in ran : Inst(n) = "MAXBANG")'
             <=> \E n \in run : Inst(n) = "MAXBANG"
      BY <2>1 DEF Inst
    <3>2. bang_ready' = (\E n \in run : Inst(n) = "MAXBANG")
      BY <2>2, Zenon DEF IInv, TypeOK
    <3> QED
      BY <3>1, <3>2 DEF BangOwed
  <2>12. Boxes'
    BY <2>1, <2>10, <2>11 DEF Boxes, NoneSent
  <2>13. sent' \in [bang : BOOLEAN, vals : Vals]
    BY <2>1 DEF NoneSent, Vals
  <2>14. TypeOK'
    BY <2>1, <2>5, <2>6, <2>8, <2>10, <2>11, <2>13 DEF IInv, TypeOK
  <2>15. NotesNumbered' /\ FlushLeavesNothing' /\ WindowDoomed'
    BY <2>1, <2>8 DEF IInv, NotesNumbered, FlushLeavesNothing, WindowDoomed,
       MayBeFlushed
  <2>16. NotesAccounted'
    <3> SUFFICES ASSUME NEW n \in Notes, n \notin heap' \cup queue'
                 PROVE  \/ left'[n] = 0 \/ n \in lost
                        \/ n \in flushed /\ MayBeFlushed(n)
      BY <2>1, <2>8 DEF NotesAccounted, MayBeFlushed
    <3>1. CASE n \in run
      <4>1. left[n] \in Nat /\ left[n] > 0 /\ ~(left[n] > 1)
        BY <3>1, <2>1, <2>3, <2>4
      <4>2. left'[n] = left[n] - 1
        BY <3>1, <2>1
      <4> QED
        BY <4>1, <4>2
    <3>2. CASE n \notin run
      <4>1. n \notin heap \cup queue /\ left'[n] = left[n]
        BY <3>2, <2>1
      <4> QED
        BY <4>1 DEF IInv, NotesAccounted
    <3> QED
      BY <3>1, <3>2
  <2> QED
    BY <2>7, <2>12, <2>14, <2>15, <2>16 DEF IInv
<1> QED
  BY <1>1, <1>2

(* A bang is sent if one is in its mailbox, which is empty afterwards.     *)
LEMMA CheckBangKeepsIInv ==
  ASSUME IInv, CheckBang
  PROVE  IInv'
<1>1. /\ pc = "check_bang" /\ sent = NoneSent
      /\ BangOwed(bang_ready) /\ ValsOwed(vals_ready)
  BY DEF CheckBang, IInv, Boxes
<1>2. /\ UNCHANGED <<canvas_dspstate, loaded, loads, flushflag, engine, vals_ready,
                     alive, doomed, flushed, lost, ran>>
      /\ bang_ready' = FALSE
  BY DEF CheckBang
<1>3. Notes' = Notes
  BY <1>2 DEF Notes, engine
<1>4. sent' = [bang |-> bang_ready, vals |-> None] /\ pc' \in {"in_bang", "check_vals"}
  <2>1. CASE bang_ready
    BY <1>1, <2>1 DEF CheckBang, NoneSent
  <2>2. CASE ~bang_ready
    <3>1. bang_ready = FALSE
      BY <2>2 DEF IInv, TypeOK
    <3> QED
      BY <1>1, <2>2, <3>1 DEF CheckBang, NoneSent
  <2> QED
    BY <2>1, <2>2
<1>5. BangOwed(sent.bang)' /\ ValsOwed(vals_ready)'
  BY <1>1, <1>2, <1>4 DEF BangOwed, ValsOwed, RanMessages, Inst, engine
<1>6. Boxes'
  BY <1>2, <1>4, <1>5 DEF Boxes
<1>7. TypeOK'
  BY <1>2, <1>3, <1>4 DEF IInv, TypeOK, engine, Vals
<1>8. NotesAccounted' /\ WindowDoomed'
  BY <1>2, <1>3, AccountsKept DEF IInv, engine
<1> QED
  BY <1>2, <1>3, <1>6, <1>7, <1>8
     DEF IInv, NotesNumbered, ToPlay, FlushLeavesNothing, engine

(* Likewise values.                                                        *)
LEMMA CheckValsKeepsIInv ==
  ASSUME IInv, CheckVals
  PROVE  IInv'
<1>1. /\ ~bang_ready /\ BangOwed(sent.bang)
      /\ sent.vals = None /\ ValsOwed(vals_ready)
  BY DEF CheckVals, IInv, Boxes
<1>2. /\ UNCHANGED <<canvas_dspstate, loaded, loads, flushflag, engine, bang_ready,
                     alive, doomed, flushed, lost, ran>>
      /\ vals_ready' = None /\ pc' \in {"in_vals", "end"}
  BY DEF CheckVals
<1>3. Notes' = Notes
  BY <1>2 DEF Notes, engine
<1>4. sent' = [bang |-> sent.bang, vals |-> vals_ready]
  BY <1>1 DEF CheckVals, IInv, TypeOK
<1>5. BangOwed(sent.bang)' /\ ValsOwed(sent.vals)'
  BY <1>1, <1>2, <1>4 DEF BangOwed, ValsOwed, RanMessages, Inst, engine
<1>6. Boxes'
  BY <1>1, <1>2, <1>5 DEF Boxes
<1>7. TypeOK'
  BY <1>2, <1>3, <1>4 DEF IInv, TypeOK, engine, Vals
<1>8. NotesAccounted' /\ WindowDoomed'
  BY <1>2, <1>3, AccountsKept DEF IInv, engine
<1> QED
  BY <1>2, <1>3, <1>6, <1>7, <1>8
     DEF IInv, NotesNumbered, ToPlay, FlushLeavesNothing, engine

(* The end of perform: the flush takes everything that is there.           *)
LEMMA EndPerformKeepsIInv ==
  ASSUME IInv, EndPerform
  PROVE  IInv'
<1>1. /\ pc \in {"end", "in_vals"} /\ pc' = "idle" /\ flushflag' = FALSE
      /\ UNCHANGED <<canvas_dspstate, loaded, loads, due, left, score, from,
                     mailboxes, alive, doomed, lost, ran, sent>>
  BY DEF EndPerform, FlagReset
<1>2. \/ heap' = {} /\ queue' = {} /\ flushed' = flushed \cup heap \cup queue
      \/ ~flushflag /\ UNCHANGED <<heap, queue, flushed>>
  BY DEF EndPerform, ResetQueueHeap
<1>3. /\ Notes' = Notes /\ heap' \cup queue' \subseteq heap \cup queue
      /\ flushed' \subseteq flushed \cup heap \cup queue
      /\ heap' \cap queue' \subseteq heap \cap queue
  BY <1>1, <1>2 DEF Notes
<1>4. RanMessages' = RanMessages
  BY <1>1 DEF RanMessages, Inst
<1>5. Boxes'
  BY <1>1, <1>4 DEF IInv, Boxes, BangOwed, ValsOwed, Inst, mailboxes
<1>6. TypeOK'
  BY <1>1, <1>3 DEF IInv, TypeOK, mailboxes
<1>7. FlushLeavesNothing'
  BY <1>1, <1>2 DEF IInv, FlushLeavesNothing
<1>8. NotesAccounted' /\ WindowDoomed'
  <2>1. CASE ~flushflag /\ UNCHANGED <<heap, queue, flushed>>
    BY <2>1, <1>1, <1>3, AccountsKept DEF IInv
  <2>2. CASE flushflag
    <3>1. /\ heap' = {} /\ queue' = {} /\ flushed' = flushed \cup heap \cup queue
          /\ \A n \in heap \cup queue : MayBeFlushed(n)
      BY <2>2 DEF EndPerform, ResetQueueHeap, IInv, WindowDoomed
    <3>2. \A n : MayBeFlushed(n)' <=> MayBeFlushed(n)
      BY <1>1 DEF MayBeFlushed
    <3>3. NotesAccounted'
      BY <3>1, <3>2, <1>1, <1>3 DEF IInv, NotesAccounted
    <3> QED
      BY <3>3, <1>1 DEF WindowDoomed
  <2>3. ~flushflag => UNCHANGED <<heap, queue, flushed>>
    BY DEF EndPerform
  <2> QED
    BY <2>1, <2>2, <2>3
<1> QED
  BY <1>1, <1>3, <1>5, <1>6, <1>7, <1>8
     DEF IInv, NotesNumbered, ToPlay

LEMMA InitIInv == Init => IInv
<1> SUFFICES ASSUME Init PROVE IInv
  OBVIOUS
<1>1. Notes = 1 .. 0 /\ 0 \in 0 .. MaxNotes /\ 0 \in 0 .. MaxLoads
  BY BoundsAssumption DEF Init, Notes
<1>2. TypeOK
  <2>1. /\ score \in [Notes -> Scores] /\ due \in [Notes -> Nat]
        /\ left \in [Notes -> Nat]
        /\ from \in [Notes -> {"bang", "float", "text", "rtcmix"}]
    BY <1>1 DEF Init
  <2>2. Notes = {} /\ sent \in [bang : BOOLEAN, vals : Vals]
    BY <1>1 DEF Init, NoneSent, Vals
  <2>3. /\ Notes \subseteq Ids /\ heap \cap queue = {}
        /\ heap \cup queue \cup doomed \cup flushed \cup lost \cup ran \subseteq Notes
    BY <2>2 DEF Init
  <2> QED
    BY <1>1, <2>1, <2>2, <2>3 DEF Init, TypeOK, Vals
<1>3. NotesNumbered
  BY <1>1 DEF NotesNumbered
<1>4. Boxes
  BY DEF Init, Boxes, BangOwed, ValsOwed, RanMessages, NoneSent
<1> QED
  BY <1>1, <1>2, <1>3, <1>4 DEF Init, IInv, ToPlay, WindowDoomed, NotesAccounted,
     FlushLeavesNothing

LEMMA NextIInv == IInv /\ [Next]_vars => IInv'
<1> SUFFICES ASSUME IInv, [Next]_vars PROVE IInv'
  OBVIOUS
<1>1. CASE Messages
  BY <1>1, MessagesKeepIInv
<1>2. CASE Dsp \/ DspOff
  BY <1>2, DspKeepsIInv
<1>3. CASE Perform
  BY <1>3, TraverseKeepsIInv, CheckBangKeepsIInv, CheckValsKeepsIInv,
     EndPerformKeepsIInv DEF Perform
<1>4. CASE UNCHANGED vars
  <2>1. Boxes'
    BY <1>4, BoxesKept DEF vars, IInv, engine, mailboxes, history
  <2>2. NotesAccounted' /\ WindowDoomed'
    BY <1>4, AccountsKept DEF vars, IInv, engine, history, Notes
  <2> QED
    BY <1>4, <2>1, <2>2 DEF vars, IInv, TypeOK, NotesNumbered, ToPlay,
       FlushLeavesNothing, engine, mailboxes, history, Notes
<1> QED
  BY <1>1, <1>2, <1>3, <1>4 DEF Next

LEMMA Inductive == Spec => []IInv
  BY InitIInv, NextIInv, PTL DEF Spec

(* For any scores and bounds, every variable keeps its type: the messages, *)
(* the reload in rtcmix_dsp() and perform with its outlet.                 *)
THEOREM TypeCorrect == Spec => []TypeOK
<1>1. IInv => TypeOK
  BY DEF IInv
<1> QED
  BY <1>1, Inductive, PTL

(* Wherever perform is when messages come, no note is dropped: it plays    *)
(* all its vectors, is lost to a reload, or goes in a flush whose message  *)
(* came after it, a float's note in any flush.                             *)
THEOREM NoNoteDropped == Spec => []NotesAccounted
<1>1. IInv => NotesAccounted
  BY DEF IInv
<1> QED
  BY <1>1, Inductive, PTL

(* And it leaves none of those it was sent for, playing or to come, with   *)
(* a reload of the library between the message and perform or without.     *)
THEOREM FlushTakesAllBefore == Spec => []FlushLeavesNothing
<1>1. IInv => FlushLeavesNothing
  BY DEF IInv
<1> QED
  BY <1>1, Inductive, PTL

(* Every perform sends the bang and the values of what ran in it: nothing  *)
(* is left in the mailboxes for a later vector, none is sent twice.        *)
THEOREM SendsWhatRan == Spec => []SentWhatRan
<1>1. IInv => SentWhatRan
  BY DEF IInv, Boxes, SentWhatRan
<1> QED
  BY <1>1, Inductive, PTL
=============================================================================
