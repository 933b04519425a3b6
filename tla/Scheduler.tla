----------------------------- MODULE Scheduler -----------------------------
(***************************************************************************)
(* The note scheduler of the RTcmix engine: checkInsts()/schedule() put an *)
(* Instrument on the start-time heap, and RTcmix::inTraverse(), called     *)
(* once per audio period through pullTraverse(), moves due instruments to  *)
(* one RTQueue per bus they write, runs the queues in play-list order,     *)
(* mixes each instrument's channels into the buses and re-queues what has  *)
(* not ended.  Messages and the audio callback run in one thread, so the   *)
(* handlers below happen only between traversals; a traversal is cut into  *)
(* the iterations of its loops.                                            *)
(***************************************************************************)
EXTENDS Integers, RTQueue, BusQueues, FiniteSets

CONSTANTS
  RTBUFSAMPS,       \* frames per period
  Starts,           \* start times a score passes, in frames relative to now
  Durs,             \* durations a score passes, in frames
  ULong,            \* 2^w for the width w of unsigned long
  MaxSamp           \* bound: no period begins, and no note ends, later

ASSUME NonEmptyAssumption == Notes # {} /\ Bus # {} /\ IsFiniteSet(Bus)
ASSUME BufsampsAssumption == RTBUFSAMPS \in Nat \ {0}
ASSUME TimesAssumption == Starts \subseteq Int /\ Durs \subseteq Nat
ASSUME BoundAssumption ==
  MaxSamp \in Nat /\ ULong \in Nat /\ MaxSamp + RTBUFSAMPS < ULong
(* The value of `popped` when it means nothing. *)
Nobody == [inst |-> CHOOSE n \in Notes : TRUE, chunkStart |-> 0]

(* The list of buses getBusList() returns for the queues of a class, and   *)
(* outputchans.                                                            *)
BusList(n, class) == IF class = "TO_OUT" THEN Slot[n].out ELSE Slot[n].auxout
(* Mutant: the last channel is forgotten. *)
OneChanLess(n) == Len(Slot[n].out) + Len(Slot[n].auxout) - 1
OutputChans(n) == Len(Slot[n].out) + Len(Slot[n].auxout)

VARIABLES
  rtHeap,           \* scheduled instruments, [inst, chunkStart]
  rtQueue,          \* rtQueue[key]: see RTQueue
  bufStartSamp,     \* first frame of the period (the next one, when idle)
  elapsed,          \* the same, as read by getElapsedFrames()
  pc,               \* where inTraverse() is
  todo,             \* queues the popped instrument is still to be pushed on
  popped,           \* that instrument and its start
  qStatus,          \* class whose play list is being walked
  play_bus,         \* position in that play list
  bus,              \* the bus being played
  endsamp,          \* Instrument::endsamp
  cursamp,          \* Instrument::cursamp: frames run so far
  needs_to_run,     \* Instrument::needs_to_run
  bufferWritten,    \* Instrument::bufferWritten, as the set of true entries
  refcount,         \* RefCounted::_refcount
  fault,            \* a failed assertion or a use of freed memory
  status,           \* history: "new", "live", "flushed", "lost"
  startsamp,        \* history: frame the note was scheduled for
  nsamps,           \* history: its length
  mixed             \* history: slices mixed this period, per note and key

timeVars == <<bufStartSamp, elapsed>>
ctlVars  == <<pc, todo, popped, qStatus, play_bus, bus>>
instVars == <<endsamp, cursamp, needs_to_run, bufferWritten>>
histVars == <<status, startsamp, nsamps, mixed>>
vars == <<rtHeap, rtQueue, timeVars, ctlVars, instVars, refcount, fault,
          histVars>>

BufEnd == bufStartSamp + RTBUFSAMPS

(* Mutant: chunkStart as a signed long. *)
Signed(x) == x
(* Conversion of a long or int to unsigned long. *)
Unsigned(x) == x % ULong

Init ==
  /\ rtHeap = {}
  /\ rtQueue = [k \in Keys |-> <<>>]
  /\ bufStartSamp = 0 /\ elapsed = 0
  /\ pc = "idle" /\ todo = <<>> /\ popped = Nobody
  /\ qStatus = "TO_AUX" /\ play_bus = 1 /\ bus = (CHOOSE b \in Bus : TRUE)
  /\ endsamp = [n \in Notes |-> 0]
  /\ cursamp = [n \in Notes |-> 0]
  /\ needs_to_run = [n \in Notes |-> TRUE]
  /\ bufferWritten = [n \in Notes |-> {}]
  /\ refcount = [n \in Notes |-> 0]
  /\ fault = "none"
  /\ status = [n \in Notes |-> "new"]
  /\ startsamp = [n \in Notes |-> 0]
  /\ nsamps = [n \in Notes |-> 0]
  /\ mixed = [n \in Notes |-> [k \in Keys |-> <<>>]]

(***************************************************************************)
(* Handlers, between traversals.                                           *)
(***************************************************************************)

(* A score makes a note: checkInsts() takes the first reference and        *)
(* schedule() computes its frames from the time of the next traversal      *)
(* plus one buffer, as getElapsedFrames() does.                            *)
Schedule(n, start, dur) ==
  /\ pc = "idle" /\ fault = "none"
  /\ status[n] = "new"
  /\ LET first == start + elapsed + RTBUFSAMPS
     IN  /\ first + dur <= MaxSamp
         /\ endsamp' = [endsamp EXCEPT ![n] = first + dur]
         /\ rtHeap' = rtHeap \cup {[inst |-> n, chunkStart |-> Unsigned(first)]}
         /\ startsamp' = [startsamp EXCEPT ![n] = first]
  /\ refcount' = [refcount EXCEPT ![n] = @ + 1]
  /\ status' = [status EXCEPT ![n] = "live"]
  /\ nsamps' = [nsamps EXCEPT ![n] = dur]
  /\ UNCHANGED <<rtQueue, timeVars, ctlVars, cursamp, needs_to_run,
                 bufferWritten, fault, mixed>>

(* setup() or configure() fails: the instrument is neither scheduled nor   *)
(* unref'd.                                                                *)
ScheduleFails(n) ==
  /\ pc = "idle" /\ fault = "none"
  /\ status[n] = "new"
  /\ refcount' = [refcount EXCEPT ![n] = @ + 1]
  /\ status' = [status EXCEPT ![n] = "lost"]
  /\ UNCHANGED <<rtHeap, rtQueue, timeVars, ctlVars, instVars, fault,
                 startsamp, nsamps, mixed>>

(* Elements of inst n that ~RTQueue() deletes: all but the tail's. *)
Deleted(n) ==
  LET elts(k) == {<<k, i>> : i \in {j \in 1 .. Len(rtQueue[k]) - 1 :
                                      rtQueue[k][j].inst = n}}
  IN  Cardinality(UNION {elts(k) : k \in Keys})

(* flush_sched() -> resetQueueHeap(): a new heap and new queues.  Deleting *)
(* the old ones unrefs the instruments of the deleted queue elements only. *)
(* No instrument can be reached any more, so their fields are forgotten.   *)
Flush ==
  LET Gone(f, v) == [n \in Notes |-> IF status[n] = "live" THEN v ELSE f[n]]
  IN  /\ pc = "idle" /\ fault = "none"
      /\ rtHeap' = {}
      /\ rtQueue' = [k \in Keys |-> <<>>]
      /\ refcount' = [n \in Notes |-> refcount[n] - Deleted(n)]
      /\ status' = Gone(status, "flushed")
      /\ endsamp' = Gone(endsamp, 0) /\ cursamp' = Gone(cursamp, 0)
      /\ needs_to_run' = Gone(needs_to_run, TRUE)
      /\ bufferWritten' = Gone(bufferWritten, {})
      /\ startsamp' = Gone(startsamp, 0) /\ nsamps' = Gone(nsamps, 0)
      /\ UNCHANGED <<timeVars, ctlVars, fault, mixed>>

(***************************************************************************)
(* inTraverse().                                                           *)
(***************************************************************************)
Begin ==
  /\ pc = "idle" /\ fault = "none"
  /\ bufStartSamp <= MaxSamp
  /\ pc' = "pop"
  /\ UNCHANGED <<rtHeap, rtQueue, timeVars, todo, popped, qStatus, play_bus,
                 bus, instVars, refcount, fault, histVars>>

(* deleteMin(bufEndSamp): an instrument of least start, if due. *)
IsMin(e) == \A f \in rtHeap : e.chunkStart <= f.chunkStart

PopHeap(e) ==
  /\ pc = "pop" /\ fault = "none"
  /\ IsMin(e) /\ e.chunkStart < BufEnd
  /\ rtHeap' = rtHeap \ {e}
  /\ popped' = e
  /\ todo' = QueuesOf(e.inst)
  /\ pc' = "push"
  /\ UNCHANGED <<rtQueue, timeVars, qStatus, play_bus, bus, instVars, refcount,
                 fault, histVars>>

(* Mutant: the class of the last traversal is kept. *)
HeapDoneKeepsClass ==
  /\ pc = "pop" /\ fault = "none"
  /\ \A e \in rtHeap : e.chunkStart >= BufEnd
  /\ pc' = "select" /\ qStatus' = qStatus /\ play_bus' = 1
  /\ UNCHANGED <<rtHeap, rtQueue, timeVars, todo, popped, bus, instVars,
                 refcount, fault, histVars>>
(* The heap holds nothing more that is due. *)
HeapDone ==
  /\ pc = "pop" /\ fault = "none"
  /\ \A e \in rtHeap : e.chunkStart >= BufEnd
  /\ pc' = "select" /\ qStatus' = "TO_AUX" /\ play_bus' = 1
  /\ UNCHANGED <<rtHeap, rtQueue, timeVars, todo, popped, bus, instVars,
                 refcount, fault, histVars>>

(* One rtQueue[busq].push(Iptr, heapChunkStart). *)
PushNext ==
  /\ pc = "push" /\ fault = "none"
  /\ todo # <<>>
  /\ LET k == todo[1]
         q == rtQueue[k]
     IN  IF ReadsFreed(q, popped.chunkStart)
         THEN fault' = "freed" /\ UNCHANGED <<rtQueue, refcount>>
         ELSE /\ rtQueue' = [rtQueue EXCEPT
                               ![k] = Push(q, popped.inst, popped.chunkStart)]
              /\ refcount' = [refcount EXCEPT ![popped.inst] = @ + 1]
              /\ fault' = fault
  /\ todo' = Tail(todo)
  /\ UNCHANGED <<rtHeap, timeVars, pc, popped, qStatus, play_bus, bus, instVars,
                 histVars>>

PushDone ==
  /\ pc = "push" /\ fault = "none"
  /\ todo = <<>>
  /\ pc' = "pop" /\ popped' = Nobody
  /\ UNCHANGED <<rtHeap, rtQueue, timeVars, todo, qStatus, play_bus, bus,
                 instVars, refcount, fault, histVars>>

(* The next bus of the play list; assert(rtQchunkStart > 0 ||              *)
(* bufStartSamp == 0) looks at the head of its queue.                      *)
SelectBus ==
  /\ pc = "select" /\ fault = "none"
  /\ play_bus <= Len(PlayList[qStatus])
  /\ LET b == PlayList[qStatus][play_bus]
         q == rtQueue[<<qStatus, b>>]
     IN  /\ bus' = b
         /\ fault' = IF q # <<>> /\ NextChunk(q) = 0 /\ bufStartSamp # 0
                     THEN "assert_chunkstart" ELSE fault
  /\ play_bus' = play_bus + 1
  /\ pc' = "play"
  /\ UNCHANGED <<rtHeap, rtQueue, timeVars, todo, popped, qStatus, instVars,
                 refcount, histVars>>

(* Mutant: play_bus is not reset for the next class. *)
NextClassKeepsPlace ==
  /\ pc = "select" /\ fault = "none"
  /\ play_bus > Len(PlayList[qStatus])
  /\ IF qStatus = "TO_OUT" THEN pc' = "send" /\ qStatus' = qStatus
     ELSE /\ pc' = pc
          /\ qStatus' = IF qStatus = "TO_AUX" THEN "AUX_TO_AUX" ELSE "TO_OUT"
  /\ UNCHANGED <<rtHeap, rtQueue, timeVars, todo, popped, play_bus, bus, instVars,
                 refcount, fault, histVars>>
(* The play list is at its -1: next class, or the end. *)
NextClass ==
  /\ pc = "select" /\ fault = "none"
  /\ play_bus > Len(PlayList[qStatus])
  /\ IF qStatus = "TO_OUT" THEN pc' = "send" /\ qStatus' = qStatus
     ELSE /\ pc' = pc
          /\ qStatus' = IF qStatus = "TO_AUX" THEN "AUX_TO_AUX" ELSE "TO_OUT"
  /\ play_bus' = 1
  /\ UNCHANGED <<rtHeap, rtQueue, timeVars, todo, popped, bus, instVars,
                 refcount, fault, histVars>>

Key == <<qStatus, bus>>
HeadIsDue == rtQueue[Key] # <<>> /\ NextChunk(rtQueue[Key]) < BufEnd

(* Mutant: a late instrument's endsamp is not shortened. *)
FullEnd(n, cs) == Unsigned(endsamp[n])
(* endsamp, as shortened for an instrument the scheduler is late for. *)
LateEnd(n, cs) ==
  IF cs < bufStartSamp THEN Unsigned(endsamp[n] + (cs - bufStartSamp))
                       ELSE Unsigned(endsamp[n])
(* Mutant: without the trap for a negative offset. *)
RawOffset(cs) == cs - bufStartSamp
OutputOffset(cs) == IF cs < bufStartSamp THEN 0 ELSE cs - bufStartSamp
ChunkSamps(n, cs) ==
  LET end == IF LateEnd(n, cs) < BufEnd THEN LateEnd(n, cs) ELSE BufEnd
  IN  IF end - cs > RTBUFSAMPS THEN RTBUFSAMPS ELSE end - cs

(* Mutant: the search stops one bus early. *)
SrcChanShort(n, class, b) ==
  LET list == BusList(n, class)
      at   == {i \in 1 .. Len(list) - 1 : list[i] = b}
  IN  IF at = {} THEN 0 ELSE CHOOSE i \in at : \A j \in at : i <= j
(* addout(): the channel written for a bus, or 0 if the slot has none. *)
SrcChan(n, class, b) ==
  LET list == BusList(n, class)
      at   == {i \in 1 .. Len(list) : list[i] = b}
  IN  IF at = {} THEN 0 ELSE CHOOSE i \in at : \A j \in at : i <= j

(* exec(): run() if needed, then addout(), then see whether every channel  *)
(* of the slice is out.                                                    *)
Exec(n, cs) ==
  LET chunk   == ChunkSamps(n, cs)
      src     == SrcChan(n, qStatus, bus)
      written == (IF needs_to_run[n] THEN {} ELSE bufferWritten[n]) \cup {src}
  IN  /\ cursamp' = [cursamp EXCEPT ![n] =
                       IF needs_to_run[n] /\ chunk > 0 THEN @ + chunk ELSE @]
      /\ bufferWritten' = [bufferWritten EXCEPT ![n] = written]
      /\ needs_to_run' = [needs_to_run EXCEPT ![n] =
                            written = 1 .. OutputChans(n)]
      /\ mixed' = [mixed EXCEPT ![n][Key] =
                     Append(@, <<OutputOffset(cs), OutputOffset(cs) + chunk>>)]
      /\ UNCHANGED endsamp

(* One iteration of the playing loop: pop, exec, and re-queue if endsamp   *)
(* is beyond the period.  Where it is not, the branch for unref() tests a  *)
(* flag that is always 0.                                                  *)
ExecHead ==
  /\ pc = "play" /\ fault = "none"
  /\ HeadIsDue
  /\ LET e    == rtQueue[Key][1]
         n    == e.inst
         rest == Pop(rtQueue[Key])
         next == e.chunkstart + ChunkSamps(n, e.chunkstart)
     IN  IF SrcChan(n, qStatus, bus) = 0
         THEN /\ fault' = "assert_srcchan"
              /\ UNCHANGED <<rtQueue, instVars, refcount, mixed>>
         ELSE /\ Exec(n, e.chunkstart)
              /\ IF Unsigned(endsamp[n]) > BufEnd
                 THEN IF ReadsFreed(rest, next)
                      THEN fault' = "freed" /\ UNCHANGED <<rtQueue, refcount>>
                      ELSE /\ rtQueue' =
                                [rtQueue EXCEPT ![Key] = Push(rest, n, next)]
                           /\ UNCHANGED <<refcount, fault>>
                 ELSE /\ fault' = fault
                      /\ rtQueue' = [rtQueue EXCEPT ![Key] = rest]
                      /\ refcount' = [refcount EXCEPT ![n] = @ - 1]
  /\ UNCHANGED <<rtHeap, timeVars, ctlVars, status, startsamp, nsamps>>

BusDone ==
  /\ pc = "play" /\ fault = "none"
  /\ ~HeadIsDue
  /\ pc' = "select"
  /\ UNCHANGED <<rtHeap, rtQueue, timeVars, todo, popped, qStatus, play_bus,
                 bus, instVars, refcount, fault, histVars>>

(* rtsendsamps(), then the clocks and the buffers are set for the next     *)
(* period.                                                                 *)
Send ==
  /\ pc = "send" /\ fault = "none"
  /\ elapsed' = elapsed + RTBUFSAMPS
  /\ bufStartSamp' = bufStartSamp + RTBUFSAMPS
  /\ mixed' = [n \in Notes |-> [k \in Keys |-> <<>>]]
  /\ pc' = "idle"
  /\ UNCHANGED <<rtHeap, rtQueue, todo, popped, qStatus, play_bus, bus,
                 instVars, refcount, fault, status, startsamp, nsamps>>

Traverse ==
  \/ Begin
  \/ \E e \in rtHeap : PopHeap(e)
  \/ HeapDone
  \/ PushNext
  \/ PushDone
  \/ SelectBus
  \/ NextClass
  \/ ExecHead
  \/ BusDone
  \/ Send

Next ==
  \/ \E n \in Notes, s \in Starts, d \in Durs : Schedule(n, s, d)
  \/ \E n \in Notes : ScheduleFails(n)
  \/ Flush
  \/ Traverse

Spec == Init /\ [][Next]_vars

(* Pd calls perform() for every period while DSP is on. *)
FairSpec == Spec /\ WF_vars(Traverse)
(***************************************************************************)
(* Properties.                                                             *)
(***************************************************************************)
QueueTypes ==
  /\ rtHeap \subseteq [inst : Notes, chunkStart : Nat]
  /\ rtQueue \in [Keys -> Seq([inst : Notes, chunkstart : Nat, prev : Links])]
  /\ todo \in Seq(Keys)
  /\ popped \in [inst : Notes, chunkStart : Nat]
ControlTypes ==
  /\ bufStartSamp \in Nat /\ elapsed \in Nat
  /\ pc \in {"idle", "pop", "push", "select", "play", "send"}
  /\ qStatus \in Classes /\ play_bus \in Nat \ {0} /\ bus \in Bus
  /\ fault \in {"none", "freed", "assert_chunkstart", "assert_srcchan"}
InstTypes ==
  /\ endsamp \in [Notes -> Int] /\ cursamp \in [Notes -> Nat]
  /\ needs_to_run \in [Notes -> BOOLEAN]
  /\ bufferWritten \in [Notes -> SUBSET Nat]
  /\ refcount \in [Notes -> Int]
HistoryTypes ==
  /\ status \in [Notes -> {"new", "live", "flushed", "lost"}]
  /\ startsamp \in [Notes -> Int] /\ nsamps \in [Notes -> Nat]
  /\ mixed \in [Notes -> [Keys -> Seq(Int \X Int)]]
TypeOK == QueueTypes /\ ControlTypes /\ InstTypes /\ HistoryTypes

EndOf(n) == startsamp[n] + nsamps[n]

(* The note has frames in this period, or starts and ends in it. *)
Sounding(n) ==
  /\ status[n] = "live"
  /\ startsamp[n] < BufEnd
  /\ startsamp[n] >= bufStartSamp \/ EndOf(n) > bufStartSamp

(* Its frames of this period, as offsets into the period's buffers. *)
SliceOf(n) ==
  LET from == IF startsamp[n] < bufStartSamp THEN bufStartSamp ELSE startsamp[n]
      to   == IF EndOf(n) < BufEnd THEN EndOf(n) ELSE BufEnd
  IN  <<from - bufStartSamp, to - bufStartSamp>>

(* When a period is sent, every note has been mixed into each of its buses *)
(* exactly once, with exactly the frames of the note that fall in the      *)
(* period: no bus, slice or boundary frame is missed or doubled.           *)
SliceComplete ==
  pc = "send" /\ fault = "none" =>
    \A n \in Notes, k \in Keys :
      mixed[n][k] = IF Sounding(n) /\ k \in KeysOf(n) THEN <<SliceOf(n)>>
                                                      ELSE <<>>

(* The frames of a note before a time. *)
FramesBefore(n, time) ==
  CASE time <= startsamp[n] -> 0
    [] time >= EndOf(n)     -> nsamps[n]
    [] OTHER                -> time - startsamp[n]

(* Between traversals a live note has run exactly the frames that lie      *)
(* before now: run() is called once per period however many buses it has.  *)
FramesRun ==
  pc = "idle" =>
    \A n \in Notes : status[n] = "live" => cursamp[n] = FramesBefore(n, bufStartSamp)

(* An instrument reading an aux bus runs after every instrument that       *)
(* writes this bus in this period has been mixed into it.                  *)
AuxReady ==
  \A n, m \in Notes, k \in Keys, c \in {"TO_AUX", "AUX_TO_AUX"} :
    \A i \in 1 .. Len(Slot[n].auxin) :
      LET from == <<c, Slot[n].auxin[i]>>
      IN  mixed[n][k] # <<>> /\ Sounding(m) /\ from \in KeysOf(m)
            => mixed[m][from] # <<>>

(* No assertion of the traversal fails and no deleted element is read. *)
NoFault == fault = "none"

(* What is still due in a period is never queued behind what is not: the   *)
(* playing loop stops at the first head that starts after the period.      *)
DueFirst ==
  \A k \in Keys : \A i, j \in 1 .. Len(rtQueue[k]) :
    i < j /\ rtQueue[k][j].chunkstart < BufEnd
      => rtQueue[k][i].chunkstart < BufEnd

(* A live note holds the reference of checkInsts() and one per queue       *)
(* element, so that no pop can free an instrument that is still queued.    *)
Elements(n) ==
  UNION {{<<k, i>> : i \in {j \in 1 .. Len(rtQueue[k]) : rtQueue[k][j].inst = n}} :
           k \in Keys}
RefsCounted ==
  \A n \in Notes : status[n] = "live" /\ fault = "none" =>
    refcount[n] = 1 + Cardinality(Elements(n))

(* Every scheduled note leaves the heap and the queues. *)
Pending(n) == (\E e \in rtHeap : e.inst = n) \/ Elements(n) # {}
NotesEnd == \A n \in Notes : Pending(n) ~> ~Pending(n)

(* However late the scheduler is for a note, addout() stays inside the     *)
(* period's buffers.                                                       *)
InBuffer ==
  \A n \in Notes, k \in Keys : \A i \in 1 .. Len(mixed[n][k]) :
    mixed[n][k][i][1] >= 0 /\ mixed[n][k][i][2] <= RTBUFSAMPS

(* A late note is cut rather than prolonged: nothing of it is mixed after  *)
(* the frame it was to end at.  Excluded are the notes so late that their  *)
(* lag exceeds endsamp itself: there `endsamp += offset` wraps below zero  *)
(* and a whole buffer is played.                                           *)
EndsOnTime ==
  \A n \in Notes, k \in Keys : \A i \in 1 .. Len(mixed[n][k]) :
    LET slice == mixed[n][k][i]
        lag   == bufStartSamp - startsamp[n]
    IN  slice[1] < slice[2] /\ lag <= EndOf(n)
          => bufStartSamp + slice[2] <= EndOf(n)

(* Once queued, a note leaves the queues, unless the process aborts. *)
QueuedNotesEnd ==
  \A n \in Notes : Elements(n) # {} ~> Elements(n) = {} \/ fault # "none"

(* assert(rtQchunkStart > 0 || bufStartSamp == 0) holds when a bus is      *)
(* selected.                                                               *)
ChunkstartAssert == fault # "assert_chunkstart"

(* A finished instrument is either re-queued or unref'd, so that its       *)
(* object is freed: no references are left once it is out of the queues.   *)
FinishedFreed ==
  pc = "idle" =>
    \A n \in Notes : status[n] = "live" /\ ~Pending(n) => refcount[n] = 0

(***************************************************************************)
(* The inductive invariant behind NoFault and DueFirst.  It holds of the   *)
(* scores that are not late, whose buses are all on a play list and whose  *)
(* bus_configs do not mix "out" with "aux-out".                            *)
(***************************************************************************)
OnTime == \A s \in Starts : s >= -RTBUFSAMPS

Start(k, i) == rtQueue[k][i].chunkstart

(* Both clocks agree, and a traversal only begins before the bound. *)
Clocks == elapsed = bufStartSamp /\ (pc # "idle" => bufStartSamp <= MaxSamp)

(* Nothing on the heap is late, nor due once the heap has been emptied. *)
HeapTimes ==
  \A e \in rtHeap :
    /\ e.chunkStart >= bufStartSamp
    /\ pc \in {"select", "play", "send"} => e.chunkStart >= BufEnd
Ends == \A n \in Notes : endsamp[n] \in 0 .. MaxSamp

(* A queue element belongs to this period or the next; between traversals, *)
(* and once the period is over, it starts exactly with the next one.       *)
QueueTimes ==
  \A k \in Keys : \A i \in 1 .. Len(rtQueue[k]) :
    /\ Start(k, i) >= bufStartSamp /\ Start(k, i) <= BufEnd
    /\ pc = "idle" => Start(k, i) = bufStartSamp
    /\ pc \in {"pop", "push"} => Start(k, i) < BufEnd
    /\ pc = "send" => Start(k, i) = BufEnd
QueueSorted ==
  \A k \in Keys : \A i, j \in 1 .. Len(rtQueue[k]) :
    i < j => Start(k, i) <= Start(k, j)

(* What comes off the heap starts no earlier than what is queued already.  *)
PopOrder ==
  /\ pc = "pop" => \A k \in Keys : \A i \in 1 .. Len(rtQueue[k]) :
                     \A e \in rtHeap : Start(k, i) <= e.chunkStart
  /\ pc = "push" =>
       /\ popped.chunkStart >= bufStartSamp /\ popped.chunkStart < BufEnd
       /\ \A e \in rtHeap : popped.chunkStart <= e.chunkStart
       /\ \A k \in Keys : \A i \in 1 .. Len(rtQueue[k]) :
            Start(k, i) <= popped.chunkStart

(* An instrument is queued on buses of its own only. *)
Members ==
  /\ \A k \in Keys : \A i \in 1 .. Len(rtQueue[k]) :
       k \in KeysOf(rtQueue[k][i].inst)
  /\ pc = "push" => \A i \in 1 .. Len(todo) : todo[i] \in KeysOf(popped.inst)

(* The queues of the play-list entries that have been played hold nothing  *)
(* of this period any more.                                                *)
Played(k) ==
  /\ \/ Earlier(k[1], qStatus)
     \/ /\ k[1] = qStatus
        /\ \E i \in 1 .. Len(PlayList[k[1]]) :
             i < play_bus /\ PlayList[k[1]][i] = k[2]
  /\ pc = "play" => k # Key
PlayedOut ==
  pc \in {"select", "play"} =>
    \A k \in Keys : Played(k) =>
      \A i \in 1 .. Len(rtQueue[k]) : Start(k, i) = BufEnd

OnTimeInv ==
  /\ TypeOK /\ NoFault
  /\ Clocks /\ HeapTimes /\ Ends
  /\ QueueTimes /\ QueueSorted /\ PopOrder /\ Members /\ PlayedOut

(***************************************************************************)
(* The inductive invariant behind EndsOnTime and RefsCounted, which holds  *)
(* of every score: however late, an instrument that can still be reached   *)
(* is live, and what is queued of it starts no earlier than it does.       *)
(***************************************************************************)
Reached(n, start) == status[n] = "live" /\ startsamp[n] <= start
AllReached ==
  /\ \A e \in rtHeap : Reached(e.inst, e.chunkStart)
  /\ pc = "push" => Reached(popped.inst, popped.chunkStart)
  /\ \A k \in Keys : \A i \in 1 .. Len(rtQueue[k]) :
       Reached(rtQueue[k][i].inst, Start(k, i))
LiveEnds ==
  \A n \in Notes : status[n] = "live" => endsamp[n] = EndOf(n) /\ EndOf(n) <= MaxSamp
SilentBetween ==
  pc = "idle" => \A n \in Notes : \A k \in Keys : mixed[n][k] = <<>>
NewUncounted == \A n \in Notes : status[n] = "new" => refcount[n] = 0

LateInv == TypeOK /\ AllReached /\ LiveEnds /\ SilentBetween /\ NewUncounted

(***************************************************************************)
(* The inductive invariant behind SliceComplete, on top of OnTimeInv: of a *)
(* live note and each of its buses, the note is on the heap, on its way to *)
(* the bus, in the queue of the bus, or done with it; which of these it is *)
(* decides what has been mixed.                                            *)
(***************************************************************************)

Waiting(n) == \E e \in rtHeap : e.inst = n
Coming(n, k) == pc = "push" /\ popped.inst = n /\ \E i \in 1 .. Len(todo) : todo[i] = k
Queued(n, k) == \E i \in 1 .. Len(rtQueue[k]) : rtQueue[k][i].inst = n
Untouched(n, k) == ~Queued(n, k) /\ mixed[n][k] = <<>>

(* A note is once on the heap and once in a queue. *)
Once ==
  /\ \A e, f \in rtHeap : e.inst = f.inst => e = f
  /\ pc = "push" => \A i, j \in 1 .. Len(todo) : todo[i] = todo[j] => i = j
  /\ \A k \in Keys : \A i, j \in 1 .. Len(rtQueue[k]) :
       rtQueue[k][i].inst = rtQueue[k][j].inst => i = j

WaitingNotes ==
  \A e \in rtHeap :
    /\ status[e.inst] = "live" /\ startsamp[e.inst] = e.chunkStart
    /\ pc = "push" => popped.inst # e.inst
    /\ \A k \in Keys : Untouched(e.inst, k)
ComingNotes ==
  pc = "push" =>
    /\ status[popped.inst] = "live" /\ startsamp[popped.inst] = popped.chunkStart
    /\ \A i \in 1 .. Len(todo) : Untouched(popped.inst, todo[i])

(* A queue element that starts before the end of the period is still to be *)
(* mixed, one that starts at the end has been.                             *)
Placed(n, k, start) ==
  /\ Sounding(n)
  /\ \/ /\ start < BufEnd /\ start = bufStartSamp + SliceOf(n)[1]
        /\ mixed[n][k] = <<>>
     \/ /\ start = BufEnd /\ EndOf(n) > BufEnd
        /\ mixed[n][k] = <<SliceOf(n)>>
QueuedNotes ==
  \A k \in Keys : \A i \in 1 .. Len(rtQueue[k]) :
    Placed(rtQueue[k][i].inst, k, Start(k, i))

Through(n, k) ==
  /\ startsamp[n] < BufEnd /\ EndOf(n) <= BufEnd
  /\ mixed[n][k] = IF Sounding(n) THEN <<SliceOf(n)>> ELSE <<>>
DoneNotes ==
  \A n \in Notes : \A k \in KeysOf(n) :
    status[n] = "live" /\ ~Waiting(n) /\ ~Coming(n, k) /\ ~Queued(n, k) => Through(n, k)

(* Nothing is mixed between traversals, nor for a note that is not live,   *)
(* nor into a bus that is not the note's.                                  *)
NothingElse ==
  \A n \in Notes : \A k \in Keys :
    pc = "idle" \/ status[n] # "live" \/ k \notin KeysOf(n) => mixed[n][k] = <<>>
SliceInv ==
  Once /\ WaitingNotes /\ ComingNotes /\ QueuedNotes /\ DoneNotes /\ NothingElse /\ LiveEnds

(***************************************************************************)
(* The invariant behind FramesRun, on top of both: needs_to_run is false   *)
(* from the first bus of a note in a period to the last, bufferWritten has *)
(* the channels that are out, and the frames of the period are counted     *)
(* once the first is.  It relies on slots that write either "out" or       *)
(* "aux-out": of the others outputchans counts channels that are on no     *)
(* queue of addout().                                                      *)
(***************************************************************************)

MixedKeys(n) == {k \in KeysOf(n) : mixed[n][k] # <<>>}
FramesInv ==
  \A n \in Notes :
    /\ status[n] = "new" => cursamp[n] = 0 /\ needs_to_run[n]
    /\ status[n] = "live" =>
         /\ needs_to_run[n] <=> MixedKeys(n) = {} \/ MixedKeys(n) = KeysOf(n)
         /\ ~needs_to_run[n] =>
              bufferWritten[n] = {SrcChan(n, k[1], k[2]) : k \in MixedKeys(n)}
         /\ cursamp[n] = FramesBefore(n, IF MixedKeys(n) = {} THEN bufStartSamp
                                                              ELSE BufEnd)

(***************************************************************************)
(* The invariant behind AuxReady, on top of both: what has been mixed was  *)
(* mixed into a bus that has had its turn.  It relies on play lists that   *)
(* name no bus twice and put a bus before those its readers write.         *)
(***************************************************************************)

AtBus ==
  pc = "play" =>
    play_bus - 1 \in 1 .. Len(PlayList[qStatus]) /\ PlayList[qStatus][play_bus - 1] = bus
HadTurn(k) ==
  pc = "send" \/ (pc = "play" /\ k = Key) \/ (pc \in {"select", "play"} /\ Played(k))
TurnInv ==
  AtBus /\ \A n \in Notes : \A k \in Keys : mixed[n][k] # <<>> => HadTurn(k)
=============================================================================
