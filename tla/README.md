# A TLA+ model of RTcmix in Pd

`rtcmix~` is a Pure Data object that loads the RTcmix synthesis engine as a
dynamic library, hands it scores and pulls one period of audio from it per DSP
tick.  This directory holds TLA+ modules of its core logic, TLC configurations
that check them on small instances, and proofs that TLAPS checks.  Paths below
are relative to the repository; `rtcmix/` is short for
`RTcmix-pd-4.0.1.6/src/rtcmix/`.

## The system

| Component | Code | State | Operations |
|---|---|---|---|
| Note scheduler | `rtcmix/intraverse.cpp`, `Instrument.cpp`, `checkInsts.cpp`, `BusSlot.h` | `rtHeap`, `rtQueue[3*MAXBUS]`, `bufStartSamp`, `elapsed`; per instrument `endsamp`, `cursamp`, `needs_to_run`, `bufferWritten`, a reference count | `checkInsts`, `schedule`, `inTraverse`, `exec`, `addout`, flush |
| Start-time heap | `rtcmix/heap/heap.cpp`, `queue.cpp` | linked heapslots, a queue of empty leaves, `bot`, `size` | `insert`, `deleteMin` |
| Instrument queues | `rtcmix/heap/rtQueue.cpp` | doubly linked list with start times | `push`, `pop`, `nextChunk` |
| Bus configuration | `rtcmix/bus_config.cpp` | slots by instrument name, graph of aux buses, buses in use, three play lists | `bus_config`, `get_bus_config`, loop check, `create_play_order` |
| Script manager | `rtcmix~.c`, `rtcmix_scripteditor.py` | 20 scripts in memory, temporary files, flags, current script | `goscript`, `bang`, `setscript`, `read`, `save`, `saveas`, `openeditor`, `livecode`, the panel callback |
| Engine lifecycle, mailboxes | `rtcmix~.c`, `rtcmix/main.cpp`, `RTcmix.cpp`, `mm_rtsetparams.cpp`, `message.c`, `MAXBANG`, `MAXMESSAGE` | the loaded library, `canvas_dspstate`, `flushflag`, `bang_ready`, `vals_ready` | messages, `rtcmix_dsp`, `rtcmix_perform` with its outlet |
| Input files and arrays | `rtcmix/rtinput.cpp`, `rtsetinput.cpp`, `rtgetin.cpp`, `main.cpp` | `inputFileTable`, `mm_bufs`, the choice in `last_input_index` and `mm_buf_input`, `rtrecord` | `rtinput`, `bufset`, `attachInput`, `gone` |
| Minc's parser | `parser/minc/minc.y`, `minc.l`, `y.tab.c`, `lex.yy.c` | the parser's stack and error flag; `level`, the start condition and the depth of comments, which outlive a script | `yyparse`, `yylex`, error recovery, `go` |
| Minc's interpreter, PFields | `parser/minc/trees.c`, `sym.c`, `handle.c`, `callextfunc.cpp`, `utils.c`, `rtcmix/PField*.cpp`, `RefCounted.h` | counted lists, handles and PFields; symbols, tree nodes, argument lists and notes that hold them | declarations, `exct` of each kind of node, calls, the end of a script and of a note |
| Function dispatch, devices and sound files, instruments | the rest of `RTcmix-pd-4.0.1.6/` | | |

How they interact.  A score is parsed inside a Pd message, and each statement
outside of a structure is executed as soon as it is parsed.  `rtinput` calls
choose what the notes that follow read, `bus_config` calls
build the bus graph; a call that makes a note takes its slot from
`get_bus_config()`, goes through `checkInsts()` and ends in
`heap::insert()`.  Once per DSP tick `rtcmix_perform()` calls
`pullTraverse()`, i.e. `inTraverse()`: instruments that start before the end of
the period move from the heap to one queue per bus they write; the queues are
played in the order of the play lists; an instrument runs once per period, is
mixed into each of its buses by `addout()` and is pushed back until its
`endsamp`.  Then perform polls the mailboxes, whose receivers may send
messages back to the same object, and does a pending flush.

Threads.  Pd calls messages and perform from one thread, so handlers never
interleave with a traversal and every lock of the engine is free when it is
taken.  `run_status` is never set to `RT_PANIC` in this build and
`rtInteractive` is always 1 (`runMainLoop()` sets it), so the branches for
panic and for non-interactive runs are dead and left out.  What is concurrent
are processes outside Pd: text editors that rewrite the temporary score, and the
Tk panels, which answer at any later time.

What is hard here is not concurrency but protocol: one instrument is spread
over several queues and traversals, decisions of one call (`needs_to_run`, the
play order, `script_flag`, `rtrecord`, the parser's `level`) are used by much
later ones, values are shared by variables, scripts and notes that end at
different times, errors are reported and
not stopped at (`die()` returns), and several lists are bounded by `MAXBUS`.
`PROJECT.json` lists these hazards line by line.

What makes each component correct:

* scheduler: in each period every sounding note is mixed exactly once into each
  of its buses, with exactly its frames; producers of an aux bus are mixed
  before consumers run; each note ends; references balance;
* heap: it is a priority queue that loses and doubles nothing;
* queues: nothing due waits behind something that is not; no freed element is
  read;
* bus configuration: no accepted loop, a play list that has every queue once,
  ends, and follows the data flow;
* script manager: what runs is what the user last saved or edited; a user's
  file changes only when asked to;
* object: a flush takes all that was there; no note is dropped otherwise; messages
  are refused for a while only; each vector sends what ran in it;
* inputs: a note reads, as long as it plays, what was chosen for it; audio input
  ends only where `rtinput()` ends it;
* parser: statements run once, in order, and not before the structure around
  them is complete; errors do not go round for ever;
* interpreter: nothing in use is freed, what is not in use is, and a note keeps
  the PFields it was given.

## Modules

| Module | Models |
|---|---|
| `RTQueue` | class RTQueue as operators on sequences, `prev` pointers kept apart from the order |
| `BusQueues` | which queues the buses of an instrument are, and what the scheduler needs of slots and play lists; no state |
| `Scheduler` | the note scheduler; EXTENDS `RTQueue` and `BusQueues` |
| `SchedulerMC` | its instances: scores and bus slots |
| `SchedulerProofs` | the theorems of both: queues, scores on time and late ones, periods and buses |
| `PrioQueue` | what class heap promises |
| `RTHeap` | class heap, refines `PrioQueue` |
| `RTHeapMC`, `RTHeapProofs` | its instance; the theorems, the refinement included |
| `BusConfig`, `BusConfigMC`, `BusConfigProofs` | the bus graph, its check and the play lists; the theorems, with the one that joins it to the scheduler through `BusQueues` |
| `ScriptManager`, `ScriptManagerMC`, `ScriptManagerProofs` | scripts, files, editors and panels; the theorems |
| `PdObject`, `PdObjectMC`, `PdObjectProofs` | messages, reloads, perform, outlet and flush; the theorems |
| `Inputs`, `InputsProofs` | what notes read; the theorems |
| `MincParser`, `MincParserProofs` | scanner, parser, error recovery and `level`; the theorems |
| `Minc`, `MincMC`, `MincProofs` | the interpreter's values and reference counts; the theorems |

### Scheduler

A traversal is cut into the iterations of its loops; `pc` says which loop is
running: `pop` (deleteMin), `push` (onto the queue of each bus), `select` (next
bus of the play list), `play` (the elements of a queue), `send`.  Variables have
the code's names.  `todo` and `popped` are the loop over the buses of the
instrument just popped, `qStatus`, `play_bus` and `bus` are the code's locals.
`rtQueue` is indexed by class and bus instead of `bus + k*MAXBUS`.  `fault`
records an assertion that fails, or a read of a deleted queue element; nothing
happens after it.  The heap is the set `rtHeap`, with `PopHeap` as
`PrioQueue!DeleteMin`; that the linked heap implements it is what `RTHeap`
shows.  `PlayList` and `Slot` are constants of `BusQueues`; `BusConfig` says
which values they can have.

`Schedule` is `checkInsts()` down to `heap::insert()`; the note starts at
`start + elapsed + RTBUFSAMPS`, as `getElapsedFrames()` computes it, so a score
is on time if `start >= -RTBUFSAMPS`.  `chunkStart` is converted to unsigned
long (`% ULong`).  `ScheduleFails` is the path on which `setup()` or
`configure()` fails.  `Exec` is `exec()` with `run()` and `addout()`;
`bufferWritten` is the set of channels written.  What an instrument computes is
left out: a mixed slice is a pair of offsets.  History variables: `status`,
`startsamp` and `nsamps` of a note, and `mixed`, the slices mixed in this period.

### RTHeap

Slots are numbered in the order in which they are filled, so that `2i` and
`2i+1` are the children of `i` (right child first, as the code appends it).
`kids` are the slots whose child pointers are not NULL; `leaves` is the queue of
the code.  One iteration of `deleteMin()`'s loop is `OneChild` followed by
`TwoChildren` of the position reached, which can be another one; that the two
never both move the instrument is proved (`SinksToLeastChild`).

### BusConfig

A slot keeps `auxin`, `out` and `auxout`.  `Walk` is the breadth-first queue of
`check_bus_inst_config()`; `Visited` is static in the code and cleared for the
first walk of `create_play_order()` only, which is why `Traverse` has it as an
argument.  The lists are arrays with what earlier calls left behind the new
entries.  `AddIn` wraps at `MAXBUS`, as the code does.  The code's loops are
recursive functions, one value per iteration (`MeetAll`, `AddIns`, `AddEdges`,
`Traversals`); `Walk` stops after `MAXBUS` nodes, as a bus is put into the queue
once (`WalkDone`: nothing is left then).  `accepted` is a history
variable: every slot an instrument can have got.  `Bus` is what
`parse_bus_chan()` lets through: it checks that both ends of a range are below
`MAXBUS - 1`.  A range whose ends are reversed is empty, so that its slot is one
of `BusSlots`; a negative channel, which passes that check, indexes arrays
before their beginning, and is left out.

### ScriptManager

The contents of files are opaque values; `Long` is a file longer than
`MAXSCRIPTSIZE`, `Empty` one of length 0, `None` a missing one. `rtcmix_script`
and `script_size` are two variables, since the code sets one without the other
when a file cannot be loaded. A score named in the arguments of the object is
`ReadFile(0, f)` as the first step. The editor's save, or that of any program
while livecoding, is two steps: `BeginSave` truncates the temporary file and
`EndSave` writes it, unless the text cannot be encoded (`FailSave`); messages
come in between. Two editors open on one script save one after the other.
`edited` and `last` are history. Names given by `read` and by the panels are
resolved alike; the message `save` before a file has been named writes to the
working directory and touches no file of the model.

### PdObject

Time counts in signal vectors and the engine is two sets: notes in the heap and
notes in the queues, with the vectors until a note starts (`due`) and those it
still has to play (`left`).  `pc` is the place in `rtcmix_perform()`: the
traversal, `check_bang()`, `check_vals()`, the end with the flush.  While the
outlet sends (`in_bang`, `in_vals`) every message can come, since what the
outlet is connected to may be connected to the inlet.  `loaded` says whether the
pointers into the library are set: `rtcmix_dsp()` closes and reopens it and may
fail to find it (`loaded'` is either); with no library a message or perform calls
through a null pointer, after which `alive` is FALSE and nothing happens.  A
note's instrument is one that plays, `MAXBANG` or `MAXMESSAGE`; the last two run
for one vector and post to the mailboxes.  History: `from` says which message a
note came from, `doomed` what flush messages were sent for, `flushed` and `lost`
what left the engine in a flush and in a reload, `ran` and `sent` what one vector
ran and sent.

### Inputs

Variables have the code's names; entries are indexed from 0.  An input file's
entry keeps its name, `None` if the descriptor is `NO_FD`.  Reference counts of
entries are left out, since an interactive session never closes a file
(`Kept`).  `RtinputArray` is `rtinput("MMBUF", ...)`, which sets `mm_buf_input`
and enters its own name, not the array's, in the table of files.  What is not in
the table yet and comes from the engine's input, `"AUDIO"` or an array, is
`Refused` while playback or recording is switched off (`SetOption`, at any time),
which clears `rtrecord`; `ended` is history, set where this, or a new file, can
end the input of notes that play.  `AttachInput`
has one disjunct for each way in which `attachInput()` can leave a note;
`beyond` says that the note begins past the end of its source.  A note made after
an `rtinput()` that failed is not told apart by the code; `wish` records that it
failed, and the properties leave these notes out.

### MincParser

The automaton of `y.tab.c` by the symbols on its stack: a state is the symbol on
top, and an entry holds the calls that its tree contains, in order.  The grammar
is reduced to what moves `level`: calls, `;`, blocks and `if`.  The tokens
of a condition are part of the lexeme `if`: a token that may follow a condition
ends it, any other is an error in it, which is found after the empty rule `level`
has raised the level and before the condition is reduced.  A state whose
symbol is `level` does not shift `error`, so recovery pops the `if` and resumes
outside of it, with `level` still raised; in the state after a condition (`if`)
`error` is shifted as the body.  `)` may end a condition but begins no statement, `bad`
does neither.  `Error`, `EndError`, `Discard`
and `Abort` are yacc's recovery with its three-token rule and the four rules for
`error` of the grammar.  A script is
chosen one lexeme at a time, when the scanner asks for it; `ReadEOF` can come at
any time, so every script of up to `MaxLexemes` lexemes is parsed.  `level`,
`cond` and `comments` are not reset between scripts, as in the code.

### Minc

`Code` is a constant: the trees of a script's statements, children first.
`BeginStatement` picks any of them, because a script stands for a loop under
conditions that may have any value; `todo` is what the recursion of `exct()` has
left to do, a list of nodes to visit and nodes to do: to visit a node puts those
below it and the node itself in its place (`Descend`, `PushList`), and to do one
is an action of its own for each kind of node.  The heap has objects with a
count and the values they hold.  Unreferencing frees through elements: the
recursion of the destructors is a loop over the values still to be unreferenced,
one per turn (`UnrefFirst`), which needs no more turns than there are values
(`Work`, proved).  The assumptions on `Code` are what the grammar lets through.
Numbers and strings are one value, as nothing counts them; where the code tells
them apart, in an index, an operator or the arguments of a call, either may be
the case (`NoItem`, `MayWarn`, `MayBeMixed`).  `Declared` changes the type of a
symbol under its value, with `Wild` for the bits of a number read as a pointer.
`lost` counts the references nothing holds any more: a leak is not an error of
the model but is told apart from an object that something still holds, so that
`RefsExact` can ask for exact counts all the same.  `Crash` is where the process
dies: a failed assertion, an index outside of an array (a list longer than
`MAXDISPARGS` included), a null or wild pointer.

## Runs

| Run | Shows | Bounds, and why they are enough |
|---|---|---|
| `SchedulerMC` | `SliceComplete`, `FramesRun`, `AuxReady`, `NoFault`, `DueFirst` and `NotesEnd` on a source, an effect and a two-channel mixer chained through two aux buses and one more instrument that shares a queue with the mixer, with flushes and failing notes at any time | periods of 2 frames; the latest start that is on time and one in the middle of a period; notes of no frames and of more than a period |
| `SchedulerLate` | `TypeOK`, `InBuffer`, `EndsOnTime`, `RefsCounted`, `QueuedNotesEnd` for notes that are late | starts up to a period and a half late, before frame 0 included |
| `RTHeapMC` | `Shape`, `Frontier`, `HeapOrder`, `Descends` and the refinement of `PrioQueue` | six instruments: three levels, last parents with one child and with two; three start times give equal and distinct neighbours |
| `BusConfigMC` | `Acyclic`, `PlayedOnce`, `PlayedInOrderOnOnePath`, `AllPlayed` | all sequences of four calls over four buses: loops of up to four edges, two branches that join; as many output channels as fit |
| `ScriptManagerMC` | `RunsWhatIsSaved`, `LiveRunsLatest`, `FilesSaved` | two scripts (another script can be selected while a panel or an editor is open), one of which is edited (`Edited`; what an editor does to one script touches nothing of another), one file, two scores, script numbers on both sides of the range |
| `PdObjectMC` | `NotesAccounted`, `FlushLeavesNothing`, `SentWhatRan`, `NotesEnd`, `RefusalEnds` | two notes (one before a flush message and one behind it; two messages in one vector), two loads of the library (before and after a flush message) |
| `InputsMC` | `ReadsWhatWasAsked`, `OpenedOnce`, `LiveUntilEnded` | two files, the audio input and an array name for three entries, two arrays for one entry: both tables fill up; two notes with different sources; playback and recording switched at any time |
| `MincParserMC` | `RunsOnceInOrder`, `RunsAll`, `LevelCovers`, `LevelReturns`, `LeakLasts`, `Returns` | two scripts of up to six lexemes: an if in an if with an error in its body or its condition and statements behind it, which run or not; a second script that begins with what the first left |
| `MincMC` | `RefsExact`, `ListsClosed`, `NotesKeepFields` | six statements (a table, handle arithmetic with a subscript, a list that holds a handle and the result of list arithmetic in a nested call, a note with an assignment operator in its arguments, a subscript written, a list longer than `MAXDISPARGS`), any three of them in any order, in one script or several, with each variable declared anew or not when a script begins (which overwrites what a note was made from, as a fourth statement would); two notes; seven objects at a time; the loop check at its limit |

Three more runs find a disagreement between the code and what it says of itself:

* `SchedulerLateAssert`: a note that is late enough to be queued with start 0
  fails `assert(rtQchunkStart > 0 || bufStartSamp == 0)`;
* `MincNested`: arithmetic on a list with a list in it copies the inner list
  without counting it, and `assert(value->list->refcount > 0)` fails when the
  second holder lets go;
* `InputsLive`: naming a sound file for later notes clears `rtrecord` under a
  note that reads the audio input.

Bounds.  Every run stops where its bound is reached, some where the process of
the model has died; `CHECK_DEADLOCK FALSE` says so in `SchedulerLate`,
`SchedulerLateAssert`, `PdObject`, `MincParser`, `Minc` and `Inputs`.  The other
runs check for deadlock.

Fairness.  `FairSpec` of the scheduler is weak fairness of the traversal's
steps: Pd calls perform for every block while DSP is on, and a traversal that
has begun goes on.  `NotesEnd` and `QueuedNotesEnd` use it; the bound `MaxSamp`
stops traversals only when every note that could be scheduled has ended.
`PdObject` has weak fairness of the steps of perform, for the same reason and
because a message of an outlet returns; perform cannot begin while DSP is off,
and its liveness properties say so.  `MincParser` has weak fairness of scanner
and parser together: `yyparse()` is a loop that runs until it returns, and a
script is a string with an end.  Nothing is assumed of scores, messages,
flushes, reloads, editors or panels.

### Seen while modelling

Disagreements and odd behaviour that no run of the project stands for.  Those
with the name of a property can be seen by checking it with the configuration
of the run named.

Scheduler and buses: `FinishedFreed` (`SchedulerMC`): a finished instrument is
never freed, since `inst_chunk_finished` is declared twice
(`intraverse.cpp:406`, 422).  `PlayedInOrder` (`BusConfigMC`): a bus that feeds
two others, one of which feeds the other, is mixed after one of them has been
made from it, a period late (`bus_config.cpp:311`).  When the input list of a
bus wraps at `MAXBUS` a loop is accepted, and the bus drops out of the play list
or is on it twice (`bus_config.cpp:393`): 65 calls that name the same two
buses.  A late note can be run twice over one period (`intraverse.cpp:417`);
slots with both "out" and "aux-out", or with a bus beyond `NCHANS`, are reported
and used (`bus_config.cpp:775`, 790); `setup()` failures leak the instrument
(`checkInsts.cpp:150`); a bus listed twice in a slot keeps `exec()` from running
the instrument again; `setendsamp()` takes an int.

Scripts: `RunsLatestEdit` (`ScriptManagerMC`): with an editor left open,
`goscript` misses the second edit (`rtcmix~.c:751`), and one that comes in the
middle of a save finds the file empty and leaves a script of length 0 behind,
which runs nothing until the editor is opened again; a `save` at this moment
empties the user's file.  `AnswersAsAsked`
(`ScriptManagerMC`): after `saveas`, `read FILE` overwrites FILE
(`rtcmix~.c:965`).  `goscript` and `setscript` accept the script number
`MAX_SCRIPTS` (731, 901); `script_size` takes the length of a file refused as
too long (1053).

Object: `float` and `goscript` run a script while a flush is pending, where
`bang` does not (`rtcmix~.c:496`, 505), and its notes are deleted with those the
flush was sent for, which is the exception in `NotesAccounted`.  Messages before
the first `dsp` call a null pointer; `text` while DSP is off is accepted and
lost when it is switched on; a flush message sent while DSP is off survives the
reload; a `MAXMESSAGE` without values erases the values of another that are
pending; nothing sets `err_pending`; what the outlet sends is a vector late with
respect to the audio.

Inputs: `UsesLastRtinput` (`InputsMC`): an `rtinput()` that fails leaves
`last_input_index`, and notes read what was chosen before (`rtinput.cpp:387`).  A
note that starts past the end of an array reads the audio input, since
`attachInput()` returns before it sets `USE_MM_BUF`; `rtinrepos()` of an array
indexes the table of files with `USE_MM_BUF`; files are never closed in an
interactive session, so the table fills; an array that is resized without
another `bufset` is read at its old address.  An `rtinput()` of an array that is
refused because recording is switched off clears `rtrecord` under notes that read
the audio input; and recording switched off while `rtrecord` is set meets
`assert(Option::record() == true)` in `rtgetsamps.cpp` in the next period.

Minc: `NoStructureBetween` (`MincParserMC`): a syntax error in a structure
leaves `level` above 0 and every later script runs nothing until the library is
loaded anew (`minc.y:25`; `LeakLasts` says it never recovers).  An error in a
condition drops the `if` and leaves `level` raised for the rest of the same
script, too.  A comment left open swallows the next script.  Handle arithmetic
in a loop leaks a handle per evaluation; `assert` in `do_op_list_iterate()`
fails when list arithmetic is executed twice (`trees.c:756`); after 50000 lists
all scripts fail, since `list_count` is static; `maketable()` that fails, and a
list of anything but numbers as an argument, end in a null or unset value;
redeclaring a variable changes its type under its value; a missing include file
ends the process.

## Proofs

`SchedulerProofs` proves, for every score, number of notes, buses, period
length and bound:

* `TypeCorrect`: `Spec => []TypeOK`, from the assumptions on the constants
  alone, late notes included;
* `OnTimeNoFault` and `OnTimeDueFirst`: `Spec => []NoFault` and
  `Spec => []DueFirst` for scores that are on time (`OnTime`), whose buses are
  all on a play list (`AllPlayed`) and whose slots have one kind of output
  (`OneKind`).  `SchedulerLateAssert` and the list above show that the first and
  last assumptions are needed; `BusConfig!AllPlayed` is what justifies the
  second.

`NoFault` is not inductive: whether `push()` follows a dangling `prev` depends on
whether it ever inserts before the tail.  `OnTimeInv` adds why it never does:
queue elements belong to this period or the next (`QueueTimes`), each queue is
sorted (`QueueSorted`), what comes off the heap starts no earlier than what is
queued (`PopOrder`), the heap holds nothing late (`HeapTimes`), an instrument is
queued on its own buses only (`Members`, for the assertion in `addout()`), and the
queues of the part of the play lists already walked hold nothing of this period
any more (`PlayedOut`, so that all of it starts at the next period when the
period is sent).  `PlayedOut` needs the order of play lists and classes.  Then
`Appends` holds at every push, and `push()` neither walks nor reads `prev`.
The module begins with the lemmas on `push()` and `pop()`: types, where the
elements of the result come from, sortedness.

For every score, notes late by any amount and failed assertions included, it
proves what `SchedulerLate` checks:

* `LateInBuffer`: `Spec => []InBuffer`, and `LateEndsOnTime`:
  `Spec => []EndsOnTime`.  Both speak of slices already mixed.  `LateInv` says
  what makes the next one right: an instrument on the heap, popped or queued is
  live and starts no later than its element (`AllReached`), `endsamp` is still
  its end (`LiveEnds`), `mixed` is empty between periods, and an instrument not
  scheduled has no references.  `ChunkLate` is the arithmetic of `exec()`, whose
  unsigned `chunkStart` can have wrapped below zero;
* `LateRefsCounted`: `Spec => []RefsCounted`.  `RefsCounted` counts the elements of
  all queues; `ElementsGained` says that an insertion adds one to this count
  wherever `push()` puts it, and a pop takes one away.

It also proves what the scheduler is for, from the same assumptions and that no
slot names a bus twice (`DistinctBuses`, which the list above shows to be
needed):

* `EveryNoteIsPlayed`: `Spec => []SliceComplete`.  `SliceComplete` speaks of the
  end of a period; `SliceInv` says it of every step on the way: a live note is,
  for each of its buses, on the heap (`WaitingNotes`), popped and not pushed yet
  (`ComingNotes`), in the queue (`QueuedNotes`) or done (`DoneNotes`), in one of
  these only and once (`Once`).  In the queue, a start before the end of the
  period means that nothing has been mixed, a start at the end that the whole
  slice has been.  The arithmetic is in `HeadSlice`: offset and chunk of `exec()`
  are the note's frames of the period.  That nothing due is left when the period
  is sent comes from `OnTimeInv`.
* `AuxIsReady`: `Spec => []AuxReady`, if also no play list names a bus twice
  (`NoRepeats`) and each has a bus before those that its readers write
  (`AuxOrdered`).  `TurnInv` adds that what has been mixed was mixed into a bus
  that has had its turn.  `ListsServeScheduler` below says when `bus_config()`
  makes such lists, and `PlayedInOrder` above when it does not.

* `EveryFrameIsRun`: `Spec => []FramesRun`, if every slot writes either "out" or
  "aux-out" and not neither (`OneOutput`).  `run()` is called for the first of the
  note's buses and not again until the last has been mixed.  `FramesInv` says so
  of every step: `needs_to_run` is false exactly between the first and the last,
  `bufferWritten` has the channels mixed so far, and `cursamp` counts the frames
  up to now or, once a bus has been mixed, up to the end of the period.  That
  `bufferWritten` is full after the last bus and not before (`Channels`,
  `ChannelsOut`) compares `outputchans` with the number of the note's buses: a
  slot with both kinds has channels that are on no queue `addout()` writes for.

The instance of `SchedulerMC` satisfies all these assumptions.

`BusConfigProofs` proves, for any number of buses and channels and any slots,
under one assumption, `Room`: that input lists are long enough for the calls, so
that none wraps (the sum of the inputs one bus gets stays below `MAXBUS`).
Without it the theorems are false: TLC finds counterexamples to `Acyclic`,
`PlayedOnce` and `AllPlayed` on instances whose lists wrap.  The instance of
`BusConfigMC` satisfies it.

* `BusInvariant`: `Spec => []BusInv`.  The graph of the code is that of the slots
  accepted, `HasParent`, `HasChild` and `AuxInUse` agree with the input lists
  (`GraphShape`), it has no loop (`LoopFree`), and each play list is what writing
  the present buses into an unused list gives (`ListsInv`): sets only grow, so
  what earlier calls left in a list is overwritten;
* `NoBusFeedsItself`: `Acyclic`.  `WalkInv` is the loop invariant of
  `check_bus_inst_config()`: what has been met and has inputs has been visited,
  and what has been visited is in the queue or has had its inputs met.  So `met`
  is closed under inputs when the queue is empty (`MetClosed`), and edges into
  buses outside of it close no loop (`StaysLoopFree`);
* `NoQueueTwice`: `PlayedOnce`, and `EveryBusPlayed`: `AllPlayed`.  Walks share
  `Visited`, so no two note the same bus in `RevPlay`.  Of the buses with a parent
  that no walk has visited, one would feed none of them (`SomeLeaf`, from
  `LoopFree`): it has no child and a walk begins at it, or has a child whose walk
  has met it;
* `SourcesComeFirst`: `PlayedInOrderOnOnePath`.  Where a bus has one child, a walk
  meets the child before the bus, and `RevPlay` is read from the back;
* `ListsServeScheduler` joins the two components.  `BusQueues` is instantiated with
  a state of `BusConfig`: the notes are the slots accepted so far, the play lists
  what `inTraverse()` walks.  In every state that calls of `bus_config()` lead to,
  `NoRepeats` holds; `AllPlayed` does if no slot has both kinds of output
  (`OneKind`); and `AuxOrdered` does if, besides, no bus feeds two others
  (`OnePath`), without which TLC finds it violated on the slots of `BusConfigMC`.
  So what the scheduler's theorems assume of play lists is what the bus
  configuration makes; what is left to the score is that slots have one kind of
  output and name no bus twice, and that notes are on time.

A loop of the code is a recursive function on 0 .. n there, and an invariant of
it is shown by the least index at which it fails (`LeastNat`, `Throughout`),
since the library's induction theorems take an operator as a parameter.

`RTHeapProofs` proves `TypeOK`, `Shape`, `Frontier`, `HeapOrder` and `Descends`,
and `Implements`: `Spec => PrioQueueSpec`, for a heap of any size.  While an
instrument rises or sinks it is out of order with one neighbour; `IInv` says of
both loops that it is only that one (`Rising`, `Sinking`), that around the
position the order holds between the node above and those below (`Bypassed`),
and that no instrument is in two slots (`Distinct`).  That the root starts no
later than any slot (`RootIsLeast`) needs an induction along the path to it; it
is done with the least slot that starts before the root, whose parent is less,
as the library's induction theorems take an operator as a parameter.  The
abstract collection is what the occupied slots hold: it changes where `insert()`
and `deleteMin()` enter their loops, and all iterations of the loops are stutters.

`ScriptManagerProofs` proves `TypeOK`, `RunsWhatIsSaved`, `LiveRunsLatest` and
`FilesSaved` for any files, scores, size of the table and script numbers in
messages, `MAX_SCRIPTS` itself included: there `current_script` can be
`MAX_SCRIPTS`, as `TypeOK` says, and the properties still hold of the scripts
that exist.  They are inductive together with `TypeOK`.

`PdObjectProofs` proves `TypeOK`, `NotesAccounted`, `FlushLeavesNothing` and
`SentWhatRan` for any scores and any number of notes and loads.  `IInv` adds that
notes are numbered without a gap (so that a new note is none of those in any
history), that what is in the engine has something left to play, that while a
flush is due all that is in the engine was there at a flush message or came from
a `float` (`WindowDoomed`), without which a flush could take a note that
`NotesAccounted` does not give it, and `Boxes`: at
each place in perform, which part of what this vector ran is still in a mailbox
and which has been sent.  `SentWhatRan` speaks of the end of perform only and
says nothing of the way there; `Boxes` is what a step preserves.  The argument
depends on the mailboxes being empty when a vector begins, which a reload
between vectors does not change.

`InputsProofs` proves `TypeOK`, `ReadsWhatWasAsked`, `OpenedOnce`, `SourceStays`
and `LiveUntilEnded` for any names, sizes of the tables and number of notes.
`IInv` adds that arrays fill their table from the front, that the two halves of
the choice, `last_input_index` and `mm_buf_input`, name together what the last
successful `rtinput()` named (`Choice`), that every note has a source
(`Sources`), and that `rtrecord` is set for the choice and for every note that
reads audio unless a new file was opened or a new array refused (`Recording`): the
audio input is in the table as long as such a note plays, so that an
`rtinput("AUDIO")` can no longer be refused.  `ReadsWhatWasAsked`
alone says nothing of the choice a note will take next.

`MincParserProofs` proves, for scripts of any length and number, `TypeOK`,
`LevelCovers` (nothing in a structure runs before it is complete),
`LevelReturns` (only a syntax error leaves `level` behind) and `LeakLasts` (what
it leaves behind is never made good, and nothing runs again).  `IInv` relates
`level` to the number of structures on the stack from both sides: without an
error it is what it was when the script began and one for each structure
(`Balanced`), and in general at least that (`Covered`), since recovery drops
structures whose `level` stays.  Its lemmas say what pushing and popping do to this
number.  `LeakLasts` follows since `go()` runs calls at level 0 only, and `level` is
at least what it was when the script began.

It also proves what runs: `RunsOnceInOrder`, and `RunsAll` for scripts without an
error or a comment.  `OrderInv` tells the calls on the stack that may still run,
those inside a structure and the one on top (`Waiting`), from those that have
run already and are only dropped later.  The first are in the order of the
script and behind all that ran (`Ordered`); without an error they and those that
ran are all calls read so far (`NoneLost`), and at the end nothing waits
(`NothingWaits`).

`MincProofs` proves the properties of the interpreter for every script, symbol
table and declaration, any number of objects, notes and statements, and any depth
of argument lists and limit of lists.  What it assumes of the trees is what
`minc.y` builds (`CodeAssumption`, `GrammarAssumption`, `DeclarationsAssumption`).

* `SpecListsClosed`: `Spec => []ListsClosed`, of every script.  `ListsClosed` speaks
  of the end of a statement; `ListsInv` says on the way there that the stack has,
  besides the lists that were refused, one list for each list and call that the
  statement still has to do (`Closing`), and that list elements are done inside of
  one (`Enclosed`), so that the list they are appended to exists.
* `SpecRefsExact`, `SpecUnrefsLive`, `SpecTypeOK` and `SpecNotesKeepFields`:
  `Spec /\ []PlainArithmetic => []RefsExact` and so on.  The premise is that no
  arithmetic is done on a list with lists or handles in it, whose items
  `do_op_list_iterate()` copies without counting them: `MincNested` is what
  happens otherwise.  `HeapInv` is inductive: a value is what its type says, so
  that the object of a list is never taken for a handle (`Typed`); the elements of
  lists are values of scripts, those of the other objects PFields (`WellMade`);
  and each count is that of the elements that hold the object and of the
  references from outside, lost ones included (`Counted`).  `RefsExact` alone does
  not say that what is unreferenced next is a live object of the kind the code
  takes it for.
* `ScalarScriptsCount`: the same from the trees alone.  `ScalarScript` is a static
  check, a set of variables and a set of nodes that are closed under what is
  stored and computed and hold no list; a script whose operators have all their
  operands among them keeps exact counts whatever its execution does.  Scripts
  that compute with numbers, tables and results of calls pass it.

The proof has three layers: how often a sequence holds an object, for each way in
which sequences change (`Held...`); what the operators on the heap do to a sound
heap (`UnrefAllSound`, `RefAllSound`, `MakeSound`, `PlaceSound`); and one lemma for
each action (`...Heap`).  `UnrefAllCounted` is the loop invariant of freeing: what
is still to be unreferenced counts as a reference from outside.
`SpecNotesKeepFields` follows as an object that a PField of a note reaches is
counted, so that it is not freed, and no action changes the operands of a PField
that is live (`FieldsFresh`).

The inductive invariants (`OnTimeInv`, `LateInv`, `SliceInv`, `FramesInv`,
`TurnInv`, `BusInv`, `OrderInv`, `HeapInv`, `ListsInv`, `IInv`), the type invariants
and the conclusion of `ListsServeScheduler` hold in TLC on the configurations of
their modules' runs too, where they can be added as an INVARIANT (`ListsInv`
without its unbounded quantifier), and so does `PlainArithmetic` on that of
`MincMC`; since they are proved, the runs do not repeat them.

Model-checked only: liveness (`NotesEnd`, `QueuedNotesEnd`, `RefusalEnds`,
`Returns`), which is out of TLAPS's reach, as is ENABLED.  Every safety invariant
and every action property of the runs is proved.

## Not modelled

* Audio buffers and transfer, devices and sound files, instruments and signal
  processing: transformation of samples without state that several operations
  share in an order of their own; the sample-level part of `rtgetin()` and the
  position in a file; most of these 160000 lines are some hundred instruments
  and their tables of coefficients.
* The dispatch of functions by name, and the conversion of arguments for legacy
  functions: lookup in lists that are built once.
* Of modelled components: negative bus channels, what conditions contain,
  `do_dq`, by which a pfield ends a note early, the substitution of `$`
  variables in scripts, the names of buses, memory that the heap leaks when
  emptied; `rtcmix_free()`, scripts that begin with "system", the values of
  inlets; closing of files outside of interactive mode; `else`, `for` and
  `while` as control flow, include files, what builtin functions return.

## Plan

1. Done: the scheduler with its queues and proofs, the heap and its refinement,
   the bus configuration and what it promises the scheduler, the script manager,
   the object, the inputs, the parser and the interpreter, all with proofs.
2. `do_dq`, by which a pfield ends a note early, in `Scheduler`.
3. A composition of `BusConfig` and `Scheduler`, in which the play lists change
   between the periods of notes that are still queued; one of `PdObject` and
   `MincParser`, in which a reload is what ends the silence after a leak.
4. A wider static check than `ScalarScript`, which lets through arithmetic on
   lists that hold numbers only.
