------------------------------- MODULE Inputs -------------------------------
(***************************************************************************)
(* The input sources of notes: rtinput() in a score chooses a sound file,  *)
(* the audio input ("AUDIO") or a Pd array ("MMBUF", "PDBUF") for the      *)
(* notes that follow (rtinput.cpp), attachInput() gives it to a note       *)
(* (rtsetinput.cpp), and bufset makes an array known (main.cpp).  What was *)
(* chosen is spread over two globals and two tables: last_input_index,     *)
(* mm_buf_input, inputFileTable and mm_bufs.                               *)
(***************************************************************************)
EXTENDS Integers, FiniteSets

CONSTANTS
  Files,            \* names of sound files
  Arrays,           \* names of Pd arrays
  AUDIO,            \* rtinput("AUDIO")
  BufNames,         \* what rtinput calls an array: "MMBUF", "PDBUF"
  max_input_fds,    \* entries of inputFileTable
  MAX_MM_BUFS,      \* entries of mm_bufs
  MaxInsts,         \* bound: notes that take input
  None,             \* an entry not in use; nothing chosen yet
  USE_MM_BUF        \* the fdIndex of a note that reads an array

Names == Files \cup {AUDIO} \cup BufNames
Slots == 0 .. max_input_fds - 1
BufSlots == 0 .. MAX_MM_BUFS - 1
Insts == 1 .. MaxInsts

ASSUME SizesAssumption ==
  /\ max_input_fds \in Nat \ {0} /\ MAX_MM_BUFS \in Nat \ {0}
  /\ MaxInsts \in Nat
ASSUME NamesAssumption ==
  /\ AUDIO \notin Files \cup BufNames /\ Files \cap BufNames = {}
  /\ None \notin Names \cup Arrays \cup Slots \cup BufSlots
  /\ USE_MM_BUF \notin Slots \cup {None}

VARIABLES
  filename,         \* of the entries of inputFileTable: None if fd = NO_FD
  last_input_index,
  mm_bufs,          \* names of the arrays known
  n_mm_bufs,
  mm_buf_input,     \* entry of mm_bufs the next notes read, or None
  rtrecord,         \* inTraverse() takes the audio input
  play, record,     \* Option::play(), Option::record()
  playing,          \* notes that take input
  fdIndex,          \* InputState of a note
  my_mm_buf,
  asked,            \* history: what the last rtinput() named, and its success
  wish,             \* history: what was asked when a note was made
  past,             \* history: notes that start past the end of their source
  ended             \* history: since rtinput("AUDIO") a new file was opened,
                    \* or a new array refused

tables == <<filename, mm_bufs, n_mm_bufs>>
notes == <<playing, fdIndex, my_mm_buf, wish, past>>
options == <<play, record>>
vars == <<tables, last_input_index, mm_buf_input, rtrecord, options, notes,
          asked, ended>>

(* What rtinput() was asked for: a name, and an array if it is of BufNames. *)
Wishes == [name : Names, array : Arrays \cup {None}, ok : BOOLEAN]
Nothing == [name |-> None, array |-> None, ok |-> FALSE]

Init ==
  /\ filename = [s \in Slots |-> None]
  /\ last_input_index = None
  /\ mm_bufs = [b \in BufSlots |-> None] /\ n_mm_bufs = 0
  /\ mm_buf_input = None
  /\ rtrecord = FALSE /\ play = TRUE /\ record = TRUE
  /\ playing = {}
  /\ fdIndex = [i \in Insts |-> None] /\ my_mm_buf = [i \in Insts |-> None]
  /\ asked = Nothing /\ wish = [i \in Insts |-> Nothing] /\ past = {}
  /\ ended = FALSE

(***************************************************************************)
(* set_option(): playback and recording can be switched at any time.       *)
(***************************************************************************)
SetOption ==
  /\ \/ play' \in BOOLEAN /\ UNCHANGED record
     \/ record' \in BOOLEAN /\ UNCHANGED play
  /\ UNCHANGED <<tables, last_input_index, mm_buf_input, rtrecord, notes,
                 asked, ended>>

(***************************************************************************)
(* bufset                                                                  *)
(***************************************************************************)
Known(a) == \E b \in BufSlots : b < n_mm_bufs /\ mm_bufs[b] = a

(* It is refused. *)
BufsetFull(a) == UNCHANGED <<mm_bufs, n_mm_bufs>>

(* Of an array that is known the address is set anew, for its notes too. *)
Bufset(a) ==
  /\ IF Known(a) THEN UNCHANGED <<mm_bufs, n_mm_bufs>>
     ELSE IF n_mm_bufs >= MAX_MM_BUFS THEN BufsetFull(a)
     ELSE /\ mm_bufs' = [mm_bufs EXCEPT ![n_mm_bufs] = a]
          /\ n_mm_bufs' = n_mm_bufs + 1
  /\ UNCHANGED <<filename, last_input_index, mm_buf_input, rtrecord, options,
                 notes, asked, ended>>

(***************************************************************************)
(* rtinput()                                                               *)
(***************************************************************************)
Asks(name, array, ok) ==
  asked' = [name |-> name, array |-> array, ok |-> ok]

(* Mutant: the array chosen before is kept when a file is named. *)
KeepsArray == UNCHANGED mm_buf_input
NoArray == mm_buf_input' = None

(* Mutant: only the entry chosen last is looked at. *)
OpenAtLast(name) == {s \in {last_input_index} \cap Slots : filename[s] = name}
OpenAt(name) == {s \in Slots : filename[s] = name}
Free == {s \in Slots : filename[s] = None}

(* The name is in the table, or goes into its first free entry; ok says    *)
(* whether one was found.  The index is left as it was if not.             *)
IsFirst(s, slots) == s \in slots /\ \A t \in slots : s <= t
Enter(name, ok) ==
  \/ /\ ok
     /\ \E s \in Slots : IsFirst(s, OpenAt(name)) /\ last_input_index' = s
     /\ UNCHANGED filename
  \/ /\ ok /\ OpenAt(name) = {}
     /\ \E s \in Slots : /\ IsFirst(s, Free)
                        /\ last_input_index' = s
                        /\ filename' = [filename EXCEPT ![s] = name]
  \/ /\ ~ok /\ OpenAt(name) = {} /\ Free = {}
     /\ UNCHANGED <<last_input_index, filename>>

(* What is to be read from the engine's input is not opened unless both    *)
(* playback and recording are on; the input is then not recorded any more. *)
(* What is open is not asked about again.                                  *)
Refused(name) ==
  /\ OpenAt(name) = {} /\ ~(play /\ record)
  /\ rtrecord' = FALSE /\ UNCHANGED <<last_input_index, filename>>
Taken(name, ok) ==
  /\ OpenAt(name) # {} \/ (play /\ record)
  /\ Enter(name, ok)

(* Mutant: the audio input is asked for only when it is opened. *)
RecordsWhenNew == rtrecord' = (rtrecord \/ OpenAt(AUDIO) = {})
Records == rtrecord' = TRUE

RtinputAudio ==
  /\ NoArray
  /\ \/ /\ Records /\ ended' = FALSE
        /\ \E ok \in BOOLEAN : Taken(AUDIO, ok) /\ Asks(AUDIO, None, ok)
     \/ Refused(AUDIO) /\ Asks(AUDIO, None, FALSE) /\ UNCHANGED ended
  /\ UNCHANGED <<mm_bufs, n_mm_bufs, options, notes>>

FindsArray(a) ==
  \E b \in BufSlots : /\ IsFirst(b, {c \in BufSlots : mm_bufs[c] = a})
                     /\ mm_buf_input' = b

(* An array that is known, and chosen, when the name is refused stays so.  *)
RtinputArray(name, a) ==
  /\ \/ /\ FindsArray(a)
        /\ \E ok \in BOOLEAN : Taken(name, ok) /\ Asks(name, a, ok)
        /\ UNCHANGED <<rtrecord, ended>>
     \/ /\ FindsArray(a)
        /\ Refused(name) /\ Asks(name, a, FALSE) /\ ended' = TRUE
     \/ /\ ~Known(a) /\ NoArray /\ Asks(name, a, FALSE)
        /\ UNCHANGED <<last_input_index, filename, rtrecord, ended>>
  /\ UNCHANGED <<mm_bufs, n_mm_bufs, options, notes>>

(* A file: one that is not open yet ends the recording of audio input,     *)
(* also if it cannot be opened.                                            *)
RtinputFile(f) ==
  /\ NoArray
  /\ \/ /\ OpenAt(f) # {}
        /\ Enter(f, TRUE) /\ Asks(f, None, TRUE)
        /\ UNCHANGED <<rtrecord, ended>>
     \/ /\ OpenAt(f) = {}
        /\ rtrecord' = FALSE /\ ended' = TRUE
        /\ \/ \E ok \in BOOLEAN : Enter(f, ok) /\ Asks(f, None, ok)
           \/ Asks(f, None, FALSE) /\ UNCHANGED <<last_input_index, filename>>
  /\ UNCHANGED <<mm_bufs, n_mm_bufs, options, notes>>

(***************************************************************************)
(* Notes: attachInput(), and Instrument::gone().                           *)
(***************************************************************************)
IsAudioDev(s) == filename[s] \in {AUDIO} \cup BufNames

Attached(i, index, buf, beyond) ==
  /\ playing' = playing \cup {i}
  /\ fdIndex' = [fdIndex EXCEPT ![i] = index]
  /\ my_mm_buf' = [my_mm_buf EXCEPT ![i] = buf]
  /\ wish' = [wish EXCEPT ![i] = asked]
  /\ past' = IF beyond THEN past \cup {i} ELSE past \ {i}

HasSource == last_input_index # None /\ filename[last_input_index] # None

(* A note is made, to start in its source at a time that is past its end,  *)
(* or not; a time other than 0 counts as past the end of the audio input.  *)
(* Without a source, or past the end of the audio input, it fails.         *)
AttachInput(i, beyond) ==
  /\ i \notin playing
  /\ HasSource
  /\ \/ /\ mm_buf_input # None /\ ~beyond
        /\ Attached(i, USE_MM_BUF, mm_buf_input, beyond)
     \/ /\ mm_buf_input # None /\ beyond
        /\ Attached(i, last_input_index, None, beyond)
     \/ /\ mm_buf_input = None /\ ~IsAudioDev(last_input_index)
        /\ Attached(i, last_input_index, None, beyond)
     \/ /\ mm_buf_input = None /\ IsAudioDev(last_input_index) /\ ~beyond
        /\ Attached(i, last_input_index, None, beyond)
  /\ UNCHANGED <<tables, last_input_index, mm_buf_input, rtrecord, options,
                 asked, ended>>

(* Being interactive, it leaves everything open. *)
Kept(s) == UNCHANGED filename

Gone(i) ==
  /\ i \in playing
  /\ playing' = playing \ {i}
  /\ Kept(fdIndex[i])
  /\ fdIndex' = [fdIndex EXCEPT ![i] = None]
  /\ my_mm_buf' = [my_mm_buf EXCEPT ![i] = None]
  /\ wish' = [wish EXCEPT ![i] = Nothing]
  /\ past' = past \ {i}
  /\ UNCHANGED <<mm_bufs, n_mm_bufs, last_input_index, mm_buf_input, rtrecord,
                 options, asked, ended>>

Rtinput ==
  \/ RtinputAudio
  \/ \E name \in BufNames, a \in Arrays : RtinputArray(name, a)
  \/ \E f \in Files : RtinputFile(f)

Next ==
  \/ Rtinput \/ SetOption
  \/ \E a \in Arrays : Bufset(a)
  \/ \E i \in Insts : Gone(i) \/ \E beyond \in BOOLEAN : AttachInput(i, beyond)

Spec == Init /\ [][Next]_vars

-----------------------------------------------------------------------------
(* What rtgetin() reads for a note: an array, or what its entry of the     *)
(* table names.                                                            *)
Reads(i) ==
  IF fdIndex[i] = USE_MM_BUF THEN mm_bufs[my_mm_buf[i]]
  ELSE IF IsAudioDev(fdIndex[i]) THEN AUDIO ELSE filename[fdIndex[i]]

Named(w) == IF w.name \in BufNames THEN w.array ELSE w.name

TypeOK ==
  /\ filename \in [Slots -> Names \cup {None}]
  /\ last_input_index \in Slots \cup {None}
  /\ mm_bufs \in [BufSlots -> Arrays \cup {None}]
  /\ n_mm_bufs \in 0 .. MAX_MM_BUFS
  /\ mm_buf_input \in BufSlots \cup {None}
  /\ {rtrecord, play, record, ended} \subseteq BOOLEAN
  /\ playing \subseteq Insts /\ past \subseteq Insts
  /\ fdIndex \in [Insts -> Slots \cup {USE_MM_BUF, None}]
  /\ my_mm_buf \in [Insts -> BufSlots \cup {None}]
  /\ asked \in Wishes \cup {Nothing}
  /\ wish \in [Insts -> Wishes \cup {Nothing}]

(* A note reads, for as long as it plays, the file, the audio input or the *)
(* array that the last rtinput() before it named, if that succeeded and    *)
(* the note does not start past its end: whatever rtinput() and bufset are *)
(* called for in between.                                                  *)
ReadsWhatWasAsked ==
  \A i \in playing : wish[i].ok /\ i \notin past => Reads(i) = Named(wish[i])

(* No name has two entries: what is open is not opened again. *)
OpenedOnce ==
  /\ \A s, t \in Slots : filename[s] = filename[t] /\ filename[s] # None => s = t
  /\ \A b, c \in BufSlots : mm_bufs[b] = mm_bufs[c] /\ mm_bufs[b] # None => b = c

(* Once an rtinput() has succeeded there is a source for every note to     *)
(* come, though the notes it was opened for are gone.                      *)
SourceStays == last_input_index # None => HasSource

(* A note that reads the audio input gets it until, after the last         *)
(* rtinput("AUDIO"), a new file is opened or a new array refused, whatever *)
(* set_option() does: an rtinput("AUDIO") that is refused ends no note's   *)
(* input, since there can be no such note.                                 *)
Live == [name |-> AUDIO, array |-> None, ok |-> TRUE]
LiveUntilEnded == \A i \in playing : wish[i] = Live => rtrecord \/ ended

(* The inductive invariant of the proofs.  Arrays fill their table from    *)
(* the front.                                                              *)
ArraysFill == \A b \in BufSlots : mm_bufs[b] = None <=> n_mm_bufs <= b

(* The two indices name what the last rtinput() named, if it succeeded.    *)
Choice ==
  /\ mm_buf_input # None => mm_bufs[mm_buf_input] # None
  /\ asked.ok => /\ last_input_index # None
                 /\ filename[last_input_index] = asked.name
                 /\ IF asked.name \in BufNames
                    THEN mm_buf_input # None /\ mm_bufs[mm_buf_input] = asked.array
                    ELSE mm_buf_input = None

(* A note that plays has a source, and if it was given what was asked for, *)
(* reads it.                                                               *)
Sources ==
  \A i \in playing :
    IF fdIndex[i] = USE_MM_BUF
    THEN my_mm_buf[i] # None /\ mm_bufs[my_mm_buf[i]] # None
    ELSE fdIndex[i] # None /\ filename[fdIndex[i]] # None

(* The audio input, once asked for with success, is in the table.          *)
Recording ==
  Live \in {asked} \cup {wish[i] : i \in playing} =>
    OpenAt(AUDIO) # {} /\ (rtrecord \/ ended)

IInv ==
  /\ TypeOK /\ OpenedOnce /\ SourceStays /\ ReadsWhatWasAsked
  /\ ArraysFill /\ Choice /\ Sources /\ Recording

(* rtinput("AUDIO") signals inTraverse() to grab buffers from the audio    *)
(* device: a note that reads it hears it.                                  *)
LiveInput ==
  \A i \in playing : wish[i].name = AUDIO /\ wish[i].ok => rtrecord

(* Notes after an rtinput() use what it named, whether or not it failed.   *)
UsesLastRtinput == \A i \in playing : i \notin past => Reads(i) = Named(wish[i])
=============================================================================
