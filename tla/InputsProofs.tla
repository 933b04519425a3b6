---------------------------- MODULE InputsProofs ----------------------------
(***************************************************************************)
(* Theorems of Inputs, for any names, table sizes and number of notes.     *)
(***************************************************************************)
EXTENDS Inputs, TLAPS

FileOnce ==
  \A s, t \in Slots : filename[s] = filename[t] /\ filename[s] # None => s = t

(* Entries in use keep their names. *)
FilesKept == \A s \in Slots : filename[s] # None => filename'[s] = filename[s]
ArraysKept == \A b \in BufSlots : mm_bufs[b] # None => mm_bufs'[b] = mm_bufs[b]

(* While entries in use keep their names, the notes that play read what    *)
(* they did.                                                               *)
LEMMA NotesKeep ==
  ASSUME TypeOK, Sources, ReadsWhatWasAsked, UNCHANGED notes,
         FilesKept, ArraysKept
  PROVE  Sources' /\ ReadsWhatWasAsked'
<1>1. ASSUME NEW i \in playing
      PROVE  /\ fdIndex[i] = USE_MM_BUF =>
                  /\ my_mm_buf[i] \in BufSlots
                  /\ mm_bufs[my_mm_buf[i]] # None
                  /\ mm_bufs'[my_mm_buf[i]] = mm_bufs[my_mm_buf[i]]
             /\ fdIndex[i] # USE_MM_BUF =>
                  /\ fdIndex[i] \in Slots
                  /\ filename[fdIndex[i]] # None
                  /\ filename'[fdIndex[i]] = filename[fdIndex[i]]
  BY <1>1 DEF TypeOK, Sources, FilesKept, ArraysKept
<1>2. Sources'
  BY <1>1 DEF Sources, notes
<1>3. \A i \in playing : Reads(i)' = Reads(i)
  BY <1>1 DEF Reads, IsAudioDev, notes
<1>4. ReadsWhatWasAsked'
  BY <1>3 DEF ReadsWhatWasAsked, Named, notes
<1> QED
  BY <1>2, <1>4

(* A name that goes into the table, or is found there.                     *)
LEMMA EnterProperties ==
  ASSUME TypeOK, FileOnce, SourceStays,
         NEW name \in Names, NEW ok \in BOOLEAN, Enter(name, ok)
  PROVE  /\ filename' \in [Slots -> Names \cup {None}]
         /\ last_input_index' \in Slots \cup {None}
         /\ FilesKept /\ FileOnce' /\ SourceStays'
         /\ ok => /\ last_input_index' # None
                  /\ filename'[last_input_index'] = name
<1> USE NamesAssumption DEF TypeOK, FilesKept, FileOnce, SourceStays, HasSource
<1>1. CASE /\ ok /\ UNCHANGED filename
           /\ \E s \in Slots : IsFirst(s, OpenAt(name)) /\ last_input_index' = s
  <2> PICK s \in Slots : IsFirst(s, OpenAt(name)) /\ last_input_index' = s
    BY <1>1
  <2>1. filename[s] = name /\ name # None /\ s # None
    BY DEF IsFirst, OpenAt
  <2> QED
    BY <1>1, <2>1
<1>2. CASE /\ ok /\ OpenAt(name) = {}
           /\ \E s \in Slots : /\ IsFirst(s, Free)
                               /\ last_input_index' = s
                               /\ filename' = [filename EXCEPT ![s] = name]
  <2> PICK s \in Slots : /\ IsFirst(s, Free)
                         /\ last_input_index' = s
                         /\ filename' = [filename EXCEPT ![s] = name]
    BY <1>2
  <2>1. filename[s] = None /\ name # None /\ s # None
    BY DEF IsFirst, Free
  <2>2. \A t \in Slots : filename[t] # name
    BY <1>2 DEF OpenAt
  <2>3. \A t \in Slots : filename'[t] = IF t = s THEN name ELSE filename[t]
    OBVIOUS
  <2>4. FilesKept /\ FileOnce'
    BY <2>1, <2>2, <2>3
  <2>5. SourceStays' /\ last_input_index' # None
        /\ filename'[last_input_index'] = name
    BY <2>1, <2>3
  <2> QED
    BY <2>4, <2>5
<1>3. CASE ~ok /\ UNCHANGED <<last_input_index, filename>>
  BY <1>3
<1> QED
  BY <1>1, <1>2, <1>3 DEF Enter

LEMMA StutterKeepsIInv ==
  ASSUME IInv, UNCHANGED vars
  PROVE  IInv'
BY DEF vars, tables, notes, options, IInv, TypeOK, OpenedOnce, SourceStays,
   HasSource, ReadsWhatWasAsked, Reads, IsAudioDev, ArraysFill, Choice, Sources,
   Recording, OpenAt

LEMMA SetOptionKeepsIInv ==
  ASSUME IInv, SetOption
  PROVE  IInv'
<1>1. play' \in BOOLEAN /\ record' \in BOOLEAN
  BY DEF SetOption, IInv, TypeOK
<1>2. UNCHANGED <<tables, last_input_index, mm_buf_input, rtrecord, notes,
                  asked, ended>>
  BY DEF SetOption
<1>3. TypeOK'
  BY <1>1, <1>2 DEF IInv, TypeOK, tables, notes
<1> QED
  BY <1>2, <1>3 DEF tables, notes, IInv, OpenedOnce, SourceStays, HasSource,
     ReadsWhatWasAsked, Reads, IsAudioDev, ArraysFill, Choice, Sources,
     Recording, OpenAt

LEMMA BufsetKeepsIInv ==
  ASSUME IInv, NEW a \in Arrays, Bufset(a)
  PROVE  IInv'
<1> USE DEF IInv
<1>1. CASE Known(a) \/ n_mm_bufs >= MAX_MM_BUFS
  <2>1. UNCHANGED vars
    BY <1>1 DEF Bufset, BufsetFull, vars, tables
  <2> QED
    BY <2>1, StutterKeepsIInv DEF IInv
<1>2. CASE ~Known(a) /\ ~(n_mm_bufs >= MAX_MM_BUFS)
  <2>1. /\ mm_bufs' = [mm_bufs EXCEPT ![n_mm_bufs] = a]
        /\ n_mm_bufs' = n_mm_bufs + 1
        /\ UNCHANGED <<filename, last_input_index, mm_buf_input, rtrecord,
                       options, notes, asked, ended>>
    BY <1>2 DEF Bufset
  <2>2. n_mm_bufs \in BufSlots /\ n_mm_bufs \in Nat /\ mm_bufs[n_mm_bufs] = None
    BY <1>2, SizesAssumption DEF TypeOK, BufSlots, ArraysFill
  <2>3. \A b \in BufSlots : mm_bufs'[b] = IF b = n_mm_bufs THEN a ELSE mm_bufs[b]
    BY <2>1 DEF TypeOK
  <2>4. ArraysKept /\ FilesKept
    BY <2>1, <2>2, <2>3 DEF ArraysKept, FilesKept
  <2>5. TypeOK'
    BY <2>1, <2>2, SizesAssumption DEF TypeOK, notes, options, BufSlots
  <2>6. \A b \in BufSlots : mm_bufs[b] # a
    BY <1>2, NamesAssumption, SizesAssumption
    DEF Known, ArraysFill, TypeOK, BufSlots
  <2>7. OpenedOnce'
    BY <2>1, <2>3, <2>6 DEF OpenedOnce
  <2>8. ArraysFill'
    BY <2>1, <2>2, <2>3, NamesAssumption DEF ArraysFill, BufSlots
  <2>9. Choice'
    BY <2>1, <2>4 DEF Choice, TypeOK, ArraysKept
  <2>10. Sources' /\ ReadsWhatWasAsked'
    BY <2>1, <2>4, NotesKeep
  <2>11. SourceStays' /\ Recording'
    BY <2>1 DEF SourceStays, HasSource, Recording, OpenAt, notes
  <2> QED
    BY <2>5, <2>7, <2>8, <2>9, <2>10, <2>11
<1> QED
  BY <1>1, <1>2

(* What every rtinput() leaves alone, and what follows for the conjuncts   *)
(* of the invariant that do not mention the choice.                        *)
LEMMA RtinputKeeps ==
  ASSUME IInv, UNCHANGED <<mm_bufs, n_mm_bufs, notes>>,
         filename' \in [Slots -> Names \cup {None}], FilesKept, FileOnce'
  PROVE  /\ OpenedOnce' /\ ArraysFill' /\ Sources' /\ ReadsWhatWasAsked'
         /\ mm_bufs' = mm_bufs
<1>1. ArraysKept
  BY DEF ArraysKept
<1>2. Sources' /\ ReadsWhatWasAsked'
  BY <1>1, NotesKeep DEF IInv
<1>3. OpenedOnce' /\ ArraysFill'
  BY DEF IInv, OpenedOnce, FileOnce, ArraysFill
<1> QED
  BY <1>2, <1>3

LEMMA AsksProperties ==
  ASSUME NEW name \in Names, NEW array \in Arrays \cup {None},
         NEW ok \in BOOLEAN, Asks(name, array, ok)
  PROVE  /\ asked' \in Wishes
         /\ asked'.name = name /\ asked'.array = array /\ asked'.ok = ok
  BY DEF Asks, Wishes

(* While entries in use keep their names and the recording goes on as far  *)
(* as it did, the notes and the choice may rely on it, unless the choice   *)
(* is the audio input anew.                                                *)
LEMMA RecordingKeeps ==
  ASSUME Recording, FilesKept, UNCHANGED notes, asked' = Live => asked = Live,
         rtrecord \/ ended => rtrecord' \/ ended'
  PROVE  Recording'
<1> SUFFICES ASSUME (Live \in {asked} \cup {wish[i] : i \in playing})'
             PROVE  (OpenAt(AUDIO) # {})' /\ (rtrecord' \/ ended')
  BY DEF Recording
<1>1. Live \in {asked} \cup {wish[i] : i \in playing}
  BY DEF notes, Live
<1>2. OpenAt(AUDIO) # {} /\ (rtrecord \/ ended)
  BY <1>1 DEF Recording
<1>3. (OpenAt(AUDIO) # {})'
  BY <1>2, NamesAssumption DEF OpenAt, FilesKept, Names
<1> QED
  BY <1>2, <1>3

(* A name that is refused, or that goes no further, changes no table.      *)
LEMMA NotEntered ==
  ASSUME IInv, UNCHANGED <<last_input_index, filename>>
  PROVE  /\ filename' \in [Slots -> Names \cup {None}]
         /\ last_input_index' \in Slots \cup {None}
         /\ FilesKept /\ FileOnce' /\ SourceStays'
  BY DEF IInv, TypeOK, FilesKept, FileOnce, OpenedOnce, SourceStays, HasSource

LEMMA AudioKeepsIInv ==
  ASSUME IInv, RtinputAudio
  PROVE  IInv'
<1>1. AUDIO \in Names /\ AUDIO \notin BufNames
  BY NamesAssumption DEF Names
<1>2. /\ mm_buf_input' = None
      /\ UNCHANGED <<mm_bufs, n_mm_bufs, options, notes>>
  BY DEF RtinputAudio, NoArray
<1>3. CASE /\ Records /\ ended' = FALSE
           /\ \E ok \in BOOLEAN : Taken(AUDIO, ok) /\ Asks(AUDIO, None, ok)
  <2> PICK ok \in BOOLEAN : Taken(AUDIO, ok) /\ Asks(AUDIO, None, ok)
    BY <1>3
  <2>1. rtrecord' = TRUE /\ ended' = FALSE
    BY <1>3 DEF Records
  <2>2. /\ filename' \in [Slots -> Names \cup {None}]
        /\ last_input_index' \in Slots \cup {None}
        /\ FilesKept /\ FileOnce' /\ SourceStays'
        /\ ok => last_input_index' # None /\ filename'[last_input_index'] = AUDIO
    BY <1>1, EnterProperties DEF IInv, OpenedOnce, FileOnce, Taken
  <2>3. asked' \in Wishes /\ asked'.name = AUDIO /\ asked'.ok = ok
    BY <1>1, AsksProperties
  <2>4. TypeOK'
    BY <1>2, <2>1, <2>2, <2>3 DEF IInv, TypeOK, notes, options
  <2>5. Choice'
    BY <1>1, <1>2, <2>2, <2>3 DEF Choice
  <2>6. Recording'
    <3> SUFFICES ASSUME (Live \in {asked} \cup {wish[i] : i \in playing})'
                 PROVE  (OpenAt(AUDIO) # {})'
      BY <2>1 DEF Recording
    <3>1. CASE ok
      BY <2>2, <3>1, NamesAssumption DEF OpenAt
    <3>2. CASE ~ok
      <4>1. asked' # Live
        BY <2>3, <3>2 DEF Live
      <4>2. Live \in {wish[i] : i \in playing}
        BY <1>2, <4>1 DEF notes, Live
      <4>3. OpenAt(AUDIO) # {}
        BY <4>2 DEF IInv, Recording
      <4> QED
        BY <2>2, <4>3, NamesAssumption DEF OpenAt, FilesKept, Names
    <3> QED
      BY <3>1, <3>2
  <2> QED
    BY <1>2, <2>2, <2>4, <2>5, <2>6, RtinputKeeps DEF IInv
<1>4. CASE Refused(AUDIO) /\ Asks(AUDIO, None, FALSE) /\ UNCHANGED ended
  <2>1. /\ rtrecord' = FALSE /\ OpenAt(AUDIO) = {}
        /\ UNCHANGED <<last_input_index, filename, ended>>
    BY <1>4 DEF Refused
  <2>2. asked' \in Wishes /\ asked'.name = AUDIO /\ asked'.ok = FALSE
    BY <1>1, <1>4, AsksProperties
  <2>3. /\ filename' \in [Slots -> Names \cup {None}]
        /\ last_input_index' \in Slots \cup {None}
        /\ FilesKept /\ FileOnce' /\ SourceStays'
    BY <2>1, NotEntered
  <2>4. TypeOK'
    BY <1>2, <2>1, <2>2, <2>3 DEF IInv, TypeOK, notes, options
  <2>5. Choice'
    BY <1>2, <2>2 DEF Choice
  <2>6. Recording'
    <3>1. Live \notin {wish[i] : i \in playing}
      BY <2>1 DEF IInv, Recording
    <3>2. asked' # Live
      BY <2>2 DEF Live
    <3> QED
      BY <1>2, <3>1, <3>2 DEF Recording, notes, Live
  <2> QED
    BY <1>2, <2>3, <2>4, <2>5, <2>6, RtinputKeeps DEF IInv
<1> QED
  BY <1>3, <1>4 DEF RtinputAudio

LEMMA ArrayKeepsIInv ==
  ASSUME IInv, NEW name \in BufNames, NEW a \in Arrays, RtinputArray(name, a)
  PROVE  IInv'
<1>1. name \in Names /\ name # AUDIO /\ a # None
  BY NamesAssumption DEF Names
<1>2. UNCHANGED <<mm_bufs, n_mm_bufs, options, notes>>
  BY DEF RtinputArray
<1>3. ASSUME FilesKept, asked'.name = name,
             UNCHANGED <<rtrecord, ended>> \/ ended' = TRUE
      PROVE  Recording'
  <2>1. rtrecord \/ ended => rtrecord' \/ ended'
    BY <1>3
  <2>2. asked' # Live
    BY <1>1, <1>3 DEF Live
  <2> QED
    BY <1>2, <1>3, <2>1, <2>2, RecordingKeeps DEF IInv
<1>4. ASSUME FindsArray(a)
      PROVE  /\ mm_buf_input' \in BufSlots /\ mm_buf_input' # None
             /\ mm_bufs[mm_buf_input'] = a
  BY <1>4, NamesAssumption DEF FindsArray, IsFirst
<1>5. CASE /\ FindsArray(a)
           /\ \E ok \in BOOLEAN : Taken(name, ok) /\ Asks(name, a, ok)
           /\ UNCHANGED <<rtrecord, ended>>
  <2> PICK ok \in BOOLEAN : Taken(name, ok) /\ Asks(name, a, ok)
    BY <1>5
  <2>1. /\ filename' \in [Slots -> Names \cup {None}]
        /\ last_input_index' \in Slots \cup {None}
        /\ FilesKept /\ FileOnce' /\ SourceStays'
        /\ ok => last_input_index' # None /\ filename'[last_input_index'] = name
    BY <1>1, EnterProperties DEF IInv, OpenedOnce, FileOnce, Taken
  <2>2. asked' \in Wishes /\ asked'.name = name /\ asked'.array = a /\ asked'.ok = ok
    BY <1>1, AsksProperties
  <2>3. TypeOK'
    BY <1>2, <1>4, <1>5, <2>1, <2>2 DEF IInv, TypeOK, notes, options
  <2>4. Choice'
    BY <1>1, <1>2, <1>4, <1>5, <2>1, <2>2 DEF Choice
  <2> QED
    BY <1>2, <1>3, <1>5, <2>1, <2>2, <2>3, <2>4, RtinputKeeps DEF IInv
<1>6. CASE /\ FindsArray(a)
           /\ Refused(name) /\ Asks(name, a, FALSE) /\ ended' = TRUE
  <2>1. asked' \in Wishes /\ asked'.name = name /\ asked'.ok = FALSE
    BY <1>1, <1>6, AsksProperties
  <2>2. /\ filename' \in [Slots -> Names \cup {None}]
        /\ last_input_index' \in Slots \cup {None}
        /\ FilesKept /\ FileOnce' /\ SourceStays'
    BY <1>6, NotEntered DEF Refused
  <2>3. TypeOK'
    BY <1>2, <1>4, <1>6, <2>1, <2>2 DEF IInv, TypeOK, notes, options, Refused
  <2>4. Choice'
    BY <1>1, <1>2, <1>4, <1>6, <2>1 DEF Choice
  <2> QED
    BY <1>2, <1>3, <1>6, <2>1, <2>2, <2>3, <2>4, RtinputKeeps DEF IInv
<1>7. CASE /\ ~Known(a) /\ NoArray /\ Asks(name, a, FALSE)
           /\ UNCHANGED <<last_input_index, filename, rtrecord, ended>>
  <2>1. asked' \in Wishes /\ asked'.name = name /\ asked'.ok = FALSE
    BY <1>1, <1>7, AsksProperties
  <2>2. /\ filename' \in [Slots -> Names \cup {None}]
        /\ last_input_index' \in Slots \cup {None}
        /\ FilesKept /\ FileOnce' /\ SourceStays'
    BY <1>7, NotEntered
  <2>3. TypeOK'
    BY <1>2, <1>7, <2>1, <2>2 DEF IInv, TypeOK, notes, options, NoArray
  <2>4. Choice'
    BY <1>7, <2>1 DEF Choice, NoArray
  <2> QED
    BY <1>2, <1>3, <1>7, <2>1, <2>2, <2>3, <2>4, RtinputKeeps DEF IInv
<1> QED
  BY <1>5, <1>6, <1>7 DEF RtinputArray

LEMMA FileKeepsIInv ==
  ASSUME IInv, NEW f \in Files, RtinputFile(f)
  PROVE  IInv'
<1>1. f \in Names /\ f # AUDIO /\ f \notin BufNames
  BY NamesAssumption DEF Names
<1>2. /\ mm_buf_input' = None
      /\ UNCHANGED <<mm_bufs, n_mm_bufs, options, notes>>
  BY DEF RtinputFile, NoArray
<1>3. /\ rtrecord' \in BOOLEAN /\ ended' \in BOOLEAN
      /\ rtrecord \/ ended => rtrecord' \/ ended'
  <2>1. rtrecord \in BOOLEAN /\ ended \in BOOLEAN
    BY DEF IInv, TypeOK
  <2>2. UNCHANGED <<rtrecord, ended>> \/ (rtrecord' = FALSE /\ ended' = TRUE)
    BY DEF RtinputFile
  <2> QED
    BY <2>1, <2>2, Zenon
<1>4. ASSUME FilesKept, asked'.name = f
      PROVE  Recording'
  <2>1. asked' # Live
    BY <1>1, <1>4 DEF Live
  <2> QED
    BY <1>2, <1>3, <1>4, <2>1, RecordingKeeps DEF IInv
<1>5. ASSUME NEW ok \in BOOLEAN, Enter(f, ok), Asks(f, None, ok)
      PROVE  IInv'
  <2>1. /\ filename' \in [Slots -> Names \cup {None}]
        /\ last_input_index' \in Slots \cup {None}
        /\ FilesKept /\ FileOnce' /\ SourceStays'
        /\ ok => last_input_index' # None /\ filename'[last_input_index'] = f
    BY <1>1, <1>5, EnterProperties DEF IInv, OpenedOnce, FileOnce
  <2>2. asked' \in Wishes /\ asked'.name = f /\ asked'.ok = ok
    BY <1>1, <1>5, AsksProperties
  <2>3. TypeOK'
    BY <1>2, <1>3, <2>1, <2>2 DEF IInv, TypeOK, notes, options
  <2>4. Choice'
    BY <1>1, <1>2, <2>1, <2>2 DEF Choice
  <2> QED
    BY <1>2, <1>4, <2>1, <2>2, <2>3, <2>4, RtinputKeeps DEF IInv
<1>6. ASSUME Asks(f, None, FALSE), UNCHANGED <<last_input_index, filename>>
      PROVE  IInv'
  <2>1. asked' \in Wishes /\ asked'.name = f /\ asked'.ok = FALSE
    BY <1>1, <1>6, AsksProperties
  <2>2. /\ filename' \in [Slots -> Names \cup {None}]
        /\ last_input_index' \in Slots \cup {None}
        /\ FilesKept /\ FileOnce' /\ SourceStays'
    BY <1>6, NotEntered
  <2>3. TypeOK'
    BY <1>2, <1>3, <2>1, <2>2 DEF IInv, TypeOK, notes, options
  <2>4. Choice'
    BY <1>2, <2>1 DEF Choice
  <2> QED
    BY <1>2, <1>4, <2>1, <2>2, <2>3, <2>4, RtinputKeeps DEF IInv
<1> QED
  BY <1>5, <1>6 DEF RtinputFile

LEMMA AttachKeepsIInv ==
  ASSUME IInv, NEW i \in Insts, NEW beyond \in BOOLEAN, AttachInput(i, beyond)
  PROVE  IInv'
<1> USE DEF IInv
<1> PICK index \in Slots \cup {USE_MM_BUF}, buf \in BufSlots \cup {None} :
      /\ Attached(i, index, buf, beyond)
      /\ \/ /\ mm_buf_input # None /\ ~beyond
            /\ index = USE_MM_BUF /\ buf = mm_buf_input
         \/ /\ mm_buf_input # None /\ beyond /\ index = last_input_index
         \/ /\ mm_buf_input = None /\ ~IsAudioDev(last_input_index)
            /\ index = last_input_index
         \/ /\ mm_buf_input = None /\ IsAudioDev(last_input_index) /\ ~beyond
            /\ index = last_input_index
  BY DEF AttachInput, TypeOK, HasSource
<1>1. /\ i \notin playing
      /\ last_input_index \in Slots /\ filename[last_input_index] # None
      /\ UNCHANGED <<tables, last_input_index, mm_buf_input, rtrecord, options,
                     asked, ended>>
  BY DEF AttachInput, HasSource, TypeOK
<1>2. /\ playing' = playing \cup {i}
      /\ fdIndex' = [fdIndex EXCEPT ![i] = index]
      /\ my_mm_buf' = [my_mm_buf EXCEPT ![i] = buf]
      /\ wish' = [wish EXCEPT ![i] = asked]
      /\ past' = IF beyond THEN past \cup {i} ELSE past \ {i}
  BY DEF Attached
<1>3. TypeOK'
  BY <1>1, <1>2 DEF TypeOK, tables, options
<1>4. /\ OpenedOnce' /\ SourceStays' /\ ArraysFill' /\ Choice'
  BY <1>1 DEF tables, OpenedOnce, SourceStays, HasSource, ArraysFill, Choice
<1>5. \A j \in playing : j # i /\ fdIndex'[j] = fdIndex[j]
                         /\ my_mm_buf'[j] = my_mm_buf[j] /\ wish'[j] = wish[j]
  BY <1>1, <1>2 DEF TypeOK
<1>6. fdIndex'[i] = index /\ my_mm_buf'[i] = buf /\ wish'[i] = asked
  BY <1>2 DEF TypeOK
<1>7. Recording'
  <2>1. (Live \in {asked} \cup {wish[j] : j \in playing})'
        => Live \in {asked} \cup {wish[j] : j \in playing}
    <3>1. \A j \in playing' : wish'[j] = asked \/ (j \in playing /\ wish'[j] = wish[j])
      BY <1>2, <1>5, <1>6
    <3>2. asked' = asked /\ Live' = Live
      BY <1>1 DEF Live
    <3> QED
      BY <3>1, <3>2
  <2> QED
    BY <1>1, <2>1 DEF Recording, OpenAt, tables
<1>8. USE_MM_BUF \notin Slots /\ None \notin Slots
  BY NamesAssumption
<1>9. Sources'
  <2>1. ASSUME NEW j \in playing'
        PROVE  IF fdIndex'[j] = USE_MM_BUF
               THEN my_mm_buf'[j] # None /\ mm_bufs'[my_mm_buf'[j]] # None
               ELSE fdIndex'[j] # None /\ filename'[fdIndex'[j]] # None
    <3>1. CASE j = i
      BY <1>1, <1>6, <1>8, <3>1 DEF Choice, tables
    <3>2. CASE j # i
      BY <1>1, <1>2, <1>5, <2>1, <3>2 DEF Sources, tables
    <3> QED
      BY <3>1, <3>2
  <2> QED
    BY <2>1 DEF Sources
<1>10. ReadsWhatWasAsked'
  <2>1. ASSUME NEW j \in playing', wish'[j].ok, j \notin past'
        PROVE  Reads(j)' = Named(wish'[j])
    <3>1. CASE j # i
      <4>1. j \in playing /\ j \notin past /\ wish[j].ok
        BY <1>2, <1>5, <2>1, <3>1
      <4> QED
        BY <1>1, <1>5, <4>1 DEF ReadsWhatWasAsked, Reads, IsAudioDev, tables
    <3>2. CASE j = i
      <4>1. asked.ok /\ ~beyond
        BY <1>2, <1>6, <2>1, <3>2
      <4>2. CASE mm_buf_input # None
        BY <1>1, <1>6, <3>2, <4>1, <4>2 DEF Choice, Reads, Named, tables
      <4>3. CASE mm_buf_input = None
        <5>1. asked.name \notin BufNames /\ filename[last_input_index] = asked.name
          BY <4>1, <4>3 DEF Choice
        <5> QED
          BY <1>1, <1>6, <1>8, <3>2, <4>1, <4>3, <5>1
          DEF Reads, Named, IsAudioDev, tables
      <4> QED
        BY <4>2, <4>3
    <3> QED
      BY <3>1, <3>2
  <2> QED
    BY <2>1 DEF ReadsWhatWasAsked
<1> QED
  BY <1>3, <1>4, <1>7, <1>9, <1>10

LEMMA GoneKeepsIInv ==
  ASSUME IInv, NEW i \in Insts, Gone(i)
  PROVE  IInv'
<1> USE DEF IInv
<1>1. /\ playing' = playing \ {i}
      /\ UNCHANGED <<filename, mm_bufs, n_mm_bufs, last_input_index,
                     mm_buf_input, rtrecord, options, asked, ended>>
  BY DEF Gone, Kept
<1>2. TypeOK'
  BY <1>1 DEF Gone, TypeOK, options
<1>3. \A j \in playing' : /\ j \in playing
                          /\ fdIndex'[j] = fdIndex[j] /\ wish'[j] = wish[j]
                          /\ my_mm_buf'[j] = my_mm_buf[j]
                          /\ j \in past' <=> j \in past
  BY DEF Gone, TypeOK
<1>4. /\ OpenedOnce' /\ SourceStays' /\ ArraysFill' /\ Choice'
  BY <1>1 DEF OpenedOnce, SourceStays, HasSource, ArraysFill, Choice
<1>5. Sources' /\ Recording'
  <2>1. Sources'
    BY <1>1, <1>3 DEF Sources
  <2>2. Live \in {wish'[j] : j \in playing'}
          => Live \in {wish[j] : j \in playing}
    BY <1>3
  <2>3. Live' = Live /\ OpenAt(AUDIO)' = OpenAt(AUDIO)
    BY <1>1 DEF Live, OpenAt
  <2>4. Recording'
    BY <1>1, <2>2, <2>3 DEF Recording
  <2> QED
    BY <2>1, <2>4
<1>6. ReadsWhatWasAsked'
  BY <1>1, <1>3 DEF ReadsWhatWasAsked, Reads, Named, IsAudioDev
<1> QED
  BY <1>2, <1>4, <1>5, <1>6

LEMMA InitIInv == Init => IInv
<1> SUFFICES ASSUME Init PROVE IInv
  OBVIOUS
<1>1. TypeOK
  <2>1. n_mm_bufs \in 0 .. MAX_MM_BUFS
    BY SizesAssumption DEF Init
  <2>2. asked \in {Nothing} /\ wish \in [Insts -> {Nothing}]
    BY DEF Init
  <2> QED
    BY <2>1, <2>2 DEF Init, TypeOK
<1>2. ArraysFill
  BY SizesAssumption DEF Init, ArraysFill, BufSlots
<1>3. asked.ok = FALSE /\ asked.name = None
  BY DEF Init, Nothing
<1>4. Choice
  BY <1>3 DEF Init, Choice
<1>5. Recording
  BY <1>3, NamesAssumption DEF Init, Recording, Live, Names
<1> QED
  BY <1>1, <1>2, <1>4, <1>5
  DEF Init, IInv, OpenedOnce, SourceStays, ReadsWhatWasAsked, Sources

LEMMA NextIInv == IInv /\ [Next]_vars => IInv'
<1> SUFFICES ASSUME IInv, [Next]_vars PROVE IInv'
  OBVIOUS
<1>1. CASE Rtinput
  BY <1>1, AudioKeepsIInv, ArrayKeepsIInv, FileKeepsIInv DEF Rtinput
<1>5. CASE SetOption
  BY <1>5, SetOptionKeepsIInv
<1>2. CASE \E a \in Arrays : Bufset(a)
  BY <1>2, BufsetKeepsIInv
<1>3. CASE \E i \in Insts : Gone(i) \/ \E beyond \in BOOLEAN : AttachInput(i, beyond)
  BY <1>3, AttachKeepsIInv, GoneKeepsIInv
<1>4. CASE UNCHANGED vars
  BY <1>4, StutterKeepsIInv
<1> QED
  BY <1>1, <1>2, <1>3, <1>4, <1>5 DEF Next

LEMMA Inductive == Spec => []IInv
  BY InitIInv, NextIInv, PTL DEF Spec

(* For any names, tables and number of notes, every variable keeps its     *)
(* type through rtinput(), bufset() and notes that come and go.            *)
THEOREM TypeCorrect == Spec => []TypeOK
<1>1. IInv => TypeOK
  BY DEF IInv
<1> QED
  BY <1>1, Inductive, PTL

(* For any names, tables and number of notes: a note reads what the last   *)
(* successful rtinput() before it named, though choices, arrays and notes  *)
(* come and go, through last_input_index, mm_buf_input and both tables.    *)
THEOREM InputAsAsked == Spec => []ReadsWhatWasAsked
<1>1. IInv => ReadsWhatWasAsked
  BY DEF IInv
<1> QED
  BY <1>1, Inductive, PTL

(* No file is opened twice, and what rtinput() has chosen stays open.      *)
THEOREM OneEntryEach == Spec => [](OpenedOnce /\ SourceStays)
<1>1. IInv => OpenedOnce /\ SourceStays
  BY DEF IInv
<1> QED
  BY <1>1, Inductive, PTL

(* Only the opening of a new file, or an array refused because playback or *)
(* recording was switched off, takes the audio input from a note; an       *)
(* rtinput("AUDIO") that is refused takes it from none.                    *)
THEOREM LiveInputKept == Spec => []LiveUntilEnded
<1>1. IInv => LiveUntilEnded
  BY DEF IInv, Recording, LiveUntilEnded
<1> QED
  BY <1>1, Inductive, PTL
=============================================================================
