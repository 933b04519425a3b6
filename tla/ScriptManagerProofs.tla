------------------------ MODULE ScriptManagerProofs ------------------------
(***************************************************************************)
(* Theorems of ScriptManager, for any number of scripts, files and scores, *)
(* and for any script numbers in messages, MAX_SCRIPTS itself included.    *)
(***************************************************************************)
EXTENDS ScriptManager, TLAPS

USE ScriptsAssumption, TextsAssumption

LEMMA Clamped ==
  ASSUME NEW n \in Int
  PROVE  Clamp(n) \in 0 .. MAX_SCRIPTS /\ ClampRead(n) \in Scripts
BY DEF Clamp, ClampRead, Scripts

IInv == TypeOK /\ RunsWhatIsSaved /\ LiveRunsLatest

LEMMA InitIInv == Init => IInv
<1> SUFFICES ASSUME Init
             PROVE  IInv
  OBVIOUS
<1>1. TypeOK
  <2>1. 0 \in 0 .. MAX_SCRIPTS
    OBVIOUS
  <2> QED
    BY <2>1 DEF Init, TypeOK, Contents
<1> QED
  BY <1>1 DEF Init, IInv, RunsWhatIsSaved, LiveRunsLatest

(* Loading contents c into a script whose temporary file then holds what   *)
(* was copied from it.                                                     *)
LEMMA LoadKeeps ==
  ASSUME IInv, NEW i \in Scripts, NEW c \in Contents, Load(i, c),
         \/ tempscript' = [tempscript EXCEPT ![i] = Copied(c, tempscript[i])]
         \/ tempscript' = tempscript /\ c = tempscript[i]
  PROVE  /\ script_flag' \in [Scripts -> BOOLEAN] /\ edited' \in [Scripts -> BOOLEAN]
         /\ rtcmix_script' \in [Scripts -> Texts \cup {None}]
         /\ script_size' \in [Scripts -> Contents]
         /\ tempscript' \in [Scripts -> Contents]
         /\ RunsWhatIsSaved'
<1>1. /\ script_flag \in [Scripts -> BOOLEAN] /\ edited \in [Scripts -> BOOLEAN]
      /\ rtcmix_script \in [Scripts -> Texts \cup {None}]
      /\ script_size \in [Scripts -> Contents] /\ tempscript \in [Scripts -> Contents]
      /\ RunsWhatIsSaved
  BY DEF IInv, TypeOK
<1>2. /\ Buffer(rtcmix_script[i], c) \in Texts \cup {None}
      /\ Copied(c, tempscript[i]) \in Contents
      /\ c \in Texts => Buffer(rtcmix_script[i], c) = c /\ Copied(c, tempscript[i]) = c
  BY <1>1 DEF Buffer, Copied
<1>3. /\ rtcmix_script' = [rtcmix_script EXCEPT ![i] = Buffer(rtcmix_script[i], c)]
      /\ script_size' = [script_size EXCEPT ![i] = Size(c)]
      /\ script_flag' = [script_flag EXCEPT ![i] = FALSE]
      /\ edited' = [edited EXCEPT ![i] = FALSE]
  BY DEF Load
<1>3a. Size(c) \in Contents /\ (Size(c) \in Texts => Size(c) = c)
  BY DEF Size, Contents
<1>4. RunsWhatIsSaved'
  <2> SUFFICES ASSUME NEW j \in Scripts, ~edited'[j], script_size'[j] \in Texts
               PROVE  rtcmix_script'[j] = tempscript'[j]
    BY DEF RunsWhatIsSaved
  <2>1. CASE j = i
    <3>1. script_size'[i] = Size(c) /\ rtcmix_script'[i] = Buffer(rtcmix_script[i], c)
      BY <1>1, <1>3
    <3>2. c \in Texts /\ rtcmix_script'[i] = c
      BY <1>2, <1>3a, <2>1, <3>1
    <3>3. tempscript'[i] = c
      BY <1>1, <1>2, <3>2
    <3> QED
      BY <2>1, <3>2, <3>3
  <2>2. CASE j # i
    <3>1. /\ edited'[j] = edited[j] /\ script_size'[j] = script_size[j]
          /\ rtcmix_script'[j] = rtcmix_script[j] /\ tempscript'[j] = tempscript[j]
      BY <1>1, <1>3, <2>2
    <3> QED
      BY <1>1, <3>1 DEF RunsWhatIsSaved
  <2> QED
    BY <2>1, <2>2
<1>5. script_flag' \in [Scripts -> BOOLEAN] /\ edited' \in [Scripts -> BOOLEAN]
  BY <1>1, <1>3
<1>6. /\ rtcmix_script' \in [Scripts -> Texts \cup {None}]
      /\ script_size' \in [Scripts -> Contents]
      /\ tempscript' \in [Scripts -> Contents]
  BY <1>1, <1>2, <1>3, <1>3a
<1> QED
  BY <1>4, <1>5, <1>6

(* A step that moves no text.                                              *)
LEMMA Unmoved ==
  ASSUME IInv, UNCHANGED <<rtcmix_script, script_size, tempscript, edited>>
  PROVE  /\ RunsWhatIsSaved' /\ edited' \in [Scripts -> BOOLEAN]
         /\ rtcmix_script' \in [Scripts -> Texts \cup {None}]
         /\ script_size' \in [Scripts -> Contents]
         /\ tempscript' \in [Scripts -> Contents]
BY DEF IInv, TypeOK, RunsWhatIsSaved

(* An editor rewrites the temporary file of script i.                      *)
LEMMA Rewritten ==
  ASSUME IInv, NEW i \in Scripts, NEW c \in Contents,
         tempscript' = [tempscript EXCEPT ![i] = c],
         edited' = [edited EXCEPT ![i] = TRUE],
         UNCHANGED <<rtcmix_script, script_size>>
  PROVE  /\ tempscript' \in [Scripts -> Contents] /\ edited' \in [Scripts -> BOOLEAN]
         /\ RunsWhatIsSaved'
BY DEF IInv, TypeOK, RunsWhatIsSaved

LEMMA GoscriptKeeps ==
  ASSUME IInv, NEW n \in Int, Goscript(n)
  PROVE  IInv'
<1> DEFINE i == Clamp(n)
<1>1. i \in 0 .. MAX_SCRIPTS
  BY Clamped
<1>2. /\ current_script' = i
      /\ UNCHANGED <<rw_flag, livecode_flag, script_name, tempscript, file, panels, editing,
                   saving>>
  BY DEF Goscript, fileVars
<1> HIDE DEF i
<1>3. CASE i \notin Scripts
  <2>1. UNCHANGED <<script_flag, rtcmix_script, script_size, edited>> /\ last' = "other"
    BY <1>3 DEF Goscript, memVars, idle, i
  <2>2. TypeOK'
    BY <1>1, <1>2, <2>1 DEF IInv, TypeOK
  <2> QED
    BY <1>2, <2>1, <2>2, Unmoved DEF IInv, LiveRunsLatest
<1>4. CASE i \in Scripts
  <2>1. IF Rereads(i) THEN Load(i, tempscript[i]) ELSE UNCHANGED <<memVars, edited>>
    BY <1>4 DEF Goscript, i
  <2>2. tempscript[i] \in Contents /\ script_flag[i] \in BOOLEAN /\ livecode_flag \in BOOLEAN
    BY <1>4 DEF IInv, TypeOK
  <2>3. /\ script_flag' \in [Scripts -> BOOLEAN] /\ edited' \in [Scripts -> BOOLEAN]
        /\ rtcmix_script' \in [Scripts -> Texts \cup {None}]
        /\ script_size' \in [Scripts -> Contents]
        /\ tempscript' \in [Scripts -> Contents]
        /\ RunsWhatIsSaved'
    <3>1. CASE Rereads(i)
      BY <1>2, <1>4, <2>1, <2>2, <3>1, LoadKeeps
    <3>2. CASE ~Rereads(i)
      BY <1>2, <2>1, <3>2, Unmoved DEF memVars, IInv, TypeOK
    <3> QED
      BY <3>1, <3>2
  <2>4. TypeOK'
    BY <1>1, <1>2, <2>3 DEF IInv, TypeOK
  <2>5. LiveRunsLatest'
    <3> SUFFICES ASSUME livecode_flag
                 PROVE  last' \notin {"ran_older", "missed"}
      BY <1>2 DEF LiveRunsLatest
    <3> DEFINE now == tempscript[i]
    <3>1. Rereads(i)
      BY DEF Rereads
    <3>2. now \in Texts => Buffer(rtcmix_script[i], now) = now /\ Size(now) # None
      BY DEF Buffer, Size
    <3>3. last' = Told(Size(now), Buffer(rtcmix_script[i], now), now)
      BY <1>4, <3>1 DEF Goscript, i
    <3> HIDE DEF now
    <3> QED
      BY <3>2, <3>3 DEF Told
  <2> QED
    BY <2>3, <2>4, <2>5 DEF IInv
<1> QED
  BY <1>3, <1>4

LEMMA CallbackKeeps ==
  ASSUME IInv, NEW i \in Scripts, NEW f \in Files, NEW asked \in {"read", "write"},
         Callback(asked, i, f)
  PROVE  /\ script_flag' \in [Scripts -> BOOLEAN] /\ edited' \in [Scripts -> BOOLEAN]
         /\ rtcmix_script' \in [Scripts -> Texts \cup {None}]
         /\ script_size' \in [Scripts -> Contents]
         /\ tempscript' \in [Scripts -> Contents]
         /\ RunsWhatIsSaved'
         /\ script_name' \in [Scripts -> Files \cup {None}]
         /\ file' \in [Files -> Contents]
         /\ UNCHANGED <<livecode_flag, editing, saving>>
         /\ last' \notin {"ran_older", "missed"}
<1>1. /\ tempscript \in [Scripts -> Contents] /\ file \in [Files -> Contents]
      /\ script_name \in [Scripts -> Files \cup {None}]
      /\ script_flag \in [Scripts -> BOOLEAN]
      /\ file[f] \in Contents /\ tempscript[i] \in Contents
  BY DEF IInv, TypeOK
<1>2. /\ script_name' = [script_name EXCEPT ![i] = f]
      /\ last' \notin {"ran_older", "missed"}
      /\ UNCHANGED <<livecode_flag, editing, saving>>
  BY DEF Callback
<1>3. script_name' \in [Scripts -> Files \cup {None}]
  BY <1>1, <1>2
<1>4. CASE rw_flag = "write"
  <2>1. /\ file' = [file EXCEPT ![f] = Copied(tempscript[i], file[f])]
        /\ UNCHANGED <<script_flag, rtcmix_script, script_size, tempscript, edited>>
    BY <1>4 DEF Callback, memVars
  <2>2. file' \in [Files -> Contents]
    BY <1>1, <2>1 DEF Copied
  <2> QED
    BY <1>1, <1>2, <1>3, <2>1, <2>2, Unmoved
<1>5. CASE rw_flag # "write"
  <2>1. /\ tempscript' = [tempscript EXCEPT ![i] = Copied(file[f], tempscript[i])]
        /\ Load(i, file[f]) /\ file' = file
    BY <1>5 DEF Callback, TempAfterRead
  <2> QED
    BY <1>1, <1>2, <1>3, <2>1, LoadKeeps
<1> QED
  BY <1>4, <1>5

LEMMA NextIInv == IInv /\ [Next]_vars => IInv'
<1> SUFFICES ASSUME IInv, [Next]_vars
             PROVE  IInv'
  OBVIOUS
<1> USE DEF memVars, fileVars
<1>1. ASSUME NEW n \in Numbers, Goscript(n)
      PROVE  IInv'
  BY <1>1, GoscriptKeeps
<1>2. CASE Bang
  <2>1. current_script \in Int
    BY DEF IInv, TypeOK
  <2> QED
    BY <1>2, <2>1, GoscriptKeeps DEF Bang
<1>3. ASSUME NEW n \in Numbers, Setscript(n)
      PROVE  IInv'
  <2>1. current_script' \in 0 .. MAX_SCRIPTS
    BY <1>3, Clamped DEF Setscript
  <2>2. TypeOK'
    BY <1>3, <2>1 DEF Setscript, IInv, TypeOK
  <2> QED
    BY <1>3, <2>2, Unmoved DEF Setscript, idle, IInv, LiveRunsLatest
<1>4. ASSUME NEW n \in Numbers, ReadPanel(n)
      PROVE  IInv'
  <2>1. current_script' \in 0 .. MAX_SCRIPTS
    BY <1>4, Clamped DEF ReadPanel, Scripts
  <2>2. TypeOK'
    BY <1>4, <2>1 DEF ReadPanel, IInv, TypeOK
  <2> QED
    BY <1>4, <2>2, Unmoved DEF ReadPanel, idle, IInv, LiveRunsLatest
<1>5. ASSUME NEW n \in Numbers, NEW f \in Files, ReadFile(n, f)
      PROVE  IInv'
  <2>1. /\ ClampRead(n) \in Scripts /\ Callback("read", ClampRead(n), f)
        /\ current_script' \in 0 .. MAX_SCRIPTS
    BY <1>5, Clamped DEF ReadFile, Scripts
  <2>2. /\ script_flag' \in [Scripts -> BOOLEAN] /\ edited' \in [Scripts -> BOOLEAN]
        /\ rtcmix_script' \in [Scripts -> Texts \cup {None}]
        /\ script_size' \in [Scripts -> Contents]
        /\ tempscript' \in [Scripts -> Contents]
        /\ RunsWhatIsSaved'
        /\ script_name' \in [Scripts -> Files \cup {None}]
        /\ file' \in [Files -> Contents]
        /\ UNCHANGED <<livecode_flag, editing, saving>>
        /\ last' \notin {"ran_older", "missed"}
    BY <2>1, CallbackKeeps
  <2>3. TypeOK'
    BY <1>5, <2>1, <2>2 DEF ReadFile, IInv, TypeOK
  <2> QED
    BY <2>2, <2>3 DEF IInv, LiveRunsLatest
<1>6. CASE Openeditor
  <2>1. TypeOK'
    BY <1>6 DEF Openeditor, Sound, IInv, TypeOK
  <2> QED
    BY <1>6, <2>1, Unmoved DEF Openeditor, idle, IInv, LiveRunsLatest
<1>7. CASE Saveas
  <2>1. TypeOK'
    BY <1>7 DEF Saveas, IInv, TypeOK
  <2> QED
    BY <1>7, <2>1, Unmoved DEF Saveas, idle, IInv, LiveRunsLatest
<1>8. CASE Save
  <2>1. file' \in [Files -> Contents]
    <3>1. /\ current_script \in Scripts /\ file \in [Files -> Contents]
          /\ tempscript[current_script] \in Contents
      BY <1>8 DEF Save, Sound, IInv, TypeOK
    <3>2. \A f \in Files : Copied(tempscript[current_script], file[f]) \in Contents
      BY <3>1 DEF Copied
    <3> QED
      BY <1>8, <3>1, <3>2 DEF Save, IInv, TypeOK
  <2>2. TypeOK'
    BY <1>8, <2>1 DEF Save, IInv, TypeOK
  <2> QED
    BY <1>8, <2>2, Unmoved DEF Save, idle, IInv, LiveRunsLatest
<1>9. ASSUME NEW p \in panels, PanelCancel(p)
      PROVE  IInv'
  <2>1. TypeOK'
    BY <1>9 DEF PanelCancel, IInv, TypeOK
  <2> QED
    BY <1>9, <2>1, Unmoved DEF PanelCancel, idle, IInv, LiveRunsLatest
<1>10. ASSUME NEW p \in panels, NEW f \in Files, PanelAnswer(p, f)
       PROVE  IInv'
  <2>1. /\ current_script \in Scripts /\ p \in {"read", "write"}
        /\ Callback(p, current_script, f)
    BY <1>10 DEF PanelAnswer, Sound, IInv, TypeOK
  <2>2. /\ script_flag' \in [Scripts -> BOOLEAN] /\ edited' \in [Scripts -> BOOLEAN]
        /\ rtcmix_script' \in [Scripts -> Texts \cup {None}]
        /\ script_size' \in [Scripts -> Contents]
        /\ tempscript' \in [Scripts -> Contents]
        /\ RunsWhatIsSaved'
        /\ script_name' \in [Scripts -> Files \cup {None}]
        /\ file' \in [Files -> Contents]
        /\ UNCHANGED <<livecode_flag, editing, saving>>
        /\ last' \notin {"ran_older", "missed"}
    BY <2>1, CallbackKeeps
  <2>3. TypeOK'
    BY <1>10, <2>2 DEF PanelAnswer, IInv, TypeOK
  <2> QED
    BY <2>2, <2>3 DEF IInv, LiveRunsLatest
<1>11. ASSUME NEW on \in BOOLEAN, Livecode(on)
       PROVE  IInv'
  <2>1. TypeOK'
    BY <1>11 DEF Livecode, IInv, TypeOK
  <2> QED
    BY <1>11, <2>1, Unmoved DEF Livecode, idle, IInv, LiveRunsLatest
<1>12. ASSUME NEW i \in Scripts, BeginSave(i)
       PROVE  IInv'
  <2>1. /\ tempscript' = [tempscript EXCEPT ![i] = Empty]
        /\ edited' = [edited EXCEPT ![i] = TRUE]
    BY <1>12 DEF BeginSave
  <2>2. TypeOK' /\ RunsWhatIsSaved'
    <3>1. saving' \subseteq Scripts /\ Empty \in Contents
      BY <1>12 DEF BeginSave, IInv, TypeOK, Contents
    <3>2. UNCHANGED <<rtcmix_script, script_size>>
      BY <1>12 DEF BeginSave
    <3>3. /\ tempscript' \in [Scripts -> Contents] /\ edited' \in [Scripts -> BOOLEAN]
          /\ RunsWhatIsSaved'
      BY <2>1, <3>1, <3>2, Rewritten
    <3> QED
      BY <1>12, <3>1, <3>3 DEF BeginSave, IInv, TypeOK
  <2> QED
    BY <1>12, <2>2 DEF BeginSave, idle, IInv, LiveRunsLatest
<1>13. ASSUME NEW i \in Scripts, NEW t \in Texts, EndSave(i, t)
       PROVE  IInv'
  <2>1. /\ tempscript' = [tempscript EXCEPT ![i] = t]
        /\ edited' = [edited EXCEPT ![i] = TRUE]
    BY <1>13 DEF EndSave
  <2>2. TypeOK' /\ RunsWhatIsSaved'
    <3>1. saving' \subseteq Scripts /\ editing' \subseteq Scripts /\ t \in Contents
      BY <1>13 DEF EndSave, IInv, TypeOK, Contents
    <3>2. UNCHANGED <<rtcmix_script, script_size>>
      BY <1>13 DEF EndSave
    <3>3. /\ tempscript' \in [Scripts -> Contents] /\ edited' \in [Scripts -> BOOLEAN]
          /\ RunsWhatIsSaved'
      BY <2>1, <3>1, <3>2, Rewritten
    <3> QED
      BY <1>13, <3>1, <3>3 DEF EndSave, IInv, TypeOK
  <2> QED
    BY <1>13, <2>2 DEF EndSave, idle, IInv, LiveRunsLatest
<1>14. ASSUME NEW i \in Scripts, FailSave(i)
       PROVE  IInv'
  <2>1. TypeOK'
    BY <1>14 DEF FailSave, IInv, TypeOK
  <2> QED
    BY <1>14, <2>1, Unmoved DEF FailSave, idle, IInv, LiveRunsLatest
<1>15. CASE UNCHANGED vars
  BY <1>15 DEF vars, IInv, TypeOK, RunsWhatIsSaved, LiveRunsLatest
<1> QED
  BY <1>1, <1>2, <1>3, <1>4, <1>5, <1>6, <1>7, <1>8, <1>9, <1>10, <1>11, <1>12, <1>13,
     <1>14, <1>15 DEF Next

LEMMA Invariance == Spec => []IInv
<1>1. Init => IInv
  BY InitIInv
<1>2. IInv /\ [Next]_vars => IInv'
  BY NextIInv
<1> QED
  BY <1>1, <1>2, PTL DEF Spec

(* Every variable has its type.  current_script can be MAX_SCRIPTS, one    *)
(* beyond the arrays of rtcmix~.c.                                         *)
THEOREM TypeCorrect == Spec => []TypeOK
<1>1. IInv => TypeOK
  BY DEF IInv
<1> QED
  BY <1>1, Invariance, PTL

(* What a script runs and what saving it writes are the same until an      *)
(* editor changes the temporary file, whatever is read, saved or refused.  *)
THEOREM RunsTheTempFile == Spec => []RunsWhatIsSaved
<1>1. IInv => RunsWhatIsSaved
  BY DEF IInv
<1> QED
  BY <1>1, Invariance, PTL

(* While livecode_flag is set, goscript and bang run the temporary file as *)
(* it is now.                                                              *)
THEOREM LivecodingIsLive == Spec => []LiveRunsLatest
<1>1. IInv => LiveRunsLatest
  BY DEF IInv
<1> QED
  BY <1>1, Invariance, PTL

(* A user's file changes only to the contents of the current script's      *)
(* temporary file, and is never removed.                                   *)
THEOREM FilesChangeBySaving == Spec => FilesSaved
<1> DEFINE Changed ==
      \A f \in Files : file'[f] # file[f] =>
        file'[f] # None /\ file'[f] = tempscript[current_script']
<1>1. ASSUME IInv, NEW i \in Scripts, NEW g \in Files, NEW asked,
             Callback(asked, i, g), current_script' = i
      PROVE  Changed
  <2>1. CASE rw_flag = "write"
    BY <1>1, <2>1 DEF Callback, Copied, IInv, TypeOK
  <2>2. CASE rw_flag # "write"
    BY <1>1, <2>2 DEF Callback
  <2> QED
    BY <2>1, <2>2
<1>2. IInv /\ [Next]_vars => [Changed]_vars
  <2> SUFFICES ASSUME IInv, Next
               PROVE  Changed
    OBVIOUS
  <2>1. ASSUME NEW n \in Numbers, NEW f \in Files, ReadFile(n, f)
        PROVE  Changed
    BY <1>1, <2>1, Clamped DEF ReadFile
  <2>2. ASSUME NEW p \in panels, NEW f \in Files, PanelAnswer(p, f)
        PROVE  Changed
    BY <1>1, <2>2 DEF PanelAnswer, Sound
  <2>3. CASE Save
    <3>1. /\ file \in [Files -> Contents] /\ current_script' = current_script
          /\ \/ file' = file
             \/ \E f \in Files :
                  file' = [file EXCEPT ![f] = Copied(tempscript[current_script], file[f])]
      BY <2>3 DEF Save, Sound, IInv, TypeOK
    <3> QED
      BY <3>1 DEF Copied
  <2>4. CASE file' = file
    BY <2>4
  <2>5. \/ file' = file \/ Save
        \/ \E n \in Numbers, f \in Files : ReadFile(n, f)
        \/ \E p \in panels, f \in Files : PanelAnswer(p, f)
    BY DEF Next, Goscript, Bang, Setscript, ReadPanel, Openeditor, Saveas, PanelCancel,
           Livecode, BeginSave, EndSave, FailSave, fileVars
  <2> QED
    BY <2>1, <2>2, <2>3, <2>4, <2>5
<1> QED
  BY <1>2, Invariance, PTL DEF Spec, FilesSaved
=============================================================================
