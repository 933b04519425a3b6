--------------------------- MODULE ScriptManager ---------------------------
(***************************************************************************)
(* The scripts of an rtcmix~ object (rtcmix~.c): the copy of each script   *)
(* in memory, its temporary file, the external editor that rewrites this   *)
(* file, the user's files, and the panels of Tk that answer through        *)
(* rtcmix_callback().  Messages and callbacks run one at a time; editors   *)
(* are processes of their own.                                             *)
(***************************************************************************)
EXTENDS Integers

CONSTANTS
  MAX_SCRIPTS,      \* scripts an object holds
  Numbers,          \* script numbers messages carry
  Edited,           \* bound: the scripts that are edited
  Files,            \* the user's score files
  Texts,            \* scores of legal size
  Long,             \* a file longer than MAXSCRIPTSIZE
  Empty,            \* a file of length 0
  None              \* no file; a script of length 0; nothing

ASSUME ScriptsAssumption == MAX_SCRIPTS \in Nat \ {0} /\ Numbers \subseteq Int
ASSUME TextsAssumption ==
  Texts # {} /\ {Long, Empty, None} \cap Texts = {} /\ None \notin {Long, Empty}

Scripts == 0 .. MAX_SCRIPTS - 1
Contents == Texts \cup {Long, Empty, None}

VARIABLES
  current_script,
  rw_flag,          \* what rtcmix_callback() is to do: "read" or "write"
  script_flag,      \* CHANGED, as TRUE
  livecode_flag,
  rtcmix_script,    \* the buffer in memory
  script_size,      \* the contents whose length it is
  script_name,      \* the file a script was read from or saved to
  tempscript,       \* contents of the temporary files
  file,             \* contents of the user's files
  panels,           \* open panels: "read", "write"
  editing,          \* scripts with an editor open
  saving,           \* scripts an editor has truncated and not yet written
  edited,           \* history: temporary file rewritten since it was loaded
  last              \* history: what the last step was, if it is told below

fileVars == <<tempscript, file, panels, editing, saving>>
memVars == <<script_flag, rtcmix_script, script_size>>
vars == <<current_script, rw_flag, livecode_flag, script_name,
          memVars, fileVars, edited, last>>

(* A step the history says nothing of. *)
idle == last' = "other"

Init ==
  /\ current_script = 0 /\ rw_flag = "read"
  /\ livecode_flag = FALSE
  /\ script_flag = [i \in Scripts |-> FALSE]
  /\ rtcmix_script = [i \in Scripts |-> None]
  /\ script_size = [i \in Scripts |-> None]
  /\ script_name = [i \in Scripts |-> None]
  /\ tempscript = [i \in Scripts |-> None]
  /\ file \in [Files -> Contents]
  /\ panels = {} /\ editing = {} /\ saving = {}
  /\ edited = [i \in Scripts |-> FALSE]
  /\ last = "other"

(* The number goscript and setscript go on with. *)
Clamp(n) == IF n > MAX_SCRIPTS THEN MAX_SCRIPTS - 1 ELSE IF n < 0 THEN 0 ELSE n
(* The number read goes on with. *)
ClampRead(n) ==
  IF n > MAX_SCRIPTS - 1 THEN MAX_SCRIPTS - 1 ELSE IF n < 0 THEN 0 ELSE n

(* rtcmix_doread() of a file with contents c: what is then in the buffer,  *)
(* and in script_size.                                                     *)
Buffer(old, c) == IF c \in Texts THEN c ELSE old
Size(c) == IF c = Empty THEN None ELSE c

Load(i, c) ==
  /\ rtcmix_script' = [rtcmix_script EXCEPT ![i] = Buffer(@, c)]
  /\ script_size' = [script_size EXCEPT ![i] = Size(c)]
  /\ script_flag' = [script_flag EXCEPT ![i] = FALSE]
  /\ edited' = [edited EXCEPT ![i] = FALSE]

(***************************************************************************)
(* Messages.  Beyond the last script the handlers work outside of their    *)
(* arrays, and nothing is said of what follows.                            *)
(***************************************************************************)
Sound == current_script \in Scripts

(* Mutant: livecoding does not reread. *)
RereadsOnFlag(i) == script_flag[i]
Rereads(i) == script_flag[i] \/ livecode_flag

(* What a run of text, from a buffer of the given size, is to someone who  *)
(* has the temporary file before him.                                      *)
Told(size, text, now) ==
  CASE now \in Texts /\ size = None -> "missed"
    [] now \in Texts /\ size # None /\ text # now -> "ran_older"
    [] OTHER -> "other"

(* goscript N, or a float: select the script, reread its temporary file if *)
(* need be, and run it unless it has no text.                              *)
Goscript(n) ==
  /\ Sound
  /\ current_script' = Clamp(n)
  /\ IF Clamp(n) \notin Scripts THEN idle /\ UNCHANGED <<memVars, edited>>
     ELSE LET i == Clamp(n)
              reread == Rereads(i)
              text == IF reread THEN Buffer(rtcmix_script[i], tempscript[i])
                                ELSE rtcmix_script[i]
              size == IF reread THEN Size(tempscript[i]) ELSE script_size[i]
          IN  /\ IF reread THEN Load(i, tempscript[i])
                           ELSE UNCHANGED <<memVars, edited>>
              /\ last' = Told(size, text, tempscript[i])
  /\ UNCHANGED <<rw_flag, livecode_flag, script_name, fileVars>>

(* bang runs the current script, or nothing while a flush is due. *)
Bang == Goscript(current_script)

Setscript(n) ==
  /\ Sound
  /\ current_script' = Clamp(n)
  /\ UNCHANGED <<rw_flag, livecode_flag, script_name, memVars,
                 fileVars, edited>>
  /\ idle

Openeditor ==
  /\ Sound /\ current_script \in Edited
  /\ script_flag' = [script_flag EXCEPT ![current_script] = TRUE]
  /\ editing' = editing \cup {current_script}
  /\ UNCHANGED <<current_script, rw_flag, livecode_flag, script_name,
                 rtcmix_script, script_size, tempscript, file, panels, saving,
                 edited>>
  /\ idle

(* Mutant: the target is lost if there is no source.                       *)
CopiedBlindly(source, target) == source
(* cp, which leaves the target alone if there is no source. *)
Copied(source, target) == IF source = None THEN target ELSE source

(* Mutant: the temporary file is not written. *)
TempKept(i, f) == tempscript[i]
TempAfterRead(i, f) == Copied(file[f], tempscript[i])

(* rtcmix_callback(), for script i, with the name of a file: asked is what *)
(* the sender of the callback is after.                                    *)
Callback(asked, i, f) ==
  /\ script_name' = [script_name EXCEPT ![i] = f]
  /\ last' = IF asked = rw_flag THEN "other" ELSE "did_otherwise"
  /\ IF rw_flag = "write"
     THEN /\ file' = [file EXCEPT ![f] = Copied(tempscript[i], @)]
          /\ UNCHANGED <<memVars, tempscript, edited>>
     ELSE /\ tempscript' = [tempscript EXCEPT ![i] = TempAfterRead(i, f)]
          /\ Load(i, file[f])
          /\ UNCHANGED file
  /\ UNCHANGED <<livecode_flag, editing, saving>>

(* read N, read FILE N *)
ReadPanel(n) ==
  /\ Sound
  /\ current_script' = ClampRead(n)
  /\ rw_flag' = "read"
  /\ panels' = panels \cup {"read"}
  /\ UNCHANGED <<livecode_flag, script_name, memVars, tempscript,
                 file, editing, saving, edited>>
  /\ idle

ReadFile(n, f) ==
  /\ Sound
  /\ current_script' = ClampRead(n)
  /\ Callback("read", ClampRead(n), f)
  /\ UNCHANGED <<rw_flag, panels>>

Saveas ==
  /\ Sound
  /\ rw_flag' = "write"
  /\ panels' = panels \cup {"write"}
  /\ UNCHANGED <<current_script, livecode_flag, script_name, memVars,
                 tempscript, file, editing, saving, edited>>
  /\ idle

(* A panel is answered with a file, or closed. *)
PanelAnswer(p, f) ==
  /\ Sound /\ p \in panels
  /\ panels' = panels \ {p}
  /\ Callback(p, current_script, f)
  /\ UNCHANGED <<current_script, rw_flag>>

PanelCancel(p) ==
  /\ p \in panels
  /\ panels' = panels \ {p}
  /\ UNCHANGED <<current_script, rw_flag, livecode_flag, script_name,
                 memVars, tempscript, file, editing, saving, edited>>
  /\ idle

(* save; the name of a script that has no file yet is that of a file in    *)
(* the working directory, which is none of the user's.                     *)
Save ==
  /\ Sound
  /\ LET f == script_name[current_script]
     IN  file' = IF f = None THEN file
                 ELSE [file EXCEPT ![f] = Copied(tempscript[current_script], @)]
  /\ UNCHANGED <<current_script, rw_flag, livecode_flag, script_name,
                 memVars, tempscript, panels, editing, saving,
                 edited>>
  /\ idle

Livecode(on) ==
  /\ livecode_flag' = on
  /\ UNCHANGED <<current_script, rw_flag, script_name, memVars,
                 fileVars, edited>>
  /\ idle

(* The editor of script i opens the temporary file for writing; so does any *)
(* other editor in a livecoding session.                                   *)
BeginSave(i) ==
  /\ i \in editing \/ (livecode_flag /\ i \in Edited)
  /\ i \notin saving
  /\ saving' = saving \cup {i}
  /\ tempscript' = [tempscript EXCEPT ![i] = Empty]
  /\ edited' = [edited EXCEPT ![i] = TRUE]
  /\ UNCHANGED <<current_script, rw_flag, livecode_flag, script_name, memVars,
                 file, panels, editing>>
  /\ idle

(* It writes the text, and goes on or quits: an editor also saves when it  *)
(* quits.                                                                  *)
EndSave(i, text) ==
  /\ i \in saving
  /\ saving' = saving \ {i}
  /\ tempscript' = [tempscript EXCEPT ![i] = text]
  /\ edited' = [edited EXCEPT ![i] = TRUE]
  /\ editing' \in {editing, editing \ {i}}
  /\ UNCHANGED <<current_script, rw_flag, livecode_flag, script_name, memVars,
                 file, panels>>
  /\ idle

(* A UnicodeEncodeError: it quits and leaves the file as it is.            *)
FailSave(i) ==
  /\ i \in saving
  /\ saving' = saving \ {i} /\ editing' = editing \ {i}
  /\ UNCHANGED <<current_script, rw_flag, livecode_flag, script_name, memVars,
                 tempscript, file, panels, edited>>
  /\ idle

Next ==
  \/ \E n \in Numbers : Goscript(n) \/ Setscript(n) \/ ReadPanel(n)
  \/ Bang
  \/ \E n \in Numbers, f \in Files : ReadFile(n, f)
  \/ Openeditor \/ Saveas \/ Save
  \/ \E p \in panels : PanelCancel(p)
  \/ \E p \in panels, f \in Files : PanelAnswer(p, f)
  \/ \E on \in BOOLEAN : Livecode(on)
  \/ \E i \in Scripts : BeginSave(i) \/ FailSave(i)
  \/ \E i \in Scripts, t \in Texts : EndSave(i, t)

Spec == Init /\ [][Next]_vars

(***************************************************************************)
(* Properties.                                                             *)
(***************************************************************************)
TypeOK ==
  /\ current_script \in 0 .. MAX_SCRIPTS
  /\ rw_flag \in {"read", "write"}
  /\ livecode_flag \in BOOLEAN
  /\ script_flag \in [Scripts -> BOOLEAN] /\ edited \in [Scripts -> BOOLEAN]
  /\ rtcmix_script \in [Scripts -> Texts \cup {None}]
  /\ script_size \in [Scripts -> Contents]
  /\ script_name \in [Scripts -> Files \cup {None}]
  /\ tempscript \in [Scripts -> Contents] /\ file \in [Files -> Contents]
  /\ panels \subseteq {"read", "write"}
  /\ editing \subseteq Scripts /\ saving \subseteq Scripts

(* What a script runs and what saving it writes are the same, unless an    *)
(* editor has been at it, or its last file could not be loaded: no file    *)
(* that is read, saved or refused takes the two apart.                     *)
RunsWhatIsSaved ==
  \A i \in Scripts : ~edited[i] /\ script_size[i] \in Texts
                       => rtcmix_script[i] = tempscript[i]

(* In a livecoding session a script runs as its temporary file is now, and *)
(* when the file has a score something runs, even if a goscript in the     *)
(* middle of a save found it empty.                                        *)
LiveRunsLatest == livecode_flag => last \notin {"ran_older", "missed"}

(* No message and no answer to a panel removes a user's file: it changes   *)
(* only to the contents of the current script's temporary file, and stays  *)
(* as it is when this script has none yet.                                 *)
FilesSaved ==
  [][\A f \in Files : file'[f] # file[f] =>
       file'[f] # None /\ file'[f] = tempscript[current_script']]_vars

(* "goscript rereads the temp file so we're sure to have the most recent   *)
(* edit".                                                                  *)
RunsLatestEdit == last \notin {"ran_older", "missed"}

(* The flag shared by both panels tells "whether we're loading or          *)
(* writing".                                                               *)
AnswersAsAsked == last # "did_otherwise"
=============================================================================
