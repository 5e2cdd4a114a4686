--------------------------- MODULE ConfigRepository ---------------------------
(***************************************************************************)
(* The repository of configurations of libqron, in local files: one file   *)
(* by configuration, named after its id, a file that names the active one  *)
(* and a history log.                                                      *)
(*                                                                         *)
(* Each file is replaced in one step, but an operation writes one after the*)
(* other, then changes what it keeps in memory and signals it to the models*)
(* of the user interface.  The program may stop or crash between any two   *)
(* steps; it reads the files again, and tidies them up, when it starts:    *)
(* what cannot be moved or renamed then stays where it is.  A file that is *)
(* moved to the "errors" directory is never read again, thus forgotten.    *)
(* Operations are mutually excluded by a mutex.                            *)
(***************************************************************************)
EXTENDS Naturals, Sequences, FiniteSets

CONSTANTS
  Configs,       \* configurations, which are their ids
  Edited,        \* those that were changed in memory since they were parsed
  OtherNames,    \* names that an administrator gives to files
  BaseName,      \* what precedes the first dot of a name, QFileInfo::baseName
  RowCountMax,   \* the number of rows kept in the history log, 1024 in the code
  MaxRows,       \* bound on the rows of the history log
  NoConfig,
  Invalid,       \* content that cannot be parsed
  Unreadable,    \* content that cannot be read
  NoFile

Names == Configs \cup OtherNames

Contents == Configs \cup {Invalid, Unreadable}

ASSUME NamesAssumption ==
  /\ Configs \cap OtherNames = {} /\ Edited \subseteq Configs
  /\ {NoConfig, Invalid, Unreadable, NoFile} \cap Names = {}
  /\ NoFile \notin {Invalid, Unreadable} /\ Invalid # Unreadable
  /\ \A c \in Configs : BaseName[c] = c
  /\ RowCountMax \in Nat /\ MaxRows \in Nat /\ RowCountMax <= MaxRows

VARIABLES
  files,         \* the content of each file of the "configs" directory
  activeFile,    \* the content of the "active" file
  history,       \* the rows of the "history" file
  configs,       \* _configs
  activeConfigId,\* _activeConfigId
  op,            \* the operation that holds the mutex, and its next step
  todo,          \* the files that openRepository has still to read
  rows,          \* the rows of ConfigsModel
  shownActive    \* ConfigsModel::_activeConfigId

disk == <<files, activeFile, history>>
model == <<rows, shownActive>>
memory == <<configs, activeConfigId, todo, model>>
vars == <<disk, memory, op>>

Operation(step, name) == [step |-> step, name |-> name]
Stopped == Operation("stopped", NoConfig)
Opening == Operation("opening", NoConfig)
Ready == Operation("ready", NoConfig)

Torn == <<"torn">>

\* ConfigsModel::configRemoved goes through the rows.
Removed(list, c) ==
  LET kept[i \in 0..Len(list)] ==
        IF i = 0 THEN <<>>
        ELSE IF list[i] = c THEN kept[i - 1] ELSE Append(kept[i - 1], list[i])
  IN kept[Len(list)]

\* ConfigsModel::configAdded
Added(list, c) == <<c>> \o Removed(list, c)

-----------------------------------------------------------------------------

Init ==
  /\ files = [n \in Names |-> NoFile]
  /\ activeFile = NoConfig
  /\ history = <<>>
  /\ configs = {} /\ activeConfigId = NoConfig
  /\ op = Stopped
  /\ todo = {}
  /\ rows = <<>> /\ shownActive = NoConfig

\* An administrator puts a file in the directory while the program is stopped, under
\* a name that is not the id of another configuration.
DropFile(name, content) ==
  /\ op = Stopped /\ files[name] = NoFile
  /\ content \in Configs => name \in OtherNames \cup {content}
  /\ files' = [files EXCEPT ![name] = content]
  /\ UNCHANGED <<activeFile, history, memory, op>>

OpenRepository ==
  /\ op = Stopped
  /\ op' = Opening
  /\ configs' = {} /\ activeConfigId' = NoConfig
  /\ todo' = {n \in Names : files[n] # NoFile}
  /\ UNCHANGED <<disk, model>>

\* Mutant: a duplicated file is loaded again, as if it were another configuration.
LoadAgain(c) ==
  /\ configs' = configs \cup {c}
  /\ rows' = <<c>> \o rows

Load(c) ==
  /\ configs' = configs \cup {c}
  /\ rows' = IF c \in configs THEN rows ELSE Added(rows, c)

\* A file that cannot be read, or that was moved since the directory was listed.
SkipFile(name) ==
  /\ op = Opening /\ name \in todo /\ files[name] \in {Unreadable, NoFile}
  /\ todo' = todo \ {name}
  /\ UNCHANGED <<disk, configs, activeConfigId, model, op>>

\* An incorrect file is moved to the "errors" directory, if it can be.
OpenIncorrectFile(name) ==
  /\ op = Opening /\ name \in todo /\ files[name] = Invalid
  /\ files' \in {files, [files EXCEPT ![name] = NoFile]}
  /\ todo' = todo \ {name}
  /\ UNCHANGED <<activeFile, history, configs, activeConfigId, model, op>>

\* A file whose base name is the id of its configuration keeps its name.
OpenFile(name) ==
  /\ op = Opening /\ name \in todo
  /\ files[name] \in Configs /\ BaseName[name] = files[name]
  /\ Load(files[name])
  /\ todo' = todo \ {name}
  /\ UNCHANGED <<disk, activeConfigId, shownActive, op>>

\* Another one is to be named after its id: a file that already has that name is
\* first moved to the "errors" directory, if it can be.
OpenMisnamedFile(name) ==
  /\ op = Opening /\ name \in todo
  /\ files[name] \in Configs /\ BaseName[name] # files[name]
  /\ files' \in {files, [files EXCEPT ![files[name]] = NoFile]}
  /\ op' = Operation("renaming", name)
  /\ UNCHANGED <<activeFile, history, memory>>

\* It is renamed, if it can be, never over another file, and loaded anyway.
RenameFile(name) ==
  /\ op = Operation("renaming", name)
  /\ LET c == files[name]
     IN /\ \/ UNCHANGED files
           \/ files[c] = NoFile /\ files' = [files EXCEPT ![c] = c, ![name] = NoFile]
        /\ Load(c)
  /\ todo' = todo \ {name}
  /\ op' = Opening
  /\ UNCHANGED <<activeFile, history, activeConfigId, shownActive>>

Shortened(log) ==
  IF Len(log) > RowCountMax THEN SubSeq(log, Len(log) - RowCountMax + 1, Len(log)) ELSE log

RepositoryOpened ==
  /\ op = Opening /\ todo = {}
  /\ history' = Shortened(history)
  /\ IF activeFile \in configs
     THEN activeConfigId' = activeFile /\ shownActive' = activeFile
     ELSE UNCHANGED <<activeConfigId, shownActive>>
  /\ op' = Ready
  /\ UNCHANGED <<files, activeFile, configs, todo, rows>>

\* What is written is the text that the configuration was parsed from, which an
\* edited configuration no longer has.
Written(c) == IF c \in Edited THEN Invalid ELSE c

\* The first step of an operation, which may fail and then changes nothing.
AddConfig(c) ==
  /\ op = Ready /\ Len(history) < MaxRows
  /\ files' = [files EXCEPT ![c] = Written(c)]
  /\ op' = Operation("addConfig", c)
  /\ UNCHANGED <<activeFile, history, memory>>

ActivateConfig(c) ==
  /\ op = Ready /\ Len(history) < MaxRows /\ c \in configs
  /\ activeFile' = c
  /\ op' = Operation("activateConfig", c)
  /\ UNCHANGED <<files, history, memory>>

\* Mutant: the active configuration may be removed.
RemoveAnyConfig(c) ==
  /\ op = Ready /\ Len(history) < MaxRows /\ c \in configs
  /\ files' = [files EXCEPT ![c] = NoFile]
  /\ op' = Operation("removeConfig", c)
  /\ UNCHANGED <<activeFile, history, memory>>

RemoveConfig(c) ==
  /\ op = Ready /\ Len(history) < MaxRows /\ c \in configs /\ c # activeConfigId
  /\ files' = [files EXCEPT ![c] = NoFile]
  /\ op' = Operation("removeConfig", c)
  /\ UNCHANGED <<activeFile, history, memory>>

Events == {"addConfig", "activateConfig", "removeConfig"}

\* The second one.
RecordInHistory ==
  /\ op.step \in Events
  /\ history' = Append(history, <<op.step, op.name>>)
  /\ op' = [op EXCEPT !.step = "recorded"]
  /\ UNCHANGED <<files, activeFile, memory>>

\* The last one.
Apply ==
  /\ op.step = "recorded"
  /\ CASE history[Len(history)][1] = "addConfig" ->
            /\ configs' = configs \cup {op.name}
            /\ rows' = Added(rows, op.name)
            /\ UNCHANGED <<activeConfigId, shownActive>>
       [] history[Len(history)][1] = "activateConfig" ->
            /\ activeConfigId' = op.name
            /\ shownActive' = op.name
            /\ UNCHANGED <<configs, rows>>
       [] OTHER ->
            /\ configs' = configs \ {op.name}
            /\ rows' = Removed(rows, op.name)
            /\ UNCHANGED <<activeConfigId, shownActive>>
  /\ op' = Ready
  /\ UNCHANGED <<disk, todo>>

\* A row of the history log may be partly written.
Crash ==
  /\ op # Stopped
  /\ op' = Stopped
  /\ \/ UNCHANGED history
     \/ op.step \in Events /\ history' = Append(history, Torn)
  /\ configs' = {} /\ activeConfigId' = NoConfig /\ todo' = {}
  /\ rows' = <<>> /\ shownActive' = NoConfig
  /\ UNCHANGED <<files, activeFile>>

Next ==
  \/ \E name \in Names, content \in Contents : DropFile(name, content)
  \/ OpenRepository
  \/ \E name \in Names :
       \/ SkipFile(name) \/ OpenIncorrectFile(name) \/ OpenFile(name)
       \/ OpenMisnamedFile(name) \/ RenameFile(name)
  \/ RepositoryOpened
  \/ \E c \in Configs : AddConfig(c) \/ ActivateConfig(c) \/ RemoveConfig(c)
  \/ RecordInHistory
  \/ Apply
  \/ Crash

Spec == Init /\ [][Next]_vars

-----------------------------------------------------------------------------
\* Properties

Stored == {c \in Configs : \E n \in Names : files[n] = c}

\* The configurations that a file with another name holds.
Copied == {c \in Configs : \E n \in OtherNames : files[n] = c}

StoredActive == IF activeFile \in Stored THEN activeFile ELSE NoConfig

Phase ==
  CASE op.step = "stopped" -> "stopped"
    [] op.step \in {"opening", "renaming"} -> "starting"
    [] op.step = "ready" -> "ready"
    [] OTHER -> "busy"

View == INSTANCE RepositoryView WITH
  stored <- Stored, copied <- Copied, active <- StoredActive, phase <- Phase

\* Whatever crashes, and whatever files cannot be tidied up when it starts again, the
\* repository on disk is changed by its operations only, each of which happens
\* completely or not at all.  One that removes a configuration of which another file
\* holds a copy leaves it there (LocalConfigRepository::addConfig, activateConfig,
\* removeConfig, openRepository).
ImplementsRepositoryView == View!Spec

\* Between operations, memory and the models of the user interface hold what a
\* restart would read from the files, but for the configurations that were removed
\* and of which another file holds a copy.
MemoryAgreesWithDisk ==
  op = Ready =>
    /\ configs \subseteq Stored
    /\ \A c \in Stored \ configs : c \in Copied /\ files[c] # c
    /\ activeConfigId = IF activeFile \in configs THEN activeFile ELSE NoConfig
    /\ shownActive = activeConfigId
    /\ Len(rows) = Cardinality(configs) /\ {rows[i] : i \in DOMAIN rows} = configs
=============================================================================
