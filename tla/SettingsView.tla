---------------------------- MODULE SettingsView ----------------------------
(***************************************************************************)
(* The settings of the terminal program in three places: the Settings      *)
(* view (app.cpp), WasteCore, and waste-tui.ini, which C_Config            *)
(* (config.cpp) reads and writes.  Enter never reaches the code that edits *)
(* a field (app.cpp:1378 takes it): name, port, network and the numbers of *)
(* the limits come from the file only.  The theme is left out, and so is a *)
(* file that cannot be opened.                                             *)
(***************************************************************************)
EXTENDS Integers, Sequences, SequencesExt

CONSTANTS Folders,      \* directories: the pieces of their paths between semicolons
          Nicknames,    \* the nicknames loadConfig may make up
          IniFiles,     \* the contents the file may have
          LineRoom,     \* the pieces that fit in the buffer of a line
          Stub,         \* what the end of the buffer leaves of the piece it cuts
          MaxFolders    \* bound on the rows of the Sharing section

NoName == ""
\* A setting goes by the name of its line, in the order in which saveConfig writes them.
Settings == <<"nickname", "port", "network", "downloadflags", "throttleflag",
              "throttlesend", "throttlerecv", "shared_dirs">>
\* What loadConfig makes of a file without a line; only directories are more than one word.
Default == [nickname |-> NoName, port |-> "4001", network |-> NoName, downloadflags |-> "7",
            throttleflag |-> "0", throttlesend |-> "128", throttlerecv |-> "128", shared_dirs |-> <<>>]
Words == Range(Settings) \ {"shared_dirs"}

ASSUME SettingsAssumption ==
    /\ Folders \subseteq Seq(STRING) /\ Nicknames \subseteq STRING
    /\ LineRoom \in Nat \ {0} /\ Stub \in STRING
    /\ \A lines \in IniFiles :
          /\ lines \in Seq([name : STRING, value : Seq(STRING)])
          /\ \A i \in 1 .. Len(lines) : lines[i].name \in Words => Len(lines[i].value) = 1

VARIABLES
    up,        \* the program runs
    exists,     \* there is a file
    ini,       \* its lines, of name and value
    flushing,  \* the lines that Flush is writing, or <<>>
    core,      \* the settings of WasteCore
    view,      \* and those of the view
    browser,   \* the directory of the folder browser, or <<>> if it is not open
    doubled,   \* a directory was chosen that was shared already
    torn       \* the program came to an end within Flush

fileVars == <<exists, ini, flushing>>
settingsVars == <<up, fileVars, core, view, browser, doubled, torn>>

-----------------------------------------------------------------------------
(* C_Config *)

Line(name, value) == [name |-> name, value |-> value]
Named(strs, name) == {i \in 1 .. Len(strs) : strs[i].name = name}
WriteString(strs, name, value) ==
    LET at == Named(strs, name) IN
    IF at = {} THEN Append(strs, Line(name, value))
    ELSE [strs EXCEPT ![CHOOSE i \in at : \A j \in at : i <= j].value = value]
ReadString(strs, name, default) ==
    LET at == Named(strs, name) IN
    IF at = {} THEN default ELSE strs[CHOOSE i \in at : \A j \in at : i <= j].value
Written(strs, line) == WriteString(strs, line.name, line.value)
\* The constructor takes the lines through WriteString, each as far as its buffer goes; what
\* is left of a line has no name and is passed over.
Cut(value) == IF Len(value) <= LineRoom THEN value ELSE Append(SubSeq(value, 1, LineRoom), Stub)
Taken(lines) == [i \in 1 .. Len(lines) |-> Line(lines[i].name, Cut(lines[i].value))]
Config(lines) == FoldLeft(Written, <<>>, Taken(lines))

\* Directories joined by semicolons, and taken apart at each of them.
Glued(dirs) == FlattenSeq(dirs)
Apart(value) == [i \in 1 .. Len(value) |-> <<value[i]>>]
ValueOf(c, name) == IF name = "shared_dirs" THEN Glued(c[name]) ELSE <<c[name]>>

\* Mutant of Saved: one setting is not written.
SavedWithoutAccept(c) ==
    LET names == SelectSeq(Settings, LAMBDA name : name # "downloadflags") IN
    FoldLeft(Written, Config(ini), [i \in 1 .. Len(names) |-> Line(names[i], ValueOf(c, names[i]))])
\* saveConfig: what it does not know stays in the file.
Saved(c) ==
    FoldLeft(Written, Config(ini), [i \in 1 .. Len(Settings) |-> Line(Settings[i], ValueOf(c, Settings[i]))])
\* loadConfig; without a file the values of the globals stand.
Loaded(nick) ==
    LET strs == Config(ini)
        Word(name) == ReadString(strs, name, <<Default[name]>>)[1]
    IN  IF ~exists THEN [Default EXCEPT !.nickname = nick, !.throttlesend = "0", !.throttlerecv = "0"]
        ELSE [name \in Range(Settings) |->
                 IF name = "shared_dirs" THEN Apart(ReadString(strs, name, <<>>))
                 ELSE IF name = "nickname" /\ Word(name) = NoName THEN nick ELSE Word(name)]
\* initializeCore shows a limit of nothing as 128.
Shown(c) == [c EXCEPT !.throttlesend = IF @ = "0" THEN "128" ELSE @,
                      !.throttlerecv = IF @ = "0" THEN "128" ELSE @]

\* The bits of the flags.
Limits(send, recv) == IF send THEN IF recv THEN "3" ELSE "2" ELSE IF recv THEN "1" ELSE "0"
LimitsSend(flags) == flags \in {"2", "3"}
LimitsRecv(flags) == flags \in {"1", "3"}
Accepts(flags) == flags = "7"

SettingsInit ==
    /\ up = FALSE /\ ini \in IniFiles /\ exists \in BOOLEAN /\ (ini # <<>> => exists)
    /\ flushing = <<>> /\ browser = <<>> /\ doubled = FALSE /\ torn = FALSE
    /\ core = Default /\ view = Default

-----------------------------------------------------------------------------
(* Operations.  Each is one handler, which calls the core under the view's lock. *)

Idle == up /\ flushing = <<>>
AtSettings == Idle /\ browser = <<>>
\* Flush opens the file, which empties it, and then writes.
Save(c) == exists' = TRUE /\ ini' = <<>> /\ flushing' = Saved(c)

\* The view takes what was loaded; then initialize sets the network to its own default.
Start ==
    /\ ~up /\ up' = TRUE
    /\ \E nick \in Nicknames :
          core' = [Loaded(nick) EXCEPT !.network = NoName] /\ view' = Shown(Loaded(nick))
    /\ doubled' = FALSE /\ torn' = FALSE /\ UNCHANGED <<fileVars, browser>>
End ==
    /\ AtSettings /\ up' = FALSE
    /\ UNCHANGED <<fileVars, core, view, browser, doubled, torn>>
Flush ==
    /\ flushing # <<>> /\ ini' = flushing /\ flushing' = <<>>
    /\ UNCHANGED <<up, exists, core, view, browser, doubled, torn>>
\* The program is ended before all lines are written; of a line without its end the
\* constructor takes nothing.
CrashInFlush ==
    /\ \E n \in 0 .. Len(flushing) - 1 : ini' = SubSeq(flushing, 1, n)
    /\ flushing' = <<>> /\ up' = FALSE /\ torn' = TRUE
    /\ UNCHANGED <<exists, core, view, browser, doubled>>
\* Ctrl+S.
SaveConfig ==
    /\ AtSettings /\ Save(core)
    /\ UNCHANGED <<up, core, view, browser, doubled, torn>>

\* Space on a checkbox: a limit that is lifted is forgotten by the core, and kept by the view.
ToggleUploadLimit ==
    LET newVal == ~LimitsSend(view.throttleflag) IN
    /\ AtSettings
    /\ view' = [view EXCEPT !.throttleflag = Limits(newVal, LimitsRecv(@))]
    /\ core' = [core EXCEPT !.throttleflag = Limits(newVal, LimitsRecv(@)),
                            !.throttlesend = IF newVal THEN view.throttlesend ELSE "0"]
    /\ Save(core') /\ UNCHANGED <<up, browser, doubled, torn>>
ToggleDownloadLimit ==
    LET newVal == ~LimitsRecv(view.throttleflag) IN
    /\ AtSettings
    /\ view' = [view EXCEPT !.throttleflag = Limits(LimitsSend(@), newVal)]
    /\ core' = [core EXCEPT !.throttleflag = Limits(LimitsSend(@), newVal),
                            !.throttlerecv = IF newVal THEN view.throttlerecv ELSE "0"]
    /\ Save(core') /\ UNCHANGED <<up, browser, doubled, torn>>
ToggleAcceptIncoming ==
    LET newFlags == IF Accepts(view.downloadflags) THEN "6" ELSE "7" IN
    /\ AtSettings
    /\ view' = [view EXCEPT !.downloadflags = newFlags] /\ core' = [core EXCEPT !.downloadflags = newFlags]
    /\ Save(core') /\ UNCHANGED <<up, browser, doubled, torn>>

\* Ctrl+A opens the folder browser, which goes up and down and shares where it is.
OpenBrowser ==
    /\ AtSettings /\ \E dir \in Folders : browser' = <<dir>>
    /\ UNCHANGED <<up, fileVars, core, view, doubled, torn>>
Browsed ==
    /\ Idle /\ browser # <<>> /\ \E dir \in Folders : browser' = <<dir>>
    /\ UNCHANGED <<up, fileVars, core, view, doubled, torn>>
CloseBrowser ==
    /\ Idle /\ browser # <<>> /\ browser' = <<>>
    /\ UNCHANGED <<up, fileVars, core, view, doubled, torn>>
\* The row is added whatever the core does; addSharedDirectory returns early, without
\* saving, if the directory is shared.
ShareFolder ==
    /\ Idle /\ browser # <<>> /\ Len(view.shared_dirs) < MaxFolders
    /\ view' = [view EXCEPT !.shared_dirs = Append(@, browser[1])]
    /\ IF browser[1] \in Range(core.shared_dirs) THEN doubled' = TRUE /\ UNCHANGED <<core, fileVars>>
       ELSE /\ core' = [core EXCEPT !.shared_dirs = Append(@, browser[1])]
            /\ Save(core') /\ UNCHANGED doubled
    /\ browser' = <<>> /\ UNCHANGED <<up, torn>>
\* Ctrl+D removes the row, and what the core has at the same place.
RemoveFolder ==
    /\ AtSettings
    /\ \E i \in 1 .. Len(view.shared_dirs) :
        /\ view' = [view EXCEPT !.shared_dirs = RemoveAt(@, i)]
        /\ IF i > Len(core.shared_dirs) THEN UNCHANGED <<core, fileVars>>
           ELSE core' = [core EXCEPT !.shared_dirs = RemoveAt(@, i)] /\ Save(core')
    /\ UNCHANGED <<up, browser, doubled, torn>>

SettingsNext ==
    \/ Start \/ End \/ Flush \/ CrashInFlush \/ SaveConfig
    \/ ToggleUploadLimit \/ ToggleDownloadLimit \/ ToggleAcceptIncoming
    \/ OpenBrowser \/ Browsed \/ CloseBrowser \/ ShareFolder \/ RemoveFolder
SettingsSpec == SettingsInit /\ [][SettingsNext]_settingsVars

-----------------------------------------------------------------------------
(* Properties *)

\* Directories that a line holds and that are read as they were written.
Plain(dirs) == Len(dirs) <= LineRoom /\ \A dir \in Range(dirs) : Len(dir) = 1

\* All but the network's name, which the start forgets: the view shows what the core does, in
\* particular what is shared, unless a directory was chosen twice since the start (a key then
\* removes another one than it shows); the next start finds what was set, once anything was
\* saved and if the directories are plain; and after an end within Flush it finds of each
\* setting what was set or the default, and of no setting a former value or one of another
\* (app.cpp:883-892, 1284-1298, 1613-1645, waste_core.cpp:1775-1810, 2489-2605, config.cpp:23-87).
SettingsKept ==
    /\ up => /\ \A name \in {"nickname", "port", "downloadflags", "throttleflag"} : view[name] = core[name]
             /\ LimitsSend(core.throttleflag) => core.throttlesend \in {view.throttlesend, "0"}
             /\ LimitsRecv(core.throttleflag) => core.throttlerecv \in {view.throttlerecv, "0"}
             /\ ~doubled => view.shared_dirs = core.shared_dirs
    /\ (up \/ torn) /\ exists /\ flushing = <<>> /\ Plain(core.shared_dirs) =>
          \A name \in Range(Settings) \ {"network"} :
             \/ Loaded(core.nickname)[name] = core[name]
             \/ torn /\ Loaded(core.nickname)[name] = Default[name]
=============================================================================
