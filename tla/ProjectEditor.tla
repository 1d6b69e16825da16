--------------------------- MODULE ProjectEditor ---------------------------
(***************************************************************************)
(* The project editor of the GUI: tabs with sources and symbol tables      *)
(* (gui/sourcetabs.py, editwidget.py, symtabwidget.py), library selections *)
(* (gui/libtablewidget.py), the mark of unsaved changes and the project    *)
(* and its files on disk (gui/mainwindow.py, projectwidget.py,             *)
(* common/project.py, sources.py).  A source is kept in the project file   *)
(* or in a file of its own.                                                *)
(***************************************************************************)
EXTENDS Naturals, Sequences, SequencesExt

CONSTANTS
  Files,      \* files with a source
  Projects,   \* project files
  Text,       \* contents of a source; "junk" and "foreign" do not suit a symbol table
  Doings,     \* what the user does
  MaxTabs, MaxDoings, MaxFailures  \* bounds

\* "" stands for no file; a file holds a source or a project.
ASSUME FilesAssumption == "" \notin Files \cup Projects /\ Files \cap Projects = {}

Kinds == {"awl", "sym"}

VARIABLES
  disk,       \* contents of the files
  saved,      \* contents of the project files
  tabs,       \* the tabs of each kind
  libs,       \* libTable.model().libSelections
  settings,   \* everything the dialogs change
  dirty, filename,
  adHoc,      \* __isAdHocProject
  sources,    \* the files of the sources in __project, which are not those in the tabs
  careless,   \* history: since the project was opened something was done that is lost
  doings, failures

shown      == <<tabs, libs, settings>>
editorVars == <<disk, saved, shown, dirty, filename, adHoc, sources, careless, doings, failures>>

NoProject == [awl |-> <<>>, sym |-> <<>>, libs |-> <<>>, settings |-> "none"]

-----------------------------------------------------------------------------
(* Tabs.                                                                   *)

\* stale: __needSourceUpdate; bytes: what the source was when last asked for.
Tab(file, text) == [file |-> file, text |-> text, bytes |-> "", stale |-> TRUE]
EmptyTab == Tab("", "")

\* A symbol table that cannot be parsed is shown empty.
SetSource(kind, s) == Tab(s.file, IF kind = "sym" /\ s.text = "junk" THEN "" ELSE s.text)
SetSources(kind, ss) == IF ss = <<>> THEN <<EmptyTab>> ELSE [i \in DOMAIN ss |-> SetSource(kind, ss[i])]

\* A symbol table with foreign characters keeps the bytes it had.
GetSource(kind, t) ==
  IF ~t.stale \/ (kind = "sym" /\ t.text = "foreign") THEN t
  ELSE [t EXCEPT !.bytes = t.text, !.stale = FALSE]
GetSources(kind) == [i \in DOMAIN tabs[kind] |-> GetSource(kind, tabs[kind][i])]

\* Two sources, of one kind or of both, have a file in common.
Shared(ss) == \E k, l \in Kinds : \E i \in DOMAIN ss[k] : \E j \in DOMAIN ss[l] :
                <<k, i>> # <<l, j>> /\ ss[k][i].file # "" /\ ss[k][i].file = ss[l][j].file

Backs(f) == \E k \in Kinds : \E i \in DOMAIN tabs[k] : tabs[k][i].file = f

-----------------------------------------------------------------------------
(* Project files.                                                          *)

Backed(t) == t.file # ""

\* The sources with a file of their own, or those without, in their order.
Those(ts, backed) ==
  LET those[n \in 0 .. Len(ts)] ==
        IF n = 0 THEN <<>>
        ELSE IF Backed(ts[n]) = backed THEN Append(those[n - 1], ts[n]) ELSE those[n - 1]
  IN  those[Len(ts)]

\* Sources with a file of their own come first; their text is not kept.
InProject(t) == [file |-> t.file, text |-> IF Backed(t) THEN "" ELSE t.bytes]
AllInProject(ts) == [i \in DOMAIN ts |-> InProject(ts[i])]
ToText(ts) == AllInProject(Those(ts, TRUE)) \o AllInProject(Those(ts, FALSE))

FromText(ss) == [i \in DOMAIN ss |-> IF ss[i].file = "" THEN ss[i] ELSE [ss[i] EXCEPT !.text = disk[ss[i].file]]]

BackingFiles(ts) == Those(ts["awl"], TRUE) \o Those(ts["sym"], TRUE)

\* The sources ss are written: of those with one file the last remains.
Written(d, ss) ==
  [f \in DOMAIN d |-> LET At == {i \in DOMAIN ss : ss[i].file = f}
                     IN  IF At = {} THEN d[f] ELSE ss[CHOOSE i \in At : \A j \in At : j <= i].bytes]

-----------------------------------------------------------------------------
(* The user.                                                               *)

Does(d) == d \in Doings /\ doings < MaxDoings /\ doings' = doings + 1

Careless(c) == careless' = (careless \/ c)
SomethingChanged == dirty' = TRUE /\ UNCHANGED <<disk, saved, filename, adHoc, sources, failures>>
Unnoticed        == careless' = TRUE /\ UNCHANGED <<disk, saved, dirty, filename, adHoc, sources, failures>>
OnlyTabs(kind, ts) == tabs' = [tabs EXCEPT ![kind] = ts] /\ UNCHANGED <<libs, settings>>

Edit(kind, i, text) ==
  /\ Does("edit") /\ Careless(kind = "sym" /\ text = "foreign")
  /\ OnlyTabs(kind, [tabs[kind] EXCEPT ![i].text = text, ![i].stale = TRUE])
  /\ SomethingChanged

\* A refused entry in the last row of a symbol table leaves a new row behind.
EditRefused(i) == /\ Does("careless") /\ Unnoticed
                  /\ \E text \in Text \ {"junk", "foreign"} : OnlyTabs("sym", [tabs["sym"] EXCEPT ![i].text = text])

\* A symbol of a library is added to a table.
PasteSymbol(i) == /\ Does("careless") /\ Unnoticed
                  /\ \E text \in Text \ {"junk", "foreign"} :
                       OnlyTabs("sym", [tabs["sym"] EXCEPT ![i].text = text, ![i].stale = TRUE])

AddTab(kind) == /\ Does("tabs") /\ UNCHANGED careless /\ Len(tabs[kind]) < MaxTabs
                /\ OnlyTabs(kind, Append(tabs[kind], EmptyTab)) /\ SomethingChanged

DeleteTab(kind, i) == /\ Does("tabs") /\ UNCHANGED careless /\ Len(tabs[kind]) > 1
                      /\ OnlyTabs(kind, RemoveAt(tabs[kind], i)) /\ SomethingChanged

MoveTab(kind, i, j) == /\ Does("tabs") /\ UNCHANGED careless
                       /\ OnlyTabs(kind, InsertAt(RemoveAt(tabs[kind], i), j, tabs[kind][i])) /\ SomethingChanged

Integrate(kind, i) ==
  /\ Does("integrate") /\ UNCHANGED careless /\ tabs[kind][i].file # ""
  /\ OnlyTabs(kind, [tabs[kind] EXCEPT ![i] = [GetSource(kind, @) EXCEPT !.file = ""]])
  /\ SomethingChanged

Import(kind, f, integrate) ==
  /\ Does("import") /\ Len(tabs[kind]) < MaxTabs
  /\ disk[f] # "project"
  /\ Careless((~integrate /\ Backs(f)) \/ (kind = "sym" /\ disk[f] = "junk"))
  /\ OnlyTabs(kind, Append(tabs[kind],
       SetSource(kind, [file |-> IF integrate THEN "" ELSE f, text |-> disk[f]])))
  /\ SomethingChanged

Export(kind, i, f) ==
  /\ Does("export") /\ Careless(Backs(f))
  /\ LET t == GetSource(kind, tabs[kind][i])
     IN  /\ OnlyTabs(kind, [tabs[kind] EXCEPT ![i] = t])
         /\ disk' = [disk EXCEPT ![f] = t.bytes]
  /\ UNCHANGED <<saved, dirty, filename, adHoc, sources, failures>>

SelectLibs == /\ Does("libs") /\ UNCHANGED careless /\ SomethingChanged /\ UNCHANGED <<tabs, settings>>
              /\ libs' \in {<<>>, <<"FC9">>, <<"FC12", "FC9">>} \ {libs}

Configure == /\ Does("settings") /\ UNCHANGED careless /\ SomethingChanged /\ UNCHANGED <<tabs, libs>>
             /\ settings' \in {"default", "changed"} \ {settings}

-----------------------------------------------------------------------------
(* Saving and loading.                                                     *)

FilesOf(ts) == [i \in DOMAIN ts |-> ts[i].file]

\* A faulty variant: the mark is taken away before the files are written.
SavedEarly(name, ts, success) ==
  /\ filename' = name /\ dirty' = FALSE /\ adHoc' = FALSE /\ tabs' = ts
  /\ failures' = IF success THEN failures ELSE failures + 1

\* An ad-hoc project becomes a real one: its tabs are filled anew.
Saved(name, ts, success) ==
  IF success
  THEN /\ filename' = name /\ dirty' = FALSE /\ adHoc' = FALSE /\ UNCHANGED failures
       /\ tabs' = IF ~adHoc THEN ts
                  ELSE [k \in Kinds |-> [i \in DOMAIN ts[k] |-> Tab(ts[k][i].file, ts[k][i].bytes)]]
  ELSE /\ failures' = failures + 1 /\ tabs' = ts /\ UNCHANGED <<filename, dirty, adHoc>>

\* The first n files are written: the project and the sources with a file of
\* their own.  A project file is written over what was there.
SaveProjectFile(name) ==
  LET ts      == [k \in Kinds |-> GetSources(k)]
      Total   == 1 + Len(BackingFiles(ts))
      Project == [awl |-> ToText(ts["awl"]), sym |-> ToText(ts["sym"]), libs |-> libs, settings |-> settings]
      Over    == IF name \in Files THEN [disk EXCEPT ![name] = "project"] ELSE disk
  IN  /\ sources' = FilesOf(ts["awl"])
      /\ UNCHANGED <<libs, settings>>
      /\ \E n \in 0 .. Total :
           /\ n < Total => failures < MaxFailures
           /\ saved' = IF n = 0 \/ name \notin Projects THEN saved ELSE [saved EXCEPT ![name] = Project]
           /\ disk' = IF n = 0 THEN disk ELSE Written(Over, SubSeq(BackingFiles(ts), 1, n - 1))
           /\ Saved(name, ts, n = Total)

\* Save as, for a plain source, too.
SaveAs == Does("save") /\ UNCHANGED careless /\ \E name \in Projects : SaveProjectFile(name)

\* The source an ad-hoc project was made of is not overwritten: for its name
\* the user is asked for another.  More sources than one are not expected.
SaveAgain ==
  /\ Does("save") /\ filename # "" /\ Careless(adHoc)
  /\ IF adHoc THEN Len(sources) = 1 /\ sources[1] # filename ELSE TRUE
  /\ SaveProjectFile(filename)

\* What is not saved must be discarded first; to save it is a step of its own.
Given(answer) == ~dirty \/ answer = "discard"

LoadProject(name) ==
  /\ saved[name] # NoProject
  /\ LET p == saved[name]
     IN  /\ tabs' = [k \in Kinds |-> SetSources(k, FromText(p[k]))]
         /\ libs' = p.libs /\ settings' = p.settings
  /\ filename' = name /\ dirty' = FALSE /\ adHoc' = FALSE
  /\ sources' = FilesOf(saved[name].awl)
  /\ careless' = \/ Shared(saved[name])
                  \/ \E i \in DOMAIN saved[name].sym : FromText(saved[name].sym)[i].text = "junk"

LoadPlainAwlSource(f) ==
  /\ disk[f] # "project" /\ careless' = FALSE
  /\ tabs' = [awl |-> <<Tab(f, disk[f])>>, sym |-> <<EmptyTab>>]
  /\ libs' = <<>> /\ settings' = "default"
  /\ filename' = f /\ dirty' = TRUE /\ adHoc' = TRUE /\ sources' = <<f>>

Load(answer) ==
  /\ Does("load") /\ Given(answer)
  /\ (\E name \in Projects : LoadProject(name)) \/ (\E f \in Files : LoadPlainAwlSource(f))
  /\ UNCHANGED <<disk, saved, failures>>

\* The window is closed and the GUI started again.
Restart(answer) ==
  /\ Does("load") /\ Given(answer) /\ careless' = FALSE
  /\ tabs' = [k \in Kinds |-> <<EmptyTab>>] /\ libs' = <<>> /\ settings' = "default"
  /\ filename' = "" /\ dirty' = FALSE /\ adHoc' = FALSE /\ sources' = <<>>
  /\ UNCHANGED <<disk, saved, failures>>

EditorInit ==
  /\ disk \in [Files -> Text \ {"foreign"}] /\ saved = [p \in Projects |-> NoProject]
  /\ tabs = [k \in Kinds |-> <<EmptyTab>>] /\ libs = <<>> /\ settings = "default"
  /\ filename = "" /\ dirty = FALSE /\ adHoc = FALSE /\ sources = <<>> /\ careless = FALSE
  /\ doings = 0 /\ failures = 0

EditorNext ==
  \/ \E k \in Kinds :
       \/ AddTab(k)
       \/ \E f \in Files : \E integrate \in BOOLEAN : Import(k, f, integrate)
       \/ \E i \in DOMAIN tabs[k] :
            \/ \E text \in Text \ {IF k = "sym" THEN "junk" ELSE "foreign"} : Edit(k, i, text)
            \/ DeleteTab(k, i) \/ Integrate(k, i)
            \/ \E j \in DOMAIN tabs[k] : MoveTab(k, i, j)
            \/ \E f \in Files : Export(k, i, f)
  \/ \E i \in DOMAIN tabs["sym"] : EditRefused(i) \/ PasteSymbol(i)
  \/ SelectLibs \/ Configure
  \/ SaveAs \/ SaveAgain
  \/ \E answer \in {"discard", "none"} : Load(answer) \/ Restart(answer)

EditorSpec == EditorInit /\ [][EditorNext]_editorVars

-----------------------------------------------------------------------------
(* Properties.                                                             *)

AsShown(t) == [t EXCEPT !.bytes = t.text]

\* A project without the mark of unsaved changes is on disk as it is shown: to
\* load its file gives the same sources, those with files of their own first,
\* and the same libraries and settings.  Excepted are the changes that go
\* unnoticed (EditRefused, PasteSymbol), symbol tables that cannot be written or
\* read, and a file that two tabs or an export have in common.
CleanMeansSaved ==
  ~dirty /\ filename # "" /\ ~careless =>
    /\ filename \in Projects
    /\ LET p == saved[filename]
           Seen(k) == ToText([i \in DOMAIN tabs[k] |-> AsShown(tabs[k][i])])
       IN  /\ \A k \in Kinds :
                /\ p[k] = Seen(k)
                /\ \A i \in DOMAIN tabs[k] : tabs[k][i].file # "" => disk[tabs[k][i].file] = tabs[k][i].text
           /\ p.libs = libs /\ p.settings = settings

\* A plain source that was opened is not overwritten with a project, "Do not
\* overwrite the AWL file": it is not so when saving under another name has
\* failed after the source was integrated.
PlainSourceKept == \A f \in Files : disk[f] # "project"
=============================================================================
