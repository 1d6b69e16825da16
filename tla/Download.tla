------------------------------ MODULE Download ------------------------------
(***************************************************************************)
(* The program of the CPU as it is downloaded into the core server         *)
(* (coreserver/server.py, core/cpu.py): sources become raw blocks, a build *)
(* translates those that are pending and may fail at any of them, every    *)
(* block keeps a reference to the manager of its source                    *)
(* (common/refmanager.py), and a manager without references takes its      *)
(* source out of the list that clients are shown (common/sources.py).      *)
(*                                                                         *)
(* Each message is handled as a whole.  A source is given by the blocks of *)
(* its parse tree, kind by kind; a block by its number, the place where    *)
(* its translation fails, if any, the symbols its statements use and the   *)
(* blocks they call.  Managers have the numbers 1, 2, ...; a reference is  *)
(* given by its manager and by the block that holds it.                    *)
(***************************************************************************)
EXTENDS Naturals, Sequences

CONSTANTS
    Sources,   \* what the AWL sources hold: a set of parse trees
    Tables,    \* the symbol tables: a set of sequences of symbols
    Libraries, \* library blocks that may be selected: a set of block names
    MaxLoads,  \* bound: sources and tables loaded in a behaviour
    MaxLibraries \* bound: library blocks selected before a reset

BlockKinds == {"UDT", "OB", "FB", "FC", "DB"}
Faults == {"none", "statement", "interface"}

ASSUME DownloadAssumption ==
    /\ \A s \in Sources : /\ s = [k \in BlockKinds |-> s[k]]
                          /\ \A k \in BlockKinds : s[k] = [i \in 1..Len(s[k]) |-> s[k][i]] /\ Len(s[k]) \in Nat
                          /\ \A k \in BlockKinds : \A i \in DOMAIN s[k] : s[k][i].fault \in Faults
    /\ \A t \in Tables : Len(t) \in Nat
    /\ \A l \in Libraries : l[1] \in {"FB", "FC"}
    /\ MaxLoads \in Nat /\ MaxLibraries \in Nat

VARIABLES
    runState, needStartup,    \* __state and __needOB10x of the server
    pending,                  \* of each kind, the raw blocks not built yet
    pendingLibs, symbolTable, \* pendingLibSelections and the symbols known
    cpu,                      \* the blocks of the CPU
    refs, dead,               \* the references of the managers; the managers without a source
    awlSources, symSources, libSelections,  \* what clients are shown
    loads,                    \* history: the parse tree of the source of each manager
    failed,                   \* history: the loads that were answered by an exception
    crashed                   \* what ended the server with an exception nobody catches

downloadVars == <<runState, needStartup, pending, pendingLibs, symbolTable, cpu, refs,
                  dead, awlSources, symSources, libSelections, loads, failed, crashed>>

\* The parts of the state that a build changes.
Program == [pending |-> pending, libs |-> pendingLibs, cpu |-> cpu,
            refs |-> refs, dead |-> dead, listed |-> awlSources, ok |-> TRUE,
            crash |-> FALSE]

NoBlocks == [kind \in BlockKinds |-> <<>>]

DownloadInit ==
    /\ runState = "STOP" /\ needStartup = TRUE
    /\ pending = NoBlocks /\ pendingLibs = <<>> /\ symbolTable = {}
    /\ cpu = <<>> /\ refs = {} /\ dead = {}
    /\ awlSources = {} /\ symSources = {} /\ libSelections = <<>>
    /\ loads = <<>> /\ failed = {} /\ crashed = "no"

-----------------------------------------------------------------------------
(* References.  z is the program.                                          *)

\* The reference of the raw block at a place of a parse tree, and of the block
\* that is made from it.
RawRef(m, kind, i) == [src |-> m, of |-> "raw", kind |-> kind, at |-> i]
BlockRef(r) == [r EXCEPT !.of = "block"]

NoSource == 0   \* library blocks have no reference
NoRef == [src |-> NoSource, of |-> "library", kind |-> "none", at |-> 0]

HasReferences(rs, m) == \E r \in rs : r.src = m

MakeRef(z, r) == [z EXCEPT !.refs = @ \cup {r}]

\* The last reference to go takes the manager out of its container and the
\* source out of the manager.
AllRefsDestroyed(z, m) == [z EXCEPT !.dead = @ \cup {m}, !.listed = @ \ {m}]

DestroyRef(z, r) ==
    LET rest == [z EXCEPT !.refs = @ \ {r}]
    IN  IF HasReferences(rest.refs, r.src) THEN rest ELSE AllRefsDestroyed(rest, r.src)

\* Variant: the old reference goes before the new one is made.
InheritRefEarly(z, r) == MakeRef(DestroyRef(z, r), BlockRef(r))

\* A block takes the reference of the raw block it was made from.
InheritRef(z, r) == DestroyRef(MakeRef(z, BlockRef(r)), r)

-----------------------------------------------------------------------------
(* The build.  Every operator takes the program and returns what has       *)
(* become of it; after an exception nothing more changes.                  *)

Fail(z) == [z EXCEPT !.ok = FALSE]
Crash(z) == [z EXCEPT !.ok = FALSE, !.crash = TRUE]
Defined(z, name) == name \in DOMAIN z.cpu
With(z, name, block) ==
    [z EXCEPT !.cpu = [n \in DOMAIN @ \cup {name} |-> IF n = name THEN block ELSE @[n]]]

LibraryBlock == [ref |-> NoRef, uses |-> {}, calls |-> {}]
IsLibrary(z, name) == Defined(z, name) /\ z.cpu[name].ref = NoRef

\* A library block replaces one of a library, never one of the user.
LoadLibrary(z, name) ==
    IF Defined(z, name) /\ ~IsLibrary(z, name) THEN Fail(z) ELSE With(z, name, LibraryBlock)

LoadLibraries(z) ==
    LET loaded[n \in 0..Len(z.libs)] ==
            IF n = 0 THEN z
            ELSE IF loaded[n - 1].ok THEN LoadLibrary(loaded[n - 1], z.libs[n])
            ELSE loaded[n - 1]
        last == loaded[Len(z.libs)]
    IN  IF last.ok THEN [last EXCEPT !.libs = <<>>] ELSE last

\* The raw block is translated: its statements, then the reference, then
\* its interface; the block then takes the place of one of that name.  A raw
\* block that is left from a failed build has no reference to give.
Translate(z, name, raw) ==
    IF raw.fault = "statement" THEN Fail(z)
    ELSE IF raw.ref \notin z.refs THEN Crash(z)
    ELSE LET made == InheritRef(z, raw.ref)
             block == [ref |-> BlockRef(raw.ref), uses |-> raw.uses, calls |-> raw.calls]
         IN  IF raw.fault = "interface" THEN Fail(made)
             ELSE With(IF Defined(made, name) THEN DestroyRef(made, made.cpu[name].ref) ELSE made,
                       name, block)

\* A second definition of a block in one build, or one that a library
\* defines, is refused.
TranslateRaw(z, kind, i) ==
    LET raws == z.pending[kind]
        name == <<kind, raws[i].nr>>
    IN  IF (\E j \in 1..(i - 1) : raws[j].nr = raws[i].nr) \/ IsLibrary(z, name) THEN Fail(z)
        ELSE Translate(z, name, raws[i])

\* A raw block whose reference was inherited stays in the list until all of its
\* kind are translated.
TranslateKind(z, kind) ==
    LET built[i \in 0..Len(z.pending[kind])] ==
            IF i = 0 THEN z
            ELSE IF built[i - 1].ok THEN TranslateRaw(built[i - 1], kind, i)
            ELSE built[i - 1]
        last == built[Len(z.pending[kind])]
    IN  IF last.ok THEN [last EXCEPT !.pending[kind] = <<>>] ELSE last

InTurn(z, kind) == IF z.ok THEN TranslateKind(z, kind) ELSE z

\* Symbols are replaced in the statements, which keep what they resolved to.
Resolved(block) == [ref |-> block.ref, uses |-> {}, calls |-> block.calls]
Resolve(z, known) ==
    IF \A n \in DOMAIN z.cpu : z.cpu[n].calls \subseteq DOMAIN z.cpu /\ z.cpu[n].uses \subseteq known
    THEN [z EXCEPT !.cpu = [n \in DOMAIN @ |-> Resolved(@[n])]]
    ELSE Fail(z)

Build(z, known) ==
    LET udts == InTurn(LoadLibraries(z), "UDT")
        obs  == InTurn(udts, "OB")
        fbs  == InTurn(obs, "FB")
        fcs  == InTurn(fbs, "FC")
        dbs  == InTurn(fcs, "DB")
    IN  IF dbs.ok THEN Resolve(dbs, known) ELSE dbs

Becomes(z) ==
    /\ pending' = z.pending /\ pendingLibs' = z.libs /\ cpu' = z.cpu
    /\ refs' = z.refs /\ dead' = z.dead
    /\ crashed' = IF z.crash THEN "build" ELSE crashed

-----------------------------------------------------------------------------
(* The messages of the clients.                                            *)

\* A program that runs, or that will run without a startup, is built at once.
NeedRebuild == runState = "RUN" \/ (runState = "STOP" /\ ~needStartup)

NewLoad(blocks) ==
    /\ Len(loads) < MaxLoads
    /\ loads' = Append(loads, blocks)

\* The raw blocks of a source get a reference to its manager each.
RawBlock(block, ref) ==
    [nr |-> block.nr, fault |-> block.fault, uses |-> block.uses, calls |-> block.calls, ref |-> ref]
RawBlocks(source, m) ==
    [kind \in BlockKinds |-> [i \in 1..Len(source[kind]) |-> RawBlock(source[kind][i], RawRef(m, kind, i))]]

\* The program with the raw blocks of a source added.
AddRaw(z, source, m) ==
    [z EXCEPT !.pending = [kind \in BlockKinds |-> @[kind] \o RawBlocks(source, m)[kind]],
              !.refs = @ \cup UNION {{RawRef(m, kind, i) : i \in 1..Len(source[kind])} : kind \in BlockKinds}]

\* The blocks are added and built; the manager is listed only after that, and
\* only if no exception was raised.
LoadAwlSource(source) ==
    LET m == Len(loads) + 1
        added == AddRaw(Program, source, m)
        z == IF NeedRebuild THEN Build(added, symbolTable) ELSE added
    IN  /\ NewLoad(source)
        /\ Becomes(z)
        /\ IF z.ok THEN /\ awlSources' = z.listed \cup {m}
                        /\ UNCHANGED <<runState, failed>>
           ELSE /\ awlSources' = z.listed
                /\ runState' = "STOP" /\ failed' = failed \cup {m}
        /\ UNCHANGED <<needStartup, symbolTable, symSources, libSelections>>

\* The symbols are merged one by one, up to one that is known already.  No
\* block refers to a symbol table, and nothing is built.
LoadSymTabSource(table) ==
    LET m == Len(loads) + 1
        known == {i \in DOMAIN table : table[i] \in symbolTable}
        merged == {table[i] : i \in {j \in DOMAIN table : \A k \in known : j < k}}
    IN  /\ NewLoad(NoBlocks)
        /\ runState' = "STOP"
        /\ symbolTable' = symbolTable \cup merged
        /\ IF known = {} THEN symSources' = symSources \cup {m} /\ UNCHANGED failed
           ELSE failed' = failed \cup {m} /\ UNCHANGED symSources
        /\ UNCHANGED <<needStartup, pending, pendingLibs, cpu, refs, dead, awlSources, libSelections, crashed>>

SelectLibraryBlock(name) ==
    /\ Len(libSelections) < MaxLibraries
    /\ runState' = "STOP"
    /\ pendingLibs' = Append(pendingLibs, name)
    /\ libSelections' = Append(libSelections, name)
    /\ UNCHANGED <<needStartup, pending, symbolTable, cpu, refs, dead,
                   awlSources, symSources, loads, failed, crashed>>

\* The startup builds what is pending.
StartProgram ==
    /\ runState \in {"STOP", "MAINTENANCE"}
    /\ LET z == IF needStartup THEN Build(Program, symbolTable) ELSE Program
       IN  /\ Becomes(z)
           /\ awlSources' = z.listed
           /\ runState' = (IF z.ok THEN "RUN" ELSE "STOP")
           /\ needStartup' = (needStartup /\ ~z.ok)
    /\ UNCHANGED <<symbolTable, symSources, libSelections, loads, failed>>

StopProgram ==
    /\ runState # "STOP"
    /\ runState' = "STOP"
    /\ UNCHANGED <<needStartup, pending, pendingLibs, symbolTable, cpu, refs, dead,
                   awlSources, symSources, libSelections, loads, failed, crashed>>

\* The running program asks for maintenance.
Maintenance ==
    /\ runState = "RUN"
    /\ runState' = "MAINTENANCE" /\ needStartup' = TRUE
    /\ UNCHANGED <<pending, pendingLibs, symbolTable, cpu, refs, dead,
                   awlSources, symSources, libSelections, loads, failed, crashed>>

\* Raw blocks, then blocks, give back their references; then the lists are
\* cleared.  destroy asserts that the reference is alive.
ResetProgram ==
    /\ runState' = "STOP"
    /\ LET raws == UNION {{pending[kind][i].ref : i \in DOMAIN pending[kind]} : kind \in BlockKinds}
           held == raws \cup {cpu[n].ref : n \in DOMAIN cpu}
       IN  IF raws \subseteq refs
           THEN /\ refs' = refs \ held
                /\ dead' = dead \cup {r.src : r \in {q \in refs : ~HasReferences(refs \ held, q.src)}}
                /\ pending' = NoBlocks /\ pendingLibs' = <<>> /\ symbolTable' = {} /\ cpu' = <<>>
                /\ awlSources' = {} /\ symSources' = {} /\ libSelections' = <<>>
                /\ needStartup' = TRUE
                /\ UNCHANGED crashed
           ELSE /\ crashed' = "reset"
                /\ UNCHANGED <<needStartup, pending, pendingLibs, symbolTable, cpu, refs, dead,
                               awlSources, symSources, libSelections>>
    /\ UNCHANGED <<loads, failed>>

DownloadNext ==
    /\ crashed = "no"
    /\ \/ \E s \in Sources : LoadAwlSource(s)
       \/ \E t \in Tables : LoadSymTabSource(t)
       \/ \E l \in Libraries : SelectLibraryBlock(l)
       \/ StartProgram
       \/ StopProgram
       \/ Maintenance
       \/ ResetProgram

-----------------------------------------------------------------------------
(* Properties.                                                             *)

\* The sources that a block of the CPU, or one yet to be built, came from.
InUse == {cpu[n].ref.src : n \in DOMAIN cpu}
         \cup UNION {{pending[kind][i].ref.src : i \in DOMAIN pending[kind]} : kind \in BlockKinds}

\* Whatever is loaded, replaced, rebuilt, refused half-way and reset, a
\* client is shown the sources that the program was made from, and no others:
\* a listed source still has its text and, unless it holds no blocks, some
\* block; and every block comes from a listed source, unless that source's
\* download was answered by an exception (SourceManager, SourceContainer).
SourcesListed ==
    crashed = "no" =>
        /\ \A m \in awlSources : m \notin dead /\ (loads[m] = NoBlocks \/ m \in InUse)
        /\ InUse \ ({NoSource} \cup failed) \subseteq awlSources

\* A reference is given back once ("assert(self.alive)" in destroy): a reset
\* never meets a raw block whose reference a block has inherited.
DestroyedOnce == crashed # "reset"

\* What a client was told is loaded is what runs.
RunsWhatIsLoaded == runState = "RUN" => pending = NoBlocks /\ pendingLibs = <<>>
=============================================================================
