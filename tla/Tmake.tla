------------------------------- MODULE Tmake -------------------------------
(* tmake.c around its job loops (those are in JobPool): which source files  *)
(* are compiled again, what is linked with what, the full build, the build  *)
(* of one program, and the installation.  Sources are edited and tmake is   *)
(* killed at any moment.                                                    *)
EXTENDS Integers, Sequences, FiniteSets, SequencesExt

CONSTANTS
    SourceUnits,      \* the .c and .S files, records [dir, name]
    HeaderFiles,      \* the headers, records of the same kind
    IncludedBy,       \* unit -> the headers it includes
    ListText,         \* directory -> the characters of its tmakelist
    Standalone,       \* the units with a run-time of their own (toyc_rt)
    CoreTools,        \* the names in g_core_tools
    MaxTargets,       \* MAX_TMAKELIST_TARGETS
    MaxTargetSources, \* MAX_TARGET_SOURCES
    MaxEdits, MaxBuilds    \* bounds: edits and builds

ASSUME TmakeAssumption ==
    /\ IsFiniteSet(SourceUnits) /\ IncludedBy \in [SourceUnits -> SUBSET HeaderFiles]
    /\ \A dir \in DOMAIN ListText : ListText[dir] \in Seq(ToSet(ListText[dir]))
    /\ IsFiniteSet(CoreTools) /\ \A tool \in CoreTools : tool \in Seq(ToSet(tool) \ {".new"})
    /\ {MaxTargets, MaxTargetSources} \subseteq Nat \ {0} /\ {MaxEdits, MaxBuilds} \subseteq Nat

Unit(dir, name) == [dir |-> dir, name |-> name]

\* The k-th of a set of numbers, and the elements of a sequence that are in a set.
Nth(set, k) == CHOOSE i \in set : Cardinality({j \in set : j < i}) = k - 1
Among(s, set) == LET at == {i \in DOMAIN s : s[i] \in set} IN [k \in 1 .. Cardinality(at) |-> s[Nth(at, k)]]

----------------------------------------------------------------------------
(* tmakelist: a line is "target: source source ...", "#" starts a comment  *)

Blank == {" ", "\t"}
WithoutBlanks(text) == Among(text, ToSet(text) \ Blank)
Places(text, c) == {i \in DOMAIN text : text[i] = c}
ListLines(text) ==
    LET ends == Places(text, "\n") \cup {0, Len(text) + 1}
    IN  [k \in 1 .. Cardinality(ends) - 1 |-> SubSeq(text, Nth(ends, k) + 1, Nth(ends, k + 1) - 1)]

\* The words of a list of sources: blanks part them and "#" ends them.
WordsOf(text) ==
    LET cut == Places(text, "#")
        used == IF cut = {} THEN text ELSE SubSeq(text, 1, Nth(cut, 1) - 1)
        starts == {i \in DOMAIN used : used[i] \notin Blank /\ (i = 1 \/ used[i - 1] \in Blank)}
        ends == {i \in DOMAIN used : used[i] \notin Blank /\ (i = Len(used) \/ used[i + 1] \in Blank)}
    IN  [k \in 1 .. Cardinality(starts) |-> SubSeq(used, Nth(starts, k), Nth(ends, k))]

\* The blanks in a target's name are dropped.
HasContent(line) == WithoutBlanks(line) # <<>> /\ WithoutBlanks(line)[1] # "#"
Colon(line) == Nth(Places(line, ":"), 1)
NameIn(line) == WithoutBlanks(SubSeq(line, 1, Colon(line) - 1))
SourcesIn(line) == WordsOf(SubSeq(line, Colon(line) + 1, Len(line)))
WellFormed(line) == Places(line, ":") # {} /\ NameIn(line) # <<>> /\ SourcesIn(line) # <<>>
TargetIn(line) ==
    [name |-> NameIn(line),
     srcs |-> IF Len(SourcesIn(line)) <= MaxTargetSources THEN SourcesIn(line) ELSE SubSeq(SourcesIn(line), 1, MaxTargetSources)]

\* One line that is wrong, or too many, make the whole file count as wrong.
ListRead(ok, list) == [ok |-> ok, list |-> list]
TargetsIn(lines, used) == [k \in 1 .. Cardinality(used) |-> TargetIn(lines[Nth(used, k)])]
ReadTmakelist_Slip(text) ==   \* Mutant: only the wrong line is passed over.
    LET lines == ListLines(text)
    IN  ListRead(TRUE, TargetsIn(lines, {i \in DOMAIN lines : HasContent(lines[i]) /\ WellFormed(lines[i])}))
ReadTmakelist(text) ==
    LET lines == ListLines(text)
        used == {i \in DOMAIN lines : HasContent(lines[i])}
    IN  IF Cardinality(used) <= MaxTargets /\ \A i \in used : WellFormed(lines[i]) THEN ListRead(TRUE, TargetsIn(lines, used))
        ELSE ListRead(FALSE, <<>>)

\* The list of a directory, empty where there is none or a wrong one.
ListOf(dir) == IF dir \in DOMAIN ListText THEN ReadTmakelist(ListText[dir]).list ELSE <<>>
TargetUnits(target) == {target.name} \cup ToSet(target.srcs)
HasSource(dir, name) == \E t \in ToSet(ListOf(dir)) : name \in TargetUnits(t)

\* What compile_recursive_task leaves of the files it has found.
Compiled(units) == {u \in units : ListOf(u.dir) = <<>> \/ HasSource(u.dir, u.name)}

----------------------------------------------------------------------------
(* link_recursive_task: the programs to link and the objects of each       *)

\* A target's own file, then its sources.
NamedUnits(dir, target) == [i \in 1 .. Len(target.srcs) + 1 |-> Unit(dir, IF i = 1 THEN target.name ELSE target.srcs[i - 1])]
LinkJobOf(dir, target, objects) ==
    [name |-> target.name, multi |-> TRUE, objs |-> Among(NamedUnits(dir, target), ToSet(objects))]

\* The target jobs: a directory counts as done once the object of its first
\* target has been taken.
GroupStep(objects, acc, u) ==
    LET list == ListOf(u.dir)
        jobs == SelectSeq([i \in DOMAIN list |-> LinkJobOf(u.dir, list[i], objects)], LAMBDA j : j.objs # <<>>)
    IN  IF u \in acc.handled \/ list = <<>> \/ Unit(u.dir, list[1].name) \in acc.handled THEN acc
        ELSE [jobs |-> acc.jobs \o jobs, handled |-> acc.handled \cup UNION {ToSet(jobs[i].objs) : i \in DOMAIN jobs}]
LinkJobs(objects) ==
    LET grouped == FoldLeft(LAMBDA acc, u : GroupStep(objects, acc, u), [jobs |-> <<>>, handled |-> {}], objects)
        singles == Among(objects, ToSet(objects) \ grouped.handled)
    IN  grouped.jobs \o [i \in DOMAIN singles |-> [name |-> singles[i].name, multi |-> FALSE, objs |-> <<singles[i]>>]]

----------------------------------------------------------------------------
VARIABLES
    edited,   \* source or header -> the tick of its last change (st_mtim)
    now,      \* the clock
    objectOf, \* unit -> its .o file, with the .d file beside it
    library,  \* build/lib/tlibc.a and its copy build/tlibc.a: what they are made of
    programs, \* build/output
    homeBin,  \* ~/tlibc/bin
    coreBin,  \* ~/.local/bin, the .new files included
    building, \* the build that runs, or the idle one
    edits, builds, \* counters of the bounds
    copyFailed     \* the tools whose copy was not complete, for the properties

buildVars == <<edited, now, objectOf, library, programs, homeBin, coreBin, building, edits, builds, copyFailed>>

Missing == [made |-> <<>>]
NoBuild == [stage |-> "idle"]
\* A file stands for the ticks of what it was made of.
Inputs(u) == {u} \cup IncludedBy[u]
Current(u) == [f \in Inputs(u) |-> edited[f]]
NoProgram == <<>>
CutShort == [objs |-> {}, lib |-> {}]
All == Unit("all", <<>>)
TheLibrary == {u \in SourceUnits : u.dir = "lib"}
TheApps == SourceUnits \ TheLibrary

BuildStart ==
    /\ edited = [f \in SourceUnits \cup HeaderFiles |-> 0] /\ now = 1 /\ edits = 0 /\ builds = 0
    /\ objectOf = [u \in SourceUnits |-> Missing] /\ library = [built |-> {}, copied |-> FALSE]
    /\ programs = NoProgram /\ homeBin = NoProgram /\ coreBin = NoProgram /\ building = NoBuild /\ copyFailed = {}

NewerDependency_Slip(u) == FALSE   \* Mutant: the .d file is not read.
\* The tick of the header is compared only if there is a .d file: gcc writes
\* one, toyc does not.
NewerDependency(u) == objectOf[u].deps /\ \E h \in IncludedBy[u] : edited[h] > objectOf[u].at
NeedsRebuild_Slip(u) == objectOf[u] = Missing \/ edited[u] > objectOf[u].at + 1   \* Mutant: a change in the next tick does not count.
NeedsRebuild(u) == objectOf[u] = Missing \/ edited[u] > objectOf[u].at \/ NewerDependency(u)

\* Somebody saves a file, at once or a tick later.
EditFile(f) ==
    /\ edits < MaxEdits
    /\ \E t \in {now, now + 1} : t > edited[f] /\ now' = t /\ edited' = [edited EXCEPT ![f] = t]
    /\ edits' = edits + 1
    /\ UNCHANGED <<objectOf, library, programs, homeBin, coreBin, building, builds, copyFailed>>

Go(b) == building' = b
At(stage) == building.stage = stage
ToStage(stage, more) == Go([building EXCEPT !.stage = stage, !.todo = more])
NewBuild(target, serial, gcc, stage, todo) ==
    [stage |-> stage, target |-> target, serial |-> serial, gcc |-> gcc, todo |-> todo, doing |-> Missing, failed |-> FALSE, begun |-> now]

\* The parts of a program, when it is built alone: its file, or that and the
\* sources there are of the first target that has its name.
OwnTargets(u) == {i \in DOMAIN ListOf(u.dir) : ListOf(u.dir)[i].name = u.name}
AloneParts(u) ==
    IF OwnTargets(u) = {} THEN <<u>>
    ELSE Among(NamedUnits(u.dir, ListOf(u.dir)[Nth(OwnTargets(u), 1)]), SourceUnits)

\* main: the full build removes what there was; -T keeps build/output.
FullBuild(serial, gcc) ==
    /\ At("idle") /\ builds < MaxBuilds /\ builds' = builds + 1
    /\ objectOf' = [u \in SourceUnits |-> Missing] /\ library' = [built |-> {}, copied |-> gcc = FALSE /\ library.copied]
    /\ programs' = IF gcc THEN NoProgram ELSE programs
    /\ Go(NewBuild(All, serial, gcc, "lib", SetToSeq(Compiled(TheLibrary))))
    /\ UNCHANGED <<edited, now, homeBin, coreBin, edits, copyFailed>>

\* The library is built if it was never there, and not brought up to date.
SingleBuild(u, serial, gcc) ==
    /\ At("idle") /\ builds < MaxBuilds /\ builds' = builds + 1
    /\ Go(IF library.copied THEN NewBuild(u, TRUE, gcc, "app", AloneParts(u))
          ELSE NewBuild(u, serial, gcc, "lib", SetToSeq(Compiled(TheLibrary))))
    /\ UNCHANGED <<edited, now, objectOf, library, programs, homeBin, coreBin, edits, copyFailed>>

BuildOver(result) == Go([stage |-> "idle", result |-> result, target |-> building.target, begun |-> building.begun])

\* compile_file_start: an object that is up to date is passed over.
CompileOne(u) ==
    /\ building.stage \in {"lib", "app"} /\ building.doing = Missing /\ ~building.failed
    /\ building.todo # <<>> /\ u = Head(building.todo)
    /\ Go([building EXCEPT !.todo = Tail(@),
              !.doing = IF NeedsRebuild(u) THEN [unit |-> u, made |-> Current(u), from |-> now] ELSE Missing])
    /\ UNCHANGED <<edited, now, objectOf, library, programs, homeBin, coreBin, edits, builds, copyFailed>>

\* The compiler ends well.
CompileEnds ==
    /\ building.stage \in {"lib", "app"} /\ building.doing # Missing
    /\ objectOf' = [objectOf EXCEPT ![building.doing.unit] = [made |-> building.doing.made, from |-> building.doing.from, at |-> now, deps |-> building.gcc]]
    /\ Go([building EXCEPT !.doing = Missing])
    /\ UNCHANGED <<edited, now, library, programs, homeBin, coreBin, edits, builds, copyFailed>>

\* It does not, and leaves no object: the serial loop leaves tmake if the
\* status is 256, and the build of one program ends.
CompileFails ==
    /\ building.stage \in {"lib", "app"} /\ building.doing # Missing
    /\ objectOf' = [objectOf EXCEPT ![building.doing.unit] = Missing]
    /\ \/ building.serial /\ BuildOver("exit")
       \/ IF building.stage = "app" /\ building.target # All THEN BuildOver("failed")
          ELSE Go([building EXCEPT !.doing = Missing, !.failed = TRUE])
    /\ UNCHANGED <<edited, now, library, programs, homeBin, coreBin, edits, builds, copyFailed>>

WithObject == {u \in SourceUnits : objectOf[u] # Missing}
ObjectFiles(units) == SetToSeq(units \cap WithObject)
CompiledAll(stage) == At(stage) /\ building.doing = Missing /\ (building.todo = <<>> \/ building.failed)

\* ar_library, then the copy: main does not look at what either returned,
\* nor at what compiling did.
ArchiveLibrary ==
    /\ CompiledAll("lib")
    /\ LET made == {objectOf[u].made : u \in TheLibrary \cap WithObject}
       IN  library' = IF made = {} THEN library ELSE [built |-> made, copied |-> TRUE]
    /\ Go([building EXCEPT !.stage = "app", !.failed = FALSE, !.serial = building.serial \/ building.target # All,
              !.todo = IF building.target = All THEN SetToSeq(Compiled(TheApps)) ELSE AloneParts(building.target)])
    /\ UNCHANGED <<edited, now, objectOf, programs, homeBin, coreBin, edits, builds, copyFailed>>

\* What a job links; only a target of several objects may do without the
\* library.
NeedsLibrary(job) == ~job.multi \/ \A u \in ToSet(job.objs) : u \notin Standalone
Linked(job) == [objs |-> {[unit |-> u, made |-> objectOf[u].made] : u \in ToSet(job.objs)}, lib |-> IF NeedsLibrary(job) THEN library.built ELSE {}]
Whole(job) == ~NeedsLibrary(job) \/ library.built # {}
LinkAll ==
    /\ CompiledAll("app") /\ building.target = All
    /\ ToStage("link", LinkJobs(ObjectFiles(TheApps)))
    /\ UNCHANGED <<edited, now, objectOf, library, programs, homeBin, coreBin, edits, builds, copyFailed>>
LinkAlone ==
    /\ CompiledAll("app") /\ building.target # All
    /\ ToStage("link", <<[name |-> building.target.name, multi |-> OwnTargets(building.target) # {}, objs |-> Among(AloneParts(building.target), WithObject)]>>)
    /\ UNCHANGED <<edited, now, objectOf, library, programs, homeBin, coreBin, edits, builds, copyFailed>>
Put(dir, name, file) == [n \in DOMAIN dir \cup {name} |-> IF n = name THEN file ELSE dir[n]]
ForHome == SetToSeq(IF building.target = All THEN DOMAIN programs ELSE {building.target.name})
LinkOne ==
    /\ At("link") /\ building.todo # <<>>
    /\ LET job == Head(building.todo)
       IN  \/ Whole(job) /\ programs' = Put(programs, job.name, Linked(job)) /\ ToStage("link", Tail(building.todo))
           \/ /\ UNCHANGED programs
              /\ IF building.target = All THEN Go([building EXCEPT !.todo = <<>>, !.failed = TRUE]) ELSE BuildOver("failed")
    /\ UNCHANGED <<edited, now, objectOf, library, homeBin, coreBin, edits, builds, copyFailed>>

\* install: the directory is removed first; main installs what there is.
StartInstall ==
    /\ At("link") /\ building.todo = <<>>
    /\ homeBin' = IF building.target = All THEN NoProgram ELSE homeBin
    /\ ToStage("install", ForHome)
    /\ UNCHANGED <<edited, now, objectOf, library, programs, coreBin, edits, builds, copyFailed>>
InstallOne ==
    /\ At("install") /\ building.todo # <<>>
    /\ homeBin' = Put(homeBin, Head(building.todo), programs[Head(building.todo)])
    /\ ToStage("install", Tail(building.todo))
    /\ UNCHANGED <<edited, now, objectOf, library, programs, coreBin, edits, builds, copyFailed>>
StartCore ==
    /\ At("install") /\ building.todo = <<>>
    /\ ToStage("core", SetToSeq(CoreTools \cap DOMAIN programs))
    /\ UNCHANGED <<edited, now, objectOf, library, programs, homeBin, coreBin, edits, builds, copyFailed>>

\* install_core_tools: the copy gets another name first and is renamed then;
\* tlibc_copy_exe_file says 0 whatever happened.
NewName(tool) == <<".new">> \o tool
CoreCopyTo_Slip(tool) == tool   \* Mutant: the program in use is written over.
CoreCopyTo(tool) == NewName(tool)
CopyCore ==
    /\ At("core") /\ building.todo # <<>>
    /\ LET tool == Head(building.todo)
       IN  \/ coreBin' = Put(coreBin, CoreCopyTo(tool), programs[tool]) /\ UNCHANGED copyFailed
           \/ coreBin' = Put(coreBin, CoreCopyTo(tool), CutShort) /\ copyFailed' = copyFailed \cup {tool}
           \/ coreBin' = Put(coreBin, CoreCopyTo(tool), CutShort) /\ UNCHANGED copyFailed   \* not at its end yet
    /\ Go([building EXCEPT !.stage = "rename"])
    /\ UNCHANGED <<edited, now, objectOf, library, programs, homeBin, edits, builds>>
Copied(tool) == coreBin[CoreCopyTo(tool)] # CutShort \/ tool \in copyFailed
RenameCore ==
    /\ At("rename")
    /\ LET tool == Head(building.todo)
           from == CoreCopyTo(tool)
       IN  /\ Copied(tool)
           /\ coreBin' = [n \in (DOMAIN coreBin \ {from}) \cup {tool} |-> IF n = tool THEN coreBin[from] ELSE coreBin[n]]
           /\ Go([building EXCEPT !.stage = "core", !.todo = Tail(@)])
    /\ UNCHANGED <<edited, now, objectOf, library, programs, homeBin, edits, builds, copyFailed>>
CopyCoreEnds ==
    /\ At("rename") /\ ~Copied(Head(building.todo))
    /\ coreBin' = Put(coreBin, CoreCopyTo(Head(building.todo)), programs[Head(building.todo)])
    /\ UNCHANGED <<edited, now, objectOf, library, programs, homeBin, building, edits, builds, copyFailed>>
BuildEnds ==
    /\ At("core") /\ building.todo = <<>> /\ BuildOver("done")
    /\ UNCHANGED <<edited, now, objectOf, library, programs, homeBin, coreBin, edits, builds, copyFailed>>

\* tmake is killed; what its compiler writes counts as not written, and a
\* copy is cut short.
KillBuild ==
    /\ ~At("idle") /\ BuildOver("killed")
    /\ homeBin' = IF At("install") /\ building.todo # <<>> THEN Put(homeBin, Head(building.todo), CutShort) ELSE homeBin
    /\ UNCHANGED <<edited, now, objectOf, library, programs, coreBin, edits, builds, copyFailed>>

BuildGoesOn ==
    \/ \E u \in SourceUnits : CompileOne(u)
    \/ CompileEnds \/ CompileFails \/ ArchiveLibrary \/ LinkAll \/ LinkAlone \/ LinkOne
    \/ StartInstall \/ InstallOne \/ StartCore \/ CopyCore \/ CopyCoreEnds \/ RenameCore
    \/ BuildEnds \/ KillBuild
BuildNext ==
    \/ \E f \in SourceUnits \cup HeaderFiles : EditFile(f)
    \/ \E serial, gcc \in BOOLEAN : FullBuild(serial, gcc) \/ \E u \in TheApps : SingleBuild(u, serial, gcc)
    \/ BuildGoesOn

BuildSpec == BuildStart /\ [][BuildNext]_buildVars

----------------------------------------------------------------------------
(* Properties                                                              *)

\* An object that is passed over was made of the files as they are, except
\* for a file that was saved while it was being compiled or in the same tick,
\* and for the headers if there is no .d file: such a change is never noticed
\* (needs_rebuild).
Unnoticed(u, f) ==
    \/ edited[f] \in objectOf[u].from .. objectOf[u].at
    \/ f \in HeaderFiles /\ ~objectOf[u].deps
PassedOverIsCurrent ==
    \A u \in SourceUnits :
        ~NeedsRebuild(u) => \A f \in Inputs(u) : objectOf[u].made[f] = edited[f] \/ Unnoticed(u, f)

\* The build of one program that says it is done has linked all the parts of
\* that program, as they were when it began.
SingleIsCurrent ==
    building.stage = "idle" /\ builds > 0 /\ building.result = "done" /\ building.target # All =>
        LET objs == programs[building.target.name].objs
        IN  /\ {o.unit : o \in objs} = ToSet(AloneParts(building.target))
            /\ \A o \in objs : \A f \in Inputs(o.unit) :
                o.made[f] = edited[f] \/ Unnoticed(o.unit, f) \/ edited[f] >= building.begun

\* What is linked: a program once, with the objects its tmakelist names and
\* no others, if all of those are there.
Targets == {[dir |-> d, target |-> t] : d \in {u.dir : u \in SourceUnits}, t \in UNION {ToSet(ListOf(u.dir)) : u \in SourceUnits}}
WholeDirs(objects) == \A u \in Compiled(SourceUnits) : ListOf(u.dir) # <<>> => u \in ToSet(objects)
LinkedRight(objects, jobs) ==
    /\ \A i, j \in DOMAIN jobs : jobs[i].name = jobs[j].name => i = j
    /\ UNION {ToSet(jobs[i].objs) : i \in DOMAIN jobs} = ToSet(objects)
    /\ \A t \in Targets : t.target \in ToSet(ListOf(t.dir)) =>
            \E i \in DOMAIN jobs : jobs[i].name = t.target.name /\ ToSet(jobs[i].objs) = {Unit(t.dir, n) : n \in TargetUnits(t.target)}
LinkedFrom(objects) == WholeDirs(objects) => LinkedRight(objects, LinkJobs(objects))
LinkedOnce == LinkedFrom(ObjectFiles(TheApps))

\* A tmakelist is read as it was written, whatever blanks and comments stand
\* in it; with one wrong line nothing of it is used.
WrittenLine(target, gap) == target.name \o gap \o <<":">> \o FlattenSeq([i \in DOMAIN target.srcs |-> gap \o target.srcs[i] \o <<" ">>]) \o <<"#", ":", "\n">>
ReadAsWritten ==
    \A a, b \in {<<"a">>, <<"a", "b">>}, gap \in {<<>>, <<" ">>, <<"\t", " ">>} :
        \A list \in SeqOf({[name |-> a, srcs |-> <<b>>], [name |-> b, srcs |-> <<a, b>>]}, 2) :
            LET text == FlattenSeq([i \in DOMAIN list |-> gap \o <<"\n">> \o gap \o WrittenLine(list[i], gap)])
            IN  /\ ReadTmakelist(text) = ListRead(TRUE, list)
                /\ \A line \in {<<"a", "\n">>, <<"a", ":", "#", "\n">>, <<":", "a">>} : ReadTmakelist(text \o line) = ListRead(FALSE, <<>>)

\* At every moment a core tool in ~/.local/bin is a whole program, the old
\* one or the new one, as long as no copy has failed.
CoreToolsWhole == \A tool \in CoreTools \cap DOMAIN coreBin : coreBin[tool] = CutShort => tool \in copyFailed

\* Each build: no stale object is used, the parts of a program are all linked,
\* a tool is replaced as a whole.
BuildSound == PassedOverIsCurrent /\ SingleIsCurrent /\ CoreToolsWhole

\* The tmakelist: it is read as it was written, and each of its targets is
\* linked once.
TargetsSound == (edits = 0 /\ builds = 0 => ReadAsWritten) /\ LinkedOnce
=============================================================================
