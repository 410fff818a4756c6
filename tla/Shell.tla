-------------------------------- MODULE Shell --------------------------------
(***************************************************************************)
(* The shell (src/app/shell.c): the line that is typed, what it is split   *)
(* into, the program that is found for it, the one child and the mode of   *)
(* the terminal that both share (src/lib/tty.c).  A line is a sequence of  *)
(* characters of a small alphabet; the line "q" stands for "exit" too.     *)
(***************************************************************************)
EXTENDS Integers, Sequences, FiniteSets, SequencesExt, FiniteSetsExt

CONSTANTS
    Chars,          \* the characters there are, " " and "/" among them
    MaxLine,        \* bound: characters of a line (the buffer holds far more)
    NameMax,        \* COMMAND_MAX_LEN
    MaxArgs,        \* MAX_ARGS
    BuiltIns,       \* internal_command_table
    Directories,    \* the files: [directory, as it is spelt -> [name -> "file", "exec" or "dir"]]
    Path            \* the PATH lines of the configuration: directories

Blank == " "
Slash == "/"
Dot == "."
\* A name has a character, and no slash.
ASSUME FilesAssumption ==
    /\ \A dir \in DOMAIN Directories : \A name \in DOMAIN Directories[dir] :
           /\ name \in Seq(Chars \ {Slash}) /\ name # <<>>
           /\ Directories[dir][name] \in {"file", "exec", "dir"}
    /\ Path \in Seq(ToSet(Path))

VARIABLES
    shell,          \* the shell process: what it does, its line, saved[0]
    child,          \* the process it forked
    term,           \* the mode of the terminal: cooked or raw
    stuck           \* a line without a program, or a program, left the terminal raw
shellVars == <<shell, child, term, stuck>>

NoChild == [at |-> "none", saved |-> "none", args |-> <<>>, path |-> <<>>, killed |-> FALSE]
ShellStart ==
    /\ shell = [at |-> "prompt", line |-> <<>>, saved |-> "none"]
    /\ child = NoChild
    /\ term = "cooked"
    /\ stuck = FALSE

----------------------------------------------------------------------------
(* Lines and names                                                         *)

FirstBlank(s, i) == Min({Len(s) + 1} \cup {j \in i .. Len(s) : s[j] = Blank})
Begins(s) == {1} \cup {i \in 2 .. Len(s) : s[i] # Blank /\ s[i - 1] = Blank}
\* parse_cmd: args[], by where a word begins.  Each word ends at its blank,
\* but nothing ends the last one.  A line that begins with a blank has an
\* empty name.
ParseCmd(s) ==
    [code |-> IF FirstBlank(s, 1) - 1 > NameMax THEN "name too long" ELSE "ok",
     args |-> [i \in Begins(s) |->
                  SubSeq(s, i, IF \E j \in Begins(s) : j > i THEN FirstBlank(s, i) - 1 ELSE Len(s))]]

Slashes(s) == {i \in DOMAIN s : s[i] = Slash}
LastOf(set) == Max({0} \cup set)
FinalPart(s) == SubSeq(s, LastOf(Slashes(s)) + 1, Len(s))
\* The directory that a word leads to: "." without a slash.
DirPart(s) == IF Slashes(s) = {} THEN <<Dot>> ELSE IF LastOf(Slashes(s)) = 1 THEN <<Slash>> ELSE SubSeq(s, 1, LastOf(Slashes(s)) - 1)
Listing(dir) == IF dir \in DOMAIN Directories THEN Directories[dir] ELSE <<>>
KindOf(dir, name) == IF name \in DOMAIN Listing(dir) THEN Listing(dir)[name] ELSE "absent"
Kind(name) ==
    IF name = <<>> THEN "absent"
    ELSE IF FinalPart(name) # <<>> THEN KindOf(DirPart(name), FinalPart(name))
    ELSE IF DirPart(name) \in DOMAIN Directories THEN "dir" ELSE "absent"

LastWord(s) == SubSeq(s, LastOf({i \in DOMAIN s : s[i] = Blank}) + 1, Len(s))

\* The names that tab_complete has read after k directories of PATH, each as
\* often as it was listed; getdents64 lists "." and ".." too.
Entries(dir) == DOMAIN Listing(dir) \cup {<<Dot>>, <<Dot, Dot>>}
Gathered(dir, k) ==
    {<<0, n>> : n \in Entries(dir)}
    \cup UNION {{<<j, n>> : n \in Entries(Path[j])} : j \in {i \in 1 .. k : Path[i] \in DOMAIN Directories}}
\* Those that begin with what the line has from position at on, where the
\* last part of its last word begins.  The only one is filled in.
Matching(s, at, names) == {e \in names : IsPrefix(SubSeq(s, at, Len(s)), e[2])}
Completed(s, at, names) ==
    LET found == Matching(s, at, names)
        name == (CHOOSE e \in found : TRUE)[2]
    IN  IF \E e \in found : found = {e} THEN s \o SubSeq(name, Len(s) - at + 2, Len(name)) ELSE s
\* A match in one directory of PATH does not end the search in the others.
AlongPath(s, at, dir) ==
    LET line[k \in 0 .. Len(Path)] ==
            IF k = 0 THEN s
            ELSE IF Path[k] \in DOMAIN Directories THEN Completed(line[k - 1], at, Gathered(dir, k)) ELSE line[k - 1]
    IN  line[Len(Path)]
\* PATH is looked through for the only word of a line, when nothing fits in
\* the directory that it leads to.
TabComplete(s) ==
    LET word == LastWord(s)
        dir == DirPart(word)
        at == Len(s) - Len(FinalPart(word)) + 1
    IN  IF word = <<>> \/ dir \notin DOMAIN Directories THEN s
        ELSE IF Matching(s, at, Gathered(dir, 0)) # {} THEN Completed(s, at, Gathered(dir, 0))
        ELSE IF word[1] = Slash \/ \E i \in DOMAIN s : s[i] = Blank THEN s
        ELSE AlongPath(s, at, dir)

----------------------------------------------------------------------------
(* The shell                                                               *)

\* The top of main's loop: saves the mode found, whatever it is.
Prompt ==
    /\ shell.at = "prompt"
    /\ shell' = [at |-> "typing", line |-> <<>>, saved |-> term]
    /\ term' = "raw"
    /\ UNCHANGED <<child, stuck>>

Restored(saved) == IF saved = "none" THEN term ELSE saved
\* tlibc_restore_term and the end.
Leave ==
    /\ shell' = [shell EXCEPT !.at = IF shell.at = "typing" THEN "exited" ELSE "killed", !.saved = "none"]
    /\ term' = Restored(shell.saved)
    /\ UNCHANGED <<child, stuck>>

TypeChar(c) ==
    /\ shell.at = "typing" /\ Len(shell.line) < MaxLine
    /\ shell' = [shell EXCEPT !.line = Append(@, c)]
    /\ UNCHANGED <<child, term, stuck>>
Backspace ==
    /\ shell.at = "typing" /\ shell.line # <<>>
    /\ shell' = [shell EXCEPT !.line = Front(@)]
    /\ UNCHANGED <<child, term, stuck>>
Tab ==
    /\ shell.at = "typing" /\ Len(TabComplete(shell.line)) <= MaxLine
    /\ shell' = [shell EXCEPT !.line = TabComplete(@)]
    /\ UNCHANGED <<child, term, stuck>>
\* Ctrl-C is a character of a raw terminal.
CancelLine ==
    /\ shell.at = "typing"
    /\ shell' = [shell EXCEPT !.line = <<>>]
    /\ UNCHANGED <<child, term, stuck>>
EndOfFile == shell.at = "typing" /\ shell.line = <<>> /\ Leave

\* The end of a turn that runs no program.
NoProgram == shell' = [shell EXCEPT !.at = "prompt"] /\ stuck' = TRUE /\ UNCHANGED <<child, term>>
GoesTo(where) == shell' = [shell EXCEPT !.at = where] /\ UNCHANGED <<child, term, stuck>>
\* Enter, up to the fork: a line may be empty, too long a name, built in;
\* more than MAX_ARGS words overwrite what is behind args[].
Enter ==
    /\ shell.at = "typing"
    /\ LET cmd == ParseCmd(shell.line)
       IN  IF shell.line = <<"q">> THEN Leave
           ELSE IF shell.line = <<>> \/ cmd.code # "ok" THEN NoProgram
           ELSE IF Cardinality(DOMAIN cmd.args) > MaxArgs THEN GoesTo("corrupt")
           ELSE IF cmd.args[1] \in BuiltIns THEN NoProgram
           ELSE GoesTo("fork")

\* run_command; without a child waitpid's failure passes for success.
Fork ==
    /\ shell.at = "fork"
    /\ shell' = [shell EXCEPT !.at = "wait"]
    /\ child' = [NoChild EXCEPT !.at = "forked", !.saved = shell.saved, !.args = ParseCmd(shell.line).args]
    /\ UNCHANGED <<term, stuck>>
ForkFails == shell.at = "fork" /\ NoProgram

Wait ==
    /\ shell.at = "wait" /\ child.at = "zombie"
    /\ shell' = [shell EXCEPT !.at = IF child.killed THEN "panic" ELSE "prompt"]
    /\ child' = NoChild
    /\ UNCHANGED <<term, stuck>>

\* The child up to execve.
ChildRestores ==
    /\ child.at = "forked"
    /\ child' = [child EXCEPT !.at = "search", !.saved = "none"]
    /\ term' = Restored(child.saved)
    /\ UNCHANGED <<shell, stuck>>

\* The directories of PATH that have a file of that name.
Offering(name) == {i \in DOMAIN Path : KindOf(Path[i], name) \in {"file", "exec"}}
\* Mutant: the last directory of PATH wins.
InPath_Slip(name) == LastOf(Offering(name))
InPath(name) == IF Offering(name) = {} THEN 0 ELSE Min(Offering(name))
\* The file to execute: <<>> when none is found.  A name that exists in the
\* current directory, a directory even, goes before PATH.
Found(name) ==
    IF Kind(name) # "absent" THEN <<DirPart(name), FinalPart(name)>>
    ELSE IF name # <<>> /\ name[1] \in {Slash, Dot} THEN <<>>
    ELSE IF InPath(name) = 0 THEN <<>>
    ELSE <<Path[InPath(name)], name>>
ChildExecs ==
    /\ child.at = "search"
    /\ LET found == Found(child.args[1])
       IN  IF found # <<>> /\ KindOf(found[1], found[2]) = "exec"
           THEN child' = [child EXCEPT !.at = "running", !.path = found]
           ELSE child' = [child EXCEPT !.at = "zombie"]
    /\ UNCHANGED <<shell, term, stuck>>

\* The program: it may change the terminal, exits or is killed.
ProgramSets(mode) ==
    /\ child.at = "running"
    /\ term' = mode
    /\ stuck' = (mode = "raw")
    /\ UNCHANGED <<shell, child>>
ProgramEnds(killed) ==
    /\ child.at = "running"
    /\ child' = [child EXCEPT !.at = "zombie", !.killed = killed]
    /\ UNCHANGED <<shell, term, stuck>>

\* sigint_handler, inherited by the child until it executes the program.
ShellKilled ==
    /\ shell.at \in {"prompt", "typing", "fork", "wait"}
    /\ Leave
ChildKilled ==
    /\ child.at \in {"forked", "search"}
    /\ child' = [child EXCEPT !.at = "zombie", !.saved = "none"]
    /\ term' = Restored(child.saved)
    /\ UNCHANGED <<shell, stuck>>

ShellNext ==
    \/ Prompt \/ (\E c \in Chars : TypeChar(c)) \/ Backspace \/ Tab \/ CancelLine \/ EndOfFile \/ Enter
    \/ Fork \/ ForkFails \/ Wait \/ ChildRestores \/ ChildExecs \/ ShellKilled \/ ChildKilled
    \/ (\E m \in {"raw", "cooked"} : ProgramSets(m)) \/ (\E k \in BOOLEAN : ProgramEnds(k))

ShellSpec == ShellStart /\ [][ShellNext]_shellVars

----------------------------------------------------------------------------
(* Properties                                                              *)

\* The words of a line, by where they begin.
WordsOf(s) ==
    [i \in {j \in DOMAIN s : s[j] # Blank /\ (j = 1 \/ s[j - 1] = Blank)} |-> SubSeq(s, i, FirstBlank(s, i) - 1)]
OuterBlank(s) == s # <<>> /\ (s[1] = Blank \/ s[Len(s)] = Blank)

\* The terminal that the shell and its children leave behind is the one that
\* the user had, unless a line came that ran no program: then the next
\* prompt saves the raw mode it finds, and nothing but a program brings the
\* other back.  (A signal between two lines finds it half way.)
TerminalRestored ==
    /\ shell.at = "exited" /\ child.at = "none" => (term = "raw" <=> stuck)
    /\ child.at \in {"search", "running"} /\ shell.at = "wait" => (term = "raw" <=> stuck)

\* What runs is the program of the line's first word, with its words: the
\* file of that name if there is one, else the first in PATH.  Blanks around
\* the line become part of the words.
RunsTheCommand ==
    child.at = "running" /\ shell.at = "wait" =>
        LET name == child.args[1]
        IN  /\ child.args = WordsOf(shell.line) <=> ~OuterBlank(shell.line)
            /\ IF Kind(name) # "absent" THEN child.path = <<DirPart(name), FinalPart(name)>>
               ELSE \E i \in DOMAIN Path :
                        /\ child.path = <<Path[i], name>>
                        /\ \A j \in 1 .. i - 1 : KindOf(Path[j], name) \notin {"file", "exec"}

\* Completion only adds to a line, and what it makes of the last word is a
\* file that exists where the word leads or, for the first word, in PATH (a
\* first word with a slash is completed from PATH as well).
CompletesToFiles ==
    shell.at = "typing" =>
        LET s == shell.line
            c == TabComplete(s)
            w == LastWord(s) \o SubSeq(c, Len(s) + 1, Len(c))
        IN  /\ IsPrefix(s, c)
            /\ c # s =>
                   Kind(w) # "absent" \/ (c = w /\ \E d \in ToSet(Path) : KindOf(d, FinalPart(w)) # "absent")

\* The shell runs the command that was typed and gives the terminal back.
ShellSound == TerminalRestored /\ RunsTheCommand /\ CompletesToFiles
=============================================================================
