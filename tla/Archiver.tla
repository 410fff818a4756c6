------------------------------ MODULE Archiver ------------------------------
(***************************************************************************)
(* app/compiler/toyar.c: replace or add members of an archive, with or     *)
(* without its symbol table, and extract them; and the scan by which this  *)
(* program and toyld (read_archive of each) find the members again.        *)
(*                                                                         *)
(* A member's body is its size and the names it exports; positions in the  *)
(* archive are kept exactly.  Files change between two commands.           *)
(***************************************************************************)
EXTENDS Integers, SequencesExt, FiniteSetsExt

CONSTANTS
    Bodies,       \* what a file may hold: [size, exports], exports a sequence
    Files,        \* names of the files that are archived
    LongNames,    \* those of more than 15 characters
    MaxMembers,   \* MAX_MEMBERS
    MaxCommands   \* bound: commands in a behaviour

VARIABLES
    disk,         \* file name -> body, for the files there are
    archive,      \* the archive's members in order, its symbol table and
                  \* whether it was written in full
    command,      \* the command in progress: its files still to do, its flags
    memory        \* members[]

archiveVars == <<disk, archive, command, memory>>

Absent == [state |-> "absent", members |-> <<>>, table |-> <<>>]

ArchiveStart(files) ==
    /\ disk = files
    /\ archive = Absent
    /\ command = [at |-> "idle", todo |-> <<>>, sym |-> FALSE, count |-> 0]
    /\ memory = <<>>

Idle == command.at = "idle"
ArExit == command' = [command EXCEPT !.at = "idle"]

\* read_archive: a damaged archive is refused; the symbol table is skipped.
\* The files to do are read one after the other.
Replace(files, sym) ==
    /\ Idle /\ command.count < MaxCommands /\ archive.state # "damaged"
    /\ memory' = archive.members
    /\ command' = [at |-> "add", todo |-> files, sym |-> sym, count |-> command.count + 1]
    /\ UNCHANGED <<disk, archive>>

\* One file: the member of that name goes, a new one is added at the end.  A
\* file that cannot be read, a long name, too many members end the command.
Without(ms, name) == SelectSeq(ms, LAMBDA m : m.name # name)
\* Mutant: the old member stays.
AddMember_Slip ==
    /\ command.at = "add" /\ command.todo # <<>>
    /\ LET name == Head(command.todo)
       IN  IF name \notin DOMAIN disk \/ name \in LongNames \/ Len(memory) = MaxMembers
           THEN ArExit /\ memory' = <<>>
           ELSE /\ memory' = Append(memory, [name |-> name, body |-> disk[name]])
                /\ command' = [command EXCEPT !.todo = Tail(@)]
    /\ UNCHANGED <<disk, archive>>
AddMember ==
    /\ command.at = "add" /\ command.todo # <<>>
    /\ LET name == Head(command.todo)
           kept == Without(memory, name)
       IN  IF name \notin DOMAIN disk \/ name \in LongNames \/ Len(kept) = MaxMembers
           THEN ArExit /\ memory' = <<>>
           ELSE /\ memory' = Append(kept, [name |-> name, body |-> disk[name]])
                /\ command' = [command EXCEPT !.todo = Tail(@)]
    /\ UNCHANGED <<disk, archive>>

----------------------------------------------------------------------------
(* Layout                                                                  *)

Header == 60
Magic == 8
Even(p) == p + (p % 2)

\* Names have two characters here, and a zero byte.
NameBytes == 3

\* The symbols of all members, member by member; write_archive then sorts
\* them by name, which changes nothing for those who look a name up.
SymbolsOf(ms) ==
    FlattenSeq([i \in DOMAIN ms |->
        [k \in DOMAIN ms[i].body.exports |-> [name |-> ms[i].body.exports[k], member |-> i]]])

\* Phase 4: where the members' headers go.
\* Mutant: without the padding after the symbol table.
FirstHeader_Slip(syms) ==
    IF syms = <<>> THEN Magic ELSE Magic + Header + 4 + Len(syms) * (4 + NameBytes)
FirstHeader(syms) ==
    IF syms = <<>> THEN Magic ELSE Even(Magic + Header + 4 + Len(syms) * (4 + NameBytes))
HeaderAt(ms, syms, i) ==
    FoldLeft(LAMBDA p, m : Even(p + Header + m.body.size), FirstHeader(syms), SubSeq(ms, 1, i - 1))

\* write_archive: the file is truncated and written; the disk may be full.
WriteArchive ==
    /\ command.at = "add" /\ command.todo = <<>>
    /\ LET syms == IF command.sym THEN SymbolsOf(memory) ELSE <<>>
           written == [state |-> "whole", members |-> memory,
                       table |-> [k \in DOMAIN syms |->
                                     [name |-> syms[k].name, at |-> HeaderAt(memory, syms, syms[k].member)]]]
       IN  archive' \in {written, [written EXCEPT !.state = "damaged"]}
    /\ ArExit
    /\ memory' = <<>>
    /\ UNCHANGED disk

\* Each member becomes a file of its name.
Extract ==
    /\ Idle /\ command.count < MaxCommands /\ archive.state = "whole"
    /\ disk' = FoldLeft(LAMBDA d, m : (m.name :> m.body) @@ d, disk, archive.members)
    /\ command' = [command EXCEPT !.count = @ + 1]
    /\ UNCHANGED <<archive, memory>>

\* A file is compiled again or removed while no command runs.
FileChanges == \E f \in Files :
    /\ Idle /\ command.count < MaxCommands
    /\ \/ \E b \in Bodies : disk' = (f :> b) @@ disk
       \/ disk' = [g \in DOMAIN disk \ {f} |-> disk[g]]
    /\ UNCHANGED <<archive, command, memory>>

ArchiveNext ==
    \/ \E f, g \in Files, sym \in BOOLEAN : Replace(<<f>>, sym) \/ Replace(<<f, g>>, sym)
    \/ AddMember \/ WriteArchive \/ Extract \/ FileChanges

----------------------------------------------------------------------------
(* Properties                                                              *)

\* toyld's scan of a file of this layout: header after header, each at the
\* end of the last member, rounded up to even.  The symbol table is a member
\* of its own.
Scan[n \in Nat] ==
    IF n = 0
    THEN IF archive.table = <<>> THEN Magic
         ELSE LET after == Magic + Header + 4 + Len(archive.table) * (4 + NameBytes)
              IN  after + (after % 2)
    ELSE LET after == Scan[n - 1] + Header + archive.members[n].body.size
         IN  after + (after % 2)

\* The archive holds one member per name, and its symbol table leads from
\* each name some member exports to the header of a member that exports it,
\* at the very position where toyld comes upon that header.
ArchiveSound ==
    archive.state = "whole" =>
        /\ \A i, j \in DOMAIN archive.members :
               i # j => archive.members[i].name # archive.members[j].name
        /\ archive.table # <<>> =>
               \A i \in DOMAIN archive.members : \A s \in ToSet(archive.members[i].body.exports) :
                   \E k \in DOMAIN archive.table :
                       archive.table[k].name = s /\ archive.table[k].at = Scan[i - 1]
=============================================================================
