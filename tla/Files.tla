-------------------------------- MODULE Files --------------------------------
(***************************************************************************)
(* The helpers on files and directories (src/lib/misc/file.c) over a small *)
(* file system: a function from paths, sequences of names, to what is      *)
(* there.  <<>> is the root.  stat, open and chmod follow links; unlinkat  *)
(* and mkdirat do not.                                                     *)
(***************************************************************************)
EXTENDS Integers, Sequences, FiniteSets, SequencesExt, FiniteSetsExt

CONSTANTS
    LinkMax,        \* links that the kernel follows in one look-up
    Batch           \* entries that one getdents64 returns

Nowhere == <<"nowhere">>
File(data) == [kind |-> "file", data |-> data]
Dir == [kind |-> "dir", locked |-> FALSE]
Locked == [kind |-> "dir", locked |-> TRUE]     \* nothing in it can be created or removed
Link(to) == [kind |-> "link", to |-> to]

RECURSIVE Lookup(_, _, _, _)
\* What the kernel finds: the place that the rest of a path leads to from a
\* directory.
Lookup(fs, dir, rest, links) ==
    IF rest = <<>> THEN dir
    ELSE LET place == Append(dir, Head(rest))
         IN  CASE place \notin DOMAIN fs -> Nowhere
               [] place \in DOMAIN fs /\ fs[place].kind = "link" ->
                    IF links = 0 THEN Nowhere ELSE Lookup(fs, <<>>, fs[place].to \o Tail(rest), links - 1)
               [] OTHER -> Lookup(fs, place, Tail(rest), links)
StatAt(fs, path) == Lookup(fs, <<>>, path, LinkMax)
\* The place of a name, whatever it is itself.
Entry(fs, path) == LET dir == StatAt(fs, Front(path)) IN IF dir = Nowhere \/ fs[dir].kind # "dir" THEN Nowhere ELSE Append(dir, Last(path))

Is(fs, path, kind) == CASE StatAt(fs, path) = Nowhere -> -1 [] StatAt(fs, path) # Nowhere /\ fs[StatAt(fs, path)].kind = kind -> 1 [] OTHER -> 0
IsPathDir(fs, path) == Is(fs, path, "dir")
IsPathFile(fs, path) == Is(fs, path, "file")

\* The names in a directory, in some order (without "." and "..").
DirEntries(fs, path) ==
    LET dir == StatAt(fs, path) IN SetToSeq({Last(p) : p \in {q \in DOMAIN fs : q # <<>> /\ Front(q) = dir}})

Without(fs, path) == [p \in DOMAIN fs \ {path} |-> fs[p]]
With(fs, path, what) == [p \in DOMAIN fs \cup {path} |-> IF p = path THEN what ELSE fs[p]]
Gives(fs, code) == [fs |-> fs, code |-> code]

\* unlinkat, mkdirat
Unlink(fs, path, directory) ==
    LET place == Entry(fs, path)
    IN  CASE place = Nowhere \/ place \notin DOMAIN fs \/ fs[Front(place)].locked -> Gives(fs, -1)
          [] (fs[place].kind = "dir") # directory \/ \E p \in DOMAIN fs : p # <<>> /\ Front(p) = place -> Gives(fs, -1)
          [] OTHER -> Gives(Without(fs, place), 0)
MkdirAt(fs, path) ==
    LET place == Entry(fs, path)
    IN  CASE place = Nowhere -> Gives(fs, "ENOTDIR")
          [] place # Nowhere /\ place \in DOMAIN fs -> Gives(fs, "EEXIST")
          [] place # Nowhere /\ place \notin DOMAIN fs /\ fs[Front(place)].locked -> Gives(fs, "EACCES")
          [] OTHER -> Gives(With(fs, place, Dir), "made")

----------------------------------------------------------------------------
(* Trees                                                                   *)

RECURSIVE RemoveDir(_, _)
\* tlibc_recursive_rm_dir: a link to a directory is gone into like a
\* directory; that an entry could not be removed only shows in the last rmdir.
RemoveDir(fs, path) ==
    CASE IsPathDir(fs, path) = -1 -> Gives(fs, -1)
      [] IsPathDir(fs, path) = 0 -> Gives(fs, 0)
      [] OTHER ->
            Unlink(FoldLeft(LAMBDA f, name :
                                LET sub == Append(path, name)
                                IN  IF IsPathFile(f, sub) = 1 THEN Unlink(f, sub, FALSE).fs ELSE RemoveDir(f, sub).fs,
                            fs, DirEntries(fs, path)), path, TRUE)

\* tlibc_recursive_mkdir: whatever exists is taken for a directory.
MakeDirs(fs, path) ==
    LET Step(r, n) ==
            IF r.code = -1 THEN r
            ELSE LET made == MkdirAt(r.fs, SubSeq(path, 1, n)) IN Gives(made.fs, IF made.code \in {"made", "EEXIST"} THEN 0 ELSE -1)
    IN  FoldLeft(Step, Gives(fs, 0), [n \in DOMAIN path |-> n])

RECURSIVE CountFiles(_, _)
\* tlibc_recursive_count_file: follows links, a loop of them until the kernel
\* refuses; what cannot be found counts for nothing.
CountFiles(fs, path) ==
    CASE IsPathDir(fs, path) = -1 -> -1
      [] IsPathDir(fs, path) = 0 -> 1
      [] OTHER -> FoldLeft(LAMBDA n, name : n + Max({0, CountFiles(fs, Append(path, name))}), 0, DirEntries(fs, path))

----------------------------------------------------------------------------
(* One directory                                                           *)

OfKind(fs, path, names, kind) == SelectSeq(names, LAMBDA name : Is(fs, Append(path, name), kind) = 1)
Openable(fs, path) == IsPathDir(fs, path) = 1
\* tlibc_get_dir_count, tlibc_get_file_count, tlibc_get_file_num
KindCount(fs, path, kind) == IF Openable(fs, path) THEN Len(OfKind(fs, path, DirEntries(fs, path), kind)) ELSE -1
EntryCount(fs, path) == IF Openable(fs, path) THEN Len(DirEntries(fs, path)) ELSE -1
\* Mutant: the count is compared after a name is stored.
NameList_Slip(fs, path, kind, count) ==
    IF count <= 0 \/ ~Openable(fs, path) THEN <<-1, <<>>>>
    ELSE LET names == OfKind(fs, path, SubSeq(DirEntries(fs, path), 1, Min({Batch, Len(DirEntries(fs, path))})), kind)
             n == Min({count + 1, Len(names)})
         IN  <<n, SubSeq(names, 1, n)>>
\* tlibc_get_dir_name_list, tlibc_get_file_name_list: what they return and the
\* names that they store.  They read the directory once.
NameList(fs, path, kind, count) ==
    IF count <= 0 \/ ~Openable(fs, path) THEN <<-1, <<>>>>
    ELSE LET names == OfKind(fs, path, SubSeq(DirEntries(fs, path), 1, Min({Batch, Len(DirEntries(fs, path))})), kind)
             n == Min({count, Len(names)})
         IN  <<n, SubSeq(names, 1, n)>>

----------------------------------------------------------------------------
(* Copying                                                                 *)

\* tlibc_copy_file: the target is emptied before the source is read, and if a
\* read or a write fails keeps what it has got so far (fails: after how many
\* blocks, more than there are for never).
CopyFile(fs, source, target, fails) ==
    LET from == StatAt(fs, source)
        place == IF StatAt(fs, target) # Nowhere THEN StatAt(fs, target) ELSE Entry(fs, target)
    IN  CASE from = Nowhere \/ place = Nowhere -> Gives(fs, -1)
          [] OTHER ->
                IF \/ place \in DOMAIN fs /\ fs[place].kind # "file"
                   \/ place \notin DOMAIN fs /\ fs[Front(place)].locked
                THEN Gives(fs, -1)
                ELSE LET emptied == With(fs, place, File(<<>>))
                     IN  IF emptied[from].kind = "dir" THEN Gives(emptied, -1)
                         ELSE LET data == emptied[from].data
                              IN  Gives(With(emptied, place, File(SubSeq(data, 1, Min({fails, Len(data)})))),
                                         IF fails < Len(data) THEN -1 ELSE 0)
\* tlibc_copy_exe_file does not look at what copying returned.
CopyExe(fs, source, target, fails) == Gives(CopyFile(fs, source, target, fails).fs, 0)

----------------------------------------------------------------------------
(* Properties                                                              *)

Below(fs, path) == {p \in DOMAIN fs : p # path /\ IsPrefix(path, p)}
Links(fs, path) == {p \in Below(fs, path) : fs[p].kind = "link"}

\* A tree without links, in which everything may be removed, goes and nothing
\* else does.  Success always means that the directory is gone; what goes
\* outside of it was reached by a link, which stays itself if it leads to a
\* directory.
RemoveSound(fs, path, out) ==
    LET gone == DOMAIN fs \ DOMAIN out.fs
        tree == Below(fs, path) \cup {path}
    IN  /\ \A p \in DOMAIN out.fs : p \in DOMAIN fs /\ out.fs[p] = fs[p]
        /\ out.code = 0 => StatAt(out.fs, path) = Nowhere \/ IsPathDir(fs, path) = 0
        /\ \A p \in gone \ tree : \E d \in DOMAIN fs : fs[d].kind = "link" /\ IsPrefix(StatAt(fs, d), p)
        /\ \A d \in Links(fs, path) : IsPathDir(fs, d) = 1 => d \in DOMAIN out.fs
        /\ StatAt(fs, path) = path /\ IsPathDir(fs, path) = 1 /\ Links(fs, path) = {}
             /\ (\A p \in {Front(path)} \cup tree : fs[p].kind = "dir" => ~fs[p].locked) =>
             gone = tree /\ out.code = 0

\* Every directory on the way exists afterwards, unless something else was in
\* the last place already; nothing is lost or made elsewhere.
MakeDirsSound(fs, path, out) ==
    /\ \A p \in DOMAIN fs : p \in DOMAIN out.fs /\ out.fs[p] = fs[p]
    /\ \A p \in DOMAIN out.fs \ DOMAIN fs : out.fs[p] = Dir /\ \E n \in DOMAIN path : p = Entry(out.fs, SubSeq(path, 1, n))
    /\ out.code = 0 => IsPathDir(out.fs, path) = 1 \/ Entry(fs, path) \in DOMAIN fs
    /\ out.code = -1 => IsPathDir(out.fs, path) # 1

\* Without links below, each file counts once.
CountSound(fs, path, n) ==
    StatAt(fs, path) = path /\ IsPathDir(fs, path) = 1 /\ Links(fs, path) = {} => n = Cardinality({p \in Below(fs, path) : fs[p].kind = "file"})

\* The buffer for the names is large enough, and after asking for the count
\* all of them are there if the directory fits in one read.
NamesSound(fs, path, kind, count, out) ==
    /\ out[1] <= Max({0, count}) /\ Len(out[2]) = Max({0, out[1]})
    /\ \A i \in DOMAIN out[2] : Is(fs, Append(path, out[2][i]), kind) = 1
    /\ count > 0 /\ count = KindCount(fs, path, kind) /\ EntryCount(fs, path) <= Batch => out[1] = count /\ Cardinality(ToSet(out[2])) = count

\* Success means that the target holds what the source held, except that a
\* file copied to itself is emptied; a failure leaves a beginning of it.
CopySound(fs, source, target, out) ==
    LET old == StatAt(fs, source)
        new == StatAt(out.fs, target)
    IN  /\ \A p \in DOMAIN fs : p \in DOMAIN out.fs /\ (out.fs[p] = fs[p] \/ p = new)
        /\ out.code = 0 => out.fs[new].data = IF new = old THEN <<>> ELSE fs[old].data
        /\ out.fs # fs /\ fs[old].kind = "file" => IsPrefix(out.fs[new].data, fs[old].data)
=============================================================================
