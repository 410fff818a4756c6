-------------------------------- MODULE Paths --------------------------------
(***************************************************************************)
(* The normaliser of paths (src/lib/misc/path.c).  It edits the string in  *)
(* place, from left to right.  A path is a sequence of characters; cwd is  *)
(* absolute or empty (NULL), as every caller has it, so that the string    *)
(* begins with a slash.                                                    *)
(***************************************************************************)
EXTENDS Naturals, Sequences, SequencesExt, FiniteSetsExt

At(s, i, pattern) == i + Len(pattern) - 1 <= Len(s) /\ SubSeq(s, i, i + Len(pattern) - 1) = pattern
From(s, i) == SubSeq(s, i, Len(s))
\* Where the component that holds position i begins.
SegmentStart(s, i) == Max({1} \cup {k \in 2 .. i : s[k - 1] = "/"})

RECURSIVE ResolveDots_Slip(_, _)
\* Mutant: after "../" the scan goes on where it was.
ResolveDots_Slip(s, p) ==
    CASE p > Len(s) -> s
      [] At(s, p, <<".", "/">>) -> ResolveDots_Slip(SubSeq(s, 1, p - 1) \o From(s, p + 2), p)
      [] At(s, p, <<".", ".", "/">>) -> ResolveDots_Slip(SubSeq(s, 1, SegmentStart(s, p - 1) - 1) \o From(s, p + 3), p)
      [] OTHER -> ResolveDots_Slip(s, p + 1)
RECURSIVE ResolveDots(_, _)
\* The loop: "./" goes, wherever it stands; "../" goes with the component
\* that ends before it.
ResolveDots(s, p) ==
    CASE p > Len(s) -> s
      [] At(s, p, <<".", "/">>) -> ResolveDots(SubSeq(s, 1, p - 1) \o From(s, p + 2), p)
      [] At(s, p, <<".", ".", "/">>) ->
            LET cut == IF p = 2 THEN 2 ELSE SegmentStart(s, p - 1)
            IN  ResolveDots(SubSeq(s, 1, cut - 1) \o From(s, p + 3), cut - 1)
      [] OTHER -> ResolveDots(s, p + 1)

\* "/." and "/.." at the end.
TrimDots(s) ==
    LET n == Len(s)
    IN  CASE n >= 2 /\ At(s, n - 1, <<"/", ".">>) -> SubSeq(s, 1, n - 2)
          [] n = 3 /\ At(s, 1, <<"/", ".", ".">>) -> <<"/">>
          [] n > 3 /\ At(s, n - 2, <<"/", ".", ".">>) -> SubSeq(s, 1, SegmentStart(s, n - 3) - 1)
          [] OTHER -> s

\* Leading slashes become one, one slash at the end goes, nothing becomes "/".
TrimSlashes(s) ==
    LET t == From(s, Max({1} \cup {i \in DOMAIN s : \A j \in 1 .. i : s[j] = "/"}))
    IN  CASE t = <<>> -> <<"/">>
          [] Len(t) > 1 /\ Last(t) = "/" -> Front(t)
          [] OTHER -> t

\* tlibc_cal_absolute_path; room is max_len.
AbsolutePath(path, cwd, room) ==
    LET full == CASE path = <<>> -> cwd [] path # <<>> /\ path[1] = "/" -> path [] OTHER -> cwd \o <<"/">> \o path
    IN  TrimSlashes(TrimDots(ResolveDots(SubSeq(full, 1, Min({Len(full), room - 1})), 1)))

----------------------------------------------------------------------------
(* What it is for                                                          *)

\* The components between the slashes, empty ones too.
Components(s) ==
    FoldLeft(LAMBDA cs, c : IF c = "/" THEN Append(cs, <<>>) ELSE Append(Front(cs), Append(Last(cs), c)), <<<<>>>>, Tail(s))
Canonical(s) ==
    LET names == FoldLeft(LAMBDA stack, c : CASE c \in {<<>>, <<".">>} -> stack
                                              [] c = <<".", ".">> -> IF stack = <<>> THEN stack ELSE Front(stack)
                                              [] OTHER -> Append(stack, c),
                          <<>>, Components(s))
    IN  IF names = <<>> THEN <<"/">> ELSE FoldLeft(LAMBDA r, c : r \o <<"/">> \o c, <<>>, names)

\* Names that end in a dot, and empty components, are taken apart wrongly:
\* "a./b" becomes "ab", "a//../b" becomes "a/b".
Plain(s) ==
    \A n \in DOMAIN Components(s) :
        LET c == Components(s)[n]
        IN  c \in {<<".">>, <<".", ".">>} \/ (c # <<>> /\ Last(c) # ".")

\* A path of proper names becomes the canonical one, with nothing above the
\* root; whatever is given, the result is absolute, is no longer than what
\* came in (the buffer suffices), and no component of it is "." or "..".
PathSound(path, cwd, out) ==
    LET full == cwd \o <<"/">> \o path
    IN  /\ out[1] = "/" /\ Len(out) <= Max({1, Len(full)})
        /\ path # <<>> /\ path[1] # "/" /\ Plain(full) => out = Canonical(full)
        /\ path # <<>> /\ path[1] = "/" /\ Plain(path) => out = Canonical(path)
        /\ \A n \in DOMAIN Components(out) : Components(out)[n] \notin {<<".">>, <<".", ".">>}
=============================================================================
