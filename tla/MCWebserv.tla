----------------------------- MODULE MCWebserv -----------------------------
(* The requests and machines Webserv is checked with. *)
EXTENDS Webserv

Get(target) ==
    [method |-> "GET", target |-> target, declared |-> -1, multipart |-> FALSE,
     parts |-> <<>>, short |-> 0, closes |-> FALSE]

\* The length of the form: a boundary and a header per part, the data, a
\* boundary at the end.
Upload(parts, size) ==
    [Get("dir/") EXCEPT !.method = "POST", !.multipart = TRUE, !.parts = parts, !.declared = size]
P(name, size) == [name |-> name, size |-> size]

Good == {Get("f"), Upload(<<P("f", 2)>>, 5), Upload(<<P("g", 1), P("f", 1)>>, 7)}
Odd ==
    {[Get("f") EXCEPT !.closes = TRUE, !.short = 2], Get("dir/"), [Get("f") EXCEPT !.closes = TRUE],
     [Get("f") EXCEPT !.method = "broken"],
     [Upload(<<P("f", 2)>>, 5) EXCEPT !.short = 1, !.closes = TRUE],
     Upload(<<P("", 0), P("g", 0), P("f", 1), P("g", 0)>>, 10), Upload(<<P("f", 2)>>, 4),
     Upload(<<P("f", 9)>>, 12), Upload(<<>>, 0),
     [Upload(<<P("f", 2)>>, 5) EXCEPT !.multipart = FALSE]}

MCRequests == <<Good \cup Odd, Good>>
MCInitial == [n \in {"f"} |-> <<<<"old", 1>>, <<"old", 2>>, <<"old", 3>>>>]
MCEnvs == {[maps |-> 9, cloneFails |-> FALSE, badDisk |-> FALSE],
           [maps |-> 9, cloneFails |-> TRUE, badDisk |-> TRUE],
           [maps |-> 4, cloneFails |-> FALSE, badDisk |-> FALSE]}
=============================================================================
