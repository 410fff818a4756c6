------------------------------- MODULE MCTools -------------------------------
(* The programs that run alone, one of them at a time: they share nothing, *)
(* so the state space is the sum of theirs.  netTool says which it is.     *)
EXTENDS NetTools, RingQueue, Shell, Editor, Paths, Files, Calendar, Formats

----------------------------------------------------------------------------
(* The network tools: networks and zones.                                  *)

MCOutcomes == AllOutcomes

Host(ttl, oui, random) == [ttl |-> ttl, ports |-> {}, oui |-> oui, random |-> random]
PlainHost(ttl, ports) == [Host(ttl, "no", FALSE) EXCEPT !.ports = ports]
Setting(self, size, gateway, noise, hosts) ==
    [self |-> self, size |-> size, gateway |-> gateway, noise |-> noise, hosts |-> hosts]
MCSettings ==
    {Setting(2, 8, 1, 1, (1 :> PlainHost(64, {})) @@ (3 :> PlainHost(255, {})) @@ (6 :> PlainHost(64, {"ssh"})) @@ (9 :> PlainHost(64, {}))),
     Setting(9, 8, 13, 1, (10 :> PlainHost(128, {"print", "http"})) @@ (12 :> Host(128, "no", TRUE)) @@ (13 :> PlainHost(64, {}))),
     Setting(1, 16, 4, 1, (2 :> Host(64, "phone", TRUE)) @@ (6 :> PlainHost(32, {"http", "https"})) @@ (9 :> PlainHost(64, {}))),
     Setting(5, 4, 6, 1, (6 :> PlainHost(64, {}))), Setting(8, 2, 9, 0, (9 :> PlainHost(64, {}))), Setting(3, 1, 5, 0, (5 :> PlainHost(64, {})))}

MCNumeric == "10.0.0.1" :> 9
A(addrs) == [type |-> "A", addrs |-> addrs]
To(n) == [type |-> "CNAME", to |-> n]
Nothing == [type |-> "other"]
MCZones ==
    {"a" :> A(<<1, 2, 3>>), ("a" :> To("b")) @@ ("b" :> A(<<1>>)), "a" :> Nothing, "b" :> A(<<1>>),
     ("a" :> To("b")) @@ ("b" :> To("c")) @@ ("c" :> A(<<2>>)), ("a" :> To("b")) @@ ("b" :> Nothing),
     ("a" :> To("b")) @@ ("b" :> To("c")) @@ ("c" :> To("d")) @@ ("d" :> A(<<2>>)),
     ("a" :> To("b")) @@ ("b" :> To("a"))}
MCUpSets == {{}, {2, 9}}
MCFaultSets == {{}, {"loss"}, {"cut", "memory", "query"}}

----------------------------------------------------------------------------
(* The functions of the library: one call of one of them.                  *)

VARIABLE libCall

LibraryInit == libCall = <<"none">>
LibraryRest == libCall = <<"none">>
Call(what) == libCall' = what

NormalisePath ==
    \E n \in 0 .. 6 : \E path \in [1 .. n -> {"a", ".", "/"}], cwd \in {<<>>, <<"/", "b">>} :
        Call(<<"path", path, cwd, AbsolutePath(path, cwd, 20)>>)

\* A directory "d" with two entries, one more entry beside it, and a
\* directory "o" that links lead to.
Kinds == {"absent", "file", "empty", "full", "to a directory", "to a file", "dangling", "loop"}
PutAt(p, kind) ==
    CASE kind = "absent" -> <<>>
      [] kind = "file" -> p :> File(<<1, 2>>)
      [] kind = "empty" -> p :> Dir
      [] kind = "full" -> (p :> Dir) @@ (Append(p, "f") :> File(<<3>>))
      [] kind = "to a directory" -> p :> Link(<<"o">>)
      [] kind = "to a file" -> p :> Link(<<"o", "h">>)
      [] kind = "dangling" -> p :> Link(<<"n", "n">>)
      [] kind = "loop" -> p :> Link(<<"d">>)
FileSystems ==
    {(<<>> :> Dir) @@ (<<"o">> :> Dir) @@ (<<"o", "h">> :> File(<<4, 5, 6>>)) @@ (<<"d">> :> top)
        @@ PutAt(<<"d", "x">>, x) @@ PutAt(<<"d", "y">>, y) @@ PutAt(<<"e">>, e) :
       top \in {Dir, Locked}, x \in Kinds, y \in Kinds, e \in {"absent", "to a directory", "full"}}
MCPaths == {<<"d">>, <<"e">>, <<"d", "x">>, <<"d", "x", "f">>, <<"n", "m">>}
OnTree ==
    \E fs \in FileSystems, p \in MCPaths :
        \/ Call(<<"remove", fs, p, RemoveDir(fs, p)>>)
        \/ Call(<<"make", fs, p, MakeDirs(fs, p)>>)
        \/ Call(<<"count", fs, p, CountFiles(fs, p)>>)
        \/ \E kind \in {"file", "dir"} : \E n \in {1, KindCount(fs, p, kind)} : Call(<<"names", fs, p, NameList(fs, p, kind, n), kind, n>>)
OnFile ==
    \E fs \in FileSystems, source \in MCPaths, goal \in MCPaths \cup {<<"o", "h">>} :
        \E fails \in {1, 3} : Call(<<"copy", fs, source, CopyFile(fs, source, goal, fails), goal>>)

Days == {d + 365 * y : d \in {-1, 0, 30, 31, 58, 59, 60, 365}, y \in (-2 .. 4) \cup {30, 31, 130, 131}}
BreakDown == \E day \in Days, second \in {0, 3661, 86399} : LET tm == GmTime(day, second) IN Call(<<"time", day, second, tm, MkTime(tm)>>)
MCFormats == UNION {[1 .. n -> {<<"-">>, <<"%", "Y">>, <<"%", "b">>, <<"%", "x">>, <<"%", "z">>, <<"%", "q">>}] : n \in 0 .. 3}
FormatTime ==
    \E max \in {0, 1, 2, 4, 7, 40}, format \in MCFormats, day \in {0, 11111} :
        LET tm == GmTime(day, 43261) IN Call(<<"strftime", max, format, tm, StrFTime(max, format, tm)>>)

Arguments(conv) ==
    CASE conv = "d" -> {LongMin, -LongMax, -10, 0, 7}
      [] conv \in {"u", "x", "p"} -> {0, 9, 26, 255}
      [] conv = "s" -> {<<>>, <<"a", "b", "c">>}
      [] conv = "f" -> {-12, 0, 1, 7, 79}
      [] OTHER -> {"-"}
SomeField(P(_)) ==
    \E conv \in {"d", "u", "x", "p", "s", "c", "f", "%", "q"}, minus, zero \in BOOLEAN, width \in {0, 2, 5} :
        \E precision \in IF conv = "f" THEN {0, 1, 2} ELSE {-1, 0, 4}, arg \in Arguments(conv) :
            P(Field(conv, minus, zero, width, precision, arg))
Plainly(text) == Field("text", FALSE, FALSE, 0, -1, text)
PrintOne == SomeField(LAMBDA f : Call(<<"printf", f, PrintF(<<f>>)>>))
PrintInBuffer ==
    SomeField(LAMBDA f : \E size \in {0, 1, 2, 4, 20} :
        LET format == <<Plainly(<<"=">>), f, Plainly(<<";", " ">>)>> IN Call(<<"snprintf", size, format, SNPrintF(size, format)>>))

Reading(conv, suppress, width) == [conv |-> conv, suppress |-> suppress, width |-> width]
Conversions ==
    {Reading(conv, FALSE, 0) : conv \in {"d", "u", "i", "x", "s", "c", "n"}}
      \cup {Reading("s", FALSE, 1), Reading("d", TRUE, 0), Reading("c", FALSE, 2), Reading("i", FALSE, 1)}
ScanText ==
    \E n \in 0 .. 3 : \E s \in [1 .. n -> {"-", "0", "x", "7", "a", " "}],
          f \in Conversions \cup {[conv |-> "blanks"], [conv |-> "match", char |-> "7"]}, g \in Conversions :
        LET format == <<f, g, Reading("d", FALSE, 0)>> IN Call(<<"scanf", s, format, SScanF(s, format)>>)
\* Two numbers or words are written and read again.
Readable(conv) == IF conv = "s" THEN {<<"a", "b", "c">>} ELSE Arguments(conv) \ {LongMin}
ReadAs(conv) == IF conv = "p" THEN "x" ELSE conv
WriteAndRead ==
    \E conv \in {"d", "x", "p"}, more \in {"d", "u", "s"}, minus, zero \in BOOLEAN, width \in {0, 5}, precision \in {-1, 4} :
        \E a \in Readable(conv), b \in Readable(more) :
            Call(<<"back", a, b, SScanF(PrintF(<<Field(conv, minus, zero, width, precision, a), Plainly(<<" ">>), Field(more, minus, zero, width, -1, b)>>),
                                        <<Reading(ReadAs(conv), FALSE, 0), Reading(more, FALSE, 0)>>)>>)

LibraryNext ==
    /\ libCall = <<"none">>
    /\ \/ NormalisePath \/ OnTree \/ OnFile \/ BreakDown \/ FormatTime
       \/ PrintOne \/ PrintInBuffer \/ ScanText \/ WriteAndRead

----------------------------------------------------------------------------
(* Properties                                                              *)

\* Every function of the library answers as it should (see PathSound,
\* RemoveSound and the others), and what was printed can be read again.
LibrarySound ==
    CASE libCall[1] = "none" -> TRUE
      [] libCall[1] = "path" -> PathSound(libCall[2], libCall[3], libCall[4])
      [] libCall[1] = "remove" -> RemoveSound(libCall[2], libCall[3], libCall[4])
      [] libCall[1] = "make" -> MakeDirsSound(libCall[2], libCall[3], libCall[4])
      [] libCall[1] = "count" -> CountSound(libCall[2], libCall[3], libCall[4])
      [] libCall[1] = "names" -> NamesSound(libCall[2], libCall[3], libCall[5], libCall[6], libCall[4])
      [] libCall[1] = "copy" -> CopySound(libCall[2], libCall[3], libCall[5], libCall[4])
      [] libCall[1] = "time" -> TimeSound(libCall[2], libCall[3], libCall[4], libCall[5])
      [] libCall[1] = "strftime" -> FormatTimeSound(libCall[2], libCall[3], libCall[4], libCall[5])
      [] libCall[1] = "printf" -> FieldSound(libCall[2], libCall[3])
      [] libCall[1] = "snprintf" -> OutputSound(libCall[2], libCall[3], libCall[4])
      [] libCall[1] = "scanf" -> InputSound(libCall[2], libCall[3], libCall[4])
      [] libCall[1] = "back" -> libCall[4].count = 2 /\ libCall[4].stored[1][2] = libCall[2] /\ libCall[4].stored[2][2] = libCall[3]

----------------------------------------------------------------------------
(* All tools.                                                              *)

toolVars == <<netVars, libCall, ringVars, shellVars, editor>>

MCDirectories ==
    (<<".">> :> ((<<"a">> :> "dir") @@ (<<"b">> :> "exec") @@ (<<"b", "a">> :> "file")))
      @@ (<<"a">> :> (<<"c", "b">> :> "exec"))
      @@ (<<"/", "p">> :> ((<<"c">> :> "file") @@ (<<"c", "a">> :> "exec") @@ (<<"d">> :> "exec")))
      @@ (<<"/", "r">> :> ((<<"c", "a">> :> "exec") @@ (<<"d", "b">> :> "exec") @@ (<<"d">> :> "exec")))
      @@ (<<"/">> :> (<<"c">> :> "exec"))
MCBuiltIns == {<<"c", "d">>}
MCEditTexts == {<<>>, <<"a", "b", Break, "a">>, <<"a", Break, Break, Break, "b", "b", Break, Break, Break>>}
MCLetters == {"a", Break}
MCPath == <<<<"/", "p">>, <<"n">>, <<"/", "r">>>>

Init ==
    \/ NetInit /\ LibraryRest /\ RingInit /\ ShellStart /\ EditorRest
    \/ netTool = "library" /\ LibraryInit /\ NetRest /\ RingInit /\ ShellStart /\ EditorRest
    \/ netTool = "queue" /\ RingInit /\ NetRest /\ LibraryRest /\ ShellStart /\ EditorRest
    \/ netTool = "shell" /\ ShellStart /\ NetRest /\ LibraryRest /\ RingInit /\ EditorRest
    \/ netTool = "editor" /\ EditorOpens /\ NetRest /\ LibraryRest /\ RingInit /\ ShellStart

NetStep == NetNext /\ UNCHANGED <<libCall, ringVars, shellVars, editor>>
QueueStep(w) == netTool = "queue" /\ Work(w) /\ UNCHANGED <<netVars, libCall, shellVars, editor>>
Next ==
    \/ NetStep
    \/ netTool = "library" /\ LibraryNext /\ UNCHANGED <<netVars, ringVars, shellVars, editor>>
    \/ \E w \in Workers : QueueStep(w)
    \/ netTool = "shell" /\ ShellNext /\ UNCHANGED <<netVars, libCall, ringVars, editor>>
    \/ netTool = "editor" /\ EditorNext /\ UNCHANGED <<netVars, libCall, ringVars, shellVars>>

\* A tool goes on, and packets that are not lost arrive; every thread of
\* the queue gets the processor.
Spec == Init /\ [][Next]_toolVars /\ WF_toolVars(NetStep) /\ \A w \in Workers : WF_toolVars(QueueStep(w))

----------------------------------------------------------------------------
(* Properties                                                              *)

\* Every network tool comes to an end although answers are lost, late or repeated:
\* each waits for a bounded time and tries a bounded number of times.  Only
\* the resolver has no time-out, so a lost query or reply is excepted; and
\* the packets of others, which postpone time-outs and make ping send again,
\* must cease (MaxNoise).  The threads of the queue end as well.
Finishes ==
    <>(CASE netTool = "scan" -> scan.at = "done"
         [] netTool = "discover" -> discover.at = "done"
         [] netTool = "echo" -> round.at = "done"
         [] netTool = "resolve" -> lookup.at \in {"returned", "hangs"}
         [] netTool = "queue" -> AllEnded
         [] OTHER -> TRUE)
=============================================================================
