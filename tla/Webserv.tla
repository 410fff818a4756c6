------------------------------ MODULE Webserv ------------------------------
(***************************************************************************)
(* The file server app/net/webserv.c: a loop that accepts connections and  *)
(* starts a thread for each, and the threads, which serve a file or store  *)
(* uploaded ones in the same directory.  They share the files, the         *)
(* descriptors and the address space, and nothing else.                    *)
(*                                                                         *)
(* A request is a sequence of units: the lines of its head, then those of  *)
(* a multipart body.  TCP hands it over in any portions.                   *)
(*                                                                         *)
(* __mmap returns -ENOMEM when it fails (lib/core/mem.c), which is not the *)
(* MAP_FAILED that its callers compare with: the bad pointer gets used.    *)
(***************************************************************************)
EXTENDS Integers, SequencesExt

CONSTANTS
    NConns,      \* connections, accepted in the order 1 .. NConns
    Names,       \* file names in the served directory
    Requests,    \* what the client of each may send
    Initial,     \* the files at the start: name -> content
    Envs,        \* limits of the machine, see Init
    HeadBuf,     \* HEADER_BUF_SIZE - 1, in units
    Chunk,       \* FILE_CHUNK_SIZE, in units
    MaxUpload,   \* MAX_UPLOAD_SIZE, in units
    MaxSaves     \* saved_names[16]

ASSUME BoundsAssumption ==
    /\ NConns \in Nat \ {0} /\ HeadBuf \in Nat \ {0} /\ Chunk \in Nat \ {0}
    /\ MaxUpload \in Nat /\ MaxSaves \in Nat
    /\ DOMAIN Initial \subseteq Names

Conns == 1 .. NConns

\* What a client sends is a form of named and unnamed parts.
ASSUME ClientsAssumption ==
    \A c \in Conns : \A r \in Requests[c] :
        /\ r.parts \in Seq([name : Names \cup {""}, size : Nat])
        /\ r.declared \in Int /\ r.short \in Nat

\* A file is a sequence.
ASSUME FilesAssumption ==
    \A n \in DOMAIN Initial : Initial[n] \in Seq(Range(Initial[n]))

VARIABLES
    srv,     \* the accept loop: where it is, and how many it has accepted
    pc,      \* the connections' threads: where they are
    conn,    \* and their frames
    file,    \* the served directory: name -> content
    held,    \* descriptors and mappings in use, each with its connection
    mixed,   \* history: threads during whose transfer another opened the file
             \* to write, or which opened it while another wrote
    env      \* how many mappings the kernel grants; whether clone and the
             \* disk may fail

vars == <<srv, pc, conn, file, held, mixed, env>>

----------------------------------------------------------------------------
(* Requests.  A client may leave out a line, send less than it says or     *)
(* close its end.                                                          *)

Lowest(a, b) == IF a < b THEN a ELSE b
Largest(a, b) == IF a < b THEN b ELSE a

Blank == <<"blank">>
Boundary == <<"boundary">>

HeadOf(r) == <<<<"request">>>>
             \o (IF r.declared >= 0 THEN <<<<"length">>>> ELSE <<>>)
             \o (IF r.multipart THEN <<<<"type">>>> ELSE <<>>)
             \o <<Blank>>

\* The content of part p of the upload on connection c.
Data(c, r, p) == [i \in 1 .. r.parts[p].size |-> <<"data", c, p, i>>]

\* The form: a boundary before each part and one at the end.  A part has a
\* header, which may or may not name a file.
Form(c, r) ==
    LET One(p) == <<Boundary, <<"part", p>>>> \o Data(c, r, p)
    IN  FlattenSeq([p \in DOMAIN r.parts |-> One(p)])
            \o (IF r.parts = <<>> THEN <<>> ELSE <<Boundary>>)

\* All that the client of connection c sends.
Sends(c, r) ==
    LET all == HeadOf(r) \o Form(c, r) IN SubSeq(all, 1, Len(all) - r.short)

----------------------------------------------------------------------------
(* Init.  `stream` is what the client sends, `used` how much of it recv    *)
(* has taken, `on` the file a thread has open, `todo` the parts to store.  *)

NoRequest == [method |-> "none", target |-> "none", declared |-> -1, multipart |-> FALSE,
              parts |-> <<>>, short |-> 0, closes |-> FALSE]
Idle == [req |-> NoRequest, stream |-> <<>>, got |-> <<>>, used |-> 0,
         declared |-> -1, body |-> <<>>, todo |-> {}, on |-> "none", off |-> 0,
         sent |-> <<>>, saved |-> <<>>, code |-> 0]

Init ==
    /\ env \in Envs
    /\ srv = [at |-> "accept", n |-> 0]
    /\ pc = [c \in Conns |-> "none"]
    /\ conn = [c \in Conns |-> Idle]
    /\ file = Initial
    /\ held = {}
    /\ mixed = {}

Mappings == {h \in held : h[1] \in {"arg", "stack", "body", "listing"}}
CanMap == Cardinality(Mappings) < env.maps
Alive == srv.at # "dead"
Dies == srv' = [srv EXCEPT !.at = "dead"]

At(c, where) == Alive /\ pc[c] = where
\* Thread c goes on, some of its variables change, or both.
Goto(c, where) == pc' = [pc EXCEPT ![c] = where] /\ UNCHANGED conn
Assign(frame, fields) ==
    [x \in DOMAIN frame |-> IF x \in DOMAIN fields THEN fields[x] ELSE frame[x]]
Set(c, fields) == conn' = [conn EXCEPT ![c] = Assign(@, fields)] /\ UNCHANGED pc
Go(c, where, fields) ==
    pc' = [pc EXCEPT ![c] = where] /\ conn' = [conn EXCEPT ![c] = Assign(@, fields)]
\* Send an error page of that status next.
Error(c, code) == Go(c, "reply", [code |-> code])

----------------------------------------------------------------------------
(* main                                                                    *)

Accept ==
    /\ srv.at = "accept" /\ srv.n < NConns
    /\ srv' = [at |-> "map", n |-> srv.n + 1]
    /\ \E r \in Requests[srv.n + 1] : Go(srv.n + 1, "accepted", [req |-> r, stream |-> Sends(srv.n + 1, r)])
    /\ held' = held \cup {<<"socket", srv.n + 1>>}
    /\ UNCHANGED <<file, mixed, env>>

\* The argument struct for the thread: written to without a check.
MapArg ==
    /\ srv.at = "map"
    /\ \/ /\ CanMap
          /\ srv' = [srv EXCEPT !.at = "spawn"]
          /\ held' = held \cup {<<"arg", srv.n>>}
       \/ ~CanMap /\ Dies /\ UNCHANGED held
    /\ UNCHANGED <<pc, conn, file, mixed, env>>

\* pthread_create, whose result nobody looks at; the thread is never joined
\* or detached, its stack stays.
Spawn ==
    /\ srv.at = "spawn"
    /\ \/ /\ CanMap
          /\ srv' = [srv EXCEPT !.at = "accept"]
          /\ \/ /\ Goto(srv.n, "recv")
                /\ held' = held \cup {<<"stack", srv.n>>}
             \/ env.cloneFails /\ UNCHANGED <<pc, conn, held>>
       \/ ~CanMap /\ Dies /\ UNCHANGED <<pc, conn, held>>
    /\ UNCHANGED <<file, mixed, env>>

----------------------------------------------------------------------------
(* The request                                                             *)

\* The early returns of a handler, in order: a condition and the status sent.
Refused(checks) ==
    LET hit == {i \in DOMAIN checks : checks[i][1]}
    IN  IF hit = {} THEN 0 ELSE checks[Min(hit)][2]

RefusesGet(r) ==
    Refused(<< <<r.target = "outside", 403>>,
               <<r.target \notin DOMAIN file \cup {"dir", "dir/", "device"}, 404>>,
               <<r.target = "dir", 301>>,
               <<r.target = "device", 403>> >>)

RefusesPost(r, lines) ==
    Refused(<< <<<<"length">> \notin lines, 411>>,
               <<r.declared > MaxUpload, 413>>,
               <<<<"type">> \notin lines, 415>>,
               <<r.target = "outside", 403>>,
               <<r.target \notin {"dir", "dir/"}, 404>> >>)

Refuses(r, lines) ==
    CASE r.method = "broken" -> 400
      [] r.method = "GET" -> RefusesGet(r)
      [] r.method = "POST" -> RefusesPost(r, lines)
      [] OTHER -> 405

\* The one recv of the head, and what follows from the lines it brought.
RecvHead(c) ==
    /\ At(c, "recv")
    /\ \E n \in 1 .. Lowest(HeadBuf, Len(conn[c].stream)) :
         LET r == conn[c].req
             lines == SubSeq(conn[c].stream, 1, n)
             code == Refuses(r, Range(lines))
             step == CASE code # 0 -> "reply"
                       [] code = 0 /\ r.method = "POST" -> "bodymap"
                       [] code = 0 /\ r.method = "GET" /\ r.target = "dir/" -> "opendir"
                       [] OTHER -> "open"
         IN  Go(c, step, [code |-> code, got |-> lines, used |-> n,
                    declared |-> r.declared])
    /\ UNCHANGED <<srv, file, held, mixed, env>>

\* Nothing came: close, without an answer.
RecvNothing(c) ==
    /\ At(c, "recv") /\ conn[c].stream = <<>> /\ conn[c].req.closes
    /\ Goto(c, "out")
    /\ UNCHANGED <<srv, file, held, mixed, env>>

----------------------------------------------------------------------------
(* GET: a file                                                             *)

Users(n) == {d \in Conns : <<"file", d>> \in held /\ conn[d].on = n}
Writers(n) == {d \in Users(n) : pc[d] = "write"}

\* openat, fstat and the head of the reply with the size.
OpenFile(c) ==
    /\ At(c, "open")
    /\ LET n == conn[c].req.target IN
         /\ Go(c, "send", [code |-> 200, on |-> n, declared |-> Len(file[n])])
         /\ held' = held \cup {<<"file", c>>}
         /\ mixed' = IF Writers(n) = {} THEN mixed ELSE mixed \cup {c}
    /\ UNCHANGED <<srv, file, env>>

OpenFails(c) ==
    /\ At(c, "open") /\ env.badDisk
    /\ Error(c, 500)
    /\ UNCHANGED <<srv, file, held, mixed, env>>

\* read and write of one chunk, as long as read finds something.
SendChunk(c) ==
    /\ At(c, "send")
    /\ LET f == conn[c]
           chunk == SubSeq(file[f.on], f.off + 1, Lowest(f.off + Chunk, Len(file[f.on])))
       IN  /\ chunk # <<>>
           /\ Set(c, [off |-> f.off + Len(chunk), sent |-> f.sent \o chunk])
    /\ UNCHANGED <<srv, file, held, mixed, env>>

\* Mutant: the loop goes on only after full chunks.
CloseFile_FullChunks(c) ==
    /\ At(c, "send") /\ conn[c].off + Chunk > Len(file[conn[c].on])
    /\ Goto(c, "out")
    /\ held' = held \ {<<"file", c>>}
    /\ UNCHANGED <<srv, file, mixed, env>>

CloseFile(c) ==
    /\ At(c, "send") /\ conn[c].off >= Len(file[conn[c].on])
    /\ Goto(c, "out")
    /\ held' = held \ {<<"file", c>>}
    /\ UNCHANGED <<srv, file, mixed, env>>

----------------------------------------------------------------------------
(* GET: a directory                                                        *)

\* The listing needs a buffer; what getdents64 returns is written into it.
OpenDirectory(c) ==
    /\ At(c, "opendir")
    /\ \/ CanMap /\ Goto(c, "list") /\ held' = held \cup {<<"listing", c>>} /\ UNCHANGED srv
       \/ ~CanMap /\ Dies /\ UNCHANGED <<pc, conn, held>>
       \/ env.badDisk /\ Error(c, 500) /\ UNCHANGED <<srv, held>>
    /\ UNCHANGED <<file, mixed, env>>

SendListing(c) ==
    /\ At(c, "list")
    /\ Go(c, "out", [code |-> 200])
    /\ held' = held \ {<<"listing", c>>}
    /\ UNCHANGED <<srv, file, mixed, env>>

----------------------------------------------------------------------------
(* POST: recv_request_body                                                 *)

\* The body's first part came with the head: everything behind the blank
\* line, or behind nothing if the blank line has not come yet.
\* Mutant InHead_WithBlank: the offset is that of the blank line itself.
InHead_WithBlank(got, declared) ==
    LET at == {i \in DOMAIN got : got[i] = Blank}
        offset == IF at = {} THEN 0 ELSE Min(at) - 1
    IN  SubSeq(got, offset + 1, Lowest(Len(got), offset + declared))
InHead(got, declared) ==
    LET at == {i \in DOMAIN got : got[i] = Blank}
        offset == IF at = {} THEN 0 ELSE Min(at)
    IN  SubSeq(got, offset + 1, Lowest(Len(got), offset + declared))

MapBody(c) ==
    /\ At(c, "bodymap")
    /\ LET f == conn[c]
           initial == InHead(f.got, f.declared)
       IN  \/ f.declared = 0 /\ Error(c, 400) /\ UNCHANGED <<srv, held>>
           \/ /\ f.declared > 0 /\ CanMap
              /\ Go(c, "body", [body |-> initial])
              /\ held' = held \cup {<<"body", c>>}
              /\ UNCHANGED srv
           \* recv rejects a bad pointer, memcpy does not.
           \/ /\ f.declared > 0 /\ ~CanMap
              /\ IF initial = <<>> THEN Error(c, 400) /\ UNCHANGED srv ELSE Dies /\ UNCHANGED <<pc, conn>>
              /\ UNCHANGED held
    /\ UNCHANGED <<file, mixed, env>>

RecvBody(c) ==
    /\ At(c, "body") /\ Len(conn[c].body) < conn[c].declared
    /\ LET f == conn[c] IN
       \E n \in 1 .. Lowest(f.declared - Len(f.body), Len(conn[c].stream) - f.used) :
         Set(c, [used |-> f.used + n, body |-> f.body \o SubSeq(conn[c].stream, f.used + 1, f.used + n)])
    /\ UNCHANGED <<srv, file, held, mixed, env>>

\* The client closes its end before all has come.  Mutants: the body stays
\* mapped; only a negative result ends the loop.
RecvEnds_KeepsBody(c) ==
    /\ At(c, "body") /\ Len(conn[c].body) < conn[c].declared
    /\ conn[c].used = Len(conn[c].stream) /\ conn[c].req.closes
    /\ Error(c, 400)
    /\ UNCHANGED <<srv, file, held, mixed, env>>
RecvEnds_TriesAgain(c) ==
    /\ At(c, "body") /\ Len(conn[c].body) < conn[c].declared
    /\ conn[c].used = Len(conn[c].stream) /\ conn[c].req.closes
    /\ UNCHANGED vars
RecvEnds(c) ==
    /\ At(c, "body") /\ Len(conn[c].body) < conn[c].declared
    /\ conn[c].used = Len(conn[c].stream) /\ conn[c].req.closes
    /\ Error(c, 400)
    /\ held' = held \ {<<"body", c>>}
    /\ UNCHANGED <<srv, file, mixed, env>>

----------------------------------------------------------------------------
(* POST: parse_multipart_upload and save_file_part                         *)

\* The boundaries of a body, and those after position i.
Boundaries(body) == {i \in DOMAIN body : body[i] = Boundary}
After(body, i) == {j \in Boundaries(body) : j > i}

\* The parts to store: the boundaries that a header follows which names a
\* file.  Text behind the last one is no part, and a body that does not start
\* with a boundary has none.
Named(c, body) ==
    {i \in Boundaries(body) :
        /\ body[1] = Boundary /\ After(body, i) # {} /\ body[i + 1] # Boundary
        /\ conn[c].req.parts[body[i + 1][2]].name \in Names}

ParseUpload(c) ==
    /\ At(c, "body") /\ Len(conn[c].body) = conn[c].declared
    /\ Go(c, "save", [todo |-> Named(c, conn[c].body)])
    /\ UNCHANGED <<srv, file, held, mixed, env>>

\* The part at hand: where it starts, its number and name, its data, and what
\* is left of them to write.
Here(c) == Min(conn[c].todo)
Part(c) == conn[c].body[Here(c) + 1][2]
Name(c) == conn[c].req.parts[Part(c)].name
Content(c) == SubSeq(conn[c].body, Here(c) + 2, Min(After(conn[c].body, Here(c))) - 1)
Rest(c) == SubSeq(Content(c), conn[c].off + 1, Len(Content(c)))
Others(c) == conn[c].todo \ {Here(c)}

\* Mutant: saved_names has no end.
MoreToSave_NoLimit(c) == conn[c].todo # {}
MoreToSave(c) == conn[c].todo # {} /\ Len(conn[c].saved) < MaxSaves

\* Mutant: without O_TRUNC.
Create_NoTruncate(c) ==
    /\ At(c, "save") /\ MoreToSave(c)
    /\ Go(c, "write", [on |-> Name(c), off |-> 0])
    /\ file' = [n \in DOMAIN file \cup {Name(c)} |-> IF n \in DOMAIN file THEN file[n] ELSE <<>>]
    /\ held' = held \cup {<<"file", c>>}
    /\ mixed' = IF Users(Name(c)) = {} THEN mixed ELSE mixed \cup Users(Name(c)) \cup {c}
    /\ UNCHANGED <<srv, env>>

\* openat with O_CREAT and O_TRUNC, whoever is using the file.
Create(c) ==
    /\ At(c, "save") /\ MoreToSave(c)
    /\ Go(c, "write", [on |-> Name(c), off |-> 0])
    /\ file' = [n \in DOMAIN file \cup {Name(c)} |-> IF n = Name(c) THEN <<>> ELSE file[n]]
    /\ held' = held \cup {<<"file", c>>}
    /\ mixed' = IF Users(Name(c)) = {} THEN mixed ELSE mixed \cup Users(Name(c)) \cup {c}
    /\ UNCHANGED <<srv, env>>

CreateFails(c) ==
    /\ At(c, "save") /\ MoreToSave(c) /\ env.badDisk
    /\ Set(c, [todo |-> Others(c)])
    /\ UNCHANGED <<srv, file, held, mixed, env>>

\* A file after x is written at an offset: what the file lacks before it reads as zeros.
Put(old, off, x) ==
    [i \in 1 .. Largest(Len(old), off + Len(x)) |->
        IF i > off /\ i <= off + Len(x) THEN x[i - off]
        ELSE IF i <= Len(old) THEN old[i] ELSE <<"zero">>]

Write(c) ==
    /\ At(c, "write")
    /\ \E n \in 1 .. Len(Rest(c)) :
         /\ file' = [file EXCEPT ![conn[c].on] = Put(@, conn[c].off, SubSeq(Rest(c), 1, n))]
         /\ Set(c, [off |-> conn[c].off + n])
    /\ UNCHANGED <<srv, held, mixed, env>>

\* On to the next part.
NextPart(c, saved) ==
    /\ Go(c, "save", [todo |-> Others(c), saved |-> saved])
    /\ held' = held \ {<<"file", c>>}

WriteFails(c) ==
    /\ At(c, "write") /\ Rest(c) # <<>> /\ env.badDisk
    /\ NextPart(c, conn[c].saved)
    /\ UNCHANGED <<srv, file, mixed, env>>

CloseSaved(c) ==
    /\ At(c, "write") /\ Rest(c) = <<>>
    /\ NextPart(c, Append(conn[c].saved, Part(c)))
    /\ UNCHANGED <<srv, file, mixed, env>>

\* The page that says what has been stored; the body is unmapped after it.
ReplyUpload(c) ==
    /\ At(c, "save") /\ ~MoreToSave(c)
    /\ Go(c, "out", [code |-> 200])
    /\ held' = held \ {<<"body", c>>}
    /\ UNCHANGED <<srv, file, mixed, env>>

----------------------------------------------------------------------------
(* The end of a thread                                                     *)

ReplyError(c) ==
    /\ At(c, "reply")
    /\ Goto(c, "out")
    /\ UNCHANGED <<srv, file, held, mixed, env>>

\* close, munmap, return: the stack stays, for want of a join.
Leave(c) ==
    /\ At(c, "out")
    /\ Goto(c, "done")
    /\ held' = held \ {<<"socket", c>>, <<"arg", c>>}
    /\ UNCHANGED <<srv, file, mixed, env>>

\* A reply takes several writes.  If the client has gone, one after the
\* first raises SIGPIPE, which nobody handles: the server ends.
SigPipe(c) ==
    /\ Alive /\ conn[c].req.closes
    /\ pc[c] \in {"reply", "send", "list"} \/ (pc[c] = "save" /\ ~MoreToSave(c))
    /\ Dies
    /\ UNCHANGED <<pc, conn, file, held, mixed, env>>

Handle(c) ==
    \/ RecvHead(c) \/ RecvNothing(c)
    \/ OpenFile(c) \/ OpenFails(c) \/ SendChunk(c) \/ CloseFile(c)
    \/ OpenDirectory(c) \/ SendListing(c)
    \/ MapBody(c) \/ RecvBody(c) \/ RecvEnds(c)
    \/ ParseUpload(c) \/ Create(c) \/ CreateFails(c)
    \/ Write(c) \/ WriteFails(c) \/ CloseSaved(c) \/ ReplyUpload(c)
    \/ ReplyError(c) \/ Leave(c)

Next ==
    \/ Accept \/ MapArg \/ Spawn
    \/ \E c \in Conns : Handle(c) \/ SigPipe(c)

Spec == Init /\ [][Next]_vars

\* A runnable thread runs, and what a client has sent arrives.
FairSpec == Spec /\ WF_vars(MapArg) /\ WF_vars(Spawn) /\ \A c \in Conns : WF_vars(Handle(c))

----------------------------------------------------------------------------
(* Properties                                                              *)

\* The variables have the values the code gives them.
TypeOK ==
    /\ srv.at \in {"accept", "map", "spawn", "dead"} /\ srv.n \in 0 .. NConns
    /\ DOMAIN file \subseteq Names
    /\ mixed \subseteq Conns
    /\ held \subseteq {"socket", "arg", "stack", "body", "listing", "file"} \X Conns
    /\ \A c \in Conns :
         /\ pc[c] \in {"none", "accepted", "recv", "reply", "open", "send", "opendir", "list",
                            "bodymap", "body", "save", "write", "out", "done"}
         /\ conn[c].on \in Names \cup {"none"}
         /\ Len(conn[c].saved) <= MaxSaves
         /\ Len(conn[c].body) <= MaxUpload

\* A part that save_file_part reports as stored is in its file, as the client
\* sent it, when the file is closed - unless another thread had the file open
\* at the same time - and in whatever portions the upload arrived.
SavedIsExact ==
    [][\A c \in Conns \ mixed' :
         conn'[c].saved # conn[c].saved => file'[Name(c)] = Data(c, conn[c].req, Part(c))]_vars

\* An upload whose head came in one piece and which is complete is answered
\* only when the named parts are stored, in their order, up to the size of
\* saved_names; that array and the buffer of the body are never overrun.
NamedParts(r) == {p \in DOMAIN r.parts : r.parts[p].name \in Names}
Rising(s) == \A i, j \in DOMAIN s : i < j => s[i] < s[j]
Complete(c) ==
    /\ Blank \in Range(conn[c].got) /\ conn[c].req.declared = Len(Form(c, conn[c].req))
    /\ ~env.badDisk
AllSaved(c) ==
    LET saved == conn[c].saved IN
    /\ Rising(saved) /\ Range(saved) \subseteq NamedParts(conn[c].req)
    /\ \A p \in NamedParts(conn[c].req) \ Range(saved) :
         Len(saved) = MaxSaves /\ \A q \in Range(saved) : q < p
EverythingSaved ==
    \A c \in Conns :
        /\ Len(conn[c].saved) <= MaxSaves /\ Len(conn[c].body) <= MaxUpload
        /\ pc[c] = "out" /\ conn[c].code = 200 /\ conn[c].req.method = "POST" /\ Complete(c)
             => AllSaved(c)

\* The reply to a GET carries the file, and as many bytes as its head says,
\* unless an upload opened the file meanwhile.
ReplyIsFile ==
    [][\A c \in Conns \ mixed' :
         pc[c] = "send" /\ pc'[c] = "out" =>
            conn[c].sent = file[conn[c].on] /\ Len(conn[c].sent) = conn[c].declared]_vars

\* When a thread has ended, all that is left of its connection is its stack.
NothingLeaks ==
    \A c \in Conns : pc[c] = "done" => \A h \in held : h[2] = c => h[1] = "stack"

\* A thread that has been started ends, unless its client owes it something
\* and stays, or the server has died.
Owes(c) ==
    ~conn[c].req.closes
    /\ Len(conn[c].stream) < Len(HeadOf(conn[c].req)) + Largest(conn[c].req.declared, 0)
Answered ==
    \A c \in Conns : pc[c] = "recv" ~> pc[c] = "done" \/ srv.at = "dead" \/ Owes(c)
=============================================================================
