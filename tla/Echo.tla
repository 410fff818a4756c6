-------------------------------- MODULE Echo --------------------------------
(***************************************************************************)
(* The three loops that send a request, wait a bounded time on a raw ICMP  *)
(* socket and go on: ping (app/net/ping.c), and netprobe's ping and        *)
(* traceroute (app/net/netprobe.c).                                        *)
(*                                                                         *)
(* A raw socket gets every ICMP packet of the machine: answers to other    *)
(* processes, late and repeated answers to earlier requests and, when a    *)
(* machine pings itself, the requests.                                     *)
(***************************************************************************)
EXTENDS Integers, SequencesExt, FiniteSetsExt

CONSTANTS
    Count,       \* packets to send (-c), or TRACE_MAX_HOPS
    Probes,      \* TRACE_PROBES
    MaxNoise,    \* bound: packets of other processes
    Farthest     \* bound: hops to the target

ASSUME EchoAssumption == {Count, Probes, MaxNoise, Farthest} \subseteq Nat

VARIABLES
    prober,      \* "ping", "sweep" or "trace", the target's distance in hops
                 \* (0: this machine itself), and g_running
    round,       \* where the loop is, seq or ttl, the probe p of that hop
    sent,        \* g_sent
    counted,     \* the packets taken for answers, in order
    inbox,       \* what the socket has received
    air          \* answers on their way

echoVars == <<prober, round, sent, counted, inbox, air>>

EchoStart(tool, distance) ==
    /\ prober = [tool |-> tool, distance |-> distance, running |-> TRUE, noise |-> MaxNoise]
    /\ round = [at |-> "send", seq |-> 1, probe |-> 1]
    /\ sent = 0
    /\ counted = <<>>
    /\ inbox = <<>>
    /\ air = {}

\* A machine traces others; only ping is tried on the machine itself.
EchoInit == \E tool \in {"ping", "sweep", "trace"}, distance \in 0 .. Farthest :
    /\ distance = 0 => tool # "trace"
    /\ tool # "trace" => distance <= 1
    /\ EchoStart(tool, distance)

Tracing == prober.tool = "trace"
Packet(kind, n, ttl) == [kind |-> kind, n |-> n, ttl |-> ttl]
Foreign == Packet("reply", 0, 0)

\* What request n, sent with that TTL, is answered with: an echo reply, or to
\* the probe of a trace a router's or the target's complaint.
Answer(n, ttl) ==
    IF ~Tracing THEN Packet("reply", n, ttl)
    ELSE Packet(IF ttl < prober.distance THEN "exceeded" ELSE "unreachable", n, ttl)

\* for (seq...; seq < count && g_running) and for (ttl...; !dest_reached)
More == round.seq <= Count /\ prober.running

\* Send one request: the answer is lost, or on its way, or (to keep a trace's
\* states few, of an echo) on its way twice.
Send ==
    /\ round.at = "send" /\ More
    /\ sent' = sent + 1
    /\ LET answer == Answer(sent + 1, round.seq)
       IN  IF prober.distance = 0
           THEN /\ inbox' = inbox \o <<Packet("request", sent + 1, round.seq), answer>>
                /\ UNCHANGED air
           ELSE /\ \E copies \in {{}, {1}} \cup (IF Tracing THEN {} ELSE {{1, 2}}) :
                    air' = air \cup (copies \X {answer})
                /\ UNCHANGED inbox
    /\ round' = [round EXCEPT !.at = "receive"]
    /\ UNCHANGED <<prober, counted>>

\* sendto fails: on to the next number, a trace shows a star.
NextRound ==
    IF Tracing /\ round.probe < Probes
    THEN [round EXCEPT !.at = "send", !.probe = @ + 1]
    ELSE [at |-> "send", seq |-> round.seq + 1, probe |-> 1]
SendFails ==
    /\ round.at = "send" /\ More
    /\ round' = NextRound
    /\ UNCHANGED <<prober, sent, counted, inbox, air>>

Arrives == \E m \in air :
    /\ round.at # "done"
    /\ air' = air \ {m}
    /\ inbox' = Append(inbox, m[2])
    /\ UNCHANGED <<prober, round, sent, counted>>
OtherArrives ==
    /\ prober.noise > 0 /\ round.at # "done"
    /\ prober' = [prober EXCEPT !.noise = @ - 1]
    /\ inbox' = Append(inbox, Foreign)
    /\ UNCHANGED <<round, sent, counted, air>>

\* Nothing for a second, three in a trace; or the signal ends the wait.
\* Mutant: without SO_RCVTIMEO only the signal does.
TimesOut_Slip ==
    /\ round.at = "receive" /\ inbox = <<>> /\ ~prober.running
    /\ round' = NextRound
    /\ UNCHANGED <<prober, sent, counted, inbox, air>>
TimesOut ==
    /\ round.at = "receive" /\ inbox = <<>>
    /\ round' = NextRound
    /\ UNCHANGED <<prober, sent, counted, inbox, air>>

\* Which packets each loop takes for its answer.  ping looks at the process
\* number in the packet, netprobe does not.
\* Mutant: ping does not either.
Accepted_Slip(m) == m.kind = "reply"
Accepted(m) == m.kind = "reply" /\ (prober.tool = "ping" => m.n # 0)

\* ping, sweep: count an answer and go on; for any other packet send the same
\* number again (seq--).
ReceiveEcho ==
    /\ ~Tracing /\ round.at = "receive" /\ inbox # <<>>
    /\ IF Accepted(Head(inbox))
       THEN counted' = Append(counted, Head(inbox)) /\ round' = NextRound
       ELSE UNCHANGED counted /\ round' = [round EXCEPT !.at = "send"]
    /\ inbox' = Tail(inbox)
    /\ UNCHANGED <<prober, sent, air>>

\* trace: a complaint is this probe's answer, whichever it is to; that of a
\* target ends the trace, any other packet is a star.
ReceiveHop ==
    /\ Tracing /\ round.at = "receive" /\ inbox # <<>>
    /\ IF Head(inbox).kind \in {"exceeded", "unreachable"}
       THEN /\ counted' = Append(counted, Packet(Head(inbox).kind, sent, round.seq))
            /\ round' = IF Head(inbox).kind = "unreachable" THEN [round EXCEPT !.at = "report"] ELSE NextRound
       ELSE UNCHANGED counted /\ round' = NextRound
    /\ inbox' = Tail(inbox)
    /\ UNCHANGED <<prober, sent, air>>

\* SIGINT; only ping has a handler and prints its statistics.
Interrupt ==
    /\ prober.tool = "ping" /\ prober.running /\ round.at # "done"
    /\ prober' = [prober EXCEPT !.running = FALSE]
    /\ UNCHANGED <<round, sent, counted, inbox, air>>

Report ==
    /\ round.at = "report" \/ (round.at = "send" /\ ~More)
    /\ round' = [round EXCEPT !.at = "done"]
    /\ UNCHANGED <<prober, sent, counted, inbox, air>>

EchoStep == Send \/ SendFails \/ TimesOut \/ ReceiveEcho \/ ReceiveHop \/ Report
EchoNext == EchoStep \/ Arrives \/ OtherArrives \/ Interrupt

----------------------------------------------------------------------------
(* Properties                                                              *)

\* ping counts answers to its own requests only, and no more than it sent;
\* a trace that ends at the target does not show it nearer than it is.
EchoSound ==
    /\ Len(counted) <= sent
    /\ prober.tool = "ping" => \A i \in DOMAIN counted : counted[i].n \in 1 .. sent
    /\ Tracing => \A i \in DOMAIN counted :
           round.at = "report" /\ i = Len(counted) => counted[i].ttl >= prober.distance
============================================================================
