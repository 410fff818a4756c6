---------------------------- MODULE ConnectScan ----------------------------
(***************************************************************************)
(* The scan by non-blocking connects that app/net/portscan.c makes over    *)
(* the ports of a host, and ndiscover.c, one port after the other, over    *)
(* the hosts it has found: start a batch of connects, poll once for their  *)
(* outcome, close them, go on with the next batch.                         *)
(*                                                                         *)
(* poll returns as soon as one connect has an outcome, with the outcomes   *)
(* there are by then.  A refused connect polls as POLLOUT together with    *)
(* POLLERR and POLLHUP.                                                    *)
(***************************************************************************)
EXTENDS Integers, SequencesExt

CONSTANTS
    NTargets,    \* targets, scanned in the order 1 .. NTargets
    BatchMax,    \* MAX_BATCH of portscan, BATCH_MAX of ndiscover
    Outcomes     \* the kinds of targets: subset of AllOutcomes

ASSUME ScanAssumption == NTargets \in Nat /\ BatchMax \in Nat \ {0}

Targets == 1 .. NTargets

\* What a target does with a connect: answer it at once, in time (before the
\* poll times out), or not in time.  "self" is this host in ndiscover's list.
AllOutcomes == {"opensNow", "refusesNow", "opens", "refuses", "silent", "self", "noSocket"}

VARIABLES
    scanner,     \* "portscan" or "ndiscover"
    target,      \* what each target does
    scan,        \* where the scan is, the next target, how many this batch took
    batch,       \* the connects in progress, in order
    reported     \* the targets reported open, in order

scanVars == <<scanner, target, scan, batch, reported>>

ScanStart(tool, kinds) ==
    /\ scanner = tool
    /\ target = kinds
    /\ scan = [at |-> "fill", next |-> 1, taken |-> 0]
    /\ batch = <<>>
    /\ reported = <<>>

\* portscan has one host, which is not in a list.
ScanInit == \E tool \in {"portscan", "ndiscover"}, kinds \in [Targets -> Outcomes] :
    /\ tool = "portscan" => \A t \in Targets : kinds[t] # "self"
    /\ ScanStart(tool, kinds)

\* portscan counts the targets it tries, ndiscover the connects that wait.
BatchFull ==
    IF scanner = "portscan" THEN scan.taken = BatchMax ELSE Len(batch) = BatchMax

Filling == scan.at = "fill" /\ scan.next <= NTargets /\ ~BatchFull
Proceed == scan' = [scan EXCEPT !.next = @ + 1, !.taken = @ + 1]

\* The connect is refused at once, there is no socket for it, or it is this
\* host: the target is passed over.
Skip ==
    /\ Filling
    /\ target[scan.next] \in {"refusesNow", "noSocket", "self"}
    /\ Proceed
    /\ UNCHANGED <<scanner, target, batch, reported>>

ConnectNow ==
    /\ Filling
    /\ target[scan.next] = "opensNow"
    /\ reported' = Append(reported, scan.next)
    /\ Proceed
    /\ UNCHANGED <<scanner, target, batch>>

\* EINPROGRESS.
ConnectWaits ==
    /\ Filling
    /\ target[scan.next] \in {"opens", "refuses", "silent"}
    /\ batch' = Append(batch, scan.next)
    /\ Proceed
    /\ UNCHANGED <<scanner, target, reported>>

\* Which revents count as open.
\* Mutant: without the test for POLLERR and POLLHUP.
TakenForOpen_Slip(t) == target[t] \in {"opens", "refuses"}
TakenForOpen(t) ==
    \/ target[t] = "opens"
    \/ target[t] = "refuses" /\ scanner = "ndiscover"

\* The look at each revents, in the order of the batch.
OpenOf(ready) ==
    LET open[k \in 0 .. Len(batch)] ==
            IF k = 0 THEN <<>>
            ELSE IF batch[k] \in ready /\ TakenForOpen(batch[k]) THEN Append(open[k - 1], batch[k]) ELSE open[k - 1]
    IN  open[Len(batch)]

\* poll, the look at its outcomes, and the closing of all of the batch.
PollBatch ==
    /\ scan.at = "fill"
    /\ BatchFull \/ scan.next > NTargets
    /\ scan.next <= NTargets \/ batch # <<>>
    /\ LET answered == {t \in ToSet(batch) : target[t] \in {"opens", "refuses", "opensNow"}}
       IN  \E ready \in SUBSET answered :
               /\ answered # {} => ready # {}
               /\ reported' = reported \o OpenOf(ready)
    /\ batch' = <<>>
    /\ scan' = [scan EXCEPT !.taken = 0]
    /\ UNCHANGED <<scanner, target>>

ScanEnd ==
    /\ scan.at = "fill" /\ scan.next > NTargets /\ batch = <<>>
    /\ scan' = [scan EXCEPT !.at = "done"]
    /\ UNCHANGED <<scanner, target, batch, reported>>

ScanNext == Skip \/ ConnectNow \/ ConnectWaits \/ PollBatch \/ ScanEnd

----------------------------------------------------------------------------
(* Properties                                                              *)

\* What is reported open is open, no target is reported twice, and none is
\* waited for twice.  Of ndiscover only the second: it takes a refusal for an
\* open port (probe_ports looks at POLLOUT alone).
ScanSound ==
    /\ IsInjective(reported)
    /\ ToSet(batch) \cap ToSet(reported) = {}
    /\ scanner = "portscan" =>
           \A t \in ToSet(reported) : target[t] \in {"opens", "opensNow"}

\* Every open port that answers in time is in the results of portscan
\* ("wait for the outcome with poll, write the open ports to results").
OpenIsReported ==
    scan.at = "done" /\ scanner = "portscan" =>
        \A t \in Targets : target[t] \in {"opens", "opensNow"} => t \in ToSet(reported)
============================================================================
