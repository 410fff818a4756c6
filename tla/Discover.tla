------------------------------ MODULE Discover ------------------------------
(***************************************************************************)
(* app/net/ndiscover.c: ask every address of a network for its hardware    *)
(* address (ARP), ping the hosts that answered for their TTL, guess what   *)
(* they are, sort and print them.                                          *)
(*                                                                         *)
(* The network may lose, delay and repeat answers and carries the traffic  *)
(* of others.  Each packet of either starts the time-out anew.  Which      *)
(* ports are open is ConnectScan's matter and an input here.               *)
(***************************************************************************)
EXTENDS Integers, SequencesExt, FiniteSetsExt

CONSTANTS
    AddrSpace,   \* addresses there are, 2^32
    MaxTargets,  \* MAX_TARGETS
    MaxResults,  \* MAX_RESULTS
    Settings     \* the networks to look at, see DiscoverStart

Addrs == 0 .. AddrSpace - 1

\* Blocks divide the address space; hosts are neither this one nor outside.
LegalSetting(s) ==
    /\ DOMAIN s = {"self", "size", "gateway", "noise", "hosts"}
    /\ s.self \in Addrs /\ s.size \in Nat \ {0} /\ AddrSpace % s.size = 0
    /\ s.noise \in Nat
    /\ DOMAIN s.hosts \subseteq Addrs \ {s.self}
    /\ \A a \in DOMAIN s.hosts : s.hosts[a].ttl \in Nat
ASSUME DiscoverAssumption ==
    /\ AddrSpace \in Nat \ {0} /\ MaxTargets \in Nat /\ MaxResults \in Nat \ {0, 1}
    /\ \A s \in Settings : LegalSetting(s)

VARIABLES
    net,       \* this host, the size of its network, its gateway, the hosts
               \* there are, and how many foreign packets arrive
    discover,  \* where the program is; max_replies of icmp_probe
    probed,    \* the addresses that were asked
    coming,    \* answers still to arrive: address -> number
    found      \* results[]

discoverVars == <<net, discover, probed, coming, found>>

\* net.hosts: address -> [ttl, ports, oui, random], ports the open ones, oui
\* the class the vendor table has for the hardware address or "no", random
\* whether that is a private one.
DiscoverStart(s) ==
    /\ net = s
    /\ discover = [at |-> "arp", quota |-> 0]
    /\ probed = {}
    /\ coming = <<>>
    /\ found = <<>>

DiscoverInit == \E s \in Settings : DiscoverStart(s)

At_D(where) == discover.at = where
Move(where) == discover' = [discover EXCEPT !.at = where]
NetAddr == net.self - (net.self % net.size)

\* num_hosts: the size of the network without its own and the broadcast
\* address.  Unsigned, so a mask of all ones leaves 2^32 - 1.
\* Mutant: num_hosts counts to the end of the network.
NumHosts_Slip == Min({net.size, MaxTargets})
NumHosts == Min({(net.size - 2) % AddrSpace, MaxTargets})

HostEntry(a, self) == [ip |-> a, self |-> self, ttl |-> 0, open |-> {}, class |-> "none", os |-> "none"]

\* arp_scan, first half: requests to all, results[0] is this host.  A host
\* answers once or twice; a request or its answer may be lost.
Ask ==
    /\ At_D("arp")
    /\ probed' = {(NetAddr + i) % AddrSpace : i \in 1 .. NumHosts} \ {net.self, NetAddr + net.size - 1}
    /\ coming' \in [probed' \cap DOMAIN net.hosts -> 0 .. 2]
    /\ found' = <<HostEntry(net.self, TRUE)>>
    /\ Move("listen")
    /\ UNCHANGED net

Known(a) == \E i \in DOMAIN found : found[i].ip = a
Room == Len(found) < MaxResults - 1

\* An ARP answer; the second of a host is dropped.
Hear(a) ==
    /\ At_D("listen") /\ Room /\ coming[a] > 0
    /\ coming' = [coming EXCEPT ![a] = @ - 1]
    /\ found' = IF Known(a) THEN found ELSE Append(found, HostEntry(a, FALSE))
    /\ UNCHANGED <<net, discover, probed>>

\* Something else on the raw socket: requests of others, their pings.
OtherPacket ==
    /\ (At_D("listen") /\ Room) \/ At_D("ttl")
    /\ net.noise > 0
    /\ net' = [net EXCEPT !.noise = @ - 1]
    /\ UNCHANGED <<discover, probed, coming, found>>

\* Silence for the time-out, or results[] is full; then icmp_probe sends an
\* echo request to each host found.
ArpEnds ==
    /\ At_D("listen")
    /\ discover' = [at |-> "ttl", quota |-> Len(found) - 1]
    /\ coming' \in [{a \in Addrs : Known(a)} \ {net.self} -> 0 .. 2]
    /\ UNCHANGED <<net, probed, found>>

\* An echo reply: its TTL is noted unless the host has one, and only then it
\* counts.
\* Mutant: each reply is noted for the first host without a TTL.
EchoReply_Slip(a) ==
    /\ At_D("ttl") /\ discover.quota > 0 /\ coming[a] > 0
    /\ coming' = [coming EXCEPT ![a] = @ - 1]
    /\ LET waiting == {i \in DOMAIN found : ~found[i].self /\ found[i].ttl = 0}
       IN  IF waiting = {} THEN UNCHANGED <<found, discover>>
           ELSE /\ found' = [found EXCEPT ![Min(waiting)].ttl = net.hosts[a].ttl]
                /\ discover' = [discover EXCEPT !.quota = @ - 1]
    /\ UNCHANGED <<net, probed>>
EchoReply(a) ==
    /\ At_D("ttl") /\ discover.quota > 0 /\ coming[a] > 0
    /\ coming' = [coming EXCEPT ![a] = @ - 1]
    /\ LET waiting == {i \in DOMAIN found : found[i].ip = a /\ ~found[i].self /\ found[i].ttl = 0}
       IN  IF waiting = {} THEN UNCHANGED <<found, discover>>
           ELSE /\ found' = [found EXCEPT ![Min(waiting)].ttl = net.hosts[a].ttl]
                /\ discover' = [discover EXCEPT !.quota = @ - 1]
    /\ UNCHANGED <<net, probed>>

\* All have answered, or silence; the port scan, unless --fast, fills in the
\* open ports.
EchoEnds ==
    /\ At_D("ttl")
    /\ Move("classify")
    /\ \E fast \in BOOLEAN :
           found' = [i \in DOMAIN found |->
                        IF found[i].self \/ fast THEN found[i]
                        ELSE [found[i] EXCEPT !.open = net.hosts[found[i].ip].ports]]
    /\ UNCHANGED <<net, probed, coming>>

----------------------------------------------------------------------------
(* classify_device: the first signal there is decides.                     *)

System(ttl) ==
    CASE ttl >= 120 -> "Windows" [] ttl >= 58 /\ ttl < 120 -> "Linux" [] OTHER -> "none"

\* The class the vendor table gives the hardware address, or "no"; the route
\* to 0.0.0.0.
Vendor(h) == net.hosts[h.ip].oui
IsGateway(h) == h.ip = net.gateway

\* Signal 1, the vendor of the hardware address.
ByVendor(h) ==
    <<Vendor(h), IF h.ttl >= 250 THEN "TTL" ELSE System(h.ttl)>>

\* Signal 2, the default gateway; 3, a private hardware address; 4, the TTL.
ByGateway(h) == <<"router", System(h.ttl)>>
ByPrivacy(h) ==
    <<"phone", CASE h.ttl >= 120 -> "iOS" [] h.ttl >= 58 /\ h.ttl < 120 -> "Android" [] OTHER -> "none">>
ByTtl(h) ==
    CASE h.ttl >= 250 -> <<"router", "RTOS">>
      [] h.ttl \in 58 .. 249 -> <<"pc", System(h.ttl)>>
      [] OTHER -> <<"unknown", "TTL">>

\* Signal 5, the open ports.
ByPorts(h) ==
    LET has(p) == p \in h.open
    IN  CASE has("print") -> "printer"
          [] ~has("print") /\ (has("rtsp") \/ has("mqtt")) -> "iot"
          [] has("http") /\ has("https") /\ has("ssh") /\ ~has("print") -> "router"
          [] has("http") /\ has("https") /\ ~has("ssh") /\ ~has("print") -> "nas"
          [] has("ssh") /\ ~(has("http") /\ has("https")) -> "nas"
          [] has("http") /\ ~has("https") /\ ~has("ssh") /\ ~has("print") -> "router"
          [] OTHER -> "unknown"

Guess(h) ==
    IF h.self THEN <<"pc", "none">>
    ELSE IF Vendor(h) # "no" THEN ByVendor(h)
    ELSE IF IsGateway(h) THEN ByGateway(h)
    ELSE IF net.hosts[h.ip].random THEN ByPrivacy(h)
    ELSE IF h.ttl > 0 THEN ByTtl(h)
    ELSE IF h.open # {} THEN <<ByPorts(h), "none">>
    ELSE <<"unknown", "none">>

\* sort_hosts, an insertion sort by address: each goes behind the last that
\* is not above it.
\* (The set with the one member hosts makes TLC evaluate it once.)
InsertHost(hosts, h) ==
    LET Extend(sorted) ==
            LET k == Max({0} \cup {i \in DOMAIN sorted : sorted[i].ip <= h.ip})
            IN  SubSeq(sorted, 1, k) \o <<h>> \o SubSeq(sorted, k + 1, Len(sorted))
    IN  CHOOSE longer \in {Extend(sorted) : sorted \in {hosts}} : TRUE
SortHosts(hosts) ==
    LET sorted[k \in 0 .. Len(hosts)] == IF k = 0 THEN <<>> ELSE InsertHost(sorted[k - 1], hosts[k])
    IN  sorted[Len(hosts)]

Classify ==
    /\ At_D("classify")
    /\ LET classed == [i \in DOMAIN found |->
                          [found[i] EXCEPT !.class = Guess(found[i])[1], !.os = Guess(found[i])[2]]]
       IN  found' = SortHosts(classed)
    /\ Move("done")
    /\ UNCHANGED <<net, probed, coming>>

DiscoverNext ==
    \/ Ask \/ OtherPacket \/ ArpEnds \/ EchoEnds \/ Classify
    \/ \E a \in DOMAIN coming : Hear(a) \/ EchoReply(a)

----------------------------------------------------------------------------
(* Properties                                                              *)

\* Whatever is lost, late or repeated, results[] lists this host and hosts
\* that exist, each once, with its own TTL, within its bounds, and in the end
\* in the order of the addresses.
FoundIsTrue ==
    /\ Len(found) < MaxResults
    /\ \A i, j \in DOMAIN found : i # j => found[i].ip # found[j].ip
    /\ \A i \in DOMAIN found :
           /\ found[i].self <=> found[i].ip = net.self
           /\ ~found[i].self =>
                  /\ found[i].ip \in DOMAIN net.hosts
                  /\ found[i].ttl \in {0, net.hosts[found[i].ip].ttl}
    /\ At_D("done") => \A i \in 1 .. Len(found) - 1 : found[i].ip < found[i + 1].ip

\* The hosts of a network of up to MAX_TARGETS are asked, all of them and no
\* other address; a mask of all ones is excepted, num_hosts wraps around.
AsksTheNetwork ==
    At_D("listen") /\ net.size > 1 /\ net.size - 2 <= MaxTargets =>
        probed = {a \in Addrs : a \div net.size = net.self \div net.size}
                     \ {net.self, NetAddr, NetAddr + net.size - 1}

\* Both, over the whole scan.
DiscoverSound == FoundIsTrue /\ AsksTheNetwork
============================================================================
