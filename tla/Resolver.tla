------------------------------ MODULE Resolver ------------------------------
(***************************************************************************)
(* The DNS client lib/net/dns.c and its callers: getaddrinfo, ping's look  *)
(* up of its target, dnsquery, and http, which asks itself and tries all   *)
(* the addresses it is given.                                              *)
(*                                                                         *)
(* A reply is the sequence of its answer records.  What a server sends is  *)
(* derived from a zone; it may follow aliases itself or leave that to the  *)
(* client.  Queries and replies may be lost; tlibc_dns_query then waits    *)
(* for ever.                                                               *)
(***************************************************************************)
EXTENDS Integers, SequencesExt, FiniteSetsExt

CONSTANTS
    Names,        \* domain names
    Junk,         \* what an uninitialised cname_buf may hold, a name nobody has
    Numeric,      \* address -> its numeric notation is what the user typed
    Zones,        \* the contents of the DNS: name -> record
    Hosts,        \* the names that are looked up
    UpSets,       \* which addresses accept a connection: sets of them
    FaultSets,    \* what fails: sets of faults
    MaxChain,     \* MAX_CNAME_CHAIN
    MaxIps        \* MAX_IPS of http

Empty == "empty"
ASSUME NamesAssumption ==
    /\ IsFiniteSet(Names) /\ Hosts \subseteq Names
    /\ Empty \notin Names /\ Junk \notin Names /\ Junk # Empty /\ Junk \notin DOMAIN Numeric

\* A record set: [type |-> "A", addrs |-> <<...>>], [type |-> "CNAME", to |-> name],
\* [type |-> "other"] (only records of other types) or [type |-> "none"].  What
\* reads as an address is no name in the DNS.
LegalZone(z) ==
    /\ DOMAIN z \subseteq Names \ DOMAIN Numeric
    /\ \A n \in DOMAIN z :
           \/ z[n].type = "A" /\ z[n].addrs # <<>> /\ z[n].addrs \in Seq(ToSet(z[n].addrs))
           \/ z[n].type = "CNAME" /\ z[n].to \in Names
           \/ z[n].type \in {"other", "none"}
ASSUME ZonesAssumption == \A z \in Zones : LegalZone(z)
ASSUME LimitsAssumption == MaxChain \in Nat /\ MaxChain >= 2 /\ MaxIps \in Nat

VARIABLES
    call,         \* who calls, for what, which addresses are up, what fails
    zone,         \* what the DNS holds, and whether the server follows aliases
    lookup,       \* where the call is, the name asked for, depth, cname_buf
    reply,        \* the reply received, or the wait for it
    asked,        \* queries sent
    owned,        \* heap blocks and sockets the call holds
    answer        \* what the caller gets: a code and addresses

resolverVars == <<call, zone, lookup, reply, asked, owned, answer>>

Callers == {"getaddrinfo", "numerichost", "ping", "http", "dnsquery"}

ResolverStart(who, host, z, follows, buffer, up, faults) ==
    /\ call = [who |-> who, host |-> host, up |-> up, faults |-> faults]
    /\ zone = [at |-> z, follows |-> follows]
    /\ lookup = [at |-> "start", name |-> host, cname |-> buffer, depth |-> 0]
    /\ reply = <<>>
    /\ asked = 0
    /\ owned = {}
    /\ answer = [code |-> "none", addrs |-> <<>>]

ResolverInit ==
    \E who \in Callers, host \in Hosts, z \in Zones, follows \in BOOLEAN, buffer \in {Empty, Junk},
       up \in UpSets, faults \in FaultSets :
        ResolverStart(who, host, z, follows, buffer, up, faults)

Resolving(where) == lookup.at = where
Step(where) == lookup' = [lookup EXCEPT !.at = where]
MayFail(what) == what \in call.faults
Finish(code, addrs) == answer' = [code |-> code, addrs |-> addrs] /\ Step("returned")

----------------------------------------------------------------------------
(* The server                                                              *)

ZoneOf(z, n) == IF n \in DOMAIN z THEN z[n] ELSE [type |-> "none"]
Records(z, n) ==
    CASE ZoneOf(z, n).type = "A" -> [i \in DOMAIN z[n].addrs |-> [type |-> "A", data |-> z[n].addrs[i]]]
      [] ZoneOf(z, n).type = "CNAME" -> <<[type |-> "CNAME", data |-> z[n].to]>>
      [] ZoneOf(z, n).type = "other" -> <<[type |-> "other", data |-> Empty]>>
      [] ZoneOf(z, n).type = "none" -> <<>>

\* The name behind k aliases.
IsAlias(z, n) == ZoneOf(z, n).type = "CNAME"
Alias(z, n) == LET name[k \in Nat] == IF k = 0 THEN n
                                      ELSE IF IsAlias(z, name[k - 1]) THEN z[name[k - 1]].to ELSE name[k - 1]
               IN  name
MostAliases == Cardinality(Names)
Target(z, n) == Alias(z, n)[MostAliases]
Aliases(z, n) == CHOOSE k \in 0 .. MostAliases :
    Alias(z, n)[k] = Target(z, n) /\ \A j \in 0 .. k - 1 : Alias(z, n)[j] # Target(z, n)

\* A server that follows aliases sends all of them, and what is behind.
Response(dns, n) ==
    LET z == dns.at
    IN  IF ~dns.follows THEN Records(z, n)
        ELSE [k \in 1 .. Aliases(z, n) |-> [type |-> "CNAME", data |-> Alias(z, n)[k]]] \o Records(z, Target(z, n))

----------------------------------------------------------------------------
(* The client                                                              *)

\* A numeric address needs no query; getaddrinfo with AI_NUMERICHOST takes
\* nothing else.
IsNumeric ==
    /\ Resolving("start") /\ call.who # "dnsquery"
    /\ call.host \in DOMAIN Numeric
    /\ answer' = [code |-> "ok", addrs |-> <<Numeric[call.host]>>]
    /\ Step(IF call.who = "http" THEN "connect" ELSE "resolved")
    /\ UNCHANGED <<call, zone, reply, asked, owned>>
NotNumeric ==
    /\ Resolving("start") /\ call.who = "numerichost"
    /\ call.host \notin DOMAIN Numeric
    /\ Finish("error", <<>>)
    /\ UNCHANGED <<call, zone, reply, asked, owned>>

\* build_query and the first half of tlibc_dns_query: a label may be too
\* long, a socket or the route missing.
Query ==
    /\ \/ Resolving("start") /\ (call.who = "dnsquery" \/ call.host \notin DOMAIN Numeric)
       \/ Resolving("next")
    /\ call.who # "numerichost"
    /\ \/ /\ asked' = asked + 1
          /\ owned' = owned \cup {"udp"}
          /\ lookup' = [lookup EXCEPT !.at = "wait", !.cname = IF Resolving("next") THEN Empty ELSE @]
          /\ UNCHANGED answer
       \/ /\ MayFail("query")
          /\ Finish("error", <<>>)
          /\ UNCHANGED <<asked, owned>>
    /\ UNCHANGED <<call, zone, reply>>

\* recvfrom takes the first datagram there is; the socket is closed.  A reply
\* longer than the buffer loses its last records.
Receive ==
    /\ Resolving("wait")
    /\ \E cut \in (IF MayFail("cut") THEN 0 .. 1 ELSE {0}) :
           reply' = SubSeq(Response(zone, lookup.name), 1, Len(Response(zone, lookup.name)) - cut)
    /\ owned' = owned \ {"udp"}
    /\ Step("parse")
    /\ UNCHANGED <<call, zone, asked, answer>>
Lost ==
    /\ Resolving("wait") /\ MayFail("loss")
    /\ Step("hangs")
    /\ UNCHANGED <<call, zone, reply, asked, owned, answer>>

\* The records of a type, and the addresses among them in order.
Of(type) == {i \in DOMAIN reply : reply[i].type = type}
Addresses ==
    LET found[k \in 0 .. Len(reply)] ==
            IF k = 0 THEN <<>>
            ELSE IF k \in Of("A") THEN Append(found[k - 1], reply[k].data) ELSE found[k - 1]
    IN  found[Len(reply)]

\* The alias cname_buf is left with, when there is no address.
\* Mutant: cname_buf takes the last alias even when it is about to return.
LastAlias_Slip ==
    IF Of("CNAME") # {} THEN reply[Max(Of("CNAME"))].data ELSE lookup.cname
LastAlias ==
    IF Of("CNAME") # {} /\ lookup.depth < MaxChain - 1
    THEN reply[Max(Of("CNAME"))].data ELSE lookup.cname

\* One turn of resolve_ns: an address ends it, an alias is asked for, and so
\* is what the uninitialised buffer holds.  Depth counts the queries after
\* the first.
Parse ==
    /\ Resolving("parse") /\ call.who \in {"getaddrinfo", "ping"}
    /\ IF reply = <<>> THEN Finish("error", <<>>)
       ELSE IF Of("A") # {}
       THEN answer' = [code |-> "ok", addrs |-> <<reply[Min(Of("A"))].data>>] /\ Step("resolved")
       ELSE IF LastAlias = Empty THEN Finish("error", <<>>)
       ELSE /\ lookup' = [at |-> "next", name |-> LastAlias, cname |-> LastAlias, depth |-> lookup.depth + 1]
            /\ UNCHANGED answer
    /\ UNCHANGED <<call, zone, reply, asked, owned>>

\* http and dnsquery look at this reply only; http keeps MAX_IPS addresses.
ParseOnce ==
    /\ Resolving("parse") /\ call.who \in {"http", "dnsquery"}
    /\ IF reply = <<>> \/ (call.who = "http" /\ Of("A") = {}) THEN Finish("error", <<>>)
       ELSE IF call.who = "dnsquery" THEN Finish("ok", Addresses)
       ELSE /\ answer' = [code |-> "ok", addrs |-> SubSeq(Addresses, 1, IF Len(Addresses) < MaxIps THEN Len(Addresses) ELSE MaxIps)]
            /\ Step("connect")
    /\ UNCHANGED <<call, zone, reply, asked, owned>>

\* ping is done; getaddrinfo needs two blocks, a third for AI_CANONNAME is
\* not insisted upon.
Resolved ==
    /\ Resolving("resolved")
    /\ IF call.who = "ping" THEN Step("returned") /\ UNCHANGED <<owned, answer>>
       ELSE \/ /\ \E name \in SUBSET {"name"} : owned' = owned \cup {"info", "address"} \cup name
               /\ Step("inUse") /\ UNCHANGED answer
            \/ MayFail("memory") /\ Finish("error", <<>>) /\ UNCHANGED owned
    /\ UNCHANGED <<call, zone, reply, asked>>

FreeAddrInfo ==
    /\ Resolving("inUse")
    /\ owned' = owned \ {"info", "address", "name"}
    /\ Step("returned")
    /\ UNCHANGED <<call, zone, reply, asked, answer>>

\* http tries the addresses in order; the first that accepts is asked, its
\* reply read once.
Connect ==
    /\ Resolving("connect")
    /\ LET ups == {i \in DOMAIN answer.addrs : answer.addrs[i] \in call.up}
       IN  IF ups = {} THEN Finish("error", <<>>) ELSE Finish("ok", <<answer.addrs[Min(ups)]>>)
    /\ UNCHANGED <<call, zone, reply, asked, owned>>

ResolverNext ==
    \/ IsNumeric \/ NotNumeric \/ Query \/ Receive \/ Lost \/ Parse \/ ParseOnce
    \/ Resolved \/ FreeAddrInfo \/ Connect

----------------------------------------------------------------------------
(* Properties                                                              *)

\* What the zone says: the address at the end of the aliases.
InZone(z, n) == IF n \in DOMAIN Numeric THEN {Numeric[n]} ELSE {r.data : r \in ToSet(Records(z, Target(z, n)))}

\* There is an address behind few enough aliases.
Findable(z, n) == ZoneOf(z, Target(z, n)).type = "A" /\ Aliases(z, n) < MaxChain

\* An address that is returned is the host's, through any number of aliases;
\* a host with an address behind fewer than MAX_CNAME_CHAIN aliases is found
\* unless something failed; loops of aliases end after that many queries; and
\* a call that has returned holds nothing.
ResolverSound ==
    /\ answer.code = "ok" => ToSet(answer.addrs) \subseteq InZone(zone.at, call.host)
    /\ /\ Resolving("returned") /\ call.faults = {} /\ call.who \in {"getaddrinfo", "ping"}
       /\ call.host \in DOMAIN Numeric \/ Findable(zone.at, call.host)
       => answer.code = "ok"
    /\ asked <= MaxChain
    /\ Resolving("returned") => owned = {}
============================================================================
