------------------------------ MODULE NetTools ------------------------------
(* The network tools, one of them at a time: they share nothing, so the    *)
(* state space is the sum of theirs.  netTool says which it is.            *)
EXTENDS ConnectScan, Discover, Echo, Resolver

VARIABLE netTool

netVars == <<netTool, scanVars, discoverVars, echoVars, resolverVars>>

\* What the tools that are not run start with.
ScanRest == ScanStart("portscan", [t \in Targets |-> "silent"])
DiscoverRest == DiscoverStart([self |-> 0, size |-> 1, gateway |-> 0, noise |-> 0, hosts |-> <<>>])
EchoRest == EchoStart("ping", 0)
ResolverRest == ResolverStart("ping", Junk, <<>>, FALSE, Empty, {}, {})
NetRest == ScanRest /\ DiscoverRest /\ EchoRest /\ ResolverRest

NetInit ==
    \/ netTool = "scan" /\ ScanInit /\ DiscoverRest /\ EchoRest /\ ResolverRest
    \/ netTool = "discover" /\ DiscoverInit /\ ScanRest /\ EchoRest /\ ResolverRest
    \/ netTool = "echo" /\ EchoInit /\ ScanRest /\ DiscoverRest /\ ResolverRest
    \/ netTool = "resolve" /\ ResolverInit /\ ScanRest /\ DiscoverRest /\ EchoRest

NetNext ==
    /\ UNCHANGED netTool
    /\ \/ netTool = "scan" /\ ScanNext /\ UNCHANGED <<discoverVars, echoVars, resolverVars>>
       \/ netTool = "discover" /\ DiscoverNext /\ UNCHANGED <<scanVars, echoVars, resolverVars>>
       \/ netTool = "echo" /\ EchoNext /\ UNCHANGED <<scanVars, discoverVars, resolverVars>>
       \/ netTool = "resolve" /\ ResolverNext /\ UNCHANGED <<scanVars, discoverVars, echoVars>>

NetSpec == NetInit /\ [][NetNext]_netVars

----------------------------------------------------------------------------
(* Properties                                                              *)

\* What the probing tools say about a host or a port is true, and ndiscover
\* asks every address of its network.
ProbesSound == ScanSound /\ EchoSound /\ DiscoverSound
=============================================================================
