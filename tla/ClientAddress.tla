----------------------------- MODULE ClientAddress ----------------------------
(***************************************************************************)
(* src/internal/xff/xff.go: the rate limit key of a request when no        *)
(* KeyFunc is given, for every way a request can reach the server.  A      *)
(* client opens with forwarding headers of its own making, machines relay  *)
(* the request and note whom they got it from, and the server takes the    *)
(* key of the connection that the last of them opened.                     *)
(*                                                                         *)
(* The text of a header is a sequence of lines of entries; an entry is a   *)
(* host, with or without a port, and a host is an address, Malformed or    *)
(* Empty.  An entry of the trusted list, an IP or a CIDR block, is the set *)
(* of addresses that it matches.                                           *)
(***************************************************************************)
EXTENDS Integers, SequencesExt

CONSTANTS
    Clients,        \* addresses of clients
    Proxies,        \* addresses of the operator's machines
    TrustLists,     \* the values of WithTrustedProxies to check
    Malformed, Empty,
    MaxForged,      \* bound: entries in the headers of a client
    MaxHops         \* bound: machines between the client and the server

Addresses == Clients \cup Proxies

ASSUME AddressAssumption ==
    /\ Clients \cap Proxies = {}
    /\ {Malformed, Empty} \cap Addresses = {}
    /\ TrustLists \subseteq SUBSET SUBSET Proxies
    /\ {MaxForged, MaxHops} \subseteq Nat

Entry(host, port) == [host |-> host, port |-> port]
NoEntry == Entry(Empty, FALSE)

VARIABLES
    trusted,        \* Config.trustedProxies
    path,           \* the client and the machines that relayed its request
    lines,          \* X-Forwarded-For
    realIP          \* X-Real-IP

vars == <<trusted, path, lines, realIP>>

-------------------------------------------------------------------------------
(* The key of a request.                                                   *)

(* Mutant: the port stays.                                                 *)
CleanWithPort(entry) == IF entry.port THEN Malformed ELSE entry.host

(* cleanIP: blanks, a port and brackets are stripped.                      *)
CleanIP(entry) == entry.host

IsTrusted(host, list) == \E matched \in list : host \in matched

(* Mutant: the first entry of the header, as before version 1.2.1.         *)
ClientIPLeftmost(remote, forwarded, real, list) ==
    LET remoteIP == CleanIP(remote)
    IN  IF ~IsTrusted(remoteIP, list) \/ forwarded = <<>> THEN remoteIP
        ELSE CleanIP(forwarded[1])

(* The rightmost address of X-Forwarded-For that is not trusted, else      *)
(* X-Real-IP, else the peer; the headers count only from a trusted peer.   *)
ClientIP(remote, forwarded, real, list) ==
    LET remoteIP == CleanIP(remote)
        Names(entry) == CleanIP(entry) \in Addresses /\ ~IsTrusted(CleanIP(entry), list)
        last == SelectLastInSeq(forwarded, Names)
    IN  IF ~IsTrusted(remoteIP, list) THEN remoteIP
        ELSE IF last # 0 THEN CleanIP(forwarded[last])
        ELSE IF Names(real) THEN CleanIP(real) ELSE remoteIP

(* ExtractClientIP joins the lines of the header.                          *)
Joined(header) == FlattenSeq(header)

Key == ClientIP(Entry(Last(path), TRUE), Joined(lines), realIP, trusted)

-------------------------------------------------------------------------------
(* The way of a request.                                                   *)

ForgedEntries == {Entry(host, FALSE) : host \in Addresses \cup {Malformed}}
ForgedLines == {<<>>} \cup
    {<<line>> : line \in UNION {[1 .. n -> ForgedEntries] : n \in 1 .. MaxForged}}

Init ==
    /\ trusted \in TrustLists
    /\ path \in {<<client>> : client \in Clients}
    /\ lines \in ForgedLines
    /\ realIP \in ForgedEntries \cup {NoEntry}

(* A machine appends the address it got the request from to the header's   *)
(* last line, or adds a line.                                              *)
Relay(machine, port) ==
    /\ Len(path) <= MaxHops
    /\ path' = Append(path, machine)
    /\ LET entry == Entry(Last(path), port)
       IN  \/ lines' = Append(lines, <<entry>>)
           \/ /\ lines # <<>>
              /\ lines' = Front(lines) \o <<Append(Last(lines), entry)>>
    /\ UNCHANGED <<trusted, realIP>>

(* A machine that faces the clients sets X-Real-IP and drops what they     *)
(* wrote into X-Forwarded-For.                                             *)
Terminate(machine, port) ==
    /\ Len(path) = 1
    /\ path' = Append(path, machine)
    /\ lines' = <<>>
    /\ realIP' = Entry(path[1], port)
    /\ UNCHANGED trusted

Next ==
    \E machine \in Addresses, port \in BOOLEAN :
        Relay(machine, port) \/ Terminate(machine, port)

Spec == Init /\ [][Next]_vars

-------------------------------------------------------------------------------
(* Properties.                                                             *)

(* Whatever the headers hold, the key is an address, without a port.       *)
TypeOK ==
    /\ trusted \in TrustLists
    /\ path \in Seq(Addresses)
    /\ realIP \in {Entry(host, port) : host \in Addresses \cup {Malformed, Empty},
                                       port \in BOOLEAN}
    /\ Key \in Addresses

(* The machine that the trusted ones got the request from.                 *)
LastStranger ==
    path[SelectLastInSeq(path, LAMBDA machine : ~IsTrusted(machine, trusted))]

(* A client cannot choose its key: it is the address of the last machine on*)
(* the way that the operator does not trust, whatever that machine and the *)
(* ones before it wrote into the headers, and however many lines the       *)
(* trusted ones spread them over (xff.go:9-10, CHANGELOG 1.2.1).           *)
KeyIsLastStranger == Key = LastStranger
===============================================================================
