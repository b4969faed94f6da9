----------------------------- MODULE EgressPolicy -----------------------------
(* The two defences against queries to internal addresses: the host's      *)
(* egress policy (sockets.go, applied to Config.RootHints by NewRuntime    *)
(* too) and the guest's do-not-query list (module.go).                     *)
(*                                                                         *)
(* An address is a sequence of 16-bit groups, two for IPv4 and eight for   *)
(* IPv6; a prefix is an address and a number of bits.                      *)
EXTENDS Integers, Sequences

V4(a, b, c, d, n) == [ip |-> <<a * 256 + b, c * 256 + d>>, bits |-> n]
V6(a, b, c, n) ==
    [ip |-> [k \in 1..8 |-> CASE k = 1 -> a [] k = 2 -> b [] k = 3 -> c [] OTHER -> 0], bits |-> n]

\* ::1/128 and ::ffff:0:0/96.
loopbackV6 == [ip |-> [k \in 1..8 |-> IF k = 8 THEN 1 ELSE 0], bits |-> 128]
mappedV4   == [ip |-> [k \in 1..8 |-> IF k = 6 THEN \hffff ELSE 0], bits |-> 96]

deniedNetworks ==
    {V4(0, 0, 0, 0, 8), V4(10, 0, 0, 0, 8), V4(100, 64, 0, 0, 10),
     V4(127, 0, 0, 0, 8), V4(169, 254, 0, 0, 16), V4(172, 16, 0, 0, 12),
     V4(192, 0, 0, 0, 24), V4(192, 0, 2, 0, 24), V4(192, 88, 99, 0, 24),
     V4(192, 168, 0, 0, 16), V4(198, 18, 0, 0, 15), V4(198, 51, 100, 0, 24),
     V4(203, 0, 113, 0, 24), V4(224, 0, 0, 0, 4), V4(240, 0, 0, 0, 4),
     V6(0, 0, 0, 128), loopbackV6,
     V6(\h64, \hff9b, 0, 96), V6(\h64, \hff9b, 1, 48), V6(\h100, 0, 0, 64),
     V6(\h2001, 0, 0, 23), V6(\h2001, \hdb8, 0, 32), V6(\h2002, 0, 0, 16),
     V6(\h3fff, 0, 0, 20), V6(\h5f00, 0, 0, 16), V6(\hfc00, 0, 0, 7),
     V6(\hfe80, 0, 0, 10), V6(\hff00, 0, 0, 8)}

globalUnicastV6 == V6(\h2000, 0, 0, 3)

(* The do-not-query-address lines of defaultCanonicalConfig, in the order  *)
(* of the file; the private-address lines name the same prefixes.          *)
doNotQuery ==
    {V4(192, 168, 0, 0, 16), V4(172, 16, 0, 0, 12), V4(10, 0, 0, 0, 8),
     V4(127, 0, 0, 0, 8), V4(0, 0, 0, 0, 8), V4(169, 254, 0, 0, 16),
     V4(192, 0, 0, 0, 24), V4(192, 0, 2, 0, 24), V4(198, 51, 100, 0, 24),
     V4(203, 0, 113, 0, 24), V4(192, 88, 99, 0, 24), V4(198, 18, 0, 0, 15),
     V4(224, 0, 0, 0, 4), V4(240, 0, 0, 0, 4), V4(255, 255, 255, 255, 32),
     V4(100, 64, 0, 0, 10),
     V6(0, 0, 0, 128), loopbackV6,
     mappedV4, V6(\h100, 0, 0, 64), V6(\h2001, 0, 0, 23),
     V6(\h2001, \hdb8, 0, 32), V6(\hfc00, 0, 0, 7), V6(\hfe80, 0, 0, 10),
     V6(\hff00, 0, 0, 8), V6(\h64, \hff9b, 0, 96), V6(\h64, \hff9b, 1, 48),
     V6(\h2002, 0, 0, 16), V6(\h3fff, 0, 0, 20), V6(\h5f00, 0, 0, 16),
     V6(\hfec0, 0, 0, 10), V6(0, 0, 0, 96)}

(* How many of a prefix's bits lie in group k.                             *)
GroupBits(p, k) ==
    LET left == p.bits - 16 * (k - 1)
    IN  IF left < 0 THEN 0 ELSE IF left > 16 THEN 16 ELSE left

(* How many values a group has that agree in b bits: 2^(16 - b).           *)
Span(b) ==
    <<65536, 32768, 16384, 8192, 4096, 2048, 1024, 512, 256, 128, 64, 32, 16, 8, 4, 2, 1>>[b + 1]

(* netip.Prefix.Contains, and Unbound's address tree: of one family, and   *)
(* equal in the bits of the prefix.                                        *)
Within(p, ip) ==
    /\ Len(ip) = Len(p.ip)
    /\ \A k \in DOMAIN ip : LET span == Span(GroupBits(p, k))
                            IN  ip[k] \div span = p.ip[k] \div span

IsMapped(ip) == Len(ip) = 8 /\ Within(mappedV4, ip)

Map4(ip) == <<0, 0, 0, 0, 0, \hffff>> \o ip

(* netip.Addr.Unmap.                                                       *)
Unmap(ip) == IF IsMapped(ip) THEN SubSeq(ip, 7, 8) ELSE ip

(* Mutant of egressAllowed: IPv6 outside the listed networks is let out.   *)
egressAllowedListed(ip, port) ==
    /\ port = 53
    /\ ~\E p \in deniedNetworks : Within(p, Unmap(ip))

egressAllowed(ip, port) ==
    /\ port = 53
    /\ Len(Unmap(ip)) = 8 => Within(globalUnicastV6, Unmap(ip))
    /\ ~\E p \in deniedNetworks : Within(p, Unmap(ip))

(* NewRuntime's check of Config.RootHints.                                 *)
RootHintAllowed(ip) == egressAllowed(ip, 53)

(* The guest's iterator drops a server whose address is in the list; it    *)
(* takes a mapped address for the IPv6 address that it is.                 *)
GuestRefuses(ip) == \E p \in doNotQuery : Within(p, ip)

(* The addresses on either side of both ends of a prefix, as far as they   *)
(* differ in the group where the prefix ends only.                         *)
Edges(p) ==
    LET g == CHOOSE k \in DOMAIN p.ip : 16 * (k - 1) < p.bits /\ p.bits <= 16 * k
        span == Span(GroupBits(p, g))
        At(v, rest) == [k \in DOMAIN p.ip |->
                           IF k < g THEN p.ip[k] ELSE IF k = g THEN v ELSE rest]
    IN  {At(e[1], e[2]) : e \in
            {f \in {<<p.ip[g], 0>>, <<p.ip[g] + span - 1, \hffff>>,
                    <<p.ip[g] - 1, \hffff>>, <<p.ip[g] + span, 0>>} : f[1] \in Nat /\ f[1] <= \hffff}}
=============================================================================
