-------------------------- MODULE EgressPolicyProofs --------------------------
(***************************************************************************)
(* Proofs about EgressPolicy, for every IPv4 and IPv6 address.             *)
(***************************************************************************)
EXTENDS EgressPolicy, SequenceTheorems, TLAPS

\* Addresses as sequences of 16-bit groups, and the bytes that IPv4 is written in.
Groups == {g \in Nat : g <= 65535}
Bytes == {b \in Nat : b <= 255}
IPv4 == [1..2 -> Groups]
IPv6 == [1..8 -> Groups]

\* An IPv4 address has two groups and an IPv6 address eight.
LEMMA Lengths ==
    /\ \A ip \in IPv4 : ip \in Seq(Groups) /\ Len(ip) = 2 /\ DOMAIN ip = 1..2
    /\ \A ip \in IPv6 : ip \in Seq(Groups) /\ Len(ip) = 8 /\ DOMAIN ip = 1..8
<1>1. \A ip \in IPv4 : ip \in Seq(Groups)
  BY SeqDef DEF IPv4
<1>2. \A ip \in IPv6 : ip \in Seq(Groups)
  BY SeqDef DEF IPv6
<1>3. QED  BY <1>1, <1>2, LenProperties DEF IPv4, IPv6

\* The values of a group that agree in as many bits as the prefixes here end in.
LEMMA Spans == /\ Span(0) = 65536 /\ Span(3) = 8192 /\ Span(4) = 4096
               /\ Span(10) = 64 /\ Span(16) = 1
  BY DEF Span

\* An address is within a prefix of its family if the groups agree in its bits.
LEMMA WithinPrefix ==
    ASSUME NEW p
    PROVE  /\ \A ip \in IPv4 : p.ip \in IPv4 =>
                 (Within(p, ip) <=> \A k \in 1..2 : LET span == Span(GroupBits(p, k))
                                                    IN  ip[k] \div span = p.ip[k] \div span)
           /\ \A ip \in IPv6 : p.ip \in IPv6 =>
                 (Within(p, ip) <=> \A k \in 1..8 : LET span == Span(GroupBits(p, k))
                                                    IN  ip[k] \div span = p.ip[k] \div span)
           /\ \A ip \in IPv4 : p.ip \in IPv6 => ~Within(p, ip)
           /\ \A ip \in IPv6 : p.ip \in IPv4 => ~Within(p, ip)
  BY Lengths DEF Within

\* The prefixes are of addresses.
LEMMA PrefixOfV4 ==
    ASSUME NEW a \in Bytes, NEW b \in Bytes, NEW c \in Bytes, NEW d \in Bytes, NEW n
    PROVE  /\ V4(a, b, c, d, n).ip \in IPv4 /\ V4(a, b, c, d, n).bits = n
           /\ V4(a, b, c, d, n).ip[1] = a * 256 + b /\ V4(a, b, c, d, n).ip[2] = c * 256 + d
<1> DEFINE x == a * 256 + b
           y == c * 256 + d
<1>1. x \in Groups /\ y \in Groups
  BY DEF Groups, Bytes
<1> HIDE DEF x, y
<1>2. <<x, y>> \in Seq(Groups) /\ Len(<<x, y>>) = 2
  BY <1>1
<1>3. <<x, y>> \in IPv4
  BY <1>2, LenProperties DEF IPv4
<1>4. V4(a, b, c, d, n).ip = <<x, y>> /\ V4(a, b, c, d, n).bits = n
  BY DEF V4, x, y
<1>5. QED  BY <1>3, <1>4 DEF x, y

\* The same for IPv6.
LEMMA PrefixOfV6 ==
    ASSUME NEW a \in Groups, NEW b \in Groups, NEW c \in Groups, NEW n
    PROVE  /\ V6(a, b, c, n).ip \in IPv6 /\ V6(a, b, c, n).bits = n
           /\ V6(a, b, c, n).ip[1] = a /\ V6(a, b, c, n).ip[2] = b /\ V6(a, b, c, n).ip[3] = c
           /\ \A k \in 4..8 : V6(a, b, c, n).ip[k] = 0
<1>1. 0 \in Groups
  BY DEF Groups
<1>2. QED  BY <1>1 DEF V6, IPv6

\* And for the two that are written out.
LEMMA WrittenOut ==
    /\ loopbackV6.ip \in IPv6
    /\ mappedV4.ip \in IPv6 /\ mappedV4.bits = 96 /\ mappedV4.ip[1] = 0
<1>1. 0 \in Groups /\ 1 \in Groups /\ \hffff \in Groups
  BY DEF Groups
<1>2. QED  BY <1>1 DEF loopbackV6, mappedV4, IPv6

\* The IPv6 addresses that the host lets out are those of 2000::/3.
LEMMA GlobalUnicast ==
    ASSUME NEW ip \in IPv6
    PROVE  Within(globalUnicastV6, ip) <=> \h2000 <= ip[1] /\ ip[1] <= \h3fff
<1> DEFINE p == globalUnicastV6
<1>1. 8192 \in Groups /\ 0 \in Groups
  BY DEF Groups
<1>2. p.ip \in IPv6 /\ p.bits = 3 /\ p.ip[1] = 8192 /\ \A k \in 2..8 : p.ip[k] = 0
  BY <1>1, PrefixOfV6 DEF globalUnicastV6
<1> HIDE DEF p
<1>3. Span(GroupBits(p, 1)) = 8192 /\ \A k \in 2..8 : Span(GroupBits(p, k)) = 65536
  <2>1. GroupBits(p, 1) = 3 /\ \A k \in 2..8 : GroupBits(p, k) = 0
    BY <1>2 DEF GroupBits
  <2>2. QED  BY <2>1, Spans
<1>4. Within(p, ip) <=> \A k \in 1..8 : LET span == Span(GroupBits(p, k))
                                        IN  ip[k] \div span = p.ip[k] \div span
  BY <1>2, WithinPrefix
<1>5. \A k \in 1..8 : ip[k] \in Groups
  BY DEF IPv6
<1>6. ASSUME NEW k \in 2..8 PROVE ip[k] \div 65536 = 0 \div 65536
  <2>1. ip[k] \in Groups
    BY <1>5
  <2>2. QED  BY <2>1 DEF Groups
<1>7. Within(p, ip) <=> ip[1] \div 8192 = 8192 \div 8192
  BY <1>2, <1>3, <1>4, <1>6
<1>8. ip[1] \in Groups
  BY <1>5
<1>9. ip[1] \div 8192 = 8192 \div 8192 <=> 8192 <= ip[1] /\ ip[1] <= 16383
  BY <1>8 DEF Groups
<1>10. QED  BY <1>7, <1>9 DEF p

\* The prefixes of the guest's list that the host's does not have.
Others ==
    {V4(255, 255, 255, 255, 32), mappedV4, V6(\hfec0, 0, 0, 10), V6(0, 0, 0, 96)}

\* The guest's list is the host's and four prefixes more.
LEMMA Lists == doNotQuery = deniedNetworks \cup Others
  BY SMT DEF doNotQuery, deniedNetworks, Others

\* 255.255.255.255/32 is within 240.0.0.0/4, which the host denies.
LEMMA Broadcast ==
    ASSUME NEW ip \in IPv4, Within(V4(255, 255, 255, 255, 32), ip)
    PROVE  Within(V4(240, 0, 0, 0, 4), ip)
<1> DEFINE p == V4(255, 255, 255, 255, 32)
           q == V4(240, 0, 0, 0, 4)
<1>1. /\ p.ip \in IPv4 /\ p.ip[1] = 65535 /\ p.ip[2] = 65535 /\ p.bits = 32
      /\ q.ip \in IPv4 /\ q.ip[1] = 61440 /\ q.ip[2] = 0 /\ q.bits = 4
  <2>1. /\ p.ip \in IPv4 /\ p.ip[1] = 255 * 256 + 255 /\ p.ip[2] = 255 * 256 + 255 /\ p.bits = 32
        /\ q.ip \in IPv4 /\ q.ip[1] = 240 * 256 + 0 /\ q.ip[2] = 0 * 256 + 0 /\ q.bits = 4
    BY PrefixOfV4 DEF Bytes
  <2> HIDE DEF p, q
  <2>2. QED  BY <2>1
<1>2. Within(p, ip)
  OBVIOUS
<1> HIDE DEF p, q
<1>3. /\ Span(GroupBits(p, 1)) = 1 /\ Span(GroupBits(p, 2)) = 1
      /\ Span(GroupBits(q, 1)) = 4096 /\ Span(GroupBits(q, 2)) = 65536
  <2>1. /\ GroupBits(p, 1) = 16 /\ GroupBits(p, 2) = 16
        /\ GroupBits(q, 1) = 4 /\ GroupBits(q, 2) = 0
    BY <1>1 DEF GroupBits
  <2>2. QED  BY <2>1, Spans
<1>4. ip[1] \in Groups /\ ip[2] \in Groups
  BY DEF IPv4
<1>5. ip[1] \div 1 = 65535 \div 1 /\ ip[2] \div 1 = 65535 \div 1
  BY <1>1, <1>2, <1>3, WithinPrefix
<1>6. ip[1] = 65535 /\ ip[2] = 65535
  BY <1>4, <1>5 DEF Groups
<1>7. ip[1] \div 4096 = 61440 \div 4096 /\ ip[2] \div 65536 = 0 \div 65536
  BY <1>6
<1>8. \A k \in 1..2 : LET span == Span(GroupBits(q, k)) IN ip[k] \div span = q.ip[k] \div span
  BY <1>1, <1>3, <1>7
<1>9. QED  BY <1>1, <1>8, WithinPrefix DEF q

\* Within a prefix, the first group has the prefix's first bits.
LEMMA FirstGroup ==
    ASSUME NEW ip \in IPv6, NEW p, p.ip \in IPv6, Within(p, ip)
    PROVE  ip[1] \div Span(GroupBits(p, 1)) = p.ip[1] \div Span(GroupBits(p, 1))
  BY WithinPrefix

\* The other three lie outside 2000::/3.
LEMMA OutsideGlobalUnicast ==
    ASSUME NEW ip \in IPv6, NEW p \in Others, Within(p, ip)
    PROVE  ~(\h2000 <= ip[1] /\ ip[1] <= \h3fff)
<1>1. ip[1] \in Groups
  BY DEF IPv6
<1>2. p # V4(255, 255, 255, 255, 32)
  <2>1. V4(255, 255, 255, 255, 32).ip \in IPv4
    BY PrefixOfV4 DEF Bytes
  <2>2. QED  BY <2>1, WithinPrefix
<1>3. 65216 \in Groups /\ 0 \in Groups
  BY DEF Groups
<1>4. CASE p = V6(\hfec0, 0, 0, 10)
  <2>1. p.ip \in IPv6 /\ p.ip[1] = 65216 /\ p.bits = 10
    BY <1>3, <1>4, PrefixOfV6
  <2>2. GroupBits(p, 1) = 10
    BY <2>1 DEF GroupBits
  <2>3. ip[1] \div 64 = 65216 \div 64
    BY <2>1, <2>2, FirstGroup, Spans
  <2>4. QED  BY <1>1, <2>3 DEF Groups
<1>5. CASE p \in {mappedV4, V6(0, 0, 0, 96)}
  <2>1. p.ip \in IPv6 /\ p.ip[1] = 0 /\ p.bits = 96
    BY <1>3, <1>5, PrefixOfV6, WrittenOut
  <2>2. GroupBits(p, 1) = 16
    BY <2>1 DEF GroupBits
  <2>3. ip[1] \div 1 = 0 \div 1
    BY <2>1, <2>2, FirstGroup, Spans
  <2>4. QED  BY <1>1, <2>3 DEF Groups
<1>6. QED  BY <1>2, <1>4, <1>5 DEF Others

\* Mapped addresses, and what unmapping makes of an address.
LEMMA Unmapped ==
    ASSUME NEW ip \in IPv4 \cup IPv6
    PROVE  Unmap(ip) \in IPv4 \cup IPv6 /\ (IsMapped(ip) => ip \in IPv6 /\ GuestRefuses(ip))
<1>1. ASSUME IsMapped(ip) PROVE ip \in IPv6 /\ GuestRefuses(ip) /\ Unmap(ip) \in IPv4
  <2>1. ip \in IPv6
    <3>1. Len(ip) = 8
      BY <1>1 DEF IsMapped
    <3>2. ip \in IPv4 => Len(ip) = 2
      BY Lengths
    <3>3. QED  BY <3>1, <3>2
  <2>2. GuestRefuses(ip)
    BY <1>1, Lists DEF IsMapped, GuestRefuses, Others
  <2>3. SubSeq(ip, 7, 8) \in Seq(Groups) /\ Len(SubSeq(ip, 7, 8)) = 2
    <3>1. \A k \in 7..8 : ip[k] \in Groups
      BY <2>1 DEF IPv6
    <3>2. /\ SubSeq(ip, 7, 8) \in Seq(Groups)
          /\ Len(SubSeq(ip, 7, 8)) = IF 7 <= 8 THEN 8 - 7 + 1 ELSE 0
      BY <3>1, SubSeqProperties
    <3>3. QED  BY <3>2
  <2>4. Unmap(ip) \in IPv4
    BY <1>1, <2>3, LenProperties DEF Unmap, IPv4
  <2>5. QED  BY <2>1, <2>2, <2>4
<1>2. ASSUME ~IsMapped(ip) PROVE Unmap(ip) = ip
  BY <1>2 DEF Unmap
<1>3. QED  BY <1>1, <1>2

\* For an address that is not a mapped one, being in neither list is the same
\* within 2000::/3.
LEMMA ListsAgree ==
    ASSUME NEW ip \in IPv4 \cup IPv6
    PROVE  /\ (\E p \in deniedNetworks : Within(p, ip)) => GuestRefuses(ip)
           /\ ip \in IPv4 /\ GuestRefuses(ip) => \E p \in deniedNetworks : Within(p, ip)
           /\ ip \in IPv6 /\ GuestRefuses(ip) /\ \h2000 <= ip[1] /\ ip[1] <= \h3fff =>
                  \E p \in deniedNetworks : Within(p, ip)
<1>1. (\E p \in deniedNetworks : Within(p, ip)) => GuestRefuses(ip)
  BY Lists DEF GuestRefuses
<1>2. ASSUME ip \in IPv4, NEW p \in Others, Within(p, ip)
      PROVE  Within(V4(240, 0, 0, 0, 4), ip)
  <2>1. 65216 \in Groups /\ 0 \in Groups
    BY DEF Groups
  <2>2. p \in {mappedV4, V6(\hfec0, 0, 0, 10), V6(0, 0, 0, 96)} => p.ip \in IPv6
    BY <2>1, PrefixOfV6, WrittenOut
  <2>3. p = V4(255, 255, 255, 255, 32)
    BY <1>2, <2>2, WithinPrefix DEF Others
  <2>4. QED  BY <1>2, <2>3, Broadcast
<1>3. V4(240, 0, 0, 0, 4) \in deniedNetworks
  BY DEF deniedNetworks
<1>4. QED  BY <1>1, <1>2, <1>3, Lists, OutsideGlobalUnicast DEF GuestRefuses

\* For every address, the host lets out exactly what the guest would ask, IPv6
\* within 2000::/3 only and to port 53 only, with a mapped address like the IPv4
\* address in it.
THEOREM EgressOfEveryAddress ==
    ASSUME NEW ip \in IPv4 \cup IPv6, NEW port
    PROVE  egressAllowed(ip, port) <=>
              /\ port = 53
              /\ ~GuestRefuses(Unmap(ip))
              /\ Len(Unmap(ip)) = 8 => \h2000 <= Unmap(ip)[1] /\ Unmap(ip)[1] <= \h3fff
<1> DEFINE u == Unmap(ip)
<1>1. u \in IPv4 \cup IPv6
  BY Unmapped
<1>2. egressAllowed(ip, port) <=>
        port = 53 /\ (Len(u) = 8 => Within(globalUnicastV6, u)) /\ ~\E p \in deniedNetworks : Within(p, u)
  BY DEF egressAllowed
<1> HIDE DEF u
<1>3. CASE u \in IPv4
  <2>1. Len(u) = 2
    BY <1>3, Lengths
  <2>2. GuestRefuses(u) <=> \E p \in deniedNetworks : Within(p, u)
    BY <1>1, <1>3, ListsAgree
  <2>3. QED  BY <1>2, <2>1, <2>2 DEF u
<1>4. CASE u \in IPv6
  <2>1. Len(u) = 8
    BY <1>4, Lengths
  <2>2. Within(globalUnicastV6, u) <=> \h2000 <= u[1] /\ u[1] <= \h3fff
    BY <1>4, GlobalUnicast
  <2>3. \h2000 <= u[1] /\ u[1] <= \h3fff => (GuestRefuses(u) <=> \E p \in deniedNetworks : Within(p, u))
    BY <1>1, <1>4, ListsAgree
  <2>4. QED  BY <1>2, <2>1, <2>2, <2>3 DEF u
<1>5. QED  BY <1>1, <1>3, <1>4

\* Which root hints pass NewRuntime's check and are dropped by the guest all the
\* same, against the comment at that check: the mapped addresses, and no other.
THEOREM RootHintsAreAsked ==
    ASSUME NEW ip \in IPv4 \cup IPv6, RootHintAllowed(ip)
    PROVE  GuestRefuses(ip) <=> IsMapped(ip)
<1>1. ~GuestRefuses(Unmap(ip))
  BY EgressOfEveryAddress DEF RootHintAllowed
<1>2. QED  BY <1>1, Unmapped DEF Unmap

-----------------------------------------------------------------------------
(***************************************************************************)
(* The addresses that the run tries are addresses.                         *)
(***************************************************************************)
\* The listed IPv4 prefixes are of addresses.
LEMMA ListedV4 ==
    ASSUME NEW p \in {V4(0, 0, 0, 0, 8), V4(10, 0, 0, 0, 8), V4(100, 64, 0, 0, 10),
                      V4(127, 0, 0, 0, 8), V4(169, 254, 0, 0, 16), V4(172, 16, 0, 0, 12),
                      V4(192, 0, 0, 0, 24), V4(192, 0, 2, 0, 24), V4(192, 88, 99, 0, 24),
                      V4(192, 168, 0, 0, 16), V4(198, 18, 0, 0, 15), V4(198, 51, 100, 0, 24),
                      V4(203, 0, 113, 0, 24), V4(224, 0, 0, 0, 4), V4(240, 0, 0, 0, 4),
                      V4(255, 255, 255, 255, 32)}
    PROVE  p.ip \in IPv4
<1>1. \A a, b, c, d, n : /\ a \in Nat /\ b \in Nat /\ c \in Nat /\ d \in Nat
                         /\ a <= 255 /\ b <= 255 /\ c <= 255 /\ d <= 255
                         => V4(a, b, c, d, n).ip \in IPv4
  BY PrefixOfV4 DEF Bytes
<1>2. QED  BY <1>1, SMTT(30)

\* PrefixOfV6 with its bounds written out, as the numbers in the lists need it.
LEMMA NumbersV6 ==
    ASSUME NEW a \in Nat, NEW b \in Nat, NEW c \in Nat, NEW n,
           a <= 65535, b <= 65535, c <= 65535
    PROVE  V6(a, b, c, n).ip \in IPv6
<1>1. a \in Groups /\ b \in Groups /\ c \in Groups
  BY DEF Groups
<1>2. QED  BY <1>1, PrefixOfV6

\* The listed IPv6 prefixes are of addresses.
LEMMA ListedV6 ==
    ASSUME NEW p \in {V6(0, 0, 0, 128), loopbackV6, mappedV4, V6(\h100, 0, 0, 64),
                      V6(\h2001, 0, 0, 23), V6(\h2001, \hdb8, 0, 32), V6(\hfc00, 0, 0, 7),
                      V6(\hfe80, 0, 0, 10), V6(\hff00, 0, 0, 8), V6(\h64, \hff9b, 0, 96),
                      V6(\h64, \hff9b, 1, 48), V6(\h2002, 0, 0, 16), V6(\h3fff, 0, 0, 20),
                      V6(\h5f00, 0, 0, 16), V6(\hfec0, 0, 0, 10), V6(0, 0, 0, 96),
                      V6(\h2000, 0, 0, 3)}
    PROVE  p.ip \in IPv6
  BY NumbersV6, WrittenOut, SMTT(30)

\* Every listed prefix is of an address.
LEMMA Listed ==
    \A p \in deniedNetworks \cup doNotQuery \cup {globalUnicastV6} : p.ip \in IPv4 \cup IPv6
  BY ListedV4, ListedV6 DEF deniedNetworks, doNotQuery, globalUnicastV6

\* The edges of a prefix are addresses.
LEMMA EdgesAreAddresses ==
    ASSUME NEW p, p.ip \in IPv4 \cup IPv6
    PROVE  Edges(p) \subseteq IPv4 \cup IPv6
<1> DEFINE g == CHOOSE k \in DOMAIN p.ip : 16 * (k - 1) < p.bits /\ p.bits <= 16 * k
           At(v, rest) == [k \in DOMAIN p.ip |-> IF k < g THEN p.ip[k] ELSE IF k = g THEN v ELSE rest]
<1> HIDE DEF g
<1>1. ASSUME NEW v \in Groups, NEW rest \in Groups PROVE At(v, rest) \in IPv4 \cup IPv6
  <2>1. CASE p.ip \in IPv4
    BY <1>1, <2>1 DEF IPv4
  <2>2. CASE p.ip \in IPv6
    BY <1>1, <2>2 DEF IPv6
  <2>3. QED  BY <2>1, <2>2
<1> HIDE DEF At
<1>2. ASSUME NEW e \in Edges(p) PROVE e \in IPv4 \cup IPv6
  <2> DEFINE span == Span(GroupBits(p, g))
             Ends == {<<p.ip[g], 0>>, <<p.ip[g] + span - 1, \hffff>>,
                      <<p.ip[g] - 1, \hffff>>, <<p.ip[g] + span, 0>>}
  <2>1. Edges(p) = {At(f[1], f[2]) : f \in {h \in Ends : h[1] \in Nat /\ h[1] <= \hffff}}
    BY DEF Edges, At, g
  <2>2. \A f \in Ends : f[2] \in {0, \hffff}
    OBVIOUS
  <2> HIDE DEF Ends
  <2>3. PICK f \in Ends : e = At(f[1], f[2]) /\ f[1] \in Nat /\ f[1] <= \hffff
    BY <1>2, <2>1
  <2>4. f[1] \in Groups /\ f[2] \in Groups
    BY <2>2, <2>3 DEF Groups
  <2>5. QED  BY <1>1, <2>3, <2>4
<1>3. QED  BY <1>2

\* The mapped form of an IPv4 address.
LEMMA MappedAddress ==
    ASSUME NEW ip \in IPv4
    PROVE  Map4(ip) \in IPv6
<1> DEFINE h == <<0, 0, 0, 0, 0, \hffff>>
<1>1. h \in Seq(Groups) /\ Len(h) = 6
  BY DEF Groups
<1>2. ip \in Seq(Groups) /\ Len(ip) = 2
  BY Lengths
<1>3. Map4(ip) = h \o ip
  BY DEF Map4
<1> HIDE DEF h
<1>4. h \o ip \in Seq(Groups) /\ Len(h \o ip) = Len(h) + Len(ip)
  BY <1>1, <1>2, ConcatProperties
<1>5. h \o ip \in [1..8 -> Groups]
  <2>1. h \o ip \in [1..Len(h \o ip) -> Groups]
    BY <1>4, LenProperties
  <2>2. Len(h \o ip) = 8
    BY <1>1, <1>2, <1>4
  <2>3. QED  BY <2>1, <2>2
<1>6. QED  BY <1>3, <1>5 DEF IPv6
=============================================================================
