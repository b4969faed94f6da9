--------------------------- MODULE HostInputsProofs ---------------------------
(***************************************************************************)
(* Proofs about HostInputs: every decision but the parser of data          *)
(* segments, for any names and answers, any address, any key, any page     *)
(* size and any address space.                                             *)
(***************************************************************************)
EXTENDS HostInputs, AnswerParsingProofs, EgressPolicyProofs, TLAPS

-----------------------------------------------------------------------------
(***************************************************************************)
(* The inductive invariant: an input is one of those that are enumerated.  *)
(***************************************************************************)
\* What the inputs of one kind look like.
Shape(kind) ==
    CASE kind = "answer"    -> [kind : {kind}, answers : Seq(Records), qname : Names, qtype : QueryTypes]
      [] kind = "callback"  -> [kind : {kind}, cb : Callbacks, copied : BOOLEAN,
                                qname : Names, qtype : QueryTypes]
      [] kind = "egress"    -> [kind : {kind}, ip : IPv4 \cup IPv6, port : {52, 53, 54}]
      [] kind = "key"       -> [kind : {kind}, key : Seq(Nat)]
      [] kind = "limit"     -> [kind : {kind}, limit : -MaxInt - 1..MaxInt]
      [] kind = "signature" -> [kind : {kind}, alg : 0..17, keyLen : {0, 32, 64, 96},
                                sigLen : {0, 64, 96}, fits : BOOLEAN, parsed : BOOLEAN, genuine : BOOLEAN]
      [] kind = "entropy"   -> [kind : {kind}, pages : 0..MaxPageCount,
                                ptr : 0..AddressSpace - 1, n : 0..AddressSpace - 1]

Shaped == {"answer", "callback", "egress", "key", "limit", "signature", "entropy"}

InputInv == input.kind \in Shaped => input \in Shape(input.kind)

\* The addresses that are tried are addresses.
LEMMA AddressesAreAddresses == Addresses \subseteq IPv4 \cup IPv6
<1> DEFINE edges == UNION {Edges(p) : p \in deniedNetworks \cup doNotQuery \cup {globalUnicastV6}}
<1>1. edges \subseteq IPv4 \cup IPv6
  BY Listed, EdgesAreAddresses
<1>2. Addresses = edges \cup {Map4(ip) : ip \in {e \in edges : Len(e) = 2}}
  BY DEF Addresses
<1> HIDE DEF edges
<1>3. ASSUME NEW ip \in edges, Len(ip) = 2 PROVE Map4(ip) \in IPv6
  <2>1. ip \in IPv4 \cup IPv6
    BY <1>1, <1>3
  <2>2. ip \in IPv6 => Len(ip) = 8
    BY Lengths
  <2>3. ip \in IPv4
    BY <1>3, <2>1, <2>2
  <2>4. QED  BY <2>3, MappedAddress
<1>4. QED  BY <1>1, <1>2, <1>3

\* Every step takes up an input of its shape.
LEMMA InputIsShaped == Spec => []InputInv
<1>1. Init => InputInv
  BY DEF Init, InputInv, Nothing, Shaped
<1>2. InputInv /\ [Next]_input => InputInv'
  <2> SUFFICES ASSUME InputInv, [Next]_input PROVE InputInv'
    OBVIOUS
  <2>1. CASE AskAnswer
    <3>1. PICK q \in Names, t \in QueryTypes :
             input' = [kind |-> "answer", answers |-> <<>>, qname |-> q, qtype |-> t]
      BY <2>1 DEF AskAnswer
    <3>2. <<>> \in Seq(Records)
      OBVIOUS
    <3>3. QED  BY <3>1, <3>2 DEF InputInv, Shape
  <2>2. CASE AnotherRecord
    <3>1. PICK rr \in Records : input' = [input EXCEPT !.answers = Append(input.answers, rr)]
      BY <2>2 DEF AnotherRecord
    <3>2. input \in [kind : {"answer"}, answers : Seq(Records), qname : Names, qtype : QueryTypes]
      BY <2>2 DEF AnotherRecord, InputInv, Shape, Shaped
    <3>3. Append(input.answers, rr) \in Seq(Records)
      BY <3>2
    <3>4. input' \in [kind : {"answer"}, answers : Seq(Records), qname : Names, qtype : QueryTypes]
      BY <3>1, <3>2, <3>3
    <3>5. QED  BY <3>4 DEF InputInv, Shape
  <2>3. CASE AskCallback
    <3>1. PICK cb \in Callbacks, q \in Names, t \in QueryTypes, c \in BOOLEAN :
             input' = [kind |-> "callback", cb |-> cb, copied |-> c, qname |-> q, qtype |-> t]
      BY <2>3 DEF AskCallback
    <3>2. QED  BY <3>1 DEF InputInv, Shape
  <2>4. CASE AskSignature
    <3>1. PICK alg \in 0..17, k \in {0, 32, 64, 96}, s \in {0, 64, 96},
             f \in BOOLEAN, p \in BOOLEAN, g \in BOOLEAN :
             input' = [kind |-> "signature", alg |-> alg, keyLen |-> k, sigLen |-> s,
                       fits |-> f, parsed |-> p, genuine |-> g]
      BY <2>4 DEF AskSignature
    <3>2. QED  BY <3>1 DEF InputInv, Shape
  <2>5. CASE AskEntropy
    <3>1. PICK pages \in 0..MaxPageCount, ptr \in 0..AddressSpace - 1, n \in 0..AddressSpace - 1 :
             input' = [kind |-> "entropy", pages |-> pages, ptr |-> ptr, n |-> n]
      BY <2>5 DEF AskEntropy
    <3>2. QED  BY <3>1 DEF InputInv, Shape
  <2>6. CASE AskEgress
    <3>1. PICK ip \in Addresses, port \in {52, 53, 54} :
             input' = [kind |-> "egress", ip |-> ip, port |-> port]
      BY <2>6 DEF AskEgress
    <3>2. ip \in IPv4 \cup IPv6
      BY AddressesAreAddresses
    <3>3. QED  BY <3>1, <3>2 DEF InputInv, Shape
  <2>7. CASE AskLimit
    <3>1. PICK limit \in -MaxInt - 1..MaxInt : input' = [kind |-> "limit", limit |-> limit]
      BY <2>7 DEF AskLimit
    <3>2. QED  BY <3>1 DEF InputInv, Shape
  <2>8. CASE AskKey
    <3>1. PICK key \in BoundedSeq(0..Base - 1, MaxKey) : input' = [kind |-> "key", key |-> key]
      BY <2>8 DEF AskKey
    <3>2. key \in Seq(Nat)
      <4>1. PICK m \in 0..MaxKey : key \in [1..m -> 0..Base - 1]
        BY <3>1 DEF BoundedSeq, SeqOf
      <4>2. m \in Nat /\ key \in [1..m -> Nat]
        BY <4>1
      <4>3. QED  BY <4>2, SeqDef
    <3>3. QED  BY <3>1, <3>2 DEF InputInv, Shape
  <2>9. CASE AskModule
    <3>1. input'.kind = "module"
      BY <2>9 DEF AskModule
    <3>2. QED  BY <3>1 DEF InputInv, Shaped
  <2>10. CASE Answered
    BY <2>10 DEF Answered, InputInv, Nothing, Shaped
  <2>11. CASE UNCHANGED input
    BY <2>11 DEF InputInv, Shape
  <2>12. QED  BY <2>1, <2>2, <2>3, <2>4, <2>5, <2>6, <2>7, <2>8, <2>9, <2>10, <2>11 DEF Next
<1>3. QED  BY <1>1, <1>2, PTL DEF Spec

-----------------------------------------------------------------------------
(***************************************************************************)
(* Answers.                                                                *)
(***************************************************************************)
\* parseAnswer returns the queried records of the name where the chain ends, in
\* their order, for answers of any length and any names.
THEOREM ChainIsFollowed == Spec => []AnswerIsTheChain
<1>1. InputInv => AnswerIsTheChain
  <2> SUFFICES ASSUME InputInv, input.kind = "answer" PROVE AnswerIsTheChain
    BY DEF AnswerIsTheChain
  <2>1. input.answers \in Seq(Records) /\ input.qname \in Names
    BY DEF InputInv, Shape, Shaped
  <2>2. QED  BY <2>1, AnswerOfEveryChain DEF AnswerIsTheChain
<1>2. QED  BY <1>1, InputIsShaped, PTL

-----------------------------------------------------------------------------
(***************************************************************************)
(* Lookups fail closed.                                                    *)
(***************************************************************************)
\* pollResult makes a result only of a slot that is not bogus, whose status is
\* NOERROR or NXDOMAIN, and, without NXDOMAIN, whose packet parsed.
LEMMA ResultOf ==
    ASSUME NEW slot, NEW q, NEW t, slot.sec \in 0..2,
           pollResult(slot, q, t).kind = "result"
    PROVE  LET out == pollResult(slot, q, t)
               packet == slot.packet
               rcode == IF slot.rcode = 0 /\ packet.form \notin {"absent", "short"}
                        THEN packet.rcode ELSE slot.rcode
               parsed == IF packet.form = "whole" THEN parseAnswer(packet.answers, q, t)
                         ELSE [err |-> packet.form # "absent", recs |-> <<>>]
           IN  /\ packet.form # "oversize" /\ slot.sec # 1 /\ rcode \in {0, 3}
               /\ out.secure = (slot.sec = 2) /\ out.nx = (rcode = 3)
               /\ rcode = 0 => ~parsed.err /\ out.recs = parsed.recs
<1> DEFINE packet == slot.packet
           rcode == IF slot.rcode = 0 /\ packet.form \notin {"absent", "short"}
                    THEN packet.rcode ELSE slot.rcode
           parsed == IF packet.form = "whole" THEN parseAnswer(packet.answers, q, t)
                     ELSE [err |-> packet.form # "absent", recs |-> <<>>]
           R(recs) == [kind |-> "result", secure |-> sec_status(slot.sec) = 1, nx |-> rcode = 3, recs |-> recs]
<1>1. pollResult(slot, q, t) =
        IF packet.form = "oversize" THEN [kind |-> "killed"]
        ELSE IF sec_status(slot.sec) = 2 THEN [kind |-> "bogus"]
        ELSE IF rcode \notin {0, 3} THEN [kind |-> "response"]
        ELSE IF rcode = 3 THEN R(<<>>)
        ELSE IF parsed.err THEN [kind |-> "malformed"]
        ELSE R(parsed.recs)
  BY Zenon DEF pollResult
<1>2. sec_status(slot.sec) = 2 <=> slot.sec = 1
  BY DEF sec_status
<1>3. sec_status(slot.sec) = 1 <=> slot.sec = 2
  BY DEF sec_status
<1> HIDE DEF rcode, parsed
<1>4. packet.form # "oversize" /\ slot.sec # 1 /\ rcode \in {0, 3}
  BY <1>1, <1>2
<1>5. CASE rcode = 3
  <2>1. pollResult(slot, q, t) = R(<<>>)
    BY <1>1, <1>2, <1>4, <1>5
  <2>2. QED  BY <1>3, <1>4, <1>5, <2>1 DEF rcode, parsed
<1>6. CASE rcode = 0
  <2>1. ~parsed.err /\ pollResult(slot, q, t) = R(parsed.recs)
    BY <1>1, <1>2, <1>4, <1>6
  <2>2. QED  BY <1>3, <1>4, <1>6, <2>1 DEF rcode, parsed
<1>7. QED  BY <1>4, <1>5, <1>6

\* A result is never made of a bogus answer or of a packet that was lost, cut or
\* unreadable, except that NXDOMAIN is taken from the callback or the header; it
\* says secure only if the validator did.
THEOREM LookupsFailClosed == Spec => []FailsClosed
<1>1. InputInv => FailsClosed
  <2> SUFFICES ASSUME InputInv, input.kind = "callback",
                      NEW cb, cb = input.cb,
                      NEW slot, slot = result_cb(cb, input.copied),
                      NEW out, out = pollResult(slot, input.qname, input.qtype), out.kind = "result"
               PROVE  LET parsed == parseAnswer(cb.packet.answers, input.qname, input.qtype) IN
                      /\ cb.sec # 1
                      /\ out.secure <=> cb.sec = 2
                      /\ input.copied \/ cb.packet = NoPacket
                      /\ out.nx => 3 \in {cb.rcode, cb.packet.rcode} /\ cb.rcode \in {0, 3}
                      /\ ~out.nx /\ cb.packet # NoPacket =>
                            /\ cb.packet.form = "whole" /\ cb.packet.rcode = 0
                            /\ ~parsed.err /\ out.recs = parsed.recs
                      /\ ~out.nx /\ cb.packet = NoPacket => cb.rcode = 0 /\ out.recs = <<>>
    BY DEF FailsClosed
  <2>1. cb \in Callbacks /\ input.copied \in BOOLEAN
    BY DEF InputInv, Shape, Shaped
  <2>2. cb \in [rcode : {0, 2, 3}, sec : 0..2, packet : Packets]
    BY <2>1 DEF Callbacks
  <2>3. cb.rcode \in {0, 2, 3} /\ cb.sec \in 0..2 /\ cb.packet \in Packets
    BY <2>2
  <2>4. /\ cb.packet # NoPacket => cb.packet.form # "absent" /\ cb.packet.rcode \in {0, 2, 3}
        /\ cb.packet = NoPacket => cb.packet.form = "absent" /\ cb.packet.rcode = 0
    BY <2>3 DEF Packets, NoPacket
  <2>5. CASE slot = cb /\ (input.copied \/ cb.packet = NoPacket)
    <3> DEFINE packet == cb.packet
               rcode == IF cb.rcode = 0 /\ packet.form \notin {"absent", "short"}
                        THEN packet.rcode ELSE cb.rcode
               parsed == IF packet.form = "whole" THEN parseAnswer(packet.answers, input.qname, input.qtype)
                         ELSE [err |-> packet.form # "absent", recs |-> <<>>]
    <3>1. /\ cb.sec # 1 /\ rcode \in {0, 3}
          /\ out.secure = (cb.sec = 2) /\ out.nx = (rcode = 3)
          /\ rcode = 0 => ~parsed.err /\ out.recs = parsed.recs
      BY <2>3, <2>5, ResultOf
    <3>2. ASSUME rcode = 0, packet # NoPacket PROVE packet.form = "whole" /\ packet.rcode = 0
      <4>1. cb.rcode = 0 /\ packet.form # "absent"
        BY <2>3, <2>4, <3>2
      <4>2. packet.form = "whole"
        <5>1. CASE packet.form # "whole"
          <6>1. parsed.err = (packet.form # "absent")
            BY <5>1
          <6>2. QED  BY <3>1, <3>2, <4>1, <6>1
        <5>2. QED  BY <5>1
      <4>3. QED  BY <3>2, <4>1, <4>2
    <3>3. ASSUME rcode = 0, packet = NoPacket PROVE cb.rcode = 0 /\ out.recs = <<>>
      <4>1. packet.form = "absent"
        BY <2>4, <3>3
      <4>2. parsed.recs = <<>>
        BY <4>1
      <4>3. QED  BY <3>1, <3>3, <4>1, <4>2
    <3>4. ASSUME rcode = 3 PROVE 3 \in {cb.rcode, packet.rcode} /\ cb.rcode \in {0, 3}
      BY <2>3, <3>4
    <3>5. packet.form = "whole" => parsed = parseAnswer(packet.answers, input.qname, input.qtype)
      OBVIOUS
    <3>6. out.secure <=> cb.sec = 2
      BY <3>1
    <3>7. out.nx <=> rcode = 3
      BY <3>1
    <3> HIDE DEF rcode, parsed
    <3>8. ~out.nx => rcode = 0
      BY <3>1, <3>7
    <3>9. QED  BY <2>5, <3>1, <3>2, <3>3, <3>4, <3>5, <3>6, <3>7, <3>8
  <2>6. CASE slot = [cb EXCEPT !.packet = NoPacket, !.rcode = 2]
    <3>1. slot.rcode = 2 /\ slot.sec = cb.sec
      BY <2>2, <2>6
    <3>2. slot.rcode \in {0, 3}
      BY <2>3, <3>1, ResultOf
    <3>3. QED  BY <3>1, <3>2
  <2>7. QED  BY <2>5, <2>6 DEF result_cb
<1>2. QED  BY <1>1, InputIsShaped, PTL

-----------------------------------------------------------------------------
(***************************************************************************)
(* Egress.                                                                 *)
(***************************************************************************)
\* The host lets out exactly what the guest would ask, at every edge.
THEOREM EgressAgrees == Spec => []EgressMatchesGuest
<1>1. InputInv => EgressMatchesGuest
  <2> SUFFICES ASSUME InputInv, input.kind = "egress" PROVE EgressMatchesGuest
    BY DEF EgressMatchesGuest
  <2>1. input.ip \in IPv4 \cup IPv6
    BY DEF InputInv, Shape, Shaped
  <2>2. QED  BY <2>1, EgressOfEveryAddress DEF EgressMatchesGuest
<1>2. QED  BY <1>1, InputIsShaped, PTL

-----------------------------------------------------------------------------
(***************************************************************************)
(* The memory limit.                                                       *)
(***************************************************************************)
\* The quotient is the number that it lies above.
LEMMA Quotient ==
    ASSUME NEW a \in Int, NEW b \in Nat, NEW q \in Int, b > 0, q * b <= a, a < (q + 1) * b
    PROVE  a \div b = q
<1> DEFINE d == a \div b
<1>1. d \in Int /\ d * b <= a /\ a < (d + 1) * b
  OBVIOUS
<1> HIDE DEF d
<1>2. CASE d < q
  <2>1. d + 1 <= q /\ (d + 1) * b <= q * b
    BY <1>1, <1>2
  <2>2. QED  BY <1>1, <2>1
<1>3. CASE d > q
  <2>1. q + 1 <= d /\ (q + 1) * b <= d * b
    BY <1>1, <1>3
  <2>2. QED  BY <1>1, <2>1
<1>4. QED  BY <1>1, <1>2, <1>3 DEF d

\* And the remainder is what is left.
LEMMA Remainder ==
    ASSUME NEW a \in Int, NEW b \in Nat, NEW q \in Int, b > 0, q * b <= a, a < (q + 1) * b
    PROVE  a % b = a - q * b
<1>1. a \div b = q
  BY Quotient
<1>2. a = (a \div b) * b + (a % b)
  OBVIOUS
<1>3. QED  BY <1>1, <1>2

\* The widths: an address space of whole pages, and ints of whole spaces.
LEMMA Widths ==
    /\ MaxInt \in Nat /\ PageSize \in Nat /\ PageSize > 1
    /\ AddressSpace \in Nat /\ AddressSpace > 1
    /\ MaxPageCount \in Nat /\ MaxPageCount > 1 /\ MaxPageCount < AddressSpace
    /\ AddressSpace = MaxPageCount * PageSize
    /\ \E m \in Nat : m > 0 /\ MaxInt + 1 = m * (PageSize * AddressSpace)
<1>1. /\ MaxInt \in Nat /\ PageSize \in Nat /\ PageSize > 1
      /\ AddressSpace \in Nat /\ AddressSpace > 1 /\ AddressSpace >= 2 * PageSize
      /\ AddressSpace % PageSize = 0 /\ (MaxInt + 1) % (PageSize * AddressSpace) = 0
  BY PagesAssumption
<1>2. AddressSpace = MaxPageCount * PageSize /\ MaxPageCount \in Nat
  BY <1>1 DEF MaxPageCount
<1>3. MaxPageCount > 1
  <2>1. CASE MaxPageCount <= 1
    <3>1. MaxPageCount * PageSize <= 1 * PageSize
      BY <1>1, <1>2, <2>1
    <3>2. QED  BY <1>1, <1>2, <3>1
  <2>2. QED  BY <1>2, <2>1
<1>4. MaxPageCount < AddressSpace
  <2>1. MaxPageCount * 2 <= MaxPageCount * PageSize
    BY <1>1, <1>2
  <2>2. QED  BY <1>2, <1>3, <2>1
<1>5. \E m \in Nat : m > 0 /\ MaxInt + 1 = m * (PageSize * AddressSpace)
  <2> DEFINE w == PageSize * AddressSpace
             m == (MaxInt + 1) \div w
  <2>1. w \in Nat /\ w > 0
    BY <1>1
  <2>2. (MaxInt + 1) % w = 0
    BY <1>1
  <2> HIDE DEF w
  <2>3. m \in Nat /\ MaxInt + 1 = m * w
    BY <1>1, <2>1, <2>2
  <2> HIDE DEF m
  <2>4. m > 0
    BY <1>1, <2>1, <2>3
  <2>5. QED  BY <2>3, <2>4 DEF w
<1>6. QED  BY <1>1, <1>2, <1>3, <1>4, <1>5

\* An int that does not overflow is itself, and one just above the largest comes
\* out at the other end.
LEMMA Wrapping ==
    ASSUME NEW x \in Nat, x <= MaxInt + PageSize
    PROVE  /\ x <= MaxInt => Wrapped(x) = x
           /\ x > MaxInt => Wrapped(x) = x - 2 * (MaxInt + 1)
<1> DEFINE M == MaxInt + 1
<1>1. M \in Nat /\ M > 0 /\ x <= M + PageSize - 1 /\ PageSize < M
  <2>1. PICK m \in Nat : m > 0 /\ MaxInt + 1 = m * (PageSize * AddressSpace)
    BY Widths
  <2>2. PageSize * AddressSpace \in Nat /\ PageSize * AddressSpace >= PageSize * 2
    BY Widths
  <2> DEFINE w == PageSize * AddressSpace
  <2> HIDE DEF w
  <2>3. m * w >= 1 * w
    BY <2>1, <2>2 DEF w
  <2>4. QED  BY <2>1, <2>2, <2>3, Widths DEF w
<1>2. Wrapped(x) = ((x + M) % (2 * M)) - M
  BY <1>1, Widths DEF Wrapped
<1> HIDE DEF M
<1>3. CASE x < M
  <2>1. (x + M) % (2 * M) = x + M - 0 * (2 * M)
    <3>1. 0 * (2 * M) <= x + M /\ x + M < (0 + 1) * (2 * M)
      BY <1>1, <1>3
    <3>2. QED  BY <1>1, <3>1, Remainder
  <2>2. QED  BY <1>1, <1>2, <1>3, <2>1, Widths DEF M
<1>4. CASE x >= M
  <2>1. (x + M) % (2 * M) = x + M - 1 * (2 * M)
    <3>1. 1 * (2 * M) <= x + M /\ x + M < (1 + 1) * (2 * M)
      BY <1>1, <1>4, Widths
    <3>2. QED  BY <1>1, <3>1, Remainder
  <2>2. QED  BY <1>1, <1>2, <1>4, <2>1, Widths DEF M
<1>5. QED  BY <1>1, <1>3, <1>4

\* A limit that does not overflow is rounded up to pages and capped.
LEMMA PagesOf ==
    ASSUME NEW limit \in Nat, limit > 0, limit + PageSize - 1 <= MaxInt
    PROVE  \E q \in Nat : /\ q > 0 /\ (q - 1) * PageSize < limit /\ limit <= q * PageSize
                          /\ Pages(limit) = IF q > MaxPageCount THEN MaxPageCount ELSE q
<1> DEFINE y == limit + PageSize - 1
           q == y \div PageSize
<1>1. y \in Nat /\ y >= PageSize
  BY Widths
<1>2. Wrapped(y) = y
  BY <1>1, Widths, Wrapping
<1>3. Pages(limit) = (IF q > MaxPageCount THEN MaxPageCount ELSE q) % AddressSpace
  BY <1>1, <1>2, Widths DEF Pages, TruncDiv
<1>4. q \in Nat /\ q * PageSize <= y /\ y < (q + 1) * PageSize
  BY <1>1, Widths
<1>5. (q + 1) * PageSize = q * PageSize + PageSize /\ (q - 1) * PageSize = q * PageSize - PageSize
  BY <1>4, Widths
<1> HIDE DEF q
<1>6. q > 0
  BY <1>1, <1>4, Widths
<1>7. (q - 1) * PageSize < limit /\ limit <= q * PageSize
  BY <1>4, <1>5, Widths
<1>8. Pages(limit) = IF q > MaxPageCount THEN MaxPageCount ELSE q
  <2> DEFINE p == IF q > MaxPageCount THEN MaxPageCount ELSE q
  <2>1. p \in Nat /\ p < AddressSpace
    BY <1>4, Widths
  <2> HIDE DEF p
  <2>2. p % AddressSpace = p
    BY <2>1, Widths
  <2>3. QED  BY <1>3, <2>2 DEF p
<1>9. QED  BY <1>4, <1>6, <1>7, <1>8

\* The remainders of a multiple below zero, and of the number after it.
LEMMA BelowZero ==
    ASSUME NEW m \in Nat, NEW b \in Nat, b > 1
    PROVE  (-(m * b)) % b = 0 /\ (-(m * b - 1)) % b = 1
<1> DEFINE k == -m
           x == k * b
           y == x + 1
<1>1. k \in Int /\ x \in Int /\ (k + 1) * b = x + b /\ -(m * b) = x /\ -(m * b - 1) = x + 1
  OBVIOUS
<1>2. x = k * b
  OBVIOUS
<1> HIDE DEF k, x
<1>3. x % b = x - k * b
  BY <1>1, <1>2, Remainder
<1>4. y \in Int /\ b > 0 /\ k * b <= y /\ y < (k + 1) * b
  BY <1>1, <1>2
<1> HIDE DEF y
<1>5. y % b = y - k * b
  BY <1>1, <1>4, Remainder
<1>6. QED  BY <1>1, <1>2, <1>3, <1>5 DEF y

\* A limit that overflows is granted one page at most.
LEMMA PagesOfOverflow ==
    ASSUME NEW limit \in Nat, limit > 0, limit <= MaxInt, limit + PageSize - 1 > MaxInt
    PROVE  Pages(limit) \in {0, 1} /\ limit > PageSize
<1> DEFINE M == MaxInt + 1
           y == limit + PageSize - 1
           d == 2 * M - y
<1>1. y \in Nat /\ y <= MaxInt + PageSize /\ y > MaxInt
  BY Widths
<1>2. Wrapped(y) = -d
  BY <1>1, Widths, Wrapping
<1>3. d \in Nat /\ d <= M /\ M - PageSize < d
  BY Widths
<1>4. PICK m \in Nat : m > 0 /\ M = m * (PageSize * AddressSpace)
  BY Widths
<1> DEFINE Q == m * AddressSpace
<1>5. Q \in Nat /\ M = Q * PageSize /\ Q >= AddressSpace
  BY <1>4, Widths
<1>6. limit > PageSize
  <2>1. Q * PageSize >= 2 * PageSize
    BY <1>5, Widths
  <2>2. QED  BY <1>5, <2>1, Widths
<1> HIDE DEF d, M
<1>7. d > 0
  <2>1. M > PageSize
    <3>1. Q * PageSize >= 2 * PageSize
      BY <1>5, Widths
    <3>2. QED  BY <1>5, <3>1, Widths
  <2>2. QED  BY <1>3, <2>1, Widths DEF M
<1>8. d \div PageSize \in {Q, Q - 1}
  <2>1. CASE d = M
    <3>1. Q * PageSize <= d /\ d < (Q + 1) * PageSize
      BY <1>5, <2>1, Widths
    <3>2. QED  BY <1>3, <1>5, <3>1, Quotient, Widths
  <2>2. CASE d < M
    <3>1. (Q - 1) * PageSize <= d /\ d < ((Q - 1) + 1) * PageSize
      BY <1>3, <1>5, <2>2, Widths
    <3>2. QED  BY <1>3, <1>5, <3>1, Quotient, Widths
  <2>3. QED  BY <1>3, <2>1, <2>2, Widths DEF M
<1> DEFINE p == -(d \div PageSize)
<1>9. p \in Int /\ p <= 0 /\ p \in {-Q, -(Q - 1)}
  BY <1>5, <1>8, Widths
<1> HIDE DEF Q
<1>10. Pages(limit) = p % AddressSpace
  <2>1. TruncDiv(Wrapped(y), PageSize) = p
    BY <1>2, <1>3, <1>7 DEF TruncDiv
  <2> HIDE DEF p
  <2>2. ~(p > MaxPageCount)
    BY <1>9, Widths
  <2>3. QED  BY <2>1, <2>2 DEF Pages
<1> HIDE DEF p
<1>11. (-Q) % AddressSpace = 0 /\ (-(Q - 1)) % AddressSpace = 1
  BY Widths, BelowZero DEF Q
<1>12. QED  BY <1>6, <1>9, <1>10, <1>11

\* No int as MemoryLimit grants a page more than the limit or more than the address
\* space, though the rounding may overflow, and a limit within the address space is
\* granted in full, for every page size, address space and width of int.
THEOREM LimitIsKept == Spec => []LimitIsMaximum
<1>1. InputInv => LimitIsMaximum
  <2> SUFFICES ASSUME InputInv, input.kind = "limit", input.limit > 0
               PROVE  LET p == Pages(input.limit)
                      IN  /\ p \in 0..MaxPageCount /\ p * PageSize < input.limit + PageSize
                          /\ input.limit <= AddressSpace => input.limit <= p * PageSize
    BY DEF LimitIsMaximum
  <2> DEFINE limit == input.limit
  <2>1. limit \in Nat /\ limit > 0 /\ limit <= MaxInt
    <3>1. limit \in -MaxInt - 1..MaxInt
      BY DEF InputInv, Shape, Shaped
    <3>2. QED  BY <3>1, Widths
  <2> HIDE DEF limit
  <2>2. CASE limit + PageSize - 1 <= MaxInt
    <3>1. PICK q \in Nat : /\ q > 0 /\ (q - 1) * PageSize < limit /\ limit <= q * PageSize
                           /\ Pages(limit) = IF q > MaxPageCount THEN MaxPageCount ELSE q
      BY <2>1, <2>2, PagesOf
    <3>2. (q - 1) * PageSize = q * PageSize - PageSize /\ q * PageSize \in Nat
      BY <3>1, Widths
    <3>3. CASE q <= MaxPageCount
      BY <2>1, <3>1, <3>2, <3>3, Widths DEF limit
    <3>4. CASE q > MaxPageCount
      <4>1. MaxPageCount * PageSize <= (q - 1) * PageSize /\ Pages(limit) = MaxPageCount
        BY <3>1, <3>4, Widths
      <4>2. MaxPageCount * PageSize < limit
        BY <2>1, <3>1, <3>2, <4>1, Widths
      <4>3. QED  BY <2>1, <4>1, <4>2, Widths DEF limit
    <3>5. QED  BY <3>1, <3>3, <3>4, Widths
  <2>3. CASE limit + PageSize - 1 > MaxInt
    <3>1. Pages(limit) \in {0, 1} /\ limit > PageSize
      BY <2>1, <2>3, PagesOfOverflow
    <3>2. limit > AddressSpace
      <4>1. PICK m \in Nat : m > 0 /\ MaxInt + 1 = m * (PageSize * AddressSpace)
        BY Widths
      <4> DEFINE w == PageSize * AddressSpace
      <4>2. w \in Nat /\ w >= 2 * AddressSpace
        BY Widths
      <4> HIDE DEF w
      <4>3. m * w >= 1 * w /\ MaxInt + 1 = m * w
        BY <4>1, <4>2 DEF w
      <4>4. MaxInt + 1 >= 2 * AddressSpace
        BY <4>2, <4>3, Widths
      <4>5. AddressSpace >= 2 * PageSize
        BY PagesAssumption
      <4>6. QED  BY <2>1, <2>3, <4>4, <4>5, Widths
    <3>3. QED  BY <2>1, <3>1, <3>2, Widths DEF limit
  <2>4. QED  BY <2>1, <2>2, <2>3, Widths
<1>2. QED  BY <1>1, InputIsShaped, PTL

-----------------------------------------------------------------------------
(***************************************************************************)
(* RSA keys.                                                               *)
(***************************************************************************)
\* Big-endian bytes are a number, and two of them the number they should be.
LEMMA NumberOfBytes ==
    ASSUME NEW bytes \in Seq(Nat)
    PROVE  /\ Number(bytes) \in Nat
           /\ Len(bytes) = 2 => Number(bytes) = bytes[1] * Base + bytes[2]
<1> DEFINE L == Len(bytes)
           F(g) == [k \in 0..L |-> IF k = 0 THEN 0 ELSE g[k - 1] * Base + bytes[k]]
           up == CHOOSE g : g = F(g)
<1>1. L \in Nat /\ Base \in Nat /\ \A k \in 1..L : bytes[k] \in Nat
  BY BaseAssumption, LenProperties
<1>2. Number(bytes) = up[L]
  BY DEF Number
<1> HIDE DEF L
<1>3. \E g : g = F(g)
  <2> DEFINE step == [k \in 1..L |-> [x \in Nat |-> x * Base + bytes[k]]]
  <2>1. \A k \in 1..L, x \in Nat : x * Base + bytes[k] \in Nat
    BY <1>1
  <2>2. step \in [1..L -> [Nat -> Nat]]
    BY <2>1
  <2>3. \A k \in 1..L, x \in Nat : step[k][x] = x * Base + bytes[k]
    OBVIOUS
  <2> HIDE DEF step
  <2>4. PICK g : Follows(g, Nat, L, 0, step)
    BY <1>1, <2>2, Recurrence
  <2>5. g \in [0..L -> Nat] /\ g[0] = 0 /\ \A k \in 1..L : g[k] = step[k][g[k - 1]]
    BY <2>4 DEF Follows
  <2>6. \A k \in 1..L : g[k - 1] \in Nat
    BY <1>1, <2>5
  <2>7. \A k \in 1..L : g[k] = g[k - 1] * Base + bytes[k]
    BY <2>3, <2>5, <2>6
  <2>8. g = [k \in 0..L |-> IF k = 0 THEN 0 ELSE g[k - 1] * Base + bytes[k]]
    BY <1>1, <2>5, <2>7
  <2>9. QED  BY <2>8
<1>4. up = F(up)
  <2> HIDE DEF F
  <2>1. QED  BY <1>3
<1> HIDE DEF up
<1>5. up[0] = 0 /\ \A k \in 1..L : up[k] = up[k - 1] * Base + bytes[k]
  BY <1>1, <1>4
<1> HIDE DEF F
<1>6. ASSUME NEW k \in 1..L, up[k - 1] \in Nat PROVE up[k] \in Nat
  <2>1. up[k] = up[k - 1] * Base + bytes[k] /\ bytes[k] \in Nat
    BY <1>1, <1>5, <1>6
  <2>2. up[k - 1] * Base \in Nat
    BY <1>1, <1>6
  <2>3. QED  BY <2>1, <2>2
<1>7. \A k \in 0..L : up[k] \in Nat
  <2>1. up[0] \in Nat
    BY <1>5
  <2>2. \A k \in 1..L : up[k - 1] \in Nat => up[k] \in Nat
    BY <1>6
  <2>3. QED  BY <1>1, <2>1, <2>2, Throughout
<1>8. L = 2 => up[1] = bytes[1] /\ up[2] = up[1] * Base + bytes[2]
  BY <1>1, <1>5
<1>9. QED  BY <1>1, <1>2, <1>7, <1>8 DEF L

\* Cut at two places, a key is an encoding if the first byte, or the two after a
\* zero, say where the exponent ends.
LEMMA EncodingAt ==
    ASSUME NEW key \in Seq(Nat), NEW h \in {1, 3}, NEW x \in Nat, h < x, x < Len(key)
    PROVE  IsEncodingOf(key, SubSeq(key, 1, h), SubSeq(key, h + 1, x), SubSeq(key, x + 1, Len(key))) <=>
              \/ h = 1 /\ key[1] # 0 /\ x = 1 + key[1]
              \/ h = 3 /\ key[1] = 0 /\ x = 3 + (key[2] * Base + key[3])
<1> DEFINE L == Len(key)
           head == SubSeq(key, 1, h)
           exponent == SubSeq(key, h + 1, x)
           modulus == SubSeq(key, x + 1, L)
<1>1. L \in Nat /\ h \in Nat /\ \A k \in 1..L : key[k] \in Nat
  BY LenProperties
<1>2. head \in Seq(Nat) /\ Len(head) = h /\ \A i \in 1..h : head[i] = key[i]
  <2>1. /\ head \in Seq(Nat) /\ Len(head) = IF 1 <= h THEN h - 1 + 1 ELSE 0
        /\ \A i \in 1..h - 1 + 1 : head[i] = key[1 + i - 1]
    BY <1>1, SubSeqProperties
  <2> HIDE DEF head
  <2>2. QED  BY <1>1, <2>1
<1>3. Len(exponent) = x - h
  <2>1. Len(exponent) = IF h + 1 <= x THEN x - (h + 1) + 1 ELSE 0
    BY <1>1, SubSeqProperties
  <2> HIDE DEF exponent
  <2>2. QED  BY <1>1, <2>1
<1>4. key = head \o exponent \o modulus
  <2>1. head \o exponent = SubSeq(key, 1, x)
    <3>1. 1 \in 1..L + 1 /\ h \in 1 - 1..L /\ x \in h..L
      BY <1>1
    <3>2. QED  BY <3>1, ConcatAdjacentSubSeq
  <2>2. SubSeq(key, 1, x) \o modulus = SubSeq(key, 1, L)
    <3>1. 1 \in 1..L + 1 /\ x \in 1 - 1..L /\ L \in x..L
      BY <1>1
    <3>2. QED  BY <3>1, ConcatAdjacentSubSeq
  <2>3. SubSeq(key, 1, L) = key
    BY SubSeqFull
  <2> HIDE DEF head, exponent, modulus, L
  <2>4. QED  BY <2>1, <2>2, <2>3
<1>5. h = 3 => Number(SubSeq(head, 2, 3)) = key[2] * Base + key[3]
  <2> SUFFICES ASSUME h = 3 PROVE Number(SubSeq(head, 2, 3)) = key[2] * Base + key[3]
    OBVIOUS
  <2> DEFINE two == SubSeq(head, 2, 3)
  <2> HIDE DEF head
  <2>1. \A i \in 2..3 : head[i] \in Nat
    BY <1>1, <1>2
  <2>2. /\ two \in Seq(Nat) /\ Len(two) = IF 2 <= 3 THEN 3 - 2 + 1 ELSE 0
        /\ \A i \in 1..3 - 2 + 1 : two[i] = head[2 + i - 1]
    BY <2>1, SubSeqProperties
  <2> HIDE DEF two
  <2>3. two \in Seq(Nat) /\ Len(two) = 2 /\ two[1] = key[2] /\ two[2] = key[3]
    BY <1>2, <2>2
  <2>4. QED  BY <2>3, NumberOfBytes DEF two
<1> HIDE DEF head, exponent, modulus
<1>6. head[1] = key[1]
  BY <1>1, <1>2
<1>7. key[1] \in Nat /\ (h = 3 => key[2] * Base + key[3] \in Nat)
  BY <1>1, BaseAssumption
<1>8. IsEncodingOf(key, head, exponent, modulus) <=>
        \/ h = 1 /\ key[1] # 0 /\ key[1] = x - h
        \/ h = 3 /\ key[1] = 0 /\ key[2] * Base + key[3] = x - h
  BY <1>2, <1>3, <1>4, <1>5, <1>6 DEF IsEncodingOf
<1>9. IsEncodingOf(key, head, exponent, modulus) <=>
        \/ h = 1 /\ key[1] # 0 /\ x = 1 + key[1]
        \/ h = 3 /\ key[1] = 0 /\ x = 3 + (key[2] * Base + key[3])
  <2>1. CASE h = 1
    BY <1>7, <1>8, <2>1
  <2>2. CASE h = 3
    <3> DEFINE y == key[2] * Base + key[3]
    <3>1. y \in Nat
      BY <1>7, <2>2
    <3> HIDE DEF y
    <3>2. IsEncodingOf(key, head, exponent, modulus) <=> key[1] = 0 /\ y = x - h
      BY <1>8, <2>2 DEF y
    <3>3. IsEncodingOf(key, head, exponent, modulus) <=> key[1] = 0 /\ x = 3 + y
      BY <2>2, <3>1, <3>2
    <3>4. QED  BY <2>2, <3>3 DEF y
  <2>3. QED  BY <2>1, <2>2
<1>10. QED  BY <1>9 DEF head, exponent, modulus, L

\* A byte string encodes one key at most: the one that parseDNSKEYRSA cuts out of it.
LEMMA KeyOfBytes ==
    ASSUME NEW key \in Seq(Nat), NEW off, off = (IF key[1] # 0 THEN 1 ELSE 3),
           NEW elen, elen = (IF key[1] # 0 THEN key[1] ELSE key[2] * Base + key[3])
    PROVE  KeysOf(key) = IF Len(key) >= 3 /\ elen # 0 /\ off + elen < Len(key)
                         THEN {RSAKey(key, off, elen)} ELSE {}
<1> DEFINE L == Len(key)
           Cut(t) == /\ t[1] < t[2] /\ t[2] < L
                     /\ IsEncodingOf(key, SubSeq(key, 1, t[1]), SubSeq(key, t[1] + 1, t[2]),
                                     SubSeq(key, t[2] + 1, L))
           cuts == {t \in {1, 3} \X (1..L) : Cut(t)}
           KeyAt(t) == [e |-> Number(SubSeq(key, t[1] + 1, t[2])), n |-> Number(SubSeq(key, t[2] + 1, L))]
<1>1. L \in Nat /\ \A k \in 1..L : key[k] \in Nat
  BY LenProperties
<1>2. KeysOf(key) = {KeyAt(t) : t \in cuts}
  BY DEF KeysOf
<1>3. off \in {1, 3} /\ (L >= 3 => elen \in Nat)
  BY <1>1, BaseAssumption
<1>4. ASSUME NEW h \in {1, 3}, NEW x \in 1..L
      PROVE  <<h, x>> \in cuts <=> L >= 3 /\ elen # 0 /\ off + elen < L /\ h = off /\ x = off + elen
  <2>1. Cut(<<h, x>>) <=> /\ h < x /\ x < L
                          /\ IsEncodingOf(key, SubSeq(key, 1, h), SubSeq(key, h + 1, x), SubSeq(key, x + 1, L))
    OBVIOUS
  <2>2. x \in Nat /\ h \in Nat
    BY <1>1
  <2> HIDE DEF Cut
  <2>3. <<h, x>> \in cuts <=> Cut(<<h, x>>)
    BY <1>4
  <2>4. Cut(<<h, x>>) <=> h < x /\ x < L /\ h = off /\ x = off + elen
    <3>1. CASE h < x /\ x < L
      BY <2>1, <2>2, <3>1, EncodingAt
    <3>2. CASE ~(h < x /\ x < L)
      BY <2>1, <3>2
    <3>3. QED  BY <3>1, <3>2
  <2>5. h = off /\ x = off + elen => (h < x /\ x < L <=> L >= 3 /\ elen # 0 /\ off + elen < L)
    BY <1>1, <1>3, <2>2
  <2>6. QED  BY <2>3, <2>4, <2>5
<1>5. KeyAt(<<off, off + elen>>) = RSAKey(key, off, elen)
  BY DEF RSAKey
<1>6. cuts \subseteq {1, 3} \X (1..L)
  OBVIOUS
<1> HIDE DEF cuts, KeyAt
<1>7. CASE L >= 3 /\ elen # 0 /\ off + elen < L
  <2>1. off + elen \in 1..L
    BY <1>1, <1>3, <1>7
  <2>2. cuts = {<<off, off + elen>>}
    BY <1>3, <1>4, <1>6, <1>7, <2>1
  <2>3. QED  BY <1>2, <1>5, <1>7, <2>2
<1>8. CASE ~(L >= 3 /\ elen # 0 /\ off + elen < L)
  <2>1. cuts = {}
    BY <1>4, <1>6, <1>8
  <2>2. QED  BY <1>2, <1>8, <2>1
<1>9. QED  BY <1>7, <1>8

\* parseDNSKEYRSA reads exactly the key that its input encodes, for keys of any
\* length and bytes of any width.
THEOREM KeyIsExact == Spec => []RSAKeyExact
<1>1. InputInv => RSAKeyExact
  <2> SUFFICES ASSUME InputInv, input.kind = "key" PROVE RSAKeyExact
    BY DEF RSAKeyExact
  <2> DEFINE key == input.key
             off == IF key[1] # 0 THEN 1 ELSE 3
             elen == IF key[1] # 0 THEN key[1] ELSE key[2] * Base + key[3]
             k == RSAKey(key, off, elen)
             found == Len(key) >= 3 /\ elen # 0 /\ off + elen < Len(key)
             usable == {r \in KeysOf(key) : r.e \in 3..MaxExponent /\ r.n > 0}
  <2>1. key \in Seq(Nat)
    BY DEF InputInv, Shape, Shaped
  <2>2. parseDNSKEYRSA(key) = IF found /\ k.e \in 3..MaxExponent /\ k.n # 0 THEN k ELSE NoKey
    <3>1. Len(key) \in Nat /\ (Len(key) >= 3 => off + elen \in Nat)
      <4>1. Len(key) \in Nat /\ \A i \in 1..Len(key) : key[i] \in Nat
        BY <2>1, LenProperties
      <4>2. QED  BY <4>1, BaseAssumption
    <3> HIDE DEF off, elen, k
    <3>2. parseDNSKEYRSA(key) = IF Len(key) < 3 THEN NoKey
                                ELSE IF elen = 0 \/ off + elen >= Len(key) THEN NoKey
                                ELSE IF k.e \notin 3..MaxExponent \/ k.n = 0 THEN NoKey
                                ELSE k
      BY DEF parseDNSKEYRSA, off, elen, k
    <3> HIDE DEF key
    <3>3. QED  BY <3>1, <3>2
  <2>3. KeysOf(key) = IF found THEN {k} ELSE {}
    BY <2>1, KeyOfBytes
  <2>4. found => k.n \in Nat
    <3> SUFFICES ASSUME found PROVE k.n \in Nat
      OBVIOUS
    <3>1. Len(key) \in Nat /\ off \in Nat /\ elen \in Nat /\ \A i \in 1..Len(key) : key[i] \in Nat
      <4>1. Len(key) \in Nat /\ \A i \in 1..Len(key) : key[i] \in Nat
        BY <2>1, LenProperties
      <4>2. QED  BY <4>1, BaseAssumption
    <3> HIDE DEF key, off, elen
    <3>2. \A i \in off + elen + 1..Len(key) : key[i] \in Nat
      BY <3>1
    <3>3. SubSeq(key, off + elen + 1, Len(key)) \in Seq(Nat)
      <4> DEFINE m == off + elen + 1
      <4>1. m \in Int /\ Len(key) \in Int /\ \A i \in m..Len(key) : key[i] \in Nat
        BY <3>1, <3>2
      <4> HIDE DEF m
      <4>2. SubSeq(key, m, Len(key)) \in Seq(Nat)
        BY <4>1, SubSeqProperties
      <4>3. QED  BY <4>2 DEF m
    <3>4. k.n = Number(SubSeq(key, off + elen + 1, Len(key)))
      BY DEF RSAKey
    <3>5. QED  BY <3>3, <3>4, NumberOfBytes
  <2> HIDE DEF k, found
  <2>5. IF usable = {} THEN parseDNSKEYRSA(key) = NoKey ELSE usable = {parseDNSKEYRSA(key)}
    <3> HIDE DEF key
    <3>1. CASE found /\ k.e \in 3..MaxExponent /\ k.n # 0
      <4>1. usable = {k}
        BY <2>3, <2>4, <3>1
      <4> HIDE DEF usable
      <4>2. QED  BY <2>2, <3>1, <4>1
    <3>2. CASE ~(found /\ k.e \in 3..MaxExponent /\ k.n # 0)
      <4>1. usable = {}
        BY <2>3, <2>4, <3>2
      <4> HIDE DEF usable
      <4>2. QED  BY <2>2, <3>2, <4>1
    <3>3. QED  BY <3>1, <3>2
  <2>6. QED  BY <2>5 DEF RSAKeyExact
<1>2. QED  BY <1>1, InputIsShaped, PTL

-----------------------------------------------------------------------------
(***************************************************************************)
(* The crypto tables, and entropy.                                         *)
(***************************************************************************)
\* The host announces exactly the algorithms that it can verify.
LEMMA AnnouncedIsVerified ==
    ASSUME NEW alg \in 0..17
    PROVE  cryptoSupported(alg) <=> \E k, s \in {32, 64, 96} : cryptoVerify(alg, k, s, TRUE, TRUE)
<1>1. CASE alg \in {8, 10}
  BY <1>1 DEF cryptoSupported, cryptoVerify, RSA
<1>2. CASE alg = 13
  <2>1. cryptoVerify(13, 64, 64, TRUE, TRUE)
    BY DEF cryptoVerify, ECDSA, Width
  <2>2. QED  BY <1>2, <2>1 DEF cryptoSupported
<1>3. CASE alg = 14
  <2>1. cryptoVerify(14, 96, 96, TRUE, TRUE)
    BY DEF cryptoVerify, ECDSA, Width
  <2>2. QED  BY <1>3, <2>1 DEF cryptoSupported
<1>4. CASE alg = 15
  BY <1>4 DEF cryptoSupported, cryptoVerify, ED25519
<1>5. CASE alg \notin {8, 10, 13, 14, 15}
  BY <1>5 DEF cryptoSupported, cryptoVerify, RSA, ECDSA, ED25519
<1>6. QED  BY <1>1, <1>2, <1>3, <1>4, <1>5

\* A signature is secure only if it is genuine, and unchecked only if the host
\* verifies no signature of its algorithm or a length does not fit; the sizes of
\* digests agree.
THEOREM TablesAgree == Spec => []CryptoTablesAgree
<1>1. InputInv => CryptoTablesAgree
  <2> SUFFICES ASSUME InputInv, input.kind = "signature" PROVE CryptoTablesAgree
    BY DEF CryptoTablesAgree
  <2>1. input.alg \in 0..17 /\ input.fits \in BOOLEAN /\ input.genuine \in BOOLEAN
    BY DEF InputInv, Shape, Shaped
  <2> DEFINE verdict == verify_canonrrset(input.alg, input.keyLen, input.sigLen,
                                          input.fits, input.parsed, input.genuine)
  <2>2. verdict = "secure" => input.genuine
    BY DEF verify_canonrrset, cryptoVerify
  <2>3. verdict = "unchecked" <=> ~input.fits \/ ~cryptoSupported(input.alg)
    BY DEF verify_canonrrset
  <2>4. verdict = "unchecked" <=> \/ ~\E k, s \in {32, 64, 96} : cryptoVerify(input.alg, k, s, TRUE, TRUE)
                                  \/ ~input.fits
    BY <2>1, <2>3, AnnouncedIsVerified
  <2>5. ds_digest_size_supported(input.alg) \in {0, cryptoDigest(input.alg)}
    BY <2>1 DEF ds_digest_size_supported, cryptoDigest
  <2>6. input.alg \in {4, 5} => secalgo_hash_final(input.alg) = cryptoDigest(input.alg)
    BY <2>1 DEF secalgo_hash_final, cryptoDigest
  <2>7. QED  BY <2>2, <2>4, <2>5, <2>6 DEF CryptoTablesAgree
<1>2. QED  BY <1>1, InputIsShaped, PTL

\* A memory is no larger than the address space, and wazero's size of it is its
\* own unless it is all of it.
LEMMA SizeOfMemory ==
    ASSUME NEW pages \in 0..MaxPageCount
    PROVE  /\ pages * PageSize \in Nat /\ pages * PageSize <= AddressSpace
           /\ MemorySize(pages) \in Nat /\ MemorySize(pages) <= pages * PageSize
           /\ pages * PageSize # AddressSpace => MemorySize(pages) = pages * PageSize
<1>1. /\ PageSize \in Nat /\ PageSize > 0 /\ AddressSpace \in Nat /\ AddressSpace > 0
      /\ MaxPageCount \in Nat /\ MaxPageCount * PageSize <= AddressSpace
  BY PagesAssumption DEF MaxPageCount
<1>2. pages \in Nat /\ pages <= MaxPageCount
  BY <1>1
<1>3. pages * PageSize \in Nat /\ pages * PageSize <= MaxPageCount * PageSize /\ MaxPageCount * PageSize \in Nat
  BY <1>1, <1>2
<1> DEFINE s == pages * PageSize
<1>4. s \in Nat /\ s <= AddressSpace /\ MemorySize(pages) = s % AddressSpace
  BY <1>1, <1>3 DEF MemorySize
<1> HIDE DEF s
<1>5. s # AddressSpace => s % AddressSpace = s
  BY <1>1, <1>4
<1>6. s = AddressSpace => s % AddressSpace = 0
  BY <1>1, <1>4
<1>7. QED  BY <1>1, <1>4, <1>5, <1>6 DEF s

\* Entropy is all or nothing, and the host allocates no more than the guest has.
THEOREM EntropyIsWhole == Spec => []EntropyFillsOrRefuses
<1>1. InputInv => EntropyFillsOrRefuses
  <2> SUFFICES ASSUME InputInv, input.kind = "entropy" PROVE EntropyFillsOrRefuses
    BY DEF EntropyFillsOrRefuses
  <2>1. input.pages \in 0..MaxPageCount /\ input.ptr \in 0..AddressSpace - 1 /\ input.n \in 0..AddressSpace - 1
    BY DEF InputInv, Shape, Shaped
  <2>2. input.ptr \in Nat /\ input.n \in Nat
    BY <2>1, PagesAssumption
  <2> DEFINE e == Entropy(input.pages, input.ptr, input.n)
             size == input.pages * PageSize
             range == input.ptr..input.ptr + input.n - 1
  <2>3. /\ size \in Nat /\ MemorySize(input.pages) \in Nat /\ MemorySize(input.pages) <= size
        /\ size # AddressSpace => MemorySize(input.pages) = size
    BY <2>1, SizeOfMemory
  <2>4. \/ /\ e = [allocated |-> 0, filled |-> {}, refused |-> TRUE]
           /\ input.ptr + input.n > MemorySize(input.pages)
        \/ /\ e = [allocated |-> input.n, filled |-> range, refused |-> FALSE]
           /\ input.ptr + input.n <= MemorySize(input.pages)
    BY <2>2, <2>3 DEF Entropy, InRange
  <2> HIDE DEF e, size
  <2>5. CASE /\ e = [allocated |-> 0, filled |-> {}, refused |-> TRUE]
             /\ input.ptr + input.n > MemorySize(input.pages)
    BY <2>2, <2>3, <2>5 DEF EntropyFillsOrRefuses, e, size
  <2>6. CASE /\ e = [allocated |-> input.n, filled |-> range, refused |-> FALSE]
             /\ input.ptr + input.n <= MemorySize(input.pages)
    <3>1. input.n <= size /\ range \subseteq 0..size - 1
      BY <2>2, <2>3, <2>6
    <3>2. QED  BY <2>6, <3>1 DEF EntropyFillsOrRefuses, e, size
  <2>7. QED  BY <2>4, <2>5, <2>6
<1>2. QED  BY <1>1, InputIsShaped, PTL
=============================================================================
