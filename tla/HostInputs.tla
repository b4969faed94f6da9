------------------------------ MODULE HostInputs ------------------------------
(* The host's stateless decisions, each given every input of a bounded     *)
(* set.  input is what is being decided; a step takes up one input, or     *)
(* adds a record to an answer, or puts the input down.                     *)
EXTENDS AnswerParsing, EgressPolicy, DataSegments, HostCrypto, SequencesExt

CONSTANTS MaxAnswers,    \* bound: records in an answer section
          MaxPacket,     \* bound: records in the packet of a callback
          MaxKey,        \* bound: bytes of an RSA key
          MaxInt,        \* the host's largest int: 2^63 - 1
          AddressSpace,  \* bytes that a guest address can name: 2^32
          PageSize, DefaultPages  \* 65536, 1024

ASSUME PagesAssumption ==
    /\ MaxInt \in Nat /\ AddressSpace \in Nat /\ PageSize \in Nat /\ DefaultPages \in Nat
    /\ PageSize > 1 /\ AddressSpace % PageSize = 0 /\ AddressSpace >= 2 * PageSize
    /\ (MaxInt + 1) % (PageSize * AddressSpace) = 0

VARIABLE input

-----------------------------------------------------------------------------
(* NewRuntime's conversion of Config.MemoryLimit, an int, to pages.        *)

MaxPageCount == AddressSpace \div PageSize

Wrapped(x) == ((x + MaxInt + 1) % (2 * (MaxInt + 1))) - (MaxInt + 1)

TruncDiv(a, b) == IF a < 0 THEN -((-a) \div b) ELSE a \div b

(* Mutant of Pages: a limit of whole pages gets one more.                  *)
PagesOneMore(limit) ==
    IF limit <= 0 THEN DefaultPages
    ELSE LET p == limit \div PageSize + 1 IN IF p > MaxPageCount THEN MaxPageCount ELSE p

Pages(limit) ==
    IF limit <= 0 THEN DefaultPages
    ELSE LET p == TruncDiv(Wrapped(limit + PageSize - 1), PageSize)
         IN  (IF p > MaxPageCount THEN MaxPageCount ELSE p) % AddressSpace

(* wazero's Memory.Size, which is zero for a full address space.           *)
MemorySize(pages) == (pages * PageSize) % AddressSpace

(* Mutant of InRange: the sum wraps at the address space.                  *)
InRangeWrapped(pages, ptr, n) == (ptr + n) % AddressSpace <= MemorySize(pages)

(* The check before anything is allocated.                                 *)
InRange(pages, ptr, n) == ptr + n <= MemorySize(pages)

(* hostEntropy and wasiRandomGet: what the host allocates, and the bytes   *)
(* of guest memory that it fills; wazero's Memory.Write fills all or none. *)
(* A refusal traps (entropy) or is EFAULT (random_get).                    *)
Entropy(pages, ptr, n) ==
    IF ~InRange(pages, ptr, n) THEN [allocated |-> 0, filled |-> {}, refused |-> TRUE]
    ELSE IF ptr + n > pages * PageSize
    THEN [allocated |-> n, filled |-> {}, refused |-> TRUE]
    ELSE [allocated |-> n, filled |-> ptr..ptr + n - 1, refused |-> FALSE]

-----------------------------------------------------------------------------
(* The inputs.                                                             *)

Nothing == [kind |-> "nothing"]

QueryTypes == {"CNAME", "CAA"}

(* Packets of a callback: none, one that does not parse, or any answer.    *)
Packets == {NoPacket} \cup
           [form : {"short", "oversize", "garbled", "truncated"},
            rcode : {0, 2, 3}, answers : {<<>>}] \cup
           [form : {"whole"}, rcode : {0, 2, 3}, answers : BoundedSeq(Records, MaxPacket)]

(* What libunbound may call back with.                                     *)
Callbacks == [rcode : {0, 2, 3}, sec : 0..2, packet : Packets]

Addresses ==
    LET edges == UNION {Edges(p) : p \in deniedNetworks \cup doNotQuery \cup {globalUnicastV6}}
    IN  edges \cup {Map4(ip) : ip \in {e \in edges : Len(e) = 2}}

DataSegs == [off : 0..2^Narrow - 1, len : 0..2]

Init == input = Nothing

AskAnswer ==
    /\ input = Nothing
    /\ \E q \in Names, t \in QueryTypes :
          input' = [kind |-> "answer", answers |-> <<>>, qname |-> q, qtype |-> t]

AnotherRecord ==
    /\ input.kind = "answer" /\ Len(input.answers) < MaxAnswers
    /\ \E rr \in Records : input' = [input EXCEPT !.answers = Append(@, rr)]

AskCallback ==
    /\ input = Nothing
    /\ \E cb \in Callbacks, q \in Names, t \in QueryTypes, c \in BOOLEAN :
          input' = [kind |-> "callback", cb |-> cb, copied |-> c, qname |-> q, qtype |-> t]

AskEgress ==
    /\ input = Nothing
    /\ \E ip \in Addresses, port \in {52, 53, 54} :
          input' = [kind |-> "egress", ip |-> ip, port |-> port]

AskModule ==
    /\ input = Nothing
    /\ \E segs \in BoundedSeq(DataSegs, 2), n \in 2..3, front \in BoundedSeq({End}, 2) :
          input' = [kind |-> "module", segs |-> segs, n |-> n, front |-> front]

AskSignature ==
    /\ input = Nothing
    /\ \E alg \in 0..17, k \in {0, 32, 64, 96}, s \in {0, 64, 96}, f, p, g \in BOOLEAN :
          input' = [kind |-> "signature", alg |-> alg, keyLen |-> k, sigLen |-> s,
                    fits |-> f, parsed |-> p, genuine |-> g]

AskKey ==
    /\ input = Nothing
    /\ \E key \in BoundedSeq(0..Base - 1, MaxKey) : input' = [kind |-> "key", key |-> key]

AskLimit ==
    /\ input = Nothing
    /\ \E limit \in -MaxInt - 1..MaxInt : input' = [kind |-> "limit", limit |-> limit]

AskEntropy ==
    /\ input = Nothing
    /\ \E pages \in 0..MaxPageCount, ptr, n \in 0..AddressSpace - 1 :
          input' = [kind |-> "entropy", pages |-> pages, ptr |-> ptr, n |-> n]

Answered == input # Nothing /\ input' = Nothing

Next == \/ AskAnswer \/ AnotherRecord \/ AskCallback \/ AskEgress
        \/ AskModule \/ AskSignature \/ AskKey \/ AskLimit
        \/ AskEntropy \/ Answered

Spec == Init /\ [][Next]_input

-----------------------------------------------------------------------------
(* Properties.                                                             *)

(* parseAnswer returns exactly the queried records of the name at which    *)
(* the chain of aliases ends, in their order, however the chain is ordered *)
(* and spelt; from a loop it returns records of the loop's names at most.  *)
AnswerIsTheChain ==
    input.kind = "answer" =>
        LET a == input.answers
            ends == IF input.qtype = "CNAME" THEN {Fold[input.qname]}
                    ELSE ChainEnd(a, input.qname)
            recs == parseAnswer(a, input.qname, input.qtype).recs
            due == {k \in DOMAIN a : a[k].type = input.qtype /\ Fold[a[k].owner] \in ends}
        IN  IF ends # {} THEN SelectedFrom(recs, a, due)
            ELSE \A k \in DOMAIN recs : Fold[recs[k].owner] \in OnChain(a, input.qname)

(* A lookup fails closed: a result is never made of what was found bogus   *)
(* or of a packet that was lost between callback and result_get, it says   *)
(* secure only if the validator did, and NXDOMAIN only if the callback or  *)
(* the packet's header did.  A result without NXDOMAIN is exactly the      *)
(* records of a packet that arrived whole and says NOERROR: none of them   *)
(* stands for a packet that was cut or unreadable, though a callback       *)
(* without any packet is an answer without records (answer.go).            *)
FailsClosed ==
    input.kind = "callback" =>
        LET cb == input.cb
            out == pollResult(result_cb(cb, input.copied), input.qname, input.qtype)
            parsed == parseAnswer(cb.packet.answers, input.qname, input.qtype)
        IN  out.kind = "result" =>
                /\ cb.sec # 1
                /\ out.secure <=> cb.sec = 2
                /\ input.copied \/ cb.packet = NoPacket
                /\ out.nx => 3 \in {cb.rcode, cb.packet.rcode} /\ cb.rcode \in {0, 3}
                /\ ~out.nx /\ cb.packet # NoPacket =>
                      /\ cb.packet.form = "whole" /\ cb.packet.rcode = 0
                      /\ ~parsed.err /\ out.recs = parsed.recs
                /\ ~out.nx /\ cb.packet = NoPacket => cb.rcode = 0 /\ out.recs = <<>>

(* "It matches the do-not-query-address list configured guest-side"        *)
(* (sockets.go): at the edges of every prefix the host lets out exactly    *)
(* what the guest would ask, IPv6 within 2000::/3 only, a mapped address   *)
(* like the IPv4 address in it, and port 53 only.                          *)
EgressMatchesGuest ==
    input.kind = "egress" =>
        LET ip == Unmap(input.ip)
        IN  egressAllowed(input.ip, input.port) <=>
                /\ input.port = 53
                /\ ~GuestRefuses(ip)
                /\ Len(ip) = 8 => \h2000 <= ip[1] /\ ip[1] <= \h3fff

(* parseDataSegments finds the segments of a module, whatever comes before *)
(* them and however its numbers are padded; it rejects the module if an    *)
(* offset lies in the upper half of memory, and a module that was cut off  *)
(* inside a section.                                                       *)
SegmentsExact ==
    input.kind = "module" =>
        LET front == EncodedSection(End, input.front, input.n)
            w == front \o EncodedData(input.segs, input.n)
            low == \A k \in DOMAIN input.segs : input.segs[k].off < 2^(Narrow - 1)
        IN  /\ parseDataSegments(w) = IF low THEN [ok |-> TRUE, segs |-> input.segs] ELSE Rejected
            /\ \A cut \in 1..Len(w) - 1 :
                  parseDataSegments(SubSeq(w, 1, cut)).ok <=> cut = Len(front)

(* The tables of host and guest agree: a signature is secure only if it is *)
(* genuine, unchecked only if the host knows no such algorithm or a length *)
(* does not fit, every algorithm that is announced can verify something,   *)
(* and a digest has the size of the buffer that the guest provides for it. *)
CryptoTablesAgree ==
    input.kind = "signature" =>
        LET verdict == verify_canonrrset(input.alg, input.keyLen, input.sigLen,
                                         input.fits, input.parsed, input.genuine)
            some == \E k, s \in {32, 64, 96} : cryptoVerify(input.alg, k, s, TRUE, TRUE)
        IN  /\ verdict = "secure" => input.genuine
            /\ verdict = "unchecked" <=> ~some \/ ~input.fits
            /\ ds_digest_size_supported(input.alg) \in {0, cryptoDigest(input.alg)}
            /\ input.alg \in {4, 5} => secalgo_hash_final(input.alg) = cryptoDigest(input.alg)

(* parseDNSKEYRSA reads the one key that a byte string encodes, if its     *)
(* exponent is in range and its modulus is not zero, and no other.         *)
RSAKeyExact ==
    input.kind = "key" =>
        LET usable == {k \in KeysOf(input.key) : k.e \in 3..MaxExponent /\ k.n > 0}
        IN  IF usable = {} THEN parseDNSKEYRSA(input.key) = NoKey
            ELSE usable = {parseDNSKEYRSA(input.key)}

(* "MemoryLimit is the maximum memory of each Instance" (unbound.go): for  *)
(* every int the pages that are granted exceed the limit by less than a    *)
(* page and never exceed the address space, whatever the width of the      *)
(* arithmetic; and a limit within the address space is granted in full.    *)
LimitIsMaximum ==
    input.kind = "limit" =>
        LET p == Pages(input.limit)
        IN  input.limit > 0 =>
                /\ p \in 0..MaxPageCount /\ p * PageSize < input.limit + PageSize
                /\ input.limit <= AddressSpace => input.limit <= p * PageSize

(* Entropy is all or nothing, whatever range the guest names: the whole    *)
(* range is filled or the call is refused, the host never allocates more   *)
(* than the guest's own memory (host.go, hostEntropy; wasi.go), and a      *)
(* range within memory is refused only when memory is the whole address    *)
(* space.                                                                  *)
EntropyFillsOrRefuses ==
    input.kind = "entropy" =>
        LET e == Entropy(input.pages, input.ptr, input.n)
            size == input.pages * PageSize
            range == input.ptr..input.ptr + input.n - 1
        IN  /\ e.allocated <= size /\ e.filled \subseteq 0..size - 1
            /\ ~e.refused => e.filled = range
            /\ e.refused => input.ptr + input.n > size \/ size = AddressSpace
=============================================================================
