----------------------------- MODULE DataSegments -----------------------------
(* parseDataSegments (zygote.go): which ranges of memory the module's data *)
(* segments cover, read from the binary by hand.  The widths of the code   *)
(* are parameters: Group bits of a LEB128 byte are payload (7), integers   *)
(* have Wide bits (64), addresses Narrow (32).  A module is what follows   *)
(* its eight bytes of header.                                              *)
EXTENDS Integers, Sequences

CONSTANTS Group, Wide, Narrow,
          DataSection, I32Const, End  \* the bytes 11, 0x41 and 0x0b

ASSUME WidthAssumption ==
    /\ Group \in Nat /\ Wide \in Nat /\ Narrow \in Nat
    /\ 1 < Group /\ Narrow < Wide
    /\ {DataSection, I32Const, End} \subseteq 0..2^(Group + 1) - 1

More == 2^Group      \* the bit of a byte that another one follows
Sign == 2^(Group - 1)

Failed == [ok |-> FALSE, v |-> 0, p |-> 0, bits |-> 0, neg |-> FALSE]

(* The bytes of a LEB128 at p: the sum of their payloads, the position     *)
(* after it, how many bits it has, and whether the last has the sign bit.  *)
Leb(w, p) ==
    LET from[q \in p..Len(w) + 1] ==
            IF q > Len(w) \/ Group * (q - p) > Wide - 1 THEN Failed
            ELSE IF w[q] < More
            THEN [ok |-> TRUE, v |-> w[q] * 2^(Group * (q - p)), p |-> q + 1,
                  bits |-> Group * (q - p + 1), neg |-> w[q] >= Sign]
            ELSE [from[q + 1] EXCEPT !.v = @ + (w[q] - More) * 2^(Group * (q - p))]
    IN  from[p]

(* uleb: shifting drops what does not fit in Wide bits.                    *)
Uleb(w, p) == [Leb(w, p) EXCEPT !.v = @ % 2^Wide]

(* Mutant of Sleb: the sign is not extended.                               *)
SlebUnsigned(w, p) == Uleb(w, p)

(* The offset's signed LEB128.                                             *)
Sleb(w, p) ==
    LET l == Leb(w, p)
        v == l.v % 2^Wide
    IN  IF l.neg /\ l.bits < Wide THEN [l EXCEPT !.v = l.v - 2^l.bits]
        ELSE [l EXCEPT !.v = IF v >= 2^(Wide - 1) THEN v - 2^Wide ELSE v]

ByteIs(w, p, b) == p <= Len(w) /\ w[p] = b

(* One segment is its flags, the offset expression, its length and its     *)
(* bytes; each operator has read what its parameters name.                 *)
NoSegment == [ok |-> FALSE, p |-> 0, seg |-> [off |-> 0, len |-> 0]]

AfterLength(off, n) ==
    IF n.ok /\ off.v \in 0..2^Narrow - 1 /\ n.v < 2^Narrow
    THEN [ok |-> TRUE, p |-> n.p + n.v, seg |-> [off |-> off.v, len |-> n.v]]
    ELSE NoSegment

AfterOffset(w, off) ==
    IF off.ok /\ ByteIs(w, off.p, End) THEN AfterLength(off, Uleb(w, off.p + 1))
    ELSE NoSegment

Segment(w, flags) ==
    IF flags.ok /\ flags.v = 0 /\ ByteIs(w, flags.p, I32Const)
    THEN AfterOffset(w, Sleb(w, flags.p + 1))
    ELSE NoSegment

Rejected == [ok |-> FALSE, segs |-> <<>>]

Accepted(segs) == [ok |-> TRUE, segs |-> segs]

Joined(segs, r) == IF r.ok THEN Accepted(segs \o r.segs) ELSE r

(* count segments from p on, none of which may pass the section's end.     *)
SegmentsFrom(w, p, count, end) ==
    LET from[q \in 1..end, c \in 0..count] ==
            IF c = 0 THEN Accepted(<<>>)
            ELSE LET s == Segment(w, Uleb(w, q))
                 IN  IF ~s.ok \/ s.p > end THEN Rejected
                     ELSE Joined(<<s.seg>>, from[s.p, c - 1])
    IN  IF p <= end THEN from[p, count]
        ELSE IF count = 0 THEN Accepted(<<>>) ELSE Rejected

(* A section; others than the data section are skipped.                    *)
Section(w, id, size, count) ==
    IF ~size.ok \/ size.p + size.v > Len(w) + 1 THEN Rejected
    ELSE IF id # DataSection THEN Accepted(<<>>)
    ELSE IF ~count.ok THEN Rejected
    ELSE SegmentsFrom(w, count.p, count.v, size.p + size.v)

parseDataSegments(w) ==
    LET from[p \in 1..Len(w) + 1] ==
            IF p > Len(w) THEN Accepted(<<>>)
            ELSE LET size == Uleb(w, p + 1)
                     here == Section(w, w[p], size, Uleb(w, size.p))
                 IN  IF here.ok THEN Joined(here.segs, from[size.p + size.v])
                     ELSE Rejected
    IN  from[1]

-----------------------------------------------------------------------------
(* The reference: a module with given segments, encoded.                   *)

(* A number in n bytes, two's complement if it is negative; n may be more  *)
(* than it needs.                                                          *)
Encoded(v, n) ==
    [k \in 1..n |-> ((v \div 2^(Group * (k - 1))) % 2^Group)
                    + IF k < n THEN More ELSE 0]

(* An offset is an i32 constant: the upper half of memory is negative.     *)
AsI32(off) == IF off >= 2^(Narrow - 1) THEN off - 2^Narrow ELSE off

EncodedSegment(seg, n) ==
    <<0, I32Const>> \o Encoded(AsI32(seg.off), n) \o <<End>>
        \o Encoded(seg.len, n) \o [k \in 1..seg.len |-> End]

EncodedSection(id, payload, n) == <<id>> \o Encoded(Len(payload), n + 1) \o payload

EncodedData(segs, n) ==
    LET all[k \in 0..Len(segs)] ==
            IF k = 0 THEN Encoded(Len(segs), n) ELSE all[k - 1] \o EncodedSegment(segs[k], n)
    IN  EncodedSection(DataSection, all[Len(segs)], n)
=============================================================================
