---------------------------- MODULE AnswerParsing ----------------------------
(* What becomes of an answer: pollResult (runtime.go), parseAnswer         *)
(* (answer.go), and the callback and result_get on the guest's side of the *)
(* slot (backends/guest.c).                                                *)
(*                                                                         *)
(* A record has an owner, a type and a body: a name for a CNAME, otherwise *)
(* whether its data is well formed ("good") or a CAA that does not parse   *)
(* ("bad").  "CAA" stands for the queried type, "other" for any other.     *)
EXTENDS Integers, Sequences

CONSTANTS Names,    \* domain names as written, a few differing in case only
          Fold      \* their canonical form

ASSUME NamesAssumption == Fold \in [Names -> Names]

Records == [owner : Names, type : {"CNAME"}, body : Names] \cup
           [owner : Names, type : {"CAA"}, body : {"good", "bad"}] \cup
           [owner : Names, type : {"other"}, body : {"good"}]

-----------------------------------------------------------------------------
(* Answers.                                                                *)

nameEqual(a, b) == Fold[a] = Fold[b]

IsAliasOf(rr, owner) == rr.type = "CNAME" /\ nameEqual(rr.owner, owner)

(* Mutant of cnameTarget: the last alias of a name wins.                   *)
cnameTargetLast(answers, owner) ==
    LET at == {k \in DOMAIN answers : IsAliasOf(answers[k], owner)}
    IN  IF at = {} THEN owner ELSE answers[CHOOSE k \in at : \A j \in at : k >= j].body

(* cnameTarget: the target of the first alias of a name; a name without    *)
(* one ends the walk, which is the same as staying there.                  *)
cnameTarget(answers, owner) ==
    LET at == {k \in DOMAIN answers : IsAliasOf(answers[k], owner)}
    IN  IF at = {} THEN owner ELSE answers[CHOOSE k \in at : \A j \in at : k <= j].body

(* The walk along the chain, of as many steps as there are answers.        *)
ChainOwner(answers, qname) ==
    LET walk[n \in 0..Len(answers)] ==
            IF n = 0 THEN qname ELSE cnameTarget(answers, walk[n - 1])
    IN  walk[Len(answers)]

(* The loop over the answers that takes the queried records of the owner.  *)
RecordsOf(answers, owner, qtype) ==
    LET taken[n \in 0..Len(answers)] ==
            IF n = 0 THEN <<>>
            ELSE IF answers[n].type = qtype /\ nameEqual(answers[n].owner, owner)
            THEN Append(taken[n - 1], answers[n]) ELSE taken[n - 1]
    IN  taken[Len(answers)]

(* parseAnswer on the answer section: the records that become HaveData and *)
(* the typed fields, or an error.                                          *)
parseAnswer(answers, qname, qtype) ==
    LET owner == IF qtype = "CNAME" THEN qname ELSE ChainOwner(answers, qname)
        taken == RecordsOf(answers, owner, qtype)
    IN  [err |-> \E k \in DOMAIN taken : taken[k].body = "bad", recs |-> taken]

-----------------------------------------------------------------------------
(* Results.  A packet is absent, shorter than a header's flags, too large  *)
(* for the ABI, garbled, truncated (TC) or whole.                          *)

NoPacket == [form |-> "absent", rcode |-> 0, answers |-> <<>>]

(* Mutant of result_cb: the status stays when the packet is lost.          *)
result_cb_keeping(cb, copied) ==
    [cb EXCEPT !.packet = IF copied THEN @ ELSE NoPacket]

(* result_cb copies the packet; without memory it reports SERVFAIL.        *)
result_cb(cb, copied) ==
    IF copied \/ cb.packet = NoPacket THEN cb
    ELSE [cb EXCEPT !.packet = NoPacket, !.rcode = 2]

(* result_get's translation of the status: 1 secure, 2 bogus, 0 insecure.  *)
sec_status(sec) == CASE sec = 2 -> 1 [] sec = 1 -> 2 [] OTHER -> 0

(* pollResult on a slot that is ready.                                     *)
pollResult(slot, qname, qtype) ==
    LET packet == slot.packet
        rcode == IF slot.rcode = 0 /\ packet.form \notin {"absent", "short"}
                 THEN packet.rcode ELSE slot.rcode
        parsed == IF packet.form = "whole" THEN parseAnswer(packet.answers, qname, qtype)
                  ELSE [err |-> packet.form # "absent", recs |-> <<>>]
        Result(recs) == [kind |-> "result", secure |-> sec_status(slot.sec) = 1,
                         nx |-> rcode = 3, recs |-> recs]
    IN  IF packet.form = "oversize" THEN [kind |-> "killed"]
        ELSE IF sec_status(slot.sec) = 2 THEN [kind |-> "bogus"]
        ELSE IF rcode \notin {0, 3} THEN [kind |-> "response"]
        ELSE IF rcode = 3 THEN Result(<<>>)
        ELSE IF parsed.err THEN [kind |-> "malformed"]
        ELSE Result(parsed.recs)

-----------------------------------------------------------------------------
(* The reference: the chain as a relation between canonical names, and     *)
(* what it is for records to be those of an answer at some places, in      *)
(* their order.                                                            *)

SelectedFrom(recs, answers, places) ==
    \E at \in [1..Len(recs) -> places] :
        /\ places = {at[i] : i \in 1..Len(recs)}
        /\ \A i \in 1..Len(recs) : /\ recs[i] = answers[at[i]]
                                   /\ \A j \in 1..i - 1 : at[j] < at[i]

Canonical == {Fold[n] : n \in Names}

HasAlias(answers, c) == \E k \in DOMAIN answers : answers[k].type = "CNAME" /\ Fold[answers[k].owner] = c

FirstAlias(answers, c) ==
    LET k == CHOOSE j \in DOMAIN answers :
                /\ answers[j].type = "CNAME" /\ Fold[answers[j].owner] = c
                /\ \A l \in 1..j - 1 : ~(answers[l].type = "CNAME" /\ Fold[answers[l].owner] = c)
    IN  Fold[answers[k].body]

(* The names that the chain of aliases from qname passes through.          *)
OnChain(answers, qname) ==
    LET Followed(S) == /\ Fold[qname] \in S
                       /\ \A c \in S : HasAlias(answers, c) => FirstAlias(answers, c) \in S
    IN  {c \in Canonical : \A S \in SUBSET Canonical : Followed(S) => c \in S}

(* Where the chain ends: one name, or none if it runs into a loop.         *)
ChainEnd(answers, qname) == {c \in OnChain(answers, qname) : ~HasAlias(answers, c)}
=============================================================================
