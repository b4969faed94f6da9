------------------------------ MODULE HostCrypto ------------------------------
(* DNSSEC primitives: the host's tables and its reading of keys            *)
(* (crypto.go), and the guest's own tables and its verdict on a signature  *)
(* (backends/secalgo.c).  The mathematics is external: genuine says        *)
(* whether the Go library accepts the signature.  Base is the number of    *)
(* byte values (256), MaxExponent the largest RSA exponent (2^31 - 1).     *)
EXTENDS Integers, Sequences

CONSTANTS Base, MaxExponent

ASSUME BaseAssumption == Base \in Nat \ {0, 1} /\ MaxExponent \in Nat

RSA == {8, 10}
ECDSA == {13, 14}
ED25519 == 15

(* Mutant of cryptoSupported: RSASHA1 is announced too.                    *)
cryptoSupportedSHA1(alg) == alg \in {5, 7, 8, 10, 13, 14, 15}

cryptoSupported(alg) == alg \in {8, 10, 13, 14, 15}

(* verifyECDSA: key and signature are two coordinates of this width.       *)
Width(alg) == IF alg = 13 THEN 32 ELSE 48

(* cryptoVerify, of a key and a signature of these lengths; parsed says    *)
(* whether parseDNSKEYRSA accepts the key.                                 *)
cryptoVerify(alg, keyLen, sigLen, parsed, genuine) ==
    \/ alg \in RSA /\ parsed /\ genuine
    \/ alg \in ECDSA /\ keyLen = 2 * Width(alg) /\ sigLen = 2 * Width(alg) /\ genuine
    \/ alg = ED25519 /\ keyLen = 32 /\ genuine

(* verify_canonrrset; fits says whether every length is an int32.          *)
verify_canonrrset(alg, keyLen, sigLen, fits, parsed, genuine) ==
    IF ~fits \/ ~cryptoSupported(alg) THEN "unchecked"
    ELSE IF cryptoVerify(alg, keyLen, sigLen, parsed, genuine) THEN "secure"
    ELSE "bogus"

(* cryptoDigest: the bytes it writes to the guest, 0 for no digest.        *)
cryptoDigest(alg) ==
    CASE alg = 1 -> 20 [] alg = 2 -> 32 [] alg = 4 -> 48 [] alg = 5 -> 64 [] OTHER -> 0

(* The guest's sizes of DS digests, and of its streaming hashes.           *)
ds_digest_size_supported(alg) ==
    CASE alg = 1 -> 20 [] alg = 2 -> 32 [] alg = 4 -> 48 [] OTHER -> 0

secalgo_hash_final(alg) == IF alg = 4 THEN 48 ELSE 64

-----------------------------------------------------------------------------
(* parseDNSKEYRSA.                                                         *)

(* Big-endian bytes as a number.                                           *)
Number(bytes) ==
    LET upTo[k \in 0..Len(bytes)] == IF k = 0 THEN 0 ELSE upTo[k - 1] * Base + bytes[k]
    IN  upTo[Len(bytes)]

NoKey == [e |-> 0, n |-> 0]

(* Mutant of RSAKey: the modulus starts at the exponent's last byte.       *)
RSAKeyShifted(key, off, elen) ==
    [e |-> Number(SubSeq(key, off + 1, off + elen)), n |-> Number(SubSeq(key, off + elen, Len(key)))]

RSAKey(key, off, elen) ==
    [e |-> Number(SubSeq(key, off + 1, off + elen)), n |-> Number(SubSeq(key, off + elen + 1, Len(key)))]

parseDNSKEYRSA(key) ==
    LET off == IF key[1] # 0 THEN 1 ELSE 3
        elen == IF key[1] # 0 THEN key[1] ELSE key[2] * Base + key[3]
        k == RSAKey(key, off, elen)
    IN  IF Len(key) < 3 THEN NoKey
        ELSE IF elen = 0 \/ off + elen >= Len(key) THEN NoKey
        ELSE IF k.e \notin 3..MaxExponent \/ k.n = 0 THEN NoKey
        ELSE k

(* The reference (RFC 3110): a key is the length of the exponent, in one   *)
(* byte or in a zero and two, the exponent and the modulus.                *)
IsEncodingOf(key, head, exponent, modulus) ==
    /\ key = head \o exponent \o modulus
    /\ \/ Len(head) = 1 /\ head[1] # 0 /\ head[1] = Len(exponent)
       \/ Len(head) = 3 /\ head[1] = 0 /\ Number(SubSeq(head, 2, 3)) = Len(exponent)

(* The keys that a byte string encodes.                                    *)
KeysOf(key) ==
    {[e |-> Number(SubSeq(key, s[1] + 1, s[2])), n |-> Number(SubSeq(key, s[2] + 1, Len(key)))] :
        s \in {t \in {1, 3} \X (1..Len(key)) :
                  /\ t[1] < t[2] /\ t[2] < Len(key)
                  /\ IsEncodingOf(key, SubSeq(key, 1, t[1]), SubSeq(key, t[1] + 1, t[2]),
                                  SubSeq(key, t[2] + 1, Len(key)))}}
=============================================================================
