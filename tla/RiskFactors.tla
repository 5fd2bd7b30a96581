------------------------------ MODULE RiskFactors ------------------------------
(***************************************************************************)
(* How a detection gets its risk, its recommendation and its name in the   *)
(* CBOM: the tables of engine/families.py, factors.py, recommend.py and    *)
(* api/cbom.py and the formula of engine/risk.py.  V and F are counted in  *)
(* twentieths, E and K in tenths, and the urgency U is a fraction, so that *)
(*     100 x V x F x U x E x K  =  v * f * e * k * U / 400                 *)
(* is exact; the code computes it in floating point and rounds it to       *)
(* hundredths.                                                             *)
(***************************************************************************)
EXTENDS Integers

CONSTANT None    \* a family or key size the detector could not tell

ShorBroken == {"RSA", "DSA", "DH", "ECDH", "ECDSA", "Ed25519", "X25519"}
PostQuantum == {"ML-KEM", "ML-DSA", "SLH-DSA"}
ClassicallyBroken == {"MD5", "SHA-1", "DES", "RC4", "3DES"}
HashFamilies == {"MD5", "SHA-1", "SHA-2", "SHA-3"}
Family == ShorBroken \cup PostQuantum \cup ClassicallyBroken \cup HashFamilies
            \cup {"AES", "ChaCha20", "Blowfish", "HMAC"}

Remedy == {"ML-KEM-768", "ML-KEM-1024", "ML-DSA-65", "ML-DSA-87",
           "AES-256-GCM", "SHA-2-256", "HMAC-SHA-2-256"}

ASSUME NoneIsUntold == None \notin Family /\ None \notin Remedy /\ None \notin Nat

CryptoFunction == {"keygen", "encrypt", "decrypt", "sign", "verify", "digest",
                   "tag", "keyderive", "unknown"}
Exposure == {"external", "internal", "isolated", "test"}
Criticality == {"mission-critical", "high", "medium", "low"}
Band == {"critical", "high", "medium", "low"}

Context == [exposure : Exposure, criticality : Criticality,
            shelfLife : Nat, migration : Nat]

Detection == [path : STRING, family : Family \cup {None},
              hash : HashFamilies \cup {None},     \* under an HMAC
              keySize : Nat \cup {None}, mode : STRING \cup {None},
              function : CryptoFunction]
-----------------------------------------------------------------------------
(* An HMAC is as vulnerable as the hash it is built from. *)
JudgedFamily(d) == IF d.family = "HMAC" /\ d.hash # None THEN d.hash ELSE d.family

IsClassicallyBroken(d) == JudgedFamily(d) \in ClassicallyBroken

(* V, in twentieths. *)
Vulnerability(d) ==
    LET family == JudgedFamily(d) IN
    CASE family = None -> 10
      [] family \in ShorBroken \cup ClassicallyBroken \cup {"Blowfish"} -> 20
      [] family \in PostQuantum -> 0
      [] family \in {"AES", "ChaCha20"} ->
            IF d.keySize # None /\ d.keySize < 256 THEN 12 ELSE 2
      [] family \in {"SHA-2", "SHA-3", "HMAC"} -> 1

(* F, in twentieths. *)
FunctionWeight(function) ==
    CASE function = "keygen" -> 18
      [] function \in {"sign", "decrypt"} -> 17
      [] function = "keyderive" -> 16
      [] function = "encrypt" -> 14
      [] function \in {"verify", "tag"} -> 12
      [] function \in {"digest", "unknown"} -> 10

(* K, in tenths. *)
CriticalityWeight(criticality) ==
    CASE criticality = "mission-critical" -> 10
      [] criticality = "high" -> 8
      [] criticality = "medium" -> 6
      [] criticality = "low" -> 4

(* E, in tenths. *)
ExposureWeight(exposure) ==
    CASE exposure = "external" -> 10
      [] exposure = "internal" -> 6
      [] exposure = "isolated" -> 3
      [] exposure = "test" -> 1
-----------------------------------------------------------------------------
Clamp(value, low, high) ==
    IF value < low THEN low ELSE IF value > high THEN high ELSE value

(* 0.5 + (X + Y - Z) / 2Z = (X + Y) / 2Z, clamped to 1/20 .. 1, as a       *)
(* fraction; there is none for Z = 0 unless the family is broken.          *)
Urgency(broken, ctx, z) ==
    LET d == 20 * z n == 10 * (ctx.shelfLife + ctx.migration)
    IN  IF broken THEN <<1, 1>> ELSE <<Clamp(n, z, d), d>>

HasScore(d, z) == IsClassicallyBroken(d) \/ z # 0

(* compute_score, as a fraction of hundredths. *)
ExactScore(d, ctx, z) ==
    LET u == Urgency(IsClassicallyBroken(d), ctx, z)
    IN  <<Vulnerability(d) * FunctionWeight(d.function) * ExposureWeight(ctx.exposure)
            * CriticalityWeight(ctx.criticality) * u[1],
          4 * u[2]>>

AtLeast(fraction, hundredths) == fraction[1] >= hundredths * fraction[2]

BandForScore(fraction) ==
    CASE AtLeast(fraction, 6000) -> "critical"
      [] ~AtLeast(fraction, 6000) /\ AtLeast(fraction, 3500) -> "high"
      [] ~AtLeast(fraction, 3500) /\ AtLeast(fraction, 1500) -> "medium"
      [] ~AtLeast(fraction, 1500) -> "low"

Rounded(fraction) == (2 * fraction[1] + fraction[2]) \div (2 * fraction[2])

PrivateKeyFloor == 9000

(* Defect: the floor lifts the score and leaves the band. *)
FloorScoreOnly(d, ctx, exact) ==
    IF /\ d.function = "keygen" /\ Vulnerability(d) = 20 /\ ctx.exposure # "test"
       /\ ~AtLeast(exact, PrivateKeyFloor)
    THEN [score |-> PrivateKeyFloor, band |-> BandForScore(exact)]
    ELSE [score |-> Rounded(exact), band |-> BandForScore(exact)]

(* A generated key of a broken family counts as an unencrypted private key.*)
Floored(d, ctx, exact) ==
    IF /\ d.function = "keygen" /\ Vulnerability(d) = 20 /\ ctx.exposure # "test"
       /\ ~AtLeast(exact, PrivateKeyFloor)
    THEN [score |-> PrivateKeyFloor, band |-> "critical"]
    ELSE [score |-> Rounded(exact), band |-> BandForScore(exact)]
-----------------------------------------------------------------------------
(* recommend(): the target of the recommended migration, None for none.    *)
SignsWithRSA(d) == d.family = "RSA" /\ d.function \in {"sign", "verify"}

LongKey(d) == d.keySize # None /\ d.keySize >= 3072

(* Defect: an HMAC is not resolved to its hash. *)
RecommendIgnoringHash(d) ==
    CASE d.family \in {"DH", "ECDH", "X25519"} \/ (d.family = "RSA" /\ ~SignsWithRSA(d)) ->
            IF LongKey(d) THEN "ML-KEM-1024" ELSE "ML-KEM-768"
      [] d.family \in {"DSA", "ECDSA", "Ed25519"} \/ SignsWithRSA(d) ->
            IF LongKey(d) THEN "ML-DSA-87" ELSE "ML-DSA-65"
      [] d.family \in {"3DES", "DES", "RC4", "Blowfish"} -> "AES-256-GCM"
      [] d.family \in {"MD5", "SHA-1"} -> "SHA-2-256"
      [] d.family = "AES" /\ (d.keySize = None \/ d.keySize < 256) -> "AES-256-GCM"
      [] OTHER -> None

Recommend(d) ==
    CASE d.family \in {"DH", "ECDH", "X25519"} \/ (d.family = "RSA" /\ ~SignsWithRSA(d)) ->
            IF LongKey(d) THEN "ML-KEM-1024" ELSE "ML-KEM-768"
      [] d.family \in {"DSA", "ECDSA", "Ed25519"} \/ SignsWithRSA(d) ->
            IF LongKey(d) THEN "ML-DSA-87" ELSE "ML-DSA-65"
      [] d.family \in {"3DES", "DES", "RC4", "Blowfish"} -> "AES-256-GCM"
      [] d.family \in {"MD5", "SHA-1"} -> "SHA-2-256"
      [] d.family = "HMAC" /\ d.hash \in {"MD5", "SHA-1"} -> "HMAC-SHA-2-256"
      [] d.family = "AES" /\ (d.keySize = None \/ d.keySize < 256) -> "AES-256-GCM"
      [] OTHER -> None
-----------------------------------------------------------------------------
(* _primitive_for: what the CBOM says a finding is. *)
Primitive(d) ==
    CASE d.family = None -> "unknown"
      [] d.family = "RSA" -> IF SignsWithRSA(d) THEN "signature" ELSE "pke"
      [] d.family \in {"DSA", "ECDSA", "Ed25519", "ML-DSA", "SLH-DSA"} -> "signature"
      [] d.family = "AES" -> IF d.mode \in {"GCM", "CCM"} THEN "ae" ELSE "block-cipher"
      [] d.family \in {"3DES", "DES", "Blowfish"} -> "block-cipher"
      [] d.family \in {"ChaCha20", "RC4"} -> "stream-cipher"
      [] d.family \in HashFamilies -> "hash"
      [] d.family = "HMAC" -> "mac"
      [] d.family = "ML-KEM" -> "kem"
      [] d.family \in {"DH", "ECDH", "X25519"} -> "key-agree"
=============================================================================
