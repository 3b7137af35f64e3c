-------------------------------- MODULE Risk --------------------------------
(***************************************************************************)
(* The pure part of a scan: the algorithm profiles (knowledge/             *)
(* algorithms.py), the risk score of an observation (risk/engine.py) and   *)
(* its disposition under a policy's rules (risk/policy.py).                *)
(*                                                                         *)
(* An observation is [type, family, primitive, bits, version, confident];  *)
(* bits and version are None when the collector does not know them, and    *)
(* confident is the detection confidence in hundredths.                    *)
(***************************************************************************)
EXTENDS Integers, FiniteSets

CONSTANT None

ASSUME RiskAssumption == None \notin Int

-----------------------------------------------------------------------------
(* knowledge/algorithms.py *)

\* PROFILES: what is known of a family, its weakness weight, quantum status and primitive.
Vulnerable == {"MD5", "SHA-1", "DES", "3DES", "RC4", "RSA", "DSA", "ECDSA", "ED25519", "ED448", "ECDH", "DH"}
Transition == {"AES", "CHACHA20", "SHA-256"}
Safe == {"SHA-384", "SHA-512", "ML-KEM", "ML-DSA", "SLH-DSA"}
Profiles == Vulnerable \cup Transition \cup Safe

WeaknessWeight(family) ==
  CASE family \in {"MD5", "DES", "RC4"} -> 40
    [] family = "3DES" -> 38
    [] family = "SHA-1" -> 35
    [] family = "DSA" -> 32
    [] family = "DH" -> 22
    [] family \in {"RSA", "ECDSA", "ED25519", "ED448", "ECDH"} -> 18
    [] family = "AES" -> 4
    [] family = "CHACHA20" -> 3
    [] family = "SHA-256" -> 2
    [] family \in Safe -> 0

Aliases ==
  [SHA1 |-> "SHA-1", SHA256 |-> "SHA-256", SHA384 |-> "SHA-384", SHA512 |-> "SHA-512",
   TRIPLEDES |-> "3DES", DES3 |-> "3DES", ARC4 |-> "RC4", KYBER |-> "ML-KEM",
   DILITHIUM |-> "ML-DSA", SPHINCS |-> "SLH-DSA"]

\* Families recognised by their first letters.
Prefixes == {"RSA", "ECDSA", "ECDH", "ED25519", "ED448", "ML-KEM", "ML-DSA", "SLH-DSA", "CHACHA20"}

\* Mutant: every name that begins with SHA is SHA-1.
NormalizeShaPrefix(name) ==
  CASE name.rest = "" /\ name.stem \in DOMAIN Aliases -> Aliases[name.stem]
    [] name.stem \in {"SHA-1", "SHA-256", "SHA-384", "SHA-512"} -> "SHA-1"
    [] OTHER -> name.stem

\* A name is [stem, rest]; rest is what follows: nothing, a dash and parameters, or other letters.
\* A name that is none of these keeps its own spelling.
NormalizeFamily(name) ==
  IF name.rest = "" /\ name.stem \in DOMAIN Aliases THEN Aliases[name.stem]
  ELSE IF \/ name.rest = "" \/ name.stem \in Prefixes
          \/ name.stem = "AES" /\ name.rest = "-" THEN name.stem
  ELSE "unlisted"

-----------------------------------------------------------------------------
(* RiskEngine.assess *)

SeverityFor(score) ==
  CASE score >= 80 -> "critical"
    [] score \in 60..79 -> "high"
    [] score \in 35..59 -> "medium"
    [] score \in 15..34 -> "low"
    [] OTHER -> "info"

LegacyTls == {"1.0", "1.1"}

\* A protocol observation has no profile: its family is TLS.
QuantumStatus(o) ==
  CASE o.family \in Vulnerable -> "vulnerable"
    [] o.family \in Transition -> "transition"
    [] o.family \in Safe -> "safe"
    [] o.family \notin Profiles /\ o.type = "protocol" -> "transition"
    [] OTHER -> "unknown"

\* The weight of the family, overridden by the key size where that is known.
Weakness(o) ==
  LET base == IF o.family \in Profiles THEN WeaknessWeight(o.family)
              ELSE IF o.type # "protocol" THEN 12
              ELSE IF o.version \in LegacyTls THEN 35 ELSE 2
  IN  IF o.bits = None THEN base
      ELSE CASE o.family = "RSA" /\ o.bits < 2048 -> 40
             [] o.family = "RSA" /\ o.bits >= 2048 /\ o.bits < 3072 -> IF base > 24 THEN base ELSE 24
             [] o.family = "AES" /\ o.bits < 128 -> 40
             [] OTHER -> base

\* Mutant: the adjustments of AES-128 and AES-256 are swapped.
QuantumMisordered(o) ==
  CASE o.family = "AES" /\ o.bits = 256 -> 10
    [] o.family = "AES" /\ o.bits = 128 -> 3
    [] OTHER -> 8

Quantum(o) ==
  LET base == CASE o.family \in Vulnerable -> 25
                [] o.family \in Transition -> 8
                [] o.family \in Safe -> 0
                [] OTHER -> IF o.type = "protocol" THEN 4 ELSE 10
  IN  IF o.family # "AES" \/ o.bits = None THEN base
      ELSE CASE o.bits = 128 -> IF base > 10 THEN base ELSE 10
             [] o.bits >= 256 -> IF base < 3 THEN base ELSE 3
             [] OTHER -> base

\* context.data_lifetime_years counts up to ten years, criticality is at most ten.
Exposure(context) ==
  (IF context.internet THEN 15 ELSE 0)
    + (IF context.lifetime > 10 THEN 10 ELSE context.lifetime)
    + context.criticality

Assess(o, context) ==
  LET total == Weakness(o) + Quantum(o) + Exposure(context)
      score == IF total > 100 THEN 100 ELSE total
      target == CASE o.family = "RSA" /\ o.primitive = "signature" -> "ML-DSA"
                  [] o.family \notin Profiles /\ o.version \in LegacyTls -> "TLS 1.3"
                  [] OTHER -> "of the profile"
  IN  [score |-> score, severity |-> SeverityFor(score), quantum |-> QuantumStatus(o), target |-> target]

-----------------------------------------------------------------------------
(* CryptoPolicyEvaluator.apply *)

StatusOrder == [pass |-> 0, review |-> 1, fail |-> 2]

\* Mutant: 1.1 is taken for a spelling of 1.2.
TlsRankLax(version) ==
  CASE version = "1.0" -> 10
    [] version \in {"1.1", "1.2"} -> 12
    [] version = "1.3" -> 13
    [] OTHER -> 0

TlsRank(version) ==
  CASE version = "1.0" -> 10
    [] version = "1.1" -> 11
    [] version = "1.2" -> 12
    [] version = "1.3" -> 13
    [] OTHER -> 0

\* A key that is too short fails, one of unknown size needs review.
KeyVerdicts(o, minimum) ==
  IF o.bits = None THEN {"review"} ELSE IF o.bits < minimum THEN {"fail"} ELSE {}

ProtocolVerdicts(o, rules) ==
  IF o.type # "protocol" THEN {}
  ELSE IF TlsRank(o.version) = 0 THEN {"review"}
  ELSE IF TlsRank(o.version) < TlsRank(rules.minimum_tls_version) THEN {"fail"} ELSE {}

QuantumVerdicts(o, context, rules) ==
  IF QuantumStatus(o) # "vulnerable" THEN {}
  ELSE {rules.quantum_vulnerable_default}
         \cup (IF context.internet THEN {rules.internet_exposed_quantum_action} ELSE {})
         \cup (IF context.lifetime >= rules.long_lived_data_years THEN {"fail"} ELSE {})

\* Every control that applies gives a verdict.
Verdicts(o, context, rules) ==
  (IF o.family \in rules.disallowed_families THEN {"fail"} ELSE {})
    \cup (IF o.family = "RSA" THEN KeyVerdicts(o, rules.minimum_rsa_bits) ELSE {})
    \cup (IF o.family = "AES" THEN KeyVerdicts(o, rules.minimum_aes_bits) ELSE {})
    \cup ProtocolVerdicts(o, rules)
    \cup QuantumVerdicts(o, context, rules)
    \cup (IF o.type = "algorithm" /\ o.family \notin Profiles THEN {rules.unknown_family_action} ELSE {})
    \cup (IF o.confident < rules.minimum_detection_confidence THEN {"review"} ELSE {})

\* The disposition of a finding is the worst of its verdicts.
PolicyStatus(o, context, rules) ==
  LET verdicts == Verdicts(o, context, rules) \cup {"pass"}
  IN  CHOOSE v \in verdicts : \A w \in verdicts : StatusOrder[w] <= StatusOrder[v]

\* The families that collectors report: those with a profile, and names without one.
Families == Profiles \cup {"TLS", "SHA3-256", "SK-KEY", "UNKNOWN"}

\* The rules an administrator may store, and what is known of an asset.  A name under which no
\* collector reports anything may be disallowed too, to no effect.
CryptoPolicyRules ==
  [minimum_rsa_bits : 1024..16384, minimum_aes_bits : {128, 192, 256}, minimum_tls_version : {"1.2", "1.3"},
   disallowed_families : SUBSET Families, quantum_vulnerable_default : {"review", "fail"},
   internet_exposed_quantum_action : {"review", "fail"}, long_lived_data_years : 0..50,
   unknown_family_action : DOMAIN StatusOrder, minimum_detection_confidence : 0..100]

ScanContext == [internet : BOOLEAN, lifetime : 0..50, criticality : 1..10]

AssessUnder(o, context, rules) ==
  [observation |-> o, risk |-> Assess(o, context), status |-> PolicyStatus(o, context, rules)]

-----------------------------------------------------------------------------
(* The built-in packs, in the order of their strictness *)

Recommended ==
  [minimum_rsa_bits |-> 2048, minimum_aes_bits |-> 128, minimum_tls_version |-> "1.2",
   disallowed_families |-> {"MD5", "SHA-1", "DES", "3DES", "RC4", "DSA"},
   quantum_vulnerable_default |-> "review", internet_exposed_quantum_action |-> "review",
   long_lived_data_years |-> 5, unknown_family_action |-> "review",
   minimum_detection_confidence |-> 75]

\* Mutant: RSA keys are measured in the wrong unit.
LaxLongLived ==
  [Recommended EXCEPT !.minimum_rsa_bits = 384, !.minimum_aes_bits = 256,
     !.internet_exposed_quantum_action = "fail", !.long_lived_data_years = 3,
     !.minimum_detection_confidence = 80]

LongLivedConfidentiality ==
  [minimum_rsa_bits |-> 3072, minimum_aes_bits |-> 256, minimum_tls_version |-> "1.2",
   disallowed_families |-> Recommended.disallowed_families,
   quantum_vulnerable_default |-> "review", internet_exposed_quantum_action |-> "fail",
   long_lived_data_years |-> 3, unknown_family_action |-> "review",
   minimum_detection_confidence |-> 80]

StrictModern ==
  [minimum_rsa_bits |-> 3072, minimum_aes_bits |-> 256, minimum_tls_version |-> "1.3",
   disallowed_families |-> Recommended.disallowed_families,
   quantum_vulnerable_default |-> "fail", internet_exposed_quantum_action |-> "fail",
   long_lived_data_years |-> 3, unknown_family_action |-> "fail",
   minimum_detection_confidence |-> 85]

Builtins == {Recommended, LongLivedConfidentiality, StrictModern}
=============================================================================
