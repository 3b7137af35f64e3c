--------------------------- MODULE AssetScanProofs ---------------------------
(***************************************************************************)
(* What AssetScan and the rules of Risk guarantee for every asset context, *)
(* every rule set an administrator may store and every order of steps.     *)
(***************************************************************************)
EXTENDS AssetScan, TLAPS

-----------------------------------------------------------------------------
(* The rules *)

\* An observation as the lemmas on the rules need it.
Measured(o) == o.bits \in Int \cup {None} /\ o.confident \in 0..100

Status == {"pass", "review", "fail"}

\* The three dispositions and their order.
LEMMA Statuses ==
  /\ DOMAIN StatusOrder = Status
  /\ StatusOrder["pass"] = 0 /\ StatusOrder["review"] = 1 /\ StatusOrder["fail"] = 2
BY DEF StatusOrder, Status

\* A disposition has a rank.
LEMMA Ranked ==
  ASSUME NEW s \in Status
  PROVE  StatusOrder[s] \in Int /\ 0 <= StatusOrder[s] /\ StatusOrder[s] <= 2
<1>1. s = "pass" \/ s = "review" \/ s = "fail"
  BY DEF Status
<1> QED
  BY <1>1, Statuses

\* The fields of stored rules.
LEMMA RuleFields ==
  \A rules \in CryptoPolicyRules :
    /\ rules.minimum_rsa_bits \in Int /\ rules.minimum_aes_bits \in Int
    /\ rules.minimum_tls_version \in {"1.2", "1.3"}
    /\ rules.quantum_vulnerable_default \in Status /\ rules.internet_exposed_quantum_action \in Status
    /\ rules.long_lived_data_years \in Int /\ rules.unknown_family_action \in Status
    /\ rules.minimum_detection_confidence \in Int
<1> DEFINE R == 1024..16384
           B == {128, 192, 256}
           T == {"1.2", "1.3"}
           D == SUBSET Families
           A == {"review", "fail"}
           Y == 0..50
           C == 0..100
<1>1. CryptoPolicyRules =
        [minimum_rsa_bits : R, minimum_aes_bits : B, minimum_tls_version : T,
         disallowed_families : D, quantum_vulnerable_default : A,
         internet_exposed_quantum_action : A, long_lived_data_years : Y,
         unknown_family_action : DOMAIN StatusOrder, minimum_detection_confidence : C]
  BY DEF CryptoPolicyRules
<1>2. R \subseteq Int /\ Y \subseteq Int /\ C \subseteq Int
  OBVIOUS
<1>3. B \subseteq Int
  OBVIOUS
<1>4. A \subseteq Status
  BY DEF Status
<1> HIDE DEF R, B, T, D, A, Y, C
<1> TAKE rules \in CryptoPolicyRules
<1>5. rules.minimum_rsa_bits \in R /\ rules.minimum_aes_bits \in B /\ rules.minimum_tls_version \in T
  BY <1>1
<1>6. rules.quantum_vulnerable_default \in A /\ rules.internet_exposed_quantum_action \in A
  BY <1>1
<1>7. rules.long_lived_data_years \in Y /\ rules.unknown_family_action \in Status
      /\ rules.minimum_detection_confidence \in C
  BY <1>1, Statuses
<1>8. rules.minimum_rsa_bits \in Int /\ rules.minimum_aes_bits \in Int
      /\ rules.long_lived_data_years \in Int /\ rules.minimum_detection_confidence \in Int
  BY <1>2, <1>3, <1>5, <1>7
<1>9. rules.quantum_vulnerable_default \in Status /\ rules.internet_exposed_quantum_action \in Status
  BY <1>4, <1>6
<1>10. rules.minimum_tls_version \in {"1.2", "1.3"}
  BY <1>5 DEF T
<1> QED
  BY <1>7, <1>8, <1>9, <1>10

\* The fields of an asset's context that the rules look at.
LEMMA ContextFields ==
  ASSUME NEW context \in ScanContext
  PROVE  context.lifetime \in Nat /\ context.criticality \in Nat
<1> DEFINE L == 0..50
           K == 1..10
<1>1. context \in [internet : BOOLEAN, lifetime : L, criticality : K]
  BY DEF ScanContext
<1>2. L \subseteq Nat
  OBVIOUS
<1>3. K \subseteq Nat
  OBVIOUS
<1> HIDE DEF L, K
<1>4. context.lifetime \in L /\ context.criticality \in K
  BY <1>1
<1> QED
  BY <1>2, <1>3, <1>4

\* Among dispositions there is a worst one, and CHOOSE finds it.
LEMMA Worst ==
  ASSUME NEW V \in SUBSET Status, "pass" \in V
  PROVE  LET v == CHOOSE v \in V : \A w \in V : StatusOrder[w] <= StatusOrder[v]
         IN  v \in V /\ \A w \in V : StatusOrder[w] <= StatusOrder[v]
<1> DEFINE Top(v) == \A w \in V : StatusOrder[w] <= StatusOrder[v]
<1>1. \A w \in V : w = "pass" \/ w = "review" \/ w = "fail"
  BY DEF Status
<1>2. \E v \in V : Top(v)
  <2>1. CASE "fail" \in V
    <3>1. Top("fail")
      BY <1>1, Statuses
    <3> QED
      BY <2>1, <3>1
  <2>2. CASE "fail" \notin V /\ "review" \in V
    <3>1. Top("review")
      BY <1>1, <2>2, Statuses
    <3> QED
      BY <2>2, <3>1
  <2>3. CASE "fail" \notin V /\ "review" \notin V
    <3>1. Top("pass")
      BY <1>1, <2>3, Statuses
    <3> QED
      BY <3>1
  <2> QED
    BY <2>1, <2>2, <2>3
<1> HIDE DEF Top
<1>3. (CHOOSE v \in V : Top(v)) \in V /\ Top(CHOOSE v \in V : Top(v))
  BY <1>2
<1> QED
  BY <1>3 DEF Top

\* Every control gives a disposition.
LEMMA VerdictsAreStatuses ==
  ASSUME NEW o, NEW context \in ScanContext, NEW rules \in CryptoPolicyRules
  PROVE  Verdicts(o, context, rules) \subseteq Status
<1>1. /\ rules.quantum_vulnerable_default \in Status /\ rules.internet_exposed_quantum_action \in Status
      /\ rules.unknown_family_action \in Status
  BY RuleFields
<1>2. KeyVerdicts(o, rules.minimum_rsa_bits) \subseteq Status /\ KeyVerdicts(o, rules.minimum_aes_bits) \subseteq Status
  BY DEF KeyVerdicts, Status
<1>3. ProtocolVerdicts(o, rules) \subseteq Status
  BY DEF ProtocolVerdicts, Status
<1>4. QuantumVerdicts(o, context, rules) \subseteq Status
  BY <1>1 DEF QuantumVerdicts, Status
<1> QED
  BY <1>1, <1>2, <1>3, <1>4 DEF Verdicts, Status

\* The disposition is the worst verdict of all controls, a pass when there is none.
LEMMA StatusIsWorst ==
  ASSUME NEW o, NEW context \in ScanContext, NEW rules \in CryptoPolicyRules
  PROVE  /\ PolicyStatus(o, context, rules) \in Status
         /\ PolicyStatus(o, context, rules) \in Verdicts(o, context, rules) \cup {"pass"}
         /\ \A w \in Verdicts(o, context, rules) : StatusOrder[w] <= StatusOrder[PolicyStatus(o, context, rules)]
<1> DEFINE V == Verdicts(o, context, rules) \cup {"pass"}
<1>1. V \in SUBSET Status /\ "pass" \in V
  BY VerdictsAreStatuses DEF Status
<1>2. PolicyStatus(o, context, rules) = CHOOSE v \in V : \A w \in V : StatusOrder[w] <= StatusOrder[v]
  BY DEF PolicyStatus
<1> HIDE DEF V
<1>3. /\ PolicyStatus(o, context, rules) \in V
      /\ \A w \in V : StatusOrder[w] <= StatusOrder[PolicyStatus(o, context, rules)]
  BY <1>1, <1>2, Worst
<1> QED
  BY <1>1, <1>3 DEF V

\* The weight of a family is at most 40.
LEMMA WeightBounds ==
  ASSUME NEW family \in Profiles
  PROVE  WeaknessWeight(family) \in 0..40
BY DEF WeaknessWeight, Profiles, Vulnerable, Transition, Safe

\* The weakness of an observation is at most 40, its quantum part at most 25.
LEMMA PartBounds ==
  ASSUME NEW o, Measured(o)
  PROVE  Weakness(o) \in 0..40 /\ Quantum(o) \in 0..25
<1> DEFINE base == IF o.family \in Profiles THEN WeaknessWeight(o.family)
                   ELSE IF o.type # "protocol" THEN 12
                   ELSE IF o.version \in LegacyTls THEN 35 ELSE 2
<1>1. base \in 0..40
  BY WeightBounds
<1>2. Weakness(o) \in 0..40
  BY <1>1 DEF Weakness, Measured
<1>3. Quantum(o) \in 0..25
  BY RiskAssumption DEF Quantum, Measured
<1> QED
  BY <1>2, <1>3

\* A score is between 0 and 100.
LEMMA ScoreBounds ==
  ASSUME NEW o, Measured(o), NEW context \in ScanContext
  PROVE  Assess(o, context).score \in 0..100
<1>1. Exposure(context) \in Nat
  BY ContextFields DEF Exposure
<1> QED
  BY <1>1, PartBounds DEF Assess

\* A longer key of the same family: neither its weakness nor its quantum part outweighs the other.
LEMMA LongerKey ==
  ASSUME NEW o, NEW p, Measured(o), Measured(p), o.bits # None, p.bits # None,
         o.bits < p.bits, p.type = o.type, p.family = o.family, p.version = o.version,
         NEW context \in ScanContext
  PROVE  Assess(p, context).score <= Assess(o, context).score
<1>1. Exposure(context) \in Nat
  BY ContextFields DEF Exposure
<1>2. /\ Weakness(o) \in 0..40 /\ Quantum(o) \in 0..25
      /\ Weakness(p) \in 0..40 /\ Quantum(p) \in 0..25
  BY PartBounds
<1>3. PICK b \in Int : b = o.bits
  BY DEF Measured
<1>4. PICK c \in Int : c = p.bits
  BY DEF Measured
<1>5. b < c /\ b # None /\ c # None
  BY <1>3, <1>4
<1>6. PICK f : f = o.family
  OBVIOUS
<1>7. PICK heavy \in Int : heavy = IF f \in Profiles THEN WeaknessWeight(f)
                                   ELSE IF o.type # "protocol" THEN 12
                                   ELSE IF o.version \in LegacyTls THEN 35 ELSE 2
  BY WeightBounds
<1>8. PICK quantum \in Int : quantum = CASE f \in Vulnerable -> 25
                                       [] f \in Transition -> 8
                                       [] f \in Safe -> 0
                                       [] OTHER -> IF o.type = "protocol" THEN 4 ELSE 10
  BY DEF Vulnerable, Transition, Safe
<1> DEFINE W(n) == IF n = None THEN heavy
                   ELSE CASE f = "RSA" /\ n < 2048 -> 40
                          [] f = "RSA" /\ n >= 2048 /\ n < 3072 -> IF heavy > 24 THEN heavy ELSE 24
                          [] f = "AES" /\ n < 128 -> 40
                          [] OTHER -> heavy
           Q(n) == IF f # "AES" \/ n = None THEN quantum
                   ELSE CASE n = 128 -> IF quantum > 10 THEN quantum ELSE 10
                          [] n >= 256 -> IF quantum < 3 THEN quantum ELSE 3
                          [] OTHER -> quantum
<1>9. Weakness(o) = W(b) /\ Weakness(p) = W(c)
  BY <1>3, <1>4, <1>6, <1>7 DEF Weakness
<1>10. Quantum(o) = Q(b) /\ Quantum(p) = Q(c)
  BY <1>3, <1>4, <1>6, <1>8 DEF Quantum
<1>11. W(c) + Q(c) <= W(b) + Q(b)
  <2>1. CASE f = "RSA"
    <3>1. heavy = 18 /\ Q(c) = quantum /\ Q(b) = quantum
      BY <1>5, <1>7, <2>1 DEF WeaknessWeight, Profiles, Vulnerable, Transition, Safe
    <3>2. quantum = 25
      BY <1>8, <2>1 DEF Vulnerable, Transition, Safe
    <3>3. W(c) <= W(b)
      BY <1>5, <2>1, <3>1
    <3>4. W(b) \in 0..40 /\ W(c) \in 0..40
      BY <1>2, <1>9
    <3> HIDE DEF W, Q
    <3> QED
      BY <3>1, <3>2, <3>3, <3>4
  <2>2. CASE f = "AES"
    <3>1. heavy = 4
      BY <1>7, <2>2 DEF WeaknessWeight, Profiles, Vulnerable, Transition, Safe
    <3>2. quantum = 8
      BY <1>8, <2>2 DEF Vulnerable, Transition, Safe
    <3>3. (W(b) = IF b < 128 THEN 40 ELSE 4) /\ (W(c) = IF c < 128 THEN 40 ELSE 4)
      BY <1>5, <2>2, <3>1
    <3>4. /\ Q(b) = IF b = 128 THEN 10 ELSE IF b >= 256 THEN 3 ELSE 8
          /\ Q(c) = IF c = 128 THEN 10 ELSE IF c >= 256 THEN 3 ELSE 8
      BY <1>5, <2>2, <3>2
    <3> HIDE DEF W, Q
    <3> QED
      BY <1>5, <3>3, <3>4
  <2>3. CASE f # "RSA" /\ f # "AES"
    <3>1. W(c) = W(b) /\ Q(c) = Q(b)
      BY <1>5, <2>3
    <3>2. W(b) \in 0..40 /\ Q(b) \in 0..25
      BY <1>2, <1>9, <1>10
    <3> HIDE DEF W, Q
    <3> QED
      BY <3>1, <3>2
  <2> QED
    BY <2>1, <2>2, <2>3
<1>12. Weakness(p) + Quantum(p) <= Weakness(o) + Quantum(o)
  BY <1>9, <1>10, <1>11
<1>13. Weakness(o) \in Int /\ Quantum(o) \in Int /\ Weakness(p) \in Int /\ Quantum(p) \in Int
  BY <1>2
<1> DEFINE Cap(n) == IF n > 100 THEN 100 ELSE n
<1>14. \A q : Assess(q, context).score = Cap(Weakness(q) + Quantum(q) + Exposure(context))
  BY DEF Assess
<1> DEFINE m == Weakness(p) + Quantum(p) + Exposure(context)
           n == Weakness(o) + Quantum(o) + Exposure(context)
<1>15. m \in Int /\ n \in Int /\ m <= n
  BY <1>1, <1>12, <1>13
<1>16. Assess(p, context).score = Cap(m) /\ Assess(o, context).score = Cap(n)
  BY <1>14
<1> HIDE DEF m, n
<1> QED
  BY <1>15, <1>16

\* Rules r are nowhere laxer than rules q.
StricterThan(r, q) ==
  /\ q.minimum_rsa_bits <= r.minimum_rsa_bits /\ q.minimum_aes_bits <= r.minimum_aes_bits
  /\ TlsRank(q.minimum_tls_version) <= TlsRank(r.minimum_tls_version)
  /\ q.disallowed_families \subseteq r.disallowed_families
  /\ StatusOrder[q.quantum_vulnerable_default] <= StatusOrder[r.quantum_vulnerable_default]
  /\ StatusOrder[q.internet_exposed_quantum_action] <= StatusOrder[r.internet_exposed_quantum_action]
  /\ r.long_lived_data_years <= q.long_lived_data_years
  /\ StatusOrder[q.unknown_family_action] <= StatusOrder[r.unknown_family_action]
  /\ q.minimum_detection_confidence <= r.minimum_detection_confidence

\* A key that a smaller minimum stops is stopped by a larger one.
LEMMA ShorterMinimum ==
  ASSUME NEW o, Measured(o), NEW m \in Int, NEW n \in Int, m <= n,
         NEW v \in KeyVerdicts(o, m)
  PROVE  v \in KeyVerdicts(o, n)
<1>1. CASE o.bits = None
  BY <1>1 DEF KeyVerdicts
<1>2. CASE o.bits # None
  <2>1. PICK b \in Int : b = o.bits
    BY <1>2 DEF Measured
  <2>2. b < m /\ v = "fail"
    BY <1>2, <2>1 DEF KeyVerdicts
  <2> QED
    BY <1>2, <2>1, <2>2 DEF KeyVerdicts
<1> QED
  BY <1>1, <1>2

\* For every verdict under the laxer rules there is one under the stricter rules that is no better.
LEMMA VerdictsGrow ==
  ASSUME NEW o, Measured(o), NEW context \in ScanContext,
         NEW q \in CryptoPolicyRules, NEW r \in CryptoPolicyRules, StricterThan(r, q),
         NEW v \in Verdicts(o, context, q)
  PROVE  \E w \in Verdicts(o, context, r) : StatusOrder[v] <= StatusOrder[w]
<1> DEFINE Found == \E w \in Verdicts(o, context, r) : StatusOrder[v] <= StatusOrder[w]
<1>1. v \in Status
  BY VerdictsAreStatuses
<1>2. o.confident \in Int
  BY DEF Measured
<1>3. ASSUME v \in Verdicts(o, context, r) PROVE Found
  <2>1. StatusOrder[v] <= StatusOrder[v]
    BY <1>1, Ranked
  <2> QED
    BY <1>3, <2>1
<1>4. CASE o.family \in q.disallowed_families /\ v = "fail"
  <2>1. "fail" \in Verdicts(o, context, r)
    BY <1>4 DEF Verdicts, StricterThan
  <2> QED
    BY <1>3, <1>4, <2>1
<1>5. CASE o.family = "RSA" /\ v \in KeyVerdicts(o, q.minimum_rsa_bits)
  <2>1. PICK m \in Int : m = q.minimum_rsa_bits
    BY RuleFields
  <2>2. PICK n \in Int : n = r.minimum_rsa_bits
    BY RuleFields
  <2>3. m <= n
    BY <2>1, <2>2 DEF StricterThan
  <2>4. v \in KeyVerdicts(o, n)
    BY <1>5, <2>1, <2>3, ShorterMinimum
  <2>5. v \in Verdicts(o, context, r)
    BY <1>5, <2>2, <2>4 DEF Verdicts
  <2> QED
    BY <1>3, <2>5
<1>6. CASE o.family = "AES" /\ v \in KeyVerdicts(o, q.minimum_aes_bits)
  <2>1. PICK m \in Int : m = q.minimum_aes_bits
    BY RuleFields
  <2>2. PICK n \in Int : n = r.minimum_aes_bits
    BY RuleFields
  <2>3. m <= n
    BY <2>1, <2>2 DEF StricterThan
  <2>4. v \in KeyVerdicts(o, n)
    BY <1>6, <2>1, <2>3, ShorterMinimum
  <2>5. v \in Verdicts(o, context, r)
    BY <1>6, <2>2, <2>4 DEF Verdicts
  <2> QED
    BY <1>3, <2>5
<1>7. CASE v \in ProtocolVerdicts(o, q)
  <2>1. PICK t \in Int : t = TlsRank(o.version)
    BY DEF TlsRank
  <2>2. PICK m \in Int : m = TlsRank(q.minimum_tls_version)
    BY DEF TlsRank
  <2>3. PICK n \in Int : n = TlsRank(r.minimum_tls_version)
    BY DEF TlsRank
  <2>4. m <= n
    BY <2>2, <2>3 DEF StricterThan
  <2>5. v \in ProtocolVerdicts(o, r)
    <3>1. o.type = "protocol"
      BY <1>7 DEF ProtocolVerdicts
    <3>2. CASE t = 0
      BY <1>7, <2>1, <3>1, <3>2 DEF ProtocolVerdicts
    <3>3. CASE t # 0
      <4>1. t < m /\ v = "fail"
        BY <1>7, <2>1, <2>2, <3>1, <3>3 DEF ProtocolVerdicts
      <4>2. t < n
        BY <2>4, <4>1
      <4> QED
        BY <2>1, <2>3, <3>1, <3>3, <4>1, <4>2 DEF ProtocolVerdicts
    <3> QED
      BY <3>2, <3>3
  <2>6. v \in Verdicts(o, context, r)
    BY <2>5 DEF Verdicts
  <2> QED
    BY <1>3, <2>6
<1>8. CASE v \in QuantumVerdicts(o, context, q)
  <2>1. QuantumVerdicts(o, context, r) \subseteq Verdicts(o, context, r) /\ QuantumStatus(o) = "vulnerable"
    BY <1>8 DEF Verdicts, QuantumVerdicts
  <2>2. CASE v = q.quantum_vulnerable_default
    BY <2>1, <2>2 DEF QuantumVerdicts, StricterThan
  <2>3. CASE context.internet /\ v = q.internet_exposed_quantum_action
    BY <2>1, <2>3 DEF QuantumVerdicts, StricterThan
  <2>4. CASE context.lifetime >= q.long_lived_data_years /\ v = "fail"
    <3>1. context.lifetime >= r.long_lived_data_years
      <4>1. /\ context.lifetime \in Int /\ q.long_lived_data_years \in Int /\ r.long_lived_data_years \in Int
        BY ContextFields, RuleFields
      <4>2. r.long_lived_data_years <= q.long_lived_data_years
        BY DEF StricterThan
      <4> QED
        BY <2>4, <4>1, <4>2
    <3> QED
      BY <1>3, <2>1, <2>4, <3>1 DEF QuantumVerdicts
  <2> QED
    BY <1>8, <2>1, <2>2, <2>3, <2>4 DEF QuantumVerdicts
<1>9. CASE o.type = "algorithm" /\ o.family \notin Profiles /\ v = q.unknown_family_action
  <2>1. r.unknown_family_action \in Verdicts(o, context, r)
    BY <1>9 DEF Verdicts
  <2> QED
    BY <1>9, <2>1 DEF StricterThan
<1>10. CASE o.confident < q.minimum_detection_confidence /\ v = "review"
  <2>1. o.confident < r.minimum_detection_confidence
    <3>1. q.minimum_detection_confidence \in Int /\ r.minimum_detection_confidence \in Int
      BY RuleFields
    <3>2. q.minimum_detection_confidence <= r.minimum_detection_confidence
      BY DEF StricterThan
    <3> QED
      BY <1>2, <1>10, <3>1, <3>2
  <2>2. "review" \in Verdicts(o, context, r)
    BY <2>1 DEF Verdicts
  <2> QED
    BY <1>3, <1>10, <2>2
<1> QED
  BY <1>4, <1>5, <1>6, <1>7, <1>8, <1>9, <1>10 DEF Verdicts

\* Stricter rules never let pass what laxer rules stop.
LEMMA StricterRules ==
  ASSUME NEW o, Measured(o), NEW context \in ScanContext,
         NEW q \in CryptoPolicyRules, NEW r \in CryptoPolicyRules, StricterThan(r, q)
  PROVE  StatusOrder[PolicyStatus(o, context, q)] <= StatusOrder[PolicyStatus(o, context, r)]
<1>1. PICK v \in Status : v = PolicyStatus(o, context, q)
  BY StatusIsWorst
<1>2. PICK u \in Status : u = PolicyStatus(o, context, r)
  BY StatusIsWorst
<1>3. StatusOrder[v] \in 0..2 /\ StatusOrder[u] \in 0..2
  BY Statuses DEF Status
<1>4. CASE v = "pass"
  BY <1>1, <1>2, <1>3, <1>4, Statuses
<1>5. CASE v \in Verdicts(o, context, q)
  <2>1. PICK w \in Verdicts(o, context, r) : StatusOrder[v] <= StatusOrder[w]
    BY <1>5, VerdictsGrow
  <2>2. StatusOrder[w] <= StatusOrder[u] /\ StatusOrder[w] \in 0..2
    BY <1>2, <2>1, StatusIsWorst, VerdictsAreStatuses, Statuses DEF Status
  <2> QED
    BY <1>1, <1>2, <1>3, <2>1, <2>2
<1> QED
  BY <1>1, <1>4, <1>5, StatusIsWorst

-----------------------------------------------------------------------------
(* The built-in packs *)

\* The fields of the built-in packs.
LEMMA BuiltinFields ==
  /\ Recommended \in CryptoPolicyRules
  /\ LongLivedConfidentiality \in CryptoPolicyRules
  /\ StrictModern \in CryptoPolicyRules
<1> DEFINE R == 1024..16384
           Y == 0..50
           C == 0..100
           D == SUBSET Families
           A == {"review", "fail"}
<1>1. CryptoPolicyRules =
        [minimum_rsa_bits : R, minimum_aes_bits : {128, 192, 256}, minimum_tls_version : {"1.2", "1.3"},
         disallowed_families : D, quantum_vulnerable_default : A,
         internet_exposed_quantum_action : A, long_lived_data_years : Y,
         unknown_family_action : DOMAIN StatusOrder, minimum_detection_confidence : C]
  BY DEF CryptoPolicyRules
<1>2. 2048 \in R /\ 3072 \in R
  OBVIOUS
<1>3. 3 \in Y /\ 5 \in Y /\ 75 \in C /\ 80 \in C /\ 85 \in C
  OBVIOUS
<1>4. {"MD5", "SHA-1", "DES", "3DES", "RC4", "DSA"} \in D /\ "review" \in A /\ "fail" \in A
  <2>1. "review" \in A /\ "fail" \in A
    OBVIOUS
  <2>2. {"MD5", "SHA-1", "DES", "3DES", "RC4", "DSA"} \in D
    BY DEF Families, Profiles, Vulnerable
  <2> QED
    BY <2>1, <2>2
<1>5. "review" \in DOMAIN StatusOrder /\ "fail" \in DOMAIN StatusOrder
  BY Statuses DEF Status
<1> HIDE DEF R, Y, C, D, A
<1>6. Recommended \in CryptoPolicyRules
  BY <1>1, <1>2, <1>3, <1>4, <1>5 DEF Recommended
<1>7. LongLivedConfidentiality \in CryptoPolicyRules
  BY <1>1, <1>2, <1>3, <1>4, <1>5 DEF LongLivedConfidentiality, Recommended
<1>8. StrictModern \in CryptoPolicyRules
  BY <1>1, <1>2, <1>3, <1>4, <1>5 DEF StrictModern, Recommended
<1> QED
  BY <1>6, <1>7, <1>8

\* Each built-in pack is nowhere laxer than the one before it.
LEMMA BuiltinOrder ==
  StricterThan(LongLivedConfidentiality, Recommended) /\ StricterThan(StrictModern, LongLivedConfidentiality)
<1>1. StricterThan(LongLivedConfidentiality, Recommended)
  BY Statuses DEF StricterThan, LongLivedConfidentiality, Recommended, TlsRank
<1>2. StricterThan(StrictModern, LongLivedConfidentiality)
  BY Statuses DEF StricterThan, StrictModern, LongLivedConfidentiality, Recommended, TlsRank
<1> QED
  BY <1>1, <1>2

-----------------------------------------------------------------------------
(* What the collectors report *)

\* The shape of an observation.
IsObservation(o) ==
  \E type, family, primitive, bits, version, confident :
    /\ o = Observation(type, family, primitive, bits, version, confident)
    /\ bits \in Int \cup {None} /\ confident \in 0..100
    /\ type = "protocol" => family = "TLS" /\ bits = None

\* A family with a profile is stored under a name that leads back to it.
LEMMA ProfileNames ==
  ASSUME NEW f \in Profiles
  PROVE  NormalizeFamily([stem |-> f, rest |-> ""]) = f
<1>1. DOMAIN Aliases = {"SHA1", "SHA256", "SHA384", "SHA512", "TRIPLEDES", "DES3", "ARC4", "KYBER",
                        "DILITHIUM", "SPHINCS"}
  BY DEF Aliases
<1>2. f \notin DOMAIN Aliases
  BY <1>1 DEF Profiles, Vulnerable, Transition, Safe
<1> QED
  BY <1>2 DEF NormalizeFamily

\* Every detector is named by a family with a profile.
LEMMA DetectorNames ==
  ASSUME NEW d \in Detectors
  PROVE  /\ \E f \in Profiles : d.name = [stem |-> f, rest |-> ""]
         /\ d.confident \in 0..100
         /\ d.bits \subseteq Int \cup {None}
<1> DEFINE I == Int \cup {None}
           P == 0..100
           N == {None}
           X == {None, 128, 192, 256}
           Y == {None, 1024, 2048, 3072, 4096, 8192}
<1>1. \A e \in ByName : e[1] \in Profiles /\ e[2] \in P
  BY DEF ByName, Profiles, Vulnerable, Transition, Safe
<1>2. \/ \E e \in ByName : d = Detector(e[1], N, e[2])
      \/ d = Detector("AES", X, 90)
      \/ d = Detector("RSA", Y, 90)
  BY DEF Detectors
<1>3. N \subseteq I /\ X \subseteq I /\ Y \subseteq I /\ 90 \in P
  OBVIOUS
<1>4. "AES" \in Profiles /\ "RSA" \in Profiles
  BY DEF Profiles, Vulnerable, Transition
<1> HIDE DEF I, P, N, X, Y
<1>5. PICK f, bits, c : d = Detector(f, bits, c) /\ f \in Profiles /\ c \in P /\ bits \subseteq I
  BY <1>1, <1>2, <1>3, <1>4
<1>6. d.name = [stem |-> f, rest |-> ""] /\ d.bits = bits /\ d.confident = c
  <2>1. d = Detector(f, bits, c)
    BY <1>5
  <2>2. d = [name |-> [stem |-> f, rest |-> ""], bits |-> bits, confident |-> c]
    BY <2>1 DEF Detector
  <2> QED
    BY <2>2
<1>7. (\E g \in Profiles : d.name = [stem |-> g, rest |-> ""]) /\ d.confident \in P /\ d.bits \subseteq I
  BY <1>5, <1>6
<1> QED
  BY <1>7 DEF I, P

\* What is found in a source text has a profile.
LEMMA SourceReports ==
  ASSUME NEW o \in SourceScan
  PROVE  IsObservation(o) /\ o.family \in Profiles
<1>1. PICK l \in Lines : l.bits \in l.detector.bits /\ o \in ScanLine(l)
  BY DEF SourceScan
<1>2. PICK d \in Detectors : d = l.detector
  BY DEF Lines
<1>3. PICK f \in Profiles : d.name = [stem |-> f, rest |-> ""]
  BY DetectorNames
<1>4. o = Observation("algorithm", f, PrimitiveOf(f), l.bits, None, d.confident)
  BY <1>1, <1>2, <1>3, ProfileNames DEF ScanLine
<1>5. l.bits \in Int \cup {None} /\ d.confident \in 0..100
  BY <1>1, <1>2, DetectorNames
<1>6. "algorithm" # "protocol" /\ o.family = f
  BY <1>4 DEF Observation
<1> QED
  BY <1>4, <1>5, <1>6 DEF IsObservation

\* The keys of certificates and servers, and the hashes they are signed with.
LEMMA KeyReports ==
  ASSUME NEW type, type # "protocol", NEW families, NEW o \in PublicKeys(type, families) \cup SignatureHash(type)
  PROVE  IsObservation(o)
<1>1. CASE \E p \in {"pke", "signature"}, b \in {1024, 2048, 4096} : o = Observation(type, "RSA", p, b, None, 100)
  BY <1>1 DEF IsObservation
<1>2. CASE \E f \in families : o = Observation(type, f, PrimitiveOf(f), 256, None, 100)
  BY <1>2 DEF IsObservation
<1>3. CASE \E f \in {"MD5", "SHA-1", "SHA-256", "SHA-384", "SHA3-256"} : o = Observation(type, f, "hash", None, None, 100)
  BY <1>3 DEF IsObservation
<1> QED
  BY <1>1, <1>2, <1>3 DEF PublicKeys, SignatureHash

\* Every collector reports observations.
LEMMA CollectorReports ==
  ASSUME NEW kind, NEW o \in Collector(kind)
  PROVE  IsObservation(o) /\ (kind = "repository" => o.family \in Profiles)
<1>1. CASE o \in SourceScan
  BY <1>1, SourceReports
<1>2. CASE o \in TlsScan /\ kind # "repository"
  <2>1. CASE o \in PublicKeys("algorithm", {"ECDSA", "DSA", "UNKNOWN"}) \cup SignatureHash("algorithm")
    BY <1>2, <2>1, KeyReports
  <2>2. CASE \E v \in {"1.0", "1.1", "1.2", "1.3", "unknown"} :
               o = Observation("protocol", "TLS", "other", None, v, 100)
    BY <1>2, <2>2 DEF IsObservation
  <2> QED
    BY <1>2, <2>1, <2>2 DEF TlsScan
<1>3. CASE o \in CertificateScan /\ kind # "repository"
  BY <1>3, KeyReports DEF CertificateScan
<1>4. CASE o \in SshScan /\ kind # "repository"
  BY <1>4 DEF SshScan, IsObservation
<1> QED
  BY <1>1, <1>2, <1>3, <1>4 DEF Collector

\* The fields of an observation.
LEMMA ObservationFields ==
  ASSUME NEW o, IsObservation(o)
  PROVE  /\ Measured(o)
         /\ o.type = "protocol" => o.family = "TLS" /\ o.bits = None
         /\ \A bits : /\ [o EXCEPT !.bits = bits].bits = bits /\ [o EXCEPT !.bits = bits].type = o.type
                      /\ [o EXCEPT !.bits = bits].family = o.family
                      /\ [o EXCEPT !.bits = bits].version = o.version
                      /\ [o EXCEPT !.bits = bits].confident = o.confident
BY DEF IsObservation, Observation, Measured

-----------------------------------------------------------------------------
(* The attempts of the worker *)

\* A job starts with nothing collected and nothing stored.
LEMMA Initially ==
  ASSUME AssessmentInit
  PROVE  AssessmentInv
<1>1. AssessmentTypeOK
  BY AssetScanAssumption DEF AssessmentInit, AssessmentTypeOK
<1>2. ReadInForce /\ Reported /\ DecidedUnderRead /\ Recorded
  BY DEF AssessmentInit, ReadInForce, Reported, DecidedUnderRead, Recorded
<1> QED
  BY <1>1, <1>2 DEF AssessmentInv

\* Another version is activated.
LEMMA ActivateStep ==
  ASSUME AssessmentInv, NEW p \in Policies, Activate(p)
  PROVE  AssessmentInv'
<1> USE DEF AssessmentInv, Activate, memory
<1>1. AssessmentTypeOK'
  BY DEF AssessmentTypeOK
<1>2. ReadInForce'
  BY DEF ReadInForce
<1>3. Reported' /\ DecidedUnderRead' /\ Recorded'
  BY DEF Reported, DecidedUnderRead, Recorded
<1> QED
  BY <1>1, <1>2, <1>3

\* An attempt begins by reading the policy in force.
LEMMA BeginStep ==
  ASSUME AssessmentInv, Begin
  PROVE  AssessmentInv'
<1> USE DEF AssessmentInv, Begin, memory
<1>0. PICK n \in Nat : n = attempts
  BY DEF AssessmentTypeOK
<1>1. AssessmentTypeOK'
  BY <1>0, AssetScanAssumption DEF AssessmentTypeOK
<1>2. ReadInForce'
  BY <1>0 DEF ReadInForce, AssessmentTypeOK
<1>3. Reported' /\ DecidedUnderRead'
  BY DEF Reported, DecidedUnderRead
<1>4. Recorded'
  BY <1>0 DEF Recorded, AssessmentTypeOK
<1> QED
  BY <1>1, <1>2, <1>3, <1>4

\* The host name of an endpoint is resolved to an address that may be used.
LEMMA ResolveTargetStep ==
  ASSUME AssessmentInv,
         NEW answers \in UNION {[1..n -> {"global", "private", "multicast"}] : n \in 0..2},
         ResolveTarget(answers)
  PROVE  AssessmentInv'
<1> USE DEF AssessmentInv, ResolveTarget
<1>1. Resolve(answers) \in {"global", "private", None} /\ (Resolve(answers) = "private" => AllowPrivate)
  BY AssetScanAssumption DEF Resolve, Usable
<1>2. AssessmentTypeOK'
  BY <1>1 DEF AssessmentTypeOK
<1>3. ReadInForce' /\ Reported' /\ DecidedUnderRead' /\ Recorded'
  BY DEF ReadInForce, Reported, DecidedUnderRead, Recorded
<1> QED
  BY <1>2, <1>3

\* The collector answers with observations of its kind.
LEMMA CollectStep ==
  ASSUME AssessmentInv, NEW found, found \subseteq Collector(asset.kind),
         Collect(found)
  PROVE  AssessmentInv'
<1> USE DEF AssessmentInv, Collect
<1>1. \A o \in found : o.bits \in Int \cup {None} /\ o.confident \in 0..100
  BY CollectorReports, ObservationFields DEF Measured
<1>2. AssessmentTypeOK'
  BY <1>1 DEF AssessmentTypeOK
<1>3. ReadInForce' /\ Reported' /\ DecidedUnderRead' /\ Recorded'
  BY DEF ReadInForce, Reported, DecidedUnderRead, Recorded
<1> QED
  BY <1>2, <1>3

\* An attempt that ends early, or with the job, forgets what it collected.
LEMMA EndStep ==
  ASSUME AssessmentInv, CollectorRefuses \/ Interrupted \/ Complete
  PROVE  AssessmentInv'
<1> USE DEF AssessmentInv, CollectorRefuses, Interrupted, Complete, Forget
<1>1. AssessmentTypeOK'
  BY AssetScanAssumption DEF AssessmentTypeOK
<1>2. ReadInForce' /\ Reported' /\ DecidedUnderRead' /\ Recorded'
  BY DEF ReadInForce, Reported, DecidedUnderRead, Recorded
<1> QED
  BY <1>1, <1>2

\* What was collected is assessed and stored.
LEMMA PersistStep ==
  ASSUME AssessmentInv, Persist
  PROVE  AssessmentInv'
<1> USE DEF AssessmentInv, Persist, memory
<1>1. read \in CryptoPolicyRules /\ asset.context \in ScanContext
  BY AssetScanAssumption DEF AssessmentTypeOK, ReadInForce
<1>2. ASSUME NEW o \in collected
      PROVE  /\ AssessUnder(o, asset.context, read).observation = o
             /\ AssessUnder(o, asset.context, read).status = PolicyStatus(o, asset.context, read)
             /\ AssessUnder(o, asset.context, read).status \in DOMAIN StatusOrder
             /\ AssessUnder(o, asset.context, read).risk.score \in 0..100
  <2>1. PolicyStatus(o, asset.context, read) \in Status
    BY <1>1, StatusIsWorst
  <2>2. Assess(o, asset.context).score \in 0..100
    BY <1>1, ScoreBounds DEF AssessmentTypeOK, Measured
  <2> QED
    BY <2>1, <2>2, Statuses DEF AssessUnder
<1>3. \A f \in findings' : \/ f \in findings /\ f.observation \notin collected
                           \/ \E o \in collected : f = AssessUnder(o, asset.context, read)
  BY DEF Assessed
<1>4. AssessmentTypeOK'
  <2>1. \A f \in findings' : f.risk.score \in 0..100 /\ f.status \in DOMAIN StatusOrder
    BY <1>2, <1>3 DEF AssessmentTypeOK
  <2> QED
    BY <2>1 DEF AssessmentTypeOK
<1>5. DecidedUnderRead'
  BY <1>2, <1>3 DEF DecidedUnderRead
<1>6. ReadInForce' /\ Reported' /\ Recorded'
  BY DEF ReadInForce, Reported, Recorded
<1> QED
  BY <1>4, <1>5, <1>6

\* The policy of the attempt is recorded, unless an earlier attempt has recorded its own.
LEMMA RecordStep ==
  ASSUME AssessmentInv, Record
  PROVE  AssessmentInv'
<1> USE DEF AssessmentInv, Record, memory
<1>0. PICK n \in Nat : n = attempts /\ n > 0
  BY DEF AssessmentTypeOK, ReadInForce
<1>1. read \in Policies
  BY DEF ReadInForce
<1>2. \/ snapshot' = snapshot /\ snapshot # None
      \/ snapshot' = [policy |-> read, attempt |-> n]
  BY <1>0
<1>3. AssessmentTypeOK'
  <2>1. snapshot' # None => snapshot'.policy \in Policies /\ snapshot'.attempt \in 1..n
    BY <1>0, <1>1, <1>2 DEF AssessmentTypeOK
  <2>2. attempts' = n /\ pc' = "complete"
    BY <1>0
  <2> QED
    BY <1>0, <2>1, <2>2 DEF AssessmentTypeOK
<1>4. Recorded'
  BY <1>0, <1>2 DEF Recorded, AssessmentTypeOK
<1>5. ReadInForce' /\ Reported' /\ DecidedUnderRead'
  BY DEF ReadInForce, Reported, DecidedUnderRead
<1> QED
  BY <1>3, <1>4, <1>5

\* The inductive invariant holds throughout.
THEOREM Inductive == AssessmentSpec => []AssessmentInv
<1>1. AssessmentInit => AssessmentInv
  BY Initially
<1>2. AssessmentInv /\ [AssessmentNext]_assessmentVars => AssessmentInv'
  <2> SUFFICES ASSUME AssessmentInv, [AssessmentNext]_assessmentVars
               PROVE  AssessmentInv'
    OBVIOUS
  <2>1. CASE \E p \in Policies : Activate(p)
    BY <2>1, ActivateStep
  <2>2. CASE Begin
    BY <2>2, BeginStep
  <2>3. CASE \E answers \in UNION {[1..n -> {"global", "private", "multicast"}] : n \in 0..2} : ResolveTarget(answers)
    BY <2>3, ResolveTargetStep
  <2>4. CASE \E found \in {{}} \cup {{o} : o \in Collector(asset.kind)} : Collect(found)
    <3>1. PICK found : found \subseteq Collector(asset.kind) /\ Collect(found)
      BY <2>4
    <3> QED
      BY <3>1, CollectStep
  <2>5. CASE CollectorRefuses \/ Interrupted \/ Complete
    BY <2>5, EndStep
  <2>6. CASE Persist
    BY <2>6, PersistStep
  <2>7. CASE Record
    BY <2>7, RecordStep
  <2>8. CASE UNCHANGED assessmentVars
    BY <2>8 DEF assessmentVars, memory, AssessmentInv, AssessmentTypeOK, ReadInForce, Reported, DecidedUnderRead, Recorded
  <2> QED
    BY <2>1, <2>2, <2>3, <2>4, <2>5, <2>6, <2>7, <2>8 DEF AssessmentNext
<1> QED
  BY <1>1, <1>2, PTL DEF AssessmentSpec

-----------------------------------------------------------------------------
(* The theorems *)

\* The state of a scan keeps its types; scores stay between 0 and 100.
THEOREM AssetScanTypes == AssessmentSpec => []AssessmentTypeOK
<1>1. AssessmentInv => AssessmentTypeOK
  BY DEF AssessmentInv
<1> QED
  BY <1>1, Inductive, PTL

\* The policy recorded in a scan's history is the one that decided its findings, whatever was
\* activated while the collector ran.
THEOREM ProvenanceDecides == AssessmentSpec => []FindingsMatchProvenance
<1>1. AssessmentInv => FindingsMatchProvenance
  BY DEF AssessmentInv, ReadInForce, DecidedUnderRead, Recorded, FindingsMatchProvenance
<1> QED
  BY <1>1, Inductive, PTL

\* What an attempt holds are observations, made in a context an administrator may describe.
LEMMA Held ==
  ASSUME AssessmentInv, NEW o \in collected
  PROVE  IsObservation(o) /\ asset.context \in ScanContext /\ (asset.kind = "repository" => o.family \in Profiles)
<1>1. o \in Collector(asset.kind)
  BY DEF AssessmentInv, Reported
<1> QED
  BY <1>1, CollectorReports, AssetScanAssumption DEF AssessmentInv, AssessmentTypeOK

\* A longer key of the same family never scores higher.
THEOREM LongerKeysAreNoRiskier == AssessmentSpec => []LongerKeyNeverRiskier
<1>1. AssessmentInv => LongerKeyNeverRiskier
  <2> DEFINE Sizes == {128, 192, 256, 1024, 2048, 3072, 4096, 8192}
  <2>0. Sizes \subseteq Int
    OBVIOUS
  <2>a. LongerKeyNeverRiskier <=>
           \A o \in collected : \A bits \in Sizes :
             o.bits # None /\ bits > o.bits =>
               Assess([o EXCEPT !.bits = bits], asset.context).score <= Assess(o, asset.context).score
    BY DEF LongerKeyNeverRiskier
  <2> HIDE DEF Sizes
  <2> SUFFICES ASSUME AssessmentInv, NEW o \in collected, NEW bits \in Sizes, o.bits # None, bits > o.bits
               PROVE  Assess([o EXCEPT !.bits = bits], asset.context).score <= Assess(o, asset.context).score
    BY <2>a
  <2> DEFINE q == [o EXCEPT !.bits = bits]
  <2>1. PICK p : p = q
    OBVIOUS
  <2>2. /\ Measured(o) /\ p.bits = bits /\ p.type = o.type /\ p.family = o.family
        /\ p.version = o.version /\ p.confident = o.confident
    BY <2>1, Held, ObservationFields
  <2>3. Measured(p) /\ p.bits # None /\ o.bits < p.bits
    BY <2>0, <2>2, RiskAssumption DEF Measured
  <2>4. PICK context \in ScanContext : context = asset.context
    BY Held
  <2>5. Assess(p, context).score <= Assess(o, context).score
    BY <2>2, <2>3, LongerKey
  <2> QED
    BY <2>1, <2>4, <2>5
<1> QED
  BY <1>1, Inductive, PTL

\* Each built-in baseline stops what the one before it stops.
THEOREM BaselinesAreOrdered == AssessmentSpec => []StricterNeverLenient
<1>1. AssessmentInv => StricterNeverLenient
  <2> SUFFICES ASSUME AssessmentInv, NEW o \in collected
               PROVE  /\ StatusOrder[PolicyStatus(o, asset.context, Recommended)]
                           <= StatusOrder[PolicyStatus(o, asset.context, LongLivedConfidentiality)]
                      /\ StatusOrder[PolicyStatus(o, asset.context, LongLivedConfidentiality)]
                           <= StatusOrder[PolicyStatus(o, asset.context, StrictModern)]
    BY DEF StricterNeverLenient
  <2>1. Measured(o)
    BY Held, ObservationFields
  <2>2. PICK context \in ScanContext : context = asset.context
    BY Held
  <2> QED
    BY <2>1, <2>2, BuiltinFields, BuiltinOrder, StricterRules
<1> QED
  BY <1>1, Inductive, PTL

\* A protocol that the engine scores as legacy fails under every built-in baseline.
THEOREM LegacyFails == AssessmentSpec => []LegacyProtocolFails
<1>1. AssessmentInv => LegacyProtocolFails
  <2> SUFFICES ASSUME AssessmentInv, NEW o \in collected, NEW rules \in Builtins, o.type = "protocol", Weakness(o) = 35
               PROVE  PolicyStatus(o, asset.context, rules) = "fail"
    BY DEF LegacyProtocolFails
  <2>1. o.family = "TLS" /\ o.bits = None
    BY Held, ObservationFields
  <2>2. o.version \in LegacyTls
    BY <2>1 DEF Weakness, Profiles, Vulnerable, Transition, Safe
  <2>3. rules \in CryptoPolicyRules /\ TlsRank(rules.minimum_tls_version) \in {12, 13}
    BY BuiltinFields DEF Builtins, Recommended, LongLivedConfidentiality, StrictModern, TlsRank
  <2>4. TlsRank(o.version) \in {10, 11}
    BY <2>2 DEF LegacyTls, TlsRank
  <2>5. "fail" \in ProtocolVerdicts(o, rules)
    BY <2>3, <2>4 DEF ProtocolVerdicts
  <2>6. PICK context \in ScanContext : context = asset.context
    BY Held
  <2>7. "fail" \in Verdicts(o, context, rules)
    BY <2>5 DEF Verdicts
  <2>8. PICK v \in Status : v = PolicyStatus(o, context, rules)
    BY <2>3, StatusIsWorst
  <2>9. StatusOrder["fail"] <= StatusOrder[v]
    BY <2>3, <2>7, <2>8, StatusIsWorst
  <2> QED
    BY <2>6, <2>8, <2>9, Statuses DEF Status
<1> QED
  BY <1>1, Inductive, PTL

\* What is found in source text has a profile, and the stored name leads back to it.
THEOREM NamesLeadToProfiles == AssessmentSpec => []NamesAreKnown
<1>1. AssessmentInv => NamesAreKnown
  BY Held, ProfileNames DEF NamesAreKnown
<1> QED
  BY <1>1, Inductive, PTL
=============================================================================
