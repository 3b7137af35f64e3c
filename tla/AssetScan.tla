----------------------------- MODULE AssetScan ------------------------------
(***************************************************************************)
(* services/executor.py inside a worker's attempts at one job: the active  *)
(* policy is resolved once, a collector runs for as long as the network    *)
(* or the archive takes, and only then is what it found assessed, stored   *)
(* and recorded.  The policy of the workspace may be replaced at any time, *)
(* the worker may be killed, and a retry starts over.                      *)
(*                                                                         *)
(* An attempt reports at most one observation: observations are assessed   *)
(* independently of each other.  Source assets, whose text comes with a    *)
(* synchronous request, have no attempts: SourceScan is what they report.  *)
(***************************************************************************)
EXTENDS Risk, Sequences

CONSTANTS
  Policies,      \* the rules of the versions an administrator may activate
  Contexts,      \* what is known of an asset: exposure, data lifetime, criticality
  MaxAttempts,   \* scan_queue.max_attempts
  AllowPrivate   \* settings.allow_private_targets

ASSUME AssetScanAssumption ==
  /\ Policies \subseteq CryptoPolicyRules /\ Contexts \subseteq ScanContext
  /\ MaxAttempts \in Nat \ {0} /\ AllowPrivate \in BOOLEAN
  /\ None \notin {"global", "private"}

VARIABLES
  asset,        \* the managed asset: kind, context and enabled
  active,       \* workspace_policy_assignments: the rules in force
  pc, attempts, \* the worker and scan_queue.attempts
  read,         \* the policy resolved by this attempt
  target,       \* the address an endpoint collector is pinned to
  collected,    \* the observations of this attempt
  findings,     \* the rows of the job in findings
  snapshot,     \* scan_snapshots: None, or the policy recorded and the attempt that did it
  activated     \* history: the policies in force since the attempt began

memory == <<read, target, collected>>
assessmentVars == <<asset, active, pc, attempts, memory, findings, snapshot, activated>>

-----------------------------------------------------------------------------
(* What the collectors report *)

\* DETECTORS: the names a line of source is matched against, with the key sizes and the confidence.
Detector(stem, bits, confident) == [name |-> [stem |-> stem, rest |-> ""], bits |-> bits, confident |-> confident]

\* The families found by their name alone, with the confidence of the match.
ByName ==
  {<<"MD5", 98>>, <<"SHA-1", 95>>, <<"SHA-256", 94>>, <<"SHA-384", 94>>, <<"SHA-512", 94>>, <<"3DES", 96>>,
   <<"RC4", 96>>, <<"DES", 90>>, <<"ECDSA", 92>>, <<"ECDH", 92>>, <<"DH", 83>>, <<"CHACHA20", 94>>,
   <<"ML-KEM", 97>>, <<"ML-DSA", 97>>, <<"SLH-DSA", 97>>}

Detectors ==
  {Detector(d[1], {None}, d[2]) : d \in ByName}
    \cup {Detector("AES", {None, 128, 192, 256}, 90), Detector("RSA", {None, 1024, 2048, 3072, 4096, 8192}, 90)}

PrimitiveOf(family) ==
  CASE family \in {"MD5", "SHA-1", "SHA-256", "SHA-384", "SHA-512"} -> "hash"
    [] family = "RSA" -> "pke"
    [] family \in {"DSA", "ECDSA", "ED25519", "ED448", "ML-DSA", "SLH-DSA"} -> "signature"
    [] OTHER -> IF family \in Profiles THEN "other" ELSE "unknown"

Observation(type, family, primitive, bits, version, confident) ==
  [type |-> type, family |-> family, primitive |-> primitive, bits |-> bits,
   version |-> version, confident |-> confident]

\* A line that only imports a library is no use of it.
ScanLine(line) ==
  IF line.import THEN {}
  ELSE LET family == NormalizeFamily(line.detector.name)
       IN  {Observation("algorithm", family, PrimitiveOf(family), line.bits, None, line.detector.confident)}

Lines ==
  {[import |-> i, detector |-> d, bits |-> b] : i \in BOOLEAN, d \in Detectors, b \in {None, 128, 192, 256, 1024, 2048, 3072, 4096, 8192}}

SourceScan == UNION {ScanLine(l) : l \in {k \in Lines : k.bits \in k.detector.bits}}

\* The public key of a certificate, with the primitive its key usage gives RSA.  The TLS collector
\* knows fewer kinds of key than the certificate collector and reports all as algorithms.
PublicKeys(type, families) ==
  {Observation(type, "RSA", p, b, None, 100) : p \in {"pke", "signature"}, b \in {1024, 2048, 4096}}
    \cup {Observation(type, f, PrimitiveOf(f), 256, None, 100) : f \in families}

SignatureHash(type) ==
  {Observation(type, f, "hash", None, None, 100) : f \in {"MD5", "SHA-1", "SHA-256", "SHA-384", "SHA3-256"}}

TlsScan ==
  {Observation("protocol", "TLS", "other", None, v, 100) : v \in {"1.0", "1.1", "1.2", "1.3", "unknown"}}
    \cup {o \in PublicKeys("algorithm", {"ECDSA", "DSA", "UNKNOWN"}) : o.primitive = PrimitiveOf(o.family)}
    \cup SignatureHash("algorithm")

CertificateScan ==
  PublicKeys("certificate", {"ECDSA", "DSA", "ED25519", "ED448", "UNKNOWN"}) \cup SignatureHash("certificate")

\* The host key of an SSH server.  A key type the profile does not know is reported by its own name.
SshScan ==
  {Observation("related-crypto-material", k[1], "signature", k[2], None, 100) :
     k \in {<<"RSA", 2048>>, <<"RSA", 1024>>, <<"DSA", 1024>>, <<"ECDSA", 256>>,
                   <<"ED25519", 256>>, <<"ED448", 456>>, <<"SK-KEY", None>>}}

Endpoints == {"tls-endpoint", "certificate-endpoint", "ssh-endpoint"}
Kinds == Endpoints \cup {"repository", "container", "host"}

\* _collect: the collector of each kind of asset.  A host is an inventory record without one.
Collector(kind) ==
  CASE kind = "repository" -> SourceScan
    [] kind = "container" -> SourceScan \cup CertificateScan
    [] kind = "tls-endpoint" -> TlsScan
    [] kind = "certificate-endpoint" -> CertificateScan
    [] kind = "ssh-endpoint" -> SshScan
    [] OTHER -> {}

\* resolve_target
Usable(address) == address # "multicast" /\ (address = "private" => AllowPrivate)

\* Mutant: one usable answer is enough.
ResolveAny(answers) ==
  IF \E n \in DOMAIN answers : Usable(answers[n]) THEN answers[1] ELSE None

\* One answer that may not be used refuses them all; the first one is the target that the collector
\* connects to, without resolving the name again.
Resolve(answers) ==
  IF answers # <<>> /\ \A n \in DOMAIN answers : Usable(answers[n]) THEN answers[1] ELSE None

-----------------------------------------------------------------------------
(* The attempts of the worker *)

Forget == read' = None /\ target' = None /\ collected' = {}

\* A finding is stored as it was assessed, the snapshot names the policy of the attempt that wrote it.
AssessmentTypeOK ==
  /\ asset.kind \in Kinds /\ asset.context \in Contexts
  /\ active \in Policies
  /\ pc \in {"idle", "resolve", "collect", "persist", "record", "complete", "succeeded", "failed"}
  /\ attempts \in 0..MaxAttempts
  /\ read \in Policies \cup {None}
  /\ target \in {"global", "private", None} /\ (target = "private" => AllowPrivate)
  /\ \A o \in collected : o.bits \in Int \cup {None} /\ o.confident \in 0..100
  /\ \A f \in findings : f.risk.score \in 0..100 /\ f.status \in DOMAIN StatusOrder
  /\ snapshot # None => snapshot.policy \in Policies /\ snapshot.attempt \in 1..attempts

AssessmentInit ==
  /\ asset \in [kind : Kinds, context : Contexts, enabled : BOOLEAN]
  /\ active \in Policies
  /\ pc = "idle" /\ attempts = 0
  /\ read = None /\ target = None /\ collected = {}
  /\ findings = {} /\ snapshot = None
  /\ activated = {active}

\* An administrator activates another version.
Activate(p) ==
  /\ p # active /\ pc \notin {"succeeded", "failed"}
  /\ active' = p
  /\ activated' = activated \cup {p}
  /\ UNCHANGED <<asset, pc, attempts, memory, findings, snapshot>>

\* execute_with_provenance: a disabled asset is refused, the effective policy is read.
Begin ==
  /\ pc = "idle" /\ attempts < MaxAttempts
  /\ attempts' = attempts + 1
  /\ activated' = {active}
  /\ IF asset.enabled
     THEN /\ read' = active /\ UNCHANGED <<target, collected>>
          /\ pc' = IF asset.kind \in Endpoints THEN "resolve" ELSE "collect"
     ELSE pc' = "failed" /\ UNCHANGED memory
  /\ UNCHANGED <<asset, active, findings, snapshot>>

\* The resolver answers for the host name of an endpoint.  A target that is refused ends the job.
ResolveTarget(answers) ==
  /\ pc = "resolve"
  /\ target' = Resolve(answers)
  /\ pc' = IF Resolve(answers) = None THEN "failed" ELSE "collect"
  /\ UNCHANGED <<asset, active, attempts, read, collected, findings, snapshot, activated>>

Collect(found) ==
  /\ pc = "collect"
  /\ asset.kind # "host"
  /\ collected' = found
  /\ pc' = "persist"
  /\ UNCHANGED <<asset, active, attempts, read, target, findings, snapshot, activated>>

\* The collector is not implemented, not configured, or refuses its input: AssetScanError.
CollectorRefuses ==
  /\ pc = "collect"
  /\ pc' = "failed" /\ Forget
  /\ UNCHANGED <<asset, active, attempts, findings, snapshot, activated>>

\* The network or the database fails, or the worker is killed: the job is tried again while it may.
Interrupted ==
  /\ pc \in {"resolve", "collect", "persist", "record", "complete"}
  /\ pc' = IF attempts < MaxAttempts THEN "idle" ELSE "failed"
  /\ Forget
  /\ UNCHANGED <<asset, active, attempts, findings, snapshot, activated>>

\* Mutant: the policy is looked up again once the observations are there.
StoreUnderActive(found) == {AssessUnder(o, asset.context, active) : o \in found}

\* Every observation is assessed, and evaluated under the policy read before it was collected.
Assessed(found) == {AssessUnder(o, asset.context, read) : o \in found}

\* upsert_many: the identity of a finding is its job and its fingerprint, so a retry replaces it.
Persist ==
  /\ pc = "persist"
  /\ findings' = {f \in findings : f.observation \notin collected} \cup Assessed(collected)
  /\ pc' = "record"
  /\ UNCHANGED <<asset, active, attempts, memory, snapshot, activated>>

\* record_successful_scan: a snapshot that an earlier attempt has committed stays as it is.
Record ==
  /\ pc = "record"
  /\ snapshot' = IF snapshot = None THEN [policy |-> read, attempt |-> attempts] ELSE snapshot
  /\ pc' = "complete"
  /\ UNCHANGED <<asset, active, attempts, memory, findings, activated>>

Complete ==
  /\ pc = "complete"
  /\ pc' = "succeeded" /\ Forget
  /\ UNCHANGED <<asset, active, attempts, findings, snapshot, activated>>

AssessmentNext ==
  \/ \E p \in Policies : Activate(p)
  \/ Begin
  \/ \E answers \in UNION {[1..n -> {"global", "private", "multicast"}] : n \in 0..2} : ResolveTarget(answers)
  \/ pc = "collect" /\ \E found \in {{}} \cup {{o} : o \in Collector(asset.kind)} : Collect(found)
  \/ CollectorRefuses \/ Interrupted
  \/ Persist \/ Record \/ Complete

AssessmentSpec == AssessmentInit /\ [][AssessmentNext]_assessmentVars

-----------------------------------------------------------------------------
(* Properties *)

\* What an attempt found is stored as the policy that it records in the scan's history decides, a
\* policy that was in force during that attempt, even when another one was activated while the
\* collector ran.  (A retry after the snapshot was committed keeps the snapshot.)
FindingsMatchProvenance ==
  pc = "complete" /\ snapshot.attempt = attempts =>
    /\ snapshot.policy \in activated
    /\ \A f \in findings : f.observation \in collected =>
         f.status = PolicyStatus(f.observation, asset.context, snapshot.policy)

\* A longer key of the same family never scores higher, in any context.
LongerKeyNeverRiskier ==
  \A o \in collected : \A bits \in {128, 192, 256, 1024, 2048, 3072, 4096, 8192} :
    o.bits # None /\ bits > o.bits =>
      Assess([o EXCEPT !.bits = bits], asset.context).score <= Assess(o, asset.context).score

\* The stricter of two built-in baselines never lets pass what the other one stops, whatever was
\* observed in whatever context.
StricterNeverLenient ==
  \A o \in collected :
    LET order(rules) == StatusOrder[PolicyStatus(o, asset.context, rules)]
    IN  order(Recommended) <= order(LongLivedConfidentiality)
          /\ order(LongLivedConfidentiality) <= order(StrictModern)

\* The risk score and the policies agree on protocols that are out of use: one that the engine
\* scores as legacy fails under every baseline.
LegacyProtocolFails ==
  \A o \in collected : \A rules \in Builtins :
    o.type = "protocol" /\ Weakness(o) = 35 => PolicyStatus(o, asset.context, rules) = "fail"

\* Whatever a detector finds in a source text has a profile, and the name under which it is stored
\* still leads to that profile when the finding is evaluated.
NamesAreKnown ==
  \A o \in collected :
    /\ asset.kind = "repository" => o.family \in Profiles
    /\ o.family \in Profiles => NormalizeFamily([stem |-> o.family, rest |-> ""]) = o.family

-----------------------------------------------------------------------------
(* The inductive invariant behind AssessmentTypeOK and FindingsMatchProvenance *)

\* From its first read to its end an attempt works under a policy that was in force meanwhile.
ReadInForce ==
  /\ activated \subseteq Policies /\ active \in activated
  /\ pc # "idle" => attempts > 0
  /\ pc \in {"resolve", "collect", "persist", "record", "complete"} => read \in activated

\* What an attempt holds is what the collector of the asset can report.
Reported == collected \subseteq Collector(asset.kind)

\* The findings of what was collected are decided under the policy that the attempt has read.
DecidedUnderRead ==
  pc \in {"record", "complete"} =>
    \A f \in findings : f.observation \in collected =>
      f.status = PolicyStatus(f.observation, asset.context, read)

\* A snapshot is of an earlier attempt until this attempt has recorded its own.
Recorded ==
  /\ snapshot # None => snapshot.attempt =< attempts
  /\ pc \in {"resolve", "collect", "persist", "record"} /\ snapshot # None => snapshot.attempt < attempts
  /\ pc = "complete" /\ snapshot.attempt = attempts => snapshot.policy = read

AssessmentInv == AssessmentTypeOK /\ ReadInForce /\ Reported /\ DecidedUnderRead /\ Recorded
=============================================================================
