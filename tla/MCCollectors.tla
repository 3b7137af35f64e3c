---------------------------- MODULE MCCollectors ----------------------------
(***************************************************************************)
(* The three parts of collection for TLC.  They share no state, so one run *)
(* checks them side by side: part says which of them is running, the       *)
(* others stay in an initial state.                                        *)
(***************************************************************************)
EXTENDS AssetScan, TLC

CONSTANTS Jobs, Readme, App, MaxCommits, FetchDepth, MaxDepth, MaxLayers, MaxEntries, MaxScanBytes

VARIABLES
  part,
  commits, status, tries, provenance, succeeded, states, snapshots, place, job, scan, recordedAt,
  phase, format, request, chosen, layers, files, entryBudget, scanByteBudget

repository == <<commits, status, tries, provenance, succeeded, states, snapshots, place, job, scan, recordedAt>>
container == <<phase, format, request, chosen, layers, files, entryBudget, scanByteBudget>>

\* A repository with two source files, one of them touched by no commit.
RepositoryTrees ==
  {[p \in {App, Readme} |-> IF p = App THEN a ELSE r] :
     <<a, r>> \in {<<"weak", "weak">>, <<"absent", "weak">>}}

Repository == INSTANCE RepositoryScan
  WITH Paths <- {App, Readme}, Unsupported <- {}, Trees <- RepositoryTrees,
       attempts <- tries, active <- states, pc <- place

\* Two files below a directory, one beside it; lists of one or two descriptors.
ImagePaths == {<<"etc">>, <<"etc", "tls">>, <<"app">>}
Descriptor == [kind : {"image", "index"}, ref : {"", "wanted"}, platform : BOOLEAN, digest : {1, 2}]
DescriptorLists == {{d, e} : d, e \in Descriptor}

Image == INSTANCE ContainerImage
  WITH Paths <- ImagePaths, Supported <- ImagePaths \ {<<"etc">>},
       Descriptors <- DescriptorLists

\* Two baselines that may be in force, and three assets they tell apart.
MCPolicies == {Recommended, StrictModern}
MCContexts == {[internet |-> TRUE, lifetime |-> 30, criticality |-> 10],
               [internet |-> FALSE, lifetime |-> 1, criticality |-> 5],
               [internet |-> FALSE, lifetime |-> 4, criticality |-> 5]}

ASSUME CollectorsAssumption == Repository!RepositoryAssumption /\ Image!ContainerAssumption

\* The part that runs starts in any of its initial states, the others in one of theirs.
Init ==
  /\ part \in {"repository", "container", "assessment"}
  /\ Repository!Init /\ Image!Init /\ AssessmentInit
  /\ part # "repository" => commits[1].tree = [p \in {App, Readme} |-> "weak"]
  /\ part # "container" => format = "oci" /\ request = ""
  /\ part # "assessment" =>
       asset.kind = "host" /\ asset.enabled /\ asset.context.lifetime = 1 /\ active = Recommended

Next ==
  \/ part = "repository" /\ Repository!Next /\ UNCHANGED <<part, container, assessmentVars>>
  \/ part = "container" /\ Image!Next /\ UNCHANGED <<part, repository, assessmentVars>>
  \/ part = "assessment" /\ AssessmentNext /\ UNCHANGED <<part, repository, container>>

Spec == Init /\ [][Next]_<<part, repository, container, assessmentVars>>

Symmetry == Permutations(Jobs)

\* The types of the three parts.
TypeOK == Repository!TypeOK /\ Image!TypeOK /\ AssessmentTypeOK
\* Incremental scans of a repository report what a full scan would.
IncrementalEqualsFull == Repository!IncrementalEqualsFull
\* A retried repository scan finds its own provenance.
RetryIsDuplicateSafe == Repository!RetryIsDuplicateSafe
\* An image is reported as the files its layers leave, and those left below a replaced directory.
EffectiveFilesystem == Image!EffectiveFilesystem
\* The image is the one asked for.
RightImage == Image!RightImage
=============================================================================
