--------------------------- MODULE ContainerImage ---------------------------
(***************************************************************************)
(* scanners/container_image.py: which image of an archive is scanned, and  *)
(* which files its layers leave, without extracting anything.  The archive *)
(* is revealed as the scan reads it: every descriptor list and every layer *)
(* the code may meet is a choice of the action that reads it.              *)
(*                                                                         *)
(* A path is a sequence of names.  An entry of a layer is [path, kind];    *)
(* for a whiteout, path is what it hides.  The reference is the OCI rule:  *)
(* a later layer hides what it overwrites, whites out or makes opaque, and *)
(* everything below a directory that it replaces by a file or a link.      *)
(***************************************************************************)
EXTENDS Naturals, Sequences, FiniteSets, SequencesExt

CONSTANTS
  Paths,         \* the paths of members, as sequences of names
  Supported,     \* the paths of the extensions that are scanned
  MaxDepth,      \* nested OCI indexes that are followed
  MaxLayers, MaxEntries, MaxScanBytes,
  Descriptors    \* the descriptor lists an index of the archive may hold

\* Assumed of the constants, by the module that gives them their values.
ContainerAssumption ==
  /\ Supported \subseteq Paths
  /\ MaxDepth \in Nat \ {0} /\ MaxLayers \in Nat \ {0}
  /\ MaxEntries \in Nat \ {0} /\ MaxScanBytes \in Nat

VARIABLES
  phase,         \* select, layers, done or failed
  format,        \* oci or docker-archive
  request,       \* the tag of the asset that names an image, or ""
  chosen,        \* the descriptors selected, outermost first, each with its alternatives, until
                 \* the layers are read
  layers,        \* the layers applied so far
  files,         \* path -> its content and the layer it comes from
  entryBudget, scanByteBudget

image == <<format, request, chosen>>
budgets == <<entryBudget, scanByteBudget>>
vars == <<phase, image, layers, files, budgets>>

Regular == {"small", "cert", "large"}
Whiteout == {"remove", "opaque"}
Entry == [path : Paths, kind : Regular \cup Whiteout \cup {"dir", "link"}]
           \cup [path : {<<>>}, kind : {"opaque"}]
Layer == UNION {[1..n -> Entry] : n \in 1..2}

\* What is held of an image has its type, within the limits of the scanner.
TypeOK ==
  /\ phase \in {"select", "layers", "done", "failed"}
  /\ format \in {"oci", "docker-archive"} /\ request \in {"", "wanted"}
  /\ Len(chosen) <= MaxDepth
  /\ Len(layers) <= MaxLayers
  /\ DOMAIN files \subseteq Supported
  /\ \A p \in DOMAIN files : files[p].layer \in DOMAIN layers /\ files[p].kind \in {"small", "cert"}
  /\ Cardinality(DOMAIN files) <= scanByteBudget
  /\ entryBudget \in 0..MaxEntries /\ scanByteBudget \in 0..MaxScanBytes

Init ==
  /\ phase = "select"
  /\ format \in {"oci", "docker-archive"}
  /\ request \in {"", "wanted"}
  /\ chosen = <<>>
  /\ layers = <<>> /\ files = <<>>
  /\ entryBudget = 0 /\ scanByteBudget = 0

-----------------------------------------------------------------------------
(* _select_oci_descriptor, _select_docker_manifest *)

\* Mutant: an index without a match for the platform falls back on whatever it lists.
AnyPlatform(ds) ==
  LET platform == {d \in ds : d.platform}
  IN  IF platform = {} THEN {CHOOSE d \in ds : TRUE} ELSE platform

\* The images of the configured platform, or the only image there is.
ForPlatform(ds) ==
  LET platform == {d \in ds : d.platform}
  IN  IF Cardinality(platform) # 1 /\ Cardinality(ds) = 1 THEN ds ELSE platform

\* What a list of descriptors is resolved to; anything but one candidate is refused.
Selected(ds) ==
  LET candidates == CASE request # "" -> {d \in ds : d.ref = request}
                      [] request = "" /\ format = "oci" -> ForPlatform(ds)
                      [] OTHER -> ds
  IN  IF Cardinality(candidates) = 1 THEN candidates ELSE {}

\* The scan reads a list, the manifest of the archive or a nested index, and the blob selected.
Follow(ds) ==
  /\ phase = "select"
  /\ Len(chosen) < MaxDepth
  /\ format = "docker-archive" => \A d \in ds : d.kind = "image"
  /\ \E d \in Selected(ds) :
       /\ chosen' = Append(chosen, [descriptor |-> d, among |-> ds])
       /\ phase' = IF d.kind = "image" THEN "layers" ELSE "select"
  /\ UNCHANGED <<format, request, layers, files, budgets>>

-----------------------------------------------------------------------------
(* _apply_layer *)

IsBelow(path, directory) == IsStrictPrefix(directory, path)

\* Mutant: a whiteout hides only the path it names.
HiddenExactly(layer, path) ==
  \E n \in DOMAIN layer : layer[n].kind \in Whiteout /\ layer[n].path = path

\* What the whiteouts of a layer hide.  They are applied before the layer's own files, wherever
\* they stand in the layer.
HiddenBy(layer, path) ==
  \E n \in DOMAIN layer :
    \/ layer[n].kind = "remove" /\ (layer[n].path = path \/ IsBelow(path, layer[n].path))
    \/ layer[n].kind = "opaque" /\ IsBelow(path, layer[n].path)

RemoveHidden(layer, fs) ==
  [p \in {q \in DOMAIN fs : ~HiddenBy(layer, q)} |-> fs[p]]

\* Mutant: the size of a file is not looked at.
AnySize(entry) == entry.kind \in Regular /\ entry.path \in Supported

\* A file is read when its extension is supported and it is small enough.
IsScanned(entry) == entry.kind \in {"small", "cert"} /\ entry.path \in Supported

\* The members of a layer in their order.  Every member that is no whiteout drops the file of its
\* path; a file that is read takes its place.
WriteMember(fs, entry, number) ==
  LET others == [p \in DOMAIN fs \ {entry.path} |-> fs[p]]
      content == [layer |-> number, kind |-> entry.kind]
  IN  CASE entry.kind \in Whiteout -> fs
        [] IsScanned(entry) -> (entry.path :> content) @@ others
        [] OTHER -> others

WriteMembers(fs, layer, number) ==
  FoldLeft(LAMBDA f, entry : WriteMember(f, entry, number), fs, layer)

\* Every file that is read counts one.
ScannedBytes(layer) ==
  Cardinality({n \in DOMAIN layer : IsScanned(layer[n])})

ApplyLayer(layer) ==
  /\ phase = "layers"
  /\ Len(layers) < MaxLayers
  /\ entryBudget + Len(layer) <= MaxEntries
  /\ scanByteBudget + ScannedBytes(layer) <= MaxScanBytes
  /\ layers' = Append(layers, layer)
  /\ files' = WriteMembers(RemoveHidden(layer, files), layer, Len(layers) + 1)
  /\ entryBudget' = entryBudget + Len(layer)
  /\ scanByteBudget' = scanByteBudget + ScannedBytes(layer)
  /\ chosen' = <<>>
  /\ UNCHANGED <<phase, format, request>>

\* An ambiguous or missing image, a digest that differs, an unsafe path or a limit that is exceeded:
\* ContainerImageScanError, nothing is reported.
Refuse ==
  /\ phase \in {"select", "layers"}
  /\ phase' = "failed"
  /\ UNCHANGED <<image, layers, files, budgets>>

\* The last layer has been applied.
Observe ==
  /\ phase = "layers" /\ layers # <<>>
  /\ phase' = "done"
  /\ UNCHANGED <<image, layers, files, budgets>>

Next ==
  \/ phase = "select" /\ \E ds \in Descriptors : Follow(ds)
  \/ phase = "layers" /\ entryBudget < MaxEntries /\ \E layer \in Layer : ApplyLayer(layer)
  \/ Observe
  \/ Refuse

Spec == Init /\ [][Next]_vars

\* The observations of a file: of its certificates if it has any, else of its text, annotated with
\* the path and the layer.
Observed ==
  {[path |-> p, layer |-> files[p].layer,
    by |-> IF files[p].kind = "cert" THEN "certificate" ELSE "source"] : p \in DOMAIN files}

-----------------------------------------------------------------------------
(* Properties *)

\* Layer i has a member of one of the kinds at the path, or has it there last, which is what counts
\* when a layer names a path twice.
Has(i, p, kinds) == \E n \in DOMAIN layers[i] : layers[i][n].path = p /\ layers[i][n].kind \in kinds
Leaves(i, p, kinds) ==
  \E n \in DOMAIN layers[i] :
    /\ layers[i][n].path = p /\ layers[i][n].kind \in kinds
    /\ \A m \in (n + 1)..Len(layers[i]) : layers[i][m].path = p => layers[i][m].kind \in Whiteout

\* No later layer writes to the path, whites it or a directory above it out, or makes one opaque.
Undeleted(i, p) ==
  \A j \in (i + 1)..Len(layers) :
    /\ ~Has(j, p, Regular \cup {"dir", "link"})
    /\ ~\E k \in 0..Len(p) : Has(j, SubSeq(p, 1, k), {"remove"})
    /\ ~\E k \in 0..(Len(p) - 1) : Has(j, SubSeq(p, 1, k), {"opaque"})

\* A later layer puts a file or a link in the place of a directory above the path.
DirectoryReplaced(i, p) ==
  \E j \in (i + 1)..Len(layers), k \in 1..(Len(p) - 1) : Has(j, SubSeq(p, 1, k), Regular \cup {"link"})

\* What layer i wrote to the path is what a container of the image sees there.
Visible(i, p) == Leaves(i, p, Regular) /\ Undeleted(i, p) /\ ~DirectoryReplaced(i, p)

\* A member that is no directory drops the file of its own path only, not the files below it.
LeftBehind(i, p) == Leaves(i, p, Regular) /\ Undeleted(i, p) /\ DirectoryReplaced(i, p)

\* The report of the files for which shown holds of their layer and path.
ReportOf(shown(_, _)) ==
  {[path |-> p, layer |-> i, by |-> IF Leaves(i, p, {"cert"}) THEN "certificate" ELSE "source"] :
     <<p, i>> \in {q \in Supported \X DOMAIN layers : shown(q[2], q[1]) /\ ~Leaves(q[2], q[1], {"large"})}}

\* Of an image every file of its effective filesystem that is scanned is reported, attributed to the
\* layer that wrote it, and no file that a later layer overwrote or whited out.  What is reported
\* besides stood below a directory that a later layer replaced by a file or a link.
EffectiveFilesystem ==
  phase = "done" =>
    /\ ReportOf(Visible) \subseteq Observed
    /\ Observed \subseteq ReportOf(Visible) \cup ReportOf(LeftBehind)

\* The image scanned is the one asked for: without a tag, every list on the way down offered either
\* a single image or a single one of the configured platform, which was taken.
RightImage ==
  phase # "select" => \A n \in DOMAIN chosen :
    LET d == chosen[n].descriptor  ds == chosen[n].among
    IN  \A e \in ds \ {d} : IF request # "" THEN d.ref = request /\ e.ref # request
                             ELSE format = "oci" /\ d.platform /\ ~e.platform
=============================================================================
