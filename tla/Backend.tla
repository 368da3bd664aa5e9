------------------------------- MODULE Backend -------------------------------
(***************************************************************************)
(* What the back end keeps on disk and on the wire: the device registry,   *)
(* the byte stream of a device, user scripts, results, an installation,    *)
(* and the bench a builtin script drives.  They share no state: in every   *)
(* behaviour one of them moves and the others stay in their initial state. *)
(***************************************************************************)
EXTENDS BuiltinScripts

CONSTANTS
  MaxId, Texts, Reads, Targets, Workers, MaxEdits, RegistryCrashes,     \* the device registry
  Replies, Threshold, MaxSends,                                         \* the byte stream
  StoredScripts, MaxVersion, MaxFaults, CatalogueCrashes,               \* user scripts
  Tasks, MaxResults, ListLimit, MaxLists, ResultCrashes,                \* results
  Versions, Ports, MaxRuns                                              \* an installation

ASSUME RegistryAssumption == MaxId \in Nat
ASSUME LinkAssumption == Threshold \in Nat \ {0}      \* what is below 1 is taken for 3

VARIABLES which,
  file, open, job, raced, misread, registryLeft,
  connected, timeouts, pipe, coming, intact, last, sends,
  target, backup, temp, op, acked, hurt, catalogueLeft,
  dir, thread, order, reader, recover, touched, resultsLeft,
  release, saved, config, current, registry, installing, since, installLeft

Registry == INSTANCE DeviceRegistry WITH MaxCrashes <- RegistryCrashes, left <- registryLeft
Link == INSTANCE ScpiLink

(* A device answers with a line of text, or with a block: "#", how many    *)
(* digits follow, the payload's length in those digits, and the payload.   *)
IsText(r) ==
  /\ r # <<>> /\ r[1] # Link!Hash
  /\ \A i \in DOMAIN r : r[i] = Link!Delimiter <=> i = Len(r)
IsBlock(r) ==
  /\ Len(r) >= 2 /\ r[1] = Link!Hash /\ r[2] \in Link!Digit \ {48}
  /\ LET digits == SubSeq(r, 3, 2 + Link!ValueOf(r[2])) IN
       /\ \A i \in DOMAIN digits : digits[i] \in Link!Digit
       /\ Link!ParsePayloadLength(digits) \in Nat
       /\ Len(r) = 2 + Link!ValueOf(r[2]) + Link!ParsePayloadLength(digits)
ASSUME RepliesAssumption == \A r \in Replies : r \in Seq(0..255) /\ (IsText(r) \/ IsBlock(r))

Catalogue == INSTANCE UserScriptCatalogue WITH
  Scripts <- StoredScripts, MaxCrashes <- CatalogueCrashes, left <- catalogueLeft
Results == INSTANCE ResultStore WITH MaxCrashes <- ResultCrashes, left <- resultsLeft
Installer == INSTANCE ReleaseInstall WITH run <- installing, left <- installLeft
ASSUME CatalogueAssumption == MaxVersion \in Nat /\ MaxFaults \in Nat /\ CatalogueCrashes \in Nat
ASSUME ResultsAssumption ==
  IsFiniteSet(Tasks) /\ {MaxResults, ListLimit, MaxLists, ResultCrashes} \subseteq Nat
ASSUME InstallAssumption == Installer!None \notin Versions     \* it stands for no release

registryVars == <<file, open, job, raced, misread, registryLeft>>
linkVars == <<connected, timeouts, pipe, coming, intact, last, sends>>
catalogueVars == <<target, backup, temp, op, acked, hurt, catalogueLeft>>
resultsVars == <<dir, thread, order, reader, recover, touched, resultsLeft>>
installVars == <<release, saved, config, current, registry, installing, since, installLeft>>

BackendInit ==
  /\ which \in {"registry", "link", "catalogue", "results", "installer", "bench"}
  /\ Registry!Init /\ Link!Init /\ Catalogue!Init /\ Results!Init /\ Installer!Init /\ Init
BackendNext ==
  /\ UNCHANGED which
  /\ IF which = "registry" THEN Registry!Next ELSE UNCHANGED registryVars
  /\ IF which = "link" THEN Link!Next ELSE UNCHANGED linkVars
  /\ IF which = "catalogue" THEN Catalogue!Next ELSE UNCHANGED catalogueVars
  /\ IF which = "results" THEN Results!Next ELSE UNCHANGED resultsVars
  /\ IF which = "installer" THEN Installer!Next ELSE UNCHANGED installVars
  /\ IF which = "bench" THEN Next ELSE UNCHANGED vars
backendVars == <<which, registryVars, linkVars, catalogueVars, resultsVars, installVars, vars>>
BackendSpec == BackendInit /\ [][BackendNext]_backendVars

-----------------------------------------------------------------------------
(* Names, ids and targets of devices stay unique, and the proxy talks to a *)
(* device over a transport made for the profile that is stored, whatever   *)
(* edits, connects and crashes overlap, but for the two cases              *)
(* TransportsMatch names: another client between the two calls of one      *)
(* edit, and a reference that is one device's id and another one's name.   *)
RegistryIsSound == Registry!UniqueProfiles /\ Registry!TransportsMatch

(* While no read has timed out since the port was opened, each query is    *)
(* given exactly its own reply, whatever bytes a block contains; timeouts  *)
(* in a row close the port at the threshold.                               *)
RepliesAreOwn == Link!RepliesAreOwn

(* What is read from disk is whole and of one version after crashes and    *)
(* failed file operations: a user script is the one last acknowledged, a   *)
(* task's index, result and record are of one outcome, an installation is  *)
(* of one release; except where the operation on that very script, task or *)
(* release was cut off in the steps each module names.                     *)
DiskIsConsistent == Catalogue!CatalogueIsWhole /\ Results!ResultsAreWhole /\ Installer!InstalledIsConsistent

(* A committed calibration holds the points one run captured, each over an *)
(* unchanging level that the meter had read; a point of the curve is the   *)
(* mean of two blocks of readings in a row at its own target.              *)
MeasurementsAreTrue == SavedTableTrue /\ SettledPointContinuous

=============================================================================
