------------------------- MODULE ProjectTransactions -------------------------
(***************************************************************************)
(* The guarded updates of Cargo, Terraform and npm projects and of Python  *)
(* virtual environments, side by side: a behaviour is one of them, from    *)
(* its first command to its last, and the properties are the ones all of   *)
(* them owe their users.                                                   *)
(***************************************************************************)
EXTENDS Naturals, FiniteSets

CONSTANTS
    Kinds,                  \* which of the four
    MaxCommands, MaxEdits,  \* bounds: commands, edits of the user
    NoFile, NoDoc,          \* nothing under a name, no retained approval
    CargoBodies, CargoSelections,           \* see CargoTransaction
    TerraformVersions,                      \* see TerraformTransaction
    NpmSets,                                \* see NpmTransaction
    VenvKeys, VenvUpdates, VenvBefore       \* see VenvTransaction

VARIABLES
    kind,
    lock, dir, strays, cmd, pc, todo, tx, edits,
    project, source, approval, backup, selected,
    files, ledger, aside, aledger, nextLedger, journal

common == <<lock, dir, strays, cmd, pc, todo, tx, edits>>
controls == <<project, source, approval, backup, selected>>
environment == <<files, ledger, aside, aledger, nextLedger, journal>>
vars == <<kind, common, controls, environment>>

\* Contents are not a file, a document is not its absence.
ASSUME BoundsAssumption == MaxCommands \in Nat /\ MaxEdits \in Nat
ASSUME CargoAssumption ==
    /\ CargoSelections \subseteq [{"Cargo.toml", "Cargo.lock"} -> CargoBodies]
    /\ NoFile \notin CargoBodies \cup {"record", "edited"}
    /\ NoFile \notin [by : Nat, body : CargoBodies \cup {"record", "edited"}]
    /\ NoDoc \notin CargoSelections
    /\ NoDoc \notin [controls : CargoSelections, manifests : Nat]

ASSUME TerraformAssumption ==
    /\ NoFile \notin [by : Nat, body : {<<v>> : v \in TerraformVersions}
                                      \cup (TerraformVersions \X Nat)]
    /\ NoDoc \notin [selection : TerraformVersions, source : Nat]
    /\ \A v \in TerraformVersions : NoDoc # [n \in {"lock", "providers"} |-> <<v>>]

ASSUME NpmAssumption ==
    /\ NoFile \notin [by : Nat, body : NpmSets \cup {"none"},
                     marker : {<<>>} \cup (NpmSets \X NpmSets)]
    /\ \A s \in NpmSets :
          NoFile # [m \in {"package.json", "package-lock.json", "node_modules", "haa"} |-> s]

\* An environment has finitely many destinations, and what a ledger records
\* was there before the first command.
ASSUME VenvAssumption ==
    /\ IsFiniteSet(VenvKeys)
    /\ \A u \in VenvUpdates : DOMAIN u \subseteq VenvKeys
    /\ \A l \in VenvBefore :
          DOMAIN l \subseteq VenvKeys /\ \A k \in DOMAIN l : l[k].file = 1

Cargo == INSTANCE CargoTransaction WITH
    Bodies <- CargoBodies, Selections <- CargoSelections
Terraform == INSTANCE TerraformTransaction WITH Versions <- TerraformVersions
Npm == INSTANCE NpmTransaction WITH Sets <- NpmSets
Venv == INSTANCE VenvTransaction WITH
    Keys <- VenvKeys, Updates <- VenvUpdates, Before <- VenvBefore

NoEnvironment ==
    files = 0 /\ ledger = 0 /\ aside = 0 /\ aledger = 0 /\ nextLedger = 0 /\ journal = 0
NoControls ==
    project = 0 /\ source = 0 /\ approval = 0 /\ backup = 0 /\ selected = 0

Init ==
    /\ kind \in Kinds
    /\ \/ kind = "cargo" /\ Cargo!Init /\ NoEnvironment
       \/ kind = "terraform" /\ Terraform!Init /\ NoEnvironment
       \/ kind = "npm" /\ Npm!Init /\ NoEnvironment /\ source = 0 /\ approval = 0
       \/ kind = "venv" /\ Venv!Init /\ NoControls

Next ==
    \/ kind = "cargo" /\ Cargo!Next /\ UNCHANGED <<kind, environment>>
    \/ kind = "terraform" /\ Terraform!Next /\ UNCHANGED <<kind, environment>>
    \/ kind = "npm" /\ Npm!Next /\ UNCHANGED <<kind, environment, source, approval>>
    \/ kind = "venv" /\ Venv!Next /\ UNCHANGED <<kind, controls>>

Spec == Init /\ [][Next]_vars

-----------------------------------------------------------------------------
(* Properties. *)

\* When no journal directory is left, the next command admits the project,
\* whatever failed or was killed before it, until a user edits it: commit,
\* rollback and clean-up never remove the journal around a mixed set of
\* controls, marker, ledger and approval.
OpenMeansAdmissible ==
    CASE kind = "cargo" -> Cargo!OpenMeansAdmissible
      [] kind = "terraform" -> Terraform!OpenMeansAdmissible
      [] kind = "npm" -> Npm!OpenMeansAdmissible
      [] kind = "venv" -> Venv!OpenMeansAdmissible

\* "Intent records precede mutation" (pypi_venv_transaction.go): whenever an
\* update of an environment is killed, the environment is whole or the journal
\* leads from every file that differs to its original.
RecoverableFromJournal == kind = "venv" => Venv!RecoverableFromJournal

\* A file the user saved is not lost to a step whose check finds it, from the
\* first backup to the last clean-up.  A check and the call right after it are
\* one step here, so a file saved between the two is not covered; neither is
\* a file dropped in Terraform's directory, nor one npm moves aside unchecked
\* and drops when it commits.
SeenFileKept ==
    [][/\ kind = "cargo" => Cargo!KeepsSeenFile
       /\ kind = "terraform" => Terraform!KeepsSeenFile
       /\ kind = "npm" => Npm!KeepsSeenFile
       /\ kind = "venv" => Venv!KeepsSeenFile]_vars

\* An approval is retained only for the sources and the controls that were
\* inspected: a file saved before the last check keeps the approval away.
ApprovalCoversSource ==
    [][/\ kind = "cargo" => Cargo!ApprovesTheInspected
       /\ kind = "terraform" => Terraform!ApprovesTheInspected]_vars

\* For whoever looks while no journal directory exists, the controls and their
\* approval move together in one step: the three project transactions
\* implement ApprovedProject with its initial states and its steps.
ImplementsApprovedProject ==
    /\ kind = "cargo" => Cargo!Coherent
    /\ kind = "terraform" => Terraform!Coherent
    /\ kind = "npm" => Npm!Coherent
    /\ [][/\ kind = "cargo" => Cargo!MovesTogether
          /\ kind = "terraform" => Terraform!MovesTogether
          /\ kind = "npm" => Npm!MovesTogether]_vars
=============================================================================
