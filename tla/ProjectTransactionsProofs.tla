---------------------- MODULE ProjectTransactionsProofs ----------------------
(***************************************************************************)
(* Machine-checked proofs about the Cargo, Terraform and npm project       *)
(* transactions and the update of a Python environment, for any selections *)
(* and any number of commands and edits: what is left open is admissible,  *)
(* what a user saved stays, an approval is of what was inspected, the      *)
(* three project transactions implement ApprovedProject, and the journal   *)
(* of an environment leads back to its originals.  Each transaction has an *)
(* invariant of its own that says, label by label, where every part is:    *)
(* under its name, in the backup or still to come.                         *)
(***************************************************************************)
EXTENDS ProjectTransactions, Sequences, FiniteSetTheorems, TLAPS

-----------------------------------------------------------------------------
(* Cargo: the inductive invariant                                          *)

CargoFields == {"plan", "source", "doc", "target", "prepared", "moved",
                "published", "mode"}

\* The calls of a command that owns the journal directory, and those before.
CargoCommit == {"prepare", "verify", "backup", "publish", "unlink", "metadata",
                "approve", "sync", "rbApproval"}
CargoUndo   == {"rbRemove", "rbRestore", "rbUnlink"}
CargoInside == CargoCommit \cup CargoUndo \cup {"rbSync", "inventory", "purge"}
CargoFront  == {"resolve", "inspect", "stage", "select"}

\* What holds whatever a user edits.
CargoTypes ==
    /\ DOMAIN project = Cargo!Parts /\ DOMAIN backup = Cargo!Parts
    /\ DOMAIN tx = CargoFields /\ DOMAIN tx.plan = Cargo!Parts
    /\ cmd \in 0..MaxCommands /\ edits \in Nat
    /\ pc # "idle" => cmd # 0
    /\ pc \in CargoInside => dir = cmd
    /\ pc \in CargoFront => dir = 0

\* Controls, marker and approval a command may begin with.
CargoCoherent(fs, doc) ==
    /\ fs["Cargo.toml"] # NoFile
    /\ IF doc = NoDoc THEN fs["metadata"] = NoFile
       ELSE doc = [controls |-> Cargo!Contents(fs), manifests |-> 0]

\* A part that no rollback has reached.
CargoForward(p) ==
    /\ project[p] = IF p \in tx.published THEN Cargo!Published(p)
                    ELSE IF p \in tx.moved THEN NoFile ELSE tx.plan[p]
    /\ backup[p] = IF p \in tx.moved THEN tx.plan[p] ELSE NoFile
    /\ p \in tx.moved => tx.plan[p] # NoFile
    /\ p \in tx.published /\ p \notin tx.moved => tx.plan[p] = NoFile

CargoAsPlanned == \A p \in Cargo!Parts : project[p] = tx.plan[p]

CargoUpdated ==
    /\ Cargo!Contents(project) = tx.target /\ tx.target \in CargoSelections
    /\ approval = Cargo!NewDoc

\* Before the directory exists.
CargoAtFront ==
    pc \in CargoFront => CargoAsPlanned /\ approval = tx.doc /\ tx.source = 0

\* Up to the rollback.
CargoAtCommit ==
    /\ pc \in CargoFront => /\ tx.mode = "certain" /\ tx.moved = {} /\ tx.published = {}
    /\ pc \in {"stage", "select"} \cup CargoCommit => tx.target \in CargoSelections
    /\ pc \in CargoCommit =>
           /\ \A p \in Cargo!Parts : CargoForward(p)
           /\ tx.mode = "certain"
           /\ approval = IF "approval" \in tx.published THEN Cargo!NewDoc ELSE tx.doc

\* The loops of the commit.
CargoAtLoop ==
    /\ pc = "prepare" => todo \in {<<"Cargo.toml", "Cargo.lock">>, <<"Cargo.lock">>}
    /\ pc \in {"prepare", "verify"} => tx.moved = {} /\ tx.published = {}
    /\ pc = "backup" =>
           /\ tx.published = {}
           /\ \/ todo = <<"metadata", "Cargo.toml", "Cargo.lock">> /\ tx.moved = {}
              \/ todo \in {<<"Cargo.toml", "Cargo.lock">>, <<"Cargo.lock">>}
    /\ pc = "publish" =>
           \/ todo = <<"Cargo.toml", "Cargo.lock">> /\ tx.published = {}
           \/ todo = <<"Cargo.lock">> /\ tx.published = {"Cargo.toml"}
    /\ pc = "unlink" =>
           \/ todo = <<"Cargo.toml", "Cargo.lock">> /\ tx.published = {"Cargo.toml"}
           \/ todo = <<"Cargo.lock">> /\ tx.published = Cargo!Controls
    /\ pc = "metadata" => tx.published = Cargo!Controls
    /\ pc = "approve" => tx.published = Cargo!Parts
    /\ pc = "sync" => tx.published = Cargo!Parts \cup {"approval"}

CargoUndoList == <<"metadata", "Cargo.lock", "Cargo.toml">>

\* What the rollback has behind it, has in hand, and has before it.
CargoUndone(p) == tx.mode = "certain" => project[p] = tx.plan[p]
CargoInHand(p) ==
    /\ pc = "rbRemove" => CargoForward(p)
    /\ pc = "rbRestore" /\ p \notin tx.moved => CargoUndone(p)
    /\ pc = "rbUnlink" => CargoUndone(p)

CargoAtUndo ==
    /\ pc \in CargoUndo \cup {"rbSync"} =>
           tx.mode # "committed" /\ (tx.mode = "certain" => approval = tx.doc)
    /\ pc \in CargoUndo =>
           \/ /\ todo = CargoUndoList
              /\ CargoInHand("metadata")
              /\ CargoForward("Cargo.lock") /\ CargoForward("Cargo.toml")
           \/ /\ todo = <<"Cargo.lock", "Cargo.toml">>
              /\ CargoUndone("metadata") /\ CargoInHand("Cargo.lock")
              /\ CargoForward("Cargo.toml")
           \/ /\ todo = <<"Cargo.toml">>
              /\ CargoUndone("metadata") /\ CargoUndone("Cargo.lock")
              /\ CargoInHand("Cargo.toml")
    /\ pc = "rbSync" => \A p \in Cargo!Parts : CargoUndone(p)

\* The end: everything is updated, or everything is as it was.
CargoAtEnd ==
    pc \in {"inventory", "purge"} =>
        \/ tx.mode = "committed" /\ CargoUpdated
        \/ tx.mode = "certain" /\ CargoAsPlanned /\ approval = tx.doc

CargoLabels == CargoAtFront /\ CargoAtCommit /\ CargoAtLoop /\ CargoAtUndo /\ CargoAtEnd

\* What an observer sees: the project, or what the journal leads back to.
CargoGround ==
    /\ source = 0
    /\ dir = 0 => /\ CargoCoherent(project, approval)
                  /\ \A p \in Cargo!Parts : backup[p] = NoFile
    /\ dir # 0 => CargoCoherent(tx.plan, tx.doc) /\ tx.source = 0

CargoUntouched == CargoGround /\ CargoLabels

CargoInv == CargoTypes /\ (edits = 0 => CargoUntouched)

-----------------------------------------------------------------------------
(* Cargo: every step keeps the invariant                                   *)

\* The loops of the commit and of the rollback, part by part.
LEMMA CargoLists ==
    /\ Head(<<"metadata", "Cargo.toml", "Cargo.lock">>) = "metadata"
    /\ Tail(<<"metadata", "Cargo.toml", "Cargo.lock">>) = <<"Cargo.toml", "Cargo.lock">>
    /\ Head(<<"Cargo.toml", "Cargo.lock">>) = "Cargo.toml"
    /\ Tail(<<"Cargo.toml", "Cargo.lock">>) = <<"Cargo.lock">>
    /\ Head(<<"Cargo.lock">>) = "Cargo.lock" /\ Tail(<<"Cargo.lock">>) = <<>>
    /\ Head(CargoUndoList) = "metadata"
    /\ Tail(CargoUndoList) = <<"Cargo.lock", "Cargo.toml">>
    /\ Head(<<"Cargo.lock", "Cargo.toml">>) = "Cargo.lock"
    /\ Tail(<<"Cargo.lock", "Cargo.toml">>) = <<"Cargo.toml">>
    /\ Head(<<"Cargo.toml">>) = "Cargo.toml" /\ Tail(<<"Cargo.toml">>) = <<>>
    /\ <<"Cargo.toml", "Cargo.lock">> # <<>> /\ <<"Cargo.lock">> # <<>>
    /\ <<"Cargo.lock", "Cargo.toml">> # <<>> /\ <<"Cargo.toml">> # <<>>
    /\ <<"metadata", "Cargo.toml", "Cargo.lock">> # <<"Cargo.toml", "Cargo.lock">>
    /\ <<"metadata", "Cargo.toml", "Cargo.lock">> # <<"Cargo.lock">>
    /\ <<"Cargo.toml", "Cargo.lock">> # <<"Cargo.lock">>
    /\ CargoUndoList # <<"Cargo.lock", "Cargo.toml">> /\ CargoUndoList # <<"Cargo.toml">>
    /\ <<"Cargo.lock", "Cargo.toml">> # <<"Cargo.toml">>
  BY DEF CargoUndoList

\* A replacement or a record of the current command is a file.
LEMMA CargoPublishedIsFile ==
    ASSUME cmd \in 0..MaxCommands, tx.target \in CargoSelections,
           NEW p \in Cargo!Parts
    PROVE  Cargo!Published(p) # NoFile
  BY CargoAssumption, BoundsAssumption
     DEF Cargo!Published, Cargo!Replacement, Cargo!Parts, Cargo!Controls

\* The part of the invariant that edits do not disturb.
LEMMA CargoTypesStep ==
    ASSUME CargoTypes, Cargo!Next \/ UNCHANGED vars
    PROVE  CargoTypes'
  <1> USE BoundsAssumption DEF CargoTypes, CargoFields, CargoCommit, CargoUndo,
          CargoInside, CargoFront, Cargo!Go, Cargo!disk, Cargo!user,
          Cargo!GivesUp, Cargo!Fails
  <1>1. CASE Cargo!Begin
    <2>1. cmd' \in 0..MaxCommands /\ cmd' # 0
      BY <1>1 DEF Cargo!Begin
    <2>2. DOMAIN tx' = CargoFields /\ DOMAIN tx'.plan = Cargo!Parts
      BY <1>1 DEF Cargo!Begin, Cargo!NoTx
    <2> QED
      BY <1>1, <2>1, <2>2 DEF Cargo!Begin, Cargo!Admissible, Cargo!NoJournal
  <1>2. CASE Cargo!Resolve
    BY <1>2 DEF Cargo!Resolve
  <1>3. CASE Cargo!ResolveSnapshot \/ Cargo!Inspect \/ Cargo!StageCache
    BY <1>3 DEF Cargo!ResolveSnapshot, Cargo!Inspect, Cargo!StageCache
  <1>4. CASE Cargo!Select
    BY <1>4 DEF Cargo!Select, Cargo!beginCargoProjectTransaction
  <1>5. CASE Cargo!Prepare
    BY <1>5 DEF Cargo!Prepare
  <1>6. CASE Cargo!VerifyPlan
    BY <1>6 DEF Cargo!VerifyPlan
  <1>7. CASE Cargo!BackUp
    BY <1>7 DEF Cargo!BackUp
  <1>8. CASE Cargo!Publish
    BY <1>8 DEF Cargo!Publish
  <1>9. CASE Cargo!Unlink
    BY <1>9 DEF Cargo!Unlink
  <1>10. CASE Cargo!PublishMetadata
    BY <1>10 DEF Cargo!PublishMetadata
  <1>11. CASE Cargo!Approve
    BY <1>11 DEF Cargo!Approve
  <1>12. CASE Cargo!Sync
    BY <1>12 DEF Cargo!Sync
  <1>13. CASE Cargo!RollBackApproval
    BY <1>13 DEF Cargo!RollBackApproval, Cargo!Uncertain
  <1>14. CASE Cargo!RemovePublished
    BY <1>14 DEF Cargo!RemovePublished, Cargo!Uncertain, Cargo!NextPart
  <1>15. CASE Cargo!Restore
    BY <1>15 DEF Cargo!Restore, Cargo!Uncertain, Cargo!NextPart
  <1>16. CASE Cargo!UnlinkBackup
    BY <1>16 DEF Cargo!UnlinkBackup, Cargo!Uncertain, Cargo!NextPart
  <1>17. CASE Cargo!RolledBack \/ Cargo!CheckInventory
    BY <1>17 DEF Cargo!RolledBack, Cargo!CheckInventory
  <1>18. CASE Cargo!Purge
    BY <1>18 DEF Cargo!Purge
  <1>19. CASE Cargo!Close \/ Cargo!Kill \/ Cargo!ClearStaleLock
    BY <1>19 DEF Cargo!Close, Cargo!Kill, Cargo!ClearStaleLock
  <1>20. CASE Cargo!Edit
    BY <1>20 DEF Cargo!Edit
  <1>21. CASE UNCHANGED vars
    BY <1>21 DEF vars, common, controls
  <1> QED BY <1>1, <1>2, <1>3, <1>4, <1>5, <1>6, <1>7, <1>8, <1>9, <1>10,
       <1>11, <1>12, <1>13, <1>14, <1>15, <1>16, <1>17, <1>18, <1>19, <1>20,
       <1>21 DEF Cargo!Next

\* What the steps on an untouched project do to what an observer sees: it
\* changes only with the directory, and the frozen pair stays while it exists.
LEMMA CargoChanges ==
    ASSUME CargoTypes, edits = 0, edits' = 0, CargoUntouched,
           Cargo!Next \/ UNCHANGED vars
    PROVE  /\ source' = source
           /\ dir' = dir \/ Cargo!Select \/ Cargo!Purge
           /\ dir = 0 /\ dir' = 0 => UNCHANGED <<project, approval, backup>>
           /\ dir # 0 => /\ \A p \in Cargo!Parts : tx'.plan[p] = tx.plan[p]
                         /\ tx'.doc = tx.doc /\ tx'.source = tx.source
  <1> USE DEF CargoTypes, CargoFields, CargoCommit, CargoUndo, CargoInside,
          Cargo!Go, Cargo!disk, Cargo!user, Cargo!GivesUp, Cargo!Fails
  <1>1. CASE Cargo!Begin
    BY <1>1 DEF Cargo!Begin, Cargo!Admissible, Cargo!NoJournal
  <1>2. CASE Cargo!Resolve
    BY <1>2 DEF Cargo!Resolve
  <1>3. CASE Cargo!ResolveSnapshot
    BY <1>3 DEF Cargo!ResolveSnapshot
  <1>4. CASE Cargo!Inspect
    BY <1>4 DEF Cargo!Inspect
  <1>5. CASE Cargo!StageCache
    BY <1>5 DEF Cargo!StageCache
  <1>6. CASE Cargo!Select
    BY <1>6 DEF Cargo!Select, Cargo!beginCargoProjectTransaction
  <1>7. CASE Cargo!Prepare
    BY <1>7 DEF Cargo!Prepare
  <1>8. CASE Cargo!VerifyPlan
    BY <1>8 DEF Cargo!VerifyPlan
  <1>9. CASE Cargo!BackUp
    <2>1. pc = "backup" /\ dir # 0
      BY <1>9 DEF Cargo!BackUp
    <2>2. \/ Head(todo) = "metadata" /\ project["metadata"] = tx.plan["metadata"]
          \/ Head(todo) \in Cargo!Controls
      <3>1. CASE todo = <<"metadata", "Cargo.toml", "Cargo.lock">>
        BY <2>1, <3>1, CargoLists DEF CargoUntouched, CargoLabels, CargoAtLoop,
           CargoAtCommit, CargoForward, Cargo!Parts
      <3>2. CASE todo \in {<<"Cargo.toml", "Cargo.lock">>, <<"Cargo.lock">>}
        BY <3>2, CargoLists DEF Cargo!Controls
      <3> QED BY <2>1, <3>1, <3>2 DEF CargoUntouched, CargoLabels, CargoAtLoop
    <2>3. CASE Cargo!Fails("backup")
      BY <2>3
    <2>4. CASE ~Cargo!Fails("backup")
      <3> DEFINE p == Head(todo)
      <3>1. project[p] = tx.plan[p] /\ p \in Cargo!Parts
        BY <1>9, <2>2, <2>4 DEF Cargo!BackUp, Cargo!Parts, Cargo!Controls
      <3>2. \/ tx' = tx
            \/ tx' = [tx EXCEPT !.moved = @ \cup {p}, !.plan[p] = project[p]]
        BY <1>9, <2>4 DEF Cargo!BackUp
      <3>3. /\ tx'.doc = tx.doc /\ tx'.source = tx.source
            /\ tx'.plan = tx.plan \/ tx'.plan = [tx.plan EXCEPT ![p] = project[p]]
        BY <3>2
      <3>4. dir' = dir /\ source' = source
        BY <1>9, <2>4 DEF Cargo!BackUp
      <3> QED BY <2>1, <3>1, <3>3, <3>4
    <2> QED BY <2>3, <2>4
  <1>10. CASE Cargo!Publish
    BY <1>10 DEF Cargo!Publish
  <1>11. CASE Cargo!Unlink
    BY <1>11 DEF Cargo!Unlink
  <1>12. CASE Cargo!PublishMetadata
    BY <1>12 DEF Cargo!PublishMetadata
  <1>13. CASE Cargo!Approve
    BY <1>13 DEF Cargo!Approve
  <1>14. CASE Cargo!Sync
    BY <1>14 DEF Cargo!Sync
  <1>15. CASE Cargo!RollBackApproval
    BY <1>15 DEF Cargo!RollBackApproval, Cargo!Uncertain
  <1>16. CASE Cargo!RemovePublished
    BY <1>16 DEF Cargo!RemovePublished, Cargo!Uncertain, Cargo!NextPart
  <1>17. CASE Cargo!Restore
    BY <1>17 DEF Cargo!Restore, Cargo!Uncertain, Cargo!NextPart
  <1>18. CASE Cargo!UnlinkBackup
    BY <1>18 DEF Cargo!UnlinkBackup, Cargo!Uncertain, Cargo!NextPart
  <1>19. CASE Cargo!RolledBack
    BY <1>19 DEF Cargo!RolledBack
  <1>20. CASE Cargo!CheckInventory
    BY <1>20 DEF Cargo!CheckInventory
  <1>21. CASE Cargo!Purge
    BY <1>21 DEF Cargo!Purge
  <1>22. CASE Cargo!Close
    BY <1>22 DEF Cargo!Close
  <1>23. CASE Cargo!Kill
    BY <1>23 DEF Cargo!Kill
  <1>24. CASE Cargo!ClearStaleLock
    BY <1>24 DEF Cargo!ClearStaleLock
  <1>25. CASE Cargo!Edit
    BY <1>25 DEF Cargo!Edit
  <1>26. CASE UNCHANGED vars
    BY <1>26 DEF vars, common, controls
  <1> QED BY <1>1, <1>2, <1>3, <1>4, <1>5, <1>6, <1>7, <1>8, <1>9, <1>10, <1>11, <1>12, <1>13, <1>14, <1>15, <1>16, <1>17, <1>18, <1>19, <1>20, <1>21, <1>22, <1>23, <1>24, <1>25, <1>26 DEF Cargo!Next

\* Coherence depends on the parts only.
LEMMA CargoCoherentSame ==
    ASSUME NEW f, NEW g, NEW d, \A p \in Cargo!Parts : f[p] = g[p],
           CargoCoherent(f, d)
    PROVE  CargoCoherent(g, d)
  <1>1. Cargo!Contents(f) = Cargo!Contents(g)
    BY DEF Cargo!Contents, Cargo!Parts
  <1> QED BY <1>1 DEF CargoCoherent, Cargo!Parts, Cargo!Controls

\* The project, or what the journal leads back to, stays coherent.
LEMMA CargoGroundStep ==
    ASSUME CargoTypes, CargoTypes', edits = 0, edits' = 0, CargoUntouched,
           Cargo!Next \/ UNCHANGED vars
    PROVE  CargoGround'
  <1>0. /\ source' = source
        /\ dir' = dir \/ Cargo!Select \/ Cargo!Purge
        /\ dir = 0 /\ dir' = 0 => UNCHANGED <<project, approval, backup>>
        /\ dir # 0 => /\ \A p \in Cargo!Parts : tx'.plan[p] = tx.plan[p]
                      /\ tx'.doc = tx.doc /\ tx'.source = tx.source
    BY CargoChanges
  <1>1. CASE dir = 0 /\ dir' = 0
    BY <1>0, <1>1 DEF CargoUntouched, CargoGround
  <1>2. CASE dir # 0 /\ dir' # 0
    <2>1. CargoCoherent(tx.plan, tx.doc) /\ tx.source = 0 /\ source = 0
      BY <1>2 DEF CargoUntouched, CargoGround
    <2>2. CargoCoherent(tx'.plan, tx.doc)
      BY <1>0, <1>2, <2>1, CargoCoherentSame
    <2> QED BY <1>0, <1>2, <2>1, <2>2 DEF CargoGround
  <1>3. CASE dir = 0 /\ dir' # 0
    <2>1. Cargo!Select /\ pc = "select" /\ UNCHANGED tx
      BY <1>0, <1>3 DEF Cargo!Select, Cargo!Purge, Cargo!GivesUp, Cargo!disk, Cargo!Go
    <2>2. /\ CargoAsPlanned /\ approval = tx.doc /\ tx.source = 0 /\ source = 0
          /\ CargoCoherent(project, approval)
      BY <1>3, <2>1 DEF CargoUntouched, CargoGround, CargoLabels, CargoAtFront,
         CargoFront
    <2>3. CargoCoherent(tx.plan, tx.doc)
      BY <2>2, CargoCoherentSame DEF CargoAsPlanned
    <2> QED BY <1>0, <1>3, <2>1, <2>2, <2>3 DEF CargoGround
  <1>4. CASE dir # 0 /\ dir' = 0
    <2>1. /\ Cargo!Purge /\ pc = "purge" /\ UNCHANGED <<tx, project, approval>>
          /\ backup' = Cargo!Nothing
      BY <1>0, <1>4 DEF Cargo!Purge, Cargo!Select, Cargo!GivesUp, Cargo!disk,
         Cargo!Go, Cargo!beginCargoProjectTransaction, CargoTypes
    <2>2. \A p \in Cargo!Parts : backup'[p] = NoFile
      BY <2>1 DEF Cargo!Nothing
    <2>3. CargoCoherent(tx.plan, tx.doc) /\ tx.source = 0 /\ source = 0
      BY <1>4 DEF CargoUntouched, CargoGround
    <2>4. CargoCoherent(project, approval)
      <3>1. CASE CargoAsPlanned /\ approval = tx.doc
        BY <2>3, <3>1, CargoCoherentSame DEF CargoAsPlanned
      <3>2. CASE CargoUpdated
        <4>1. tx.target \in [Cargo!Controls -> CargoBodies]
          BY <3>2, CargoAssumption DEF CargoUpdated, Cargo!Controls
        <4>2. Cargo!Contents(project)["Cargo.toml"] # NoFile
          BY <3>2, <4>1, CargoAssumption DEF CargoUpdated, Cargo!Controls
        <4>3. project["Cargo.toml"] # NoFile
          BY <4>2 DEF Cargo!Contents, Cargo!Controls
        <4>4. approval = [controls |-> Cargo!Contents(project), manifests |-> 0]
          BY <2>3, <3>2 DEF CargoUpdated, Cargo!NewDoc
        <4>5. approval # NoDoc
          BY <3>2, <4>4, CargoAssumption DEF CargoUpdated
        <4> QED BY <4>3, <4>4, <4>5 DEF CargoCoherent
      <3> QED BY <2>1, <3>1, <3>2 DEF CargoUntouched, CargoLabels, CargoAtEnd
    <2> QED BY <1>0, <1>4, <2>1, <2>2, <2>3, <2>4 DEF CargoGround
  <1> QED BY <1>1, <1>2, <1>3, <1>4

\* Between two commands, and on the way out, the labels say nothing.
LEMMA CargoQuiet ==
    ASSUME pc' \in {"idle", "close"}
    PROVE  CargoLabels'
  BY DEF CargoLabels, CargoAtFront, CargoAtCommit, CargoAtLoop, CargoAtUndo,
     CargoAtEnd, CargoFront, CargoCommit, CargoUndo

\* A call of the commit that fails leaves everything to the rollback.
LEMMA CargoFailing ==
    ASSUME CargoLabels, NEW from \in CargoCommit, Cargo!Fails(from)
    PROVE  CargoLabels'
  BY DEF CargoLabels, CargoAtFront, CargoAtCommit, CargoAtLoop, CargoAtUndo,
     CargoAtEnd, CargoFront, CargoCommit, CargoUndo, CargoForward,
     Cargo!Published, Cargo!Replacement, Cargo!NewDoc, Cargo!Fails, Cargo!Go,
     Cargo!disk

\* Up to the directory nothing of the project changes.
LEMMA CargoFrontStep ==
    ASSUME CargoTypes, CargoTypes', edits = 0, CargoUntouched,
           \/ Cargo!Begin \/ Cargo!Resolve \/ Cargo!ResolveSnapshot
           \/ Cargo!Inspect \/ Cargo!StageCache \/ Cargo!Select
    PROVE  CargoLabels'
  <1> USE DEF CargoUntouched, CargoGround, CargoLabels, CargoAtFront, CargoAtCommit,
          CargoAtLoop, CargoAtUndo, CargoAtEnd, CargoFront, CargoCommit, CargoUndo,
          CargoAsPlanned, Cargo!Go, Cargo!disk, Cargo!user
  <1>0. CASE pc' = "close"
    BY <1>0, CargoQuiet
  <1>1. CASE Cargo!Begin /\ pc' # "close"
    <2>1. tx' = [Cargo!NoTx EXCEPT !.plan = project, !.source = source, !.doc = approval]
      BY <1>1 DEF Cargo!Begin
    <2>2. /\ tx'.plan = project /\ tx'.source = source /\ tx'.doc = approval
          /\ tx'.moved = {} /\ tx'.published = {} /\ tx'.mode = "certain"
      BY <2>1 DEF Cargo!NoTx
    <2>3. pc' = "resolve" /\ UNCHANGED <<project, approval, source>>
      BY <1>1 DEF Cargo!Begin
    <2> QED BY <2>2, <2>3
  <1>2. CASE (Cargo!Resolve \/ Cargo!ResolveSnapshot) /\ pc' # "close"
    <2>1. /\ pc = "resolve" /\ pc' = "inspect" /\ UNCHANGED <<project, approval>>
          /\ \E t : tx' = [tx EXCEPT !.target = t]
      BY <1>2 DEF Cargo!Resolve, Cargo!ResolveSnapshot, Cargo!GivesUp
    <2>2. /\ tx'.plan = tx.plan /\ tx'.source = tx.source /\ tx'.doc = tx.doc
          /\ tx'.moved = tx.moved /\ tx'.published = tx.published
          /\ tx'.mode = tx.mode
      BY <2>1
    <2> QED BY <2>1, <2>2
  <1>3. CASE (Cargo!Inspect \/ Cargo!StageCache) /\ pc' # "close"
    BY <1>3 DEF Cargo!Inspect, Cargo!StageCache, Cargo!GivesUp
  <1>4. CASE Cargo!Select /\ pc' # "close"
    <2>1. /\ pc = "select" /\ pc' = "prepare"
          /\ todo' = <<"Cargo.toml", "Cargo.lock">>
          /\ UNCHANGED <<project, approval, backup, tx>> /\ dir = 0
      BY <1>4 DEF Cargo!Select, Cargo!GivesUp, Cargo!beginCargoProjectTransaction,
         CargoTypes
    <2>2. \A p \in Cargo!Parts : CargoForward(p)'
      BY <2>1 DEF CargoForward
    <2> QED BY <2>1, <2>2
  <1> QED BY <1>0, <1>1, <1>2, <1>3, <1>4

\* Preparation and the check that starts the commit.
LEMMA CargoPrepareStep ==
    ASSUME CargoTypes, CargoTypes', edits = 0, CargoUntouched,
           Cargo!Prepare \/ Cargo!VerifyPlan
    PROVE  CargoLabels'
  <1> USE DEF CargoUntouched, CargoLabels, CargoAtFront, CargoAtCommit,
          CargoAtLoop, CargoAtUndo, CargoAtEnd, CargoFront, CargoCommit, CargoUndo,
          CargoAsPlanned, Cargo!Go, Cargo!disk, Cargo!user
  <1>1. CASE Cargo!Prepare
    <2>1. /\ pc = "prepare" /\ UNCHANGED <<project, approval, backup, dir>>
          /\ \/ pc' = "inventory" /\ tx' = tx
             \/ /\ pc' = IF todo' = <<>> THEN "verify" ELSE "prepare"
                /\ todo' = Tail(todo)
                /\ tx' = [tx EXCEPT !.prepared = @ \cup {Head(todo)}]
      BY <1>1 DEF Cargo!Prepare
    <2>2. \A p \in Cargo!Parts : project[p] = tx.plan[p] /\ backup[p] = NoFile
      BY <2>1 DEF CargoForward
    <2>3. CASE pc' = "inventory"
      BY <2>1, <2>2, <2>3
    <2>4. CASE pc' # "inventory"
      <3>1. /\ tx'.plan = tx.plan /\ tx'.source = tx.source /\ tx'.doc = tx.doc
            /\ tx'.moved = tx.moved /\ tx'.published = tx.published
            /\ tx'.mode = tx.mode /\ tx'.target = tx.target
        <4>1. tx' = [tx EXCEPT !.prepared = @ \cup {Head(todo)}]
          BY <2>1, <2>4
        <4> QED BY <4>1 DEF CargoTypes, CargoFields
      <3>2. (todo' = <<"Cargo.lock">> /\ pc' = "prepare") \/ pc' = "verify"
        BY <2>1, <2>4, CargoLists
      <3>3. \A p \in Cargo!Parts : CargoForward(p)'
        BY <2>1, <2>2, <3>1 DEF CargoForward
      <3> QED BY <2>1, <3>1, <3>2, <3>3
    <2> QED BY <2>3, <2>4
  <1>2. CASE Cargo!VerifyPlan
    <2>1. CASE Cargo!Fails("verify")
      BY <2>1, CargoFailing
    <2>2. CASE ~Cargo!Fails("verify")
      <3>1. /\ pc = "verify" /\ pc' = "backup" /\ UNCHANGED <<project, approval, backup, tx>>
            /\ todo' = <<"metadata", "Cargo.toml", "Cargo.lock">>
        BY <1>2, <2>2 DEF Cargo!VerifyPlan
      <3>2. \A p \in Cargo!Parts : CargoForward(p)'
        BY <3>1 DEF CargoForward
      <3> QED BY <3>1, <3>2
    <2> QED BY <2>1, <2>2
  <1> QED BY <1>1, <1>2

\* One part is moved into the backup.
LEMMA CargoBackUpStep ==
    ASSUME CargoTypes, CargoTypes', edits = 0, CargoUntouched, Cargo!BackUp
    PROVE  CargoLabels'
  <1> USE DEF CargoUntouched, CargoLabels, CargoAtFront, CargoAtCommit,
          CargoAtLoop, CargoAtUndo, CargoAtEnd, CargoFront, CargoCommit, CargoUndo,
          Cargo!Go
  <1>1. CASE Cargo!Fails("backup")
    BY <1>1, CargoFailing
  <1>2. CASE ~Cargo!Fails("backup")
    <2> DEFINE p == Head(todo)
    <2>1. /\ pc = "backup" /\ UNCHANGED approval
          /\ p = "metadata" \/ project[p] = tx.plan[p]
          /\ backup' = [backup EXCEPT ![p] = project[p]]
          /\ project' = [project EXCEPT ![p] = NoFile]
          /\ \/ project[p] = NoFile /\ tx' = tx
             \/ /\ project[p] # NoFile
                /\ tx' = [tx EXCEPT !.moved = @ \cup {p}, !.plan[p] = project[p]]
          /\ \/ Tail(todo) # <<>> /\ pc' = "backup" /\ todo' = Tail(todo)
             \/ Tail(todo) = <<>> /\ pc' = "publish" /\ todo' = <<"Cargo.toml", "Cargo.lock">>
      BY <1>2 DEF Cargo!BackUp
    <2>2. p \in Cargo!Parts /\ (p = "metadata" => tx.moved = {})
      BY <2>1, CargoLists DEF Cargo!Parts, Cargo!Controls
    <2>3. /\ project[p] = tx.plan[p] /\ tx.published = {} /\ tx.mode = "certain"
          /\ tx.target \in CargoSelections /\ \A q \in Cargo!Parts : CargoForward(q)
      BY <2>1, <2>2 DEF CargoForward
    <2>4. /\ tx'.published = {} /\ tx'.doc = tx.doc /\ tx'.mode = tx.mode
          /\ tx'.target = tx.target
          /\ \A q \in Cargo!Parts : tx'.plan[q] = tx.plan[q]
          /\ \/ project[p] = NoFile /\ tx'.moved = tx.moved
             \/ project[p] # NoFile /\ tx'.moved = tx.moved \cup {p}
      <3>1. CASE project[p] = NoFile
        BY <2>1, <2>3, <3>1
      <3>2. CASE project[p] # NoFile
        <4>1. tx' = [tx EXCEPT !.moved = @ \cup {p}, !.plan[p] = project[p]]
          BY <2>1, <3>2
        <4>2. /\ tx'.published = tx.published /\ tx'.doc = tx.doc /\ tx'.mode = tx.mode
              /\ tx'.target = tx.target /\ tx'.moved = tx.moved \cup {p}
              /\ tx'.plan = [tx.plan EXCEPT ![p] = project[p]]
          BY <4>1 DEF CargoTypes, CargoFields
        <4> QED BY <2>2, <2>3, <3>2, <4>2 DEF CargoTypes
      <3> QED BY <3>1, <3>2
    <2>5. ASSUME NEW q \in Cargo!Parts PROVE CargoForward(q)'
      BY <2>1, <2>2, <2>3, <2>4 DEF CargoForward, CargoTypes
    <2>6. \/ pc' = "publish" /\ todo' = <<"Cargo.toml", "Cargo.lock">>
          \/ pc' = "backup" /\ todo' \in {<<"Cargo.toml", "Cargo.lock">>, <<"Cargo.lock">>}
      BY <2>1, CargoLists
    <2>7. approval' = tx'.doc
      BY <2>1, <2>3, <2>4
    <2> QED BY <2>3, <2>4, <2>5, <2>6, <2>7
  <1> QED BY <1>1, <1>2

\* The fields of the transaction that a step which publishes part p leaves.
LEMMA CargoPublishing ==
    ASSUME CargoTypes, NEW p, tx' = [tx EXCEPT !.published = @ \cup {p}]
    PROVE  /\ tx'.published = tx.published \cup {p} /\ tx'.moved = tx.moved
           /\ tx'.plan = tx.plan /\ tx'.doc = tx.doc /\ tx'.mode = tx.mode
           /\ tx'.target = tx.target /\ tx'.source = tx.source
  BY DEF CargoTypes, CargoFields

\* A part comes under its free name: all parts are still accounted for.
LEMMA CargoLinked ==
    ASSUME CargoTypes, NEW p \in Cargo!Parts,
           tx.target \in CargoSelections, \A q \in Cargo!Parts : CargoForward(q),
           project[p] = NoFile,
           project' = [project EXCEPT ![p] = Cargo!Published(p)],
           tx' = [tx EXCEPT !.published = @ \cup {p}],
           UNCHANGED <<backup, cmd>>
    PROVE  \A q \in Cargo!Parts : CargoForward(q)'
  <1>1. /\ tx'.published = tx.published \cup {p} /\ tx'.moved = tx.moved
        /\ tx'.plan = tx.plan /\ tx'.target = tx.target
    BY CargoPublishing
  <1>2. \A q \in Cargo!Parts : Cargo!Published(q)' = Cargo!Published(q)
    BY <1>1 DEF Cargo!Published, Cargo!Replacement
  <1>3. Cargo!Published(p) # NoFile
    BY CargoPublishedIsFile DEF CargoTypes
  <1> QED BY <1>1, <1>2, <1>3 DEF CargoForward, CargoTypes

\* A control is linked under its name, then its staging name goes.
LEMMA CargoPublishStep ==
    ASSUME CargoTypes, CargoTypes', edits = 0, CargoUntouched,
           Cargo!Publish \/ Cargo!Unlink
    PROVE  CargoLabels'
  <1>0. CASE Cargo!Fails("publish") \/ Cargo!Fails("unlink")
    BY <1>0, CargoFailing DEF CargoCommit, CargoUntouched
  <1> USE DEF CargoUntouched, CargoLabels, CargoAtFront, CargoAtCommit,
          CargoAtLoop, CargoAtUndo, CargoAtEnd, CargoFront, CargoCommit, CargoUndo,
          Cargo!Go
  <1>1. CASE Cargo!Publish /\ ~Cargo!Fails("publish")
    <2> DEFINE n == Head(todo)
    <2>1. /\ pc = "publish" /\ pc' = "unlink" /\ UNCHANGED <<approval, backup, cmd, todo>>
          /\ project[n] = NoFile
          /\ project' = [project EXCEPT ![n] = Cargo!Replacement(n)]
          /\ tx' = [tx EXCEPT !.published = @ \cup {n}]
      BY <1>1 DEF Cargo!Publish
    <2>2. \/ todo = <<"Cargo.toml", "Cargo.lock">> /\ tx.published = {} /\ n = "Cargo.toml"
          \/ /\ todo = <<"Cargo.lock">> /\ tx.published = {"Cargo.toml"}
             /\ n = "Cargo.lock"
      BY <2>1, CargoLists
    <2>3. n \in Cargo!Parts /\ Cargo!Replacement(n) = Cargo!Published(n)
      BY <2>2 DEF Cargo!Parts, Cargo!Controls, Cargo!Published
    <2>4. tx.target \in CargoSelections /\ \A q \in Cargo!Parts : CargoForward(q)
      BY <2>1
    <2>5. \A q \in Cargo!Parts : CargoForward(q)'
      BY <2>1, <2>3, <2>4, CargoLinked
    <2>6. /\ tx'.published = tx.published \cup {n} /\ tx'.doc = tx.doc
          /\ tx'.mode = tx.mode /\ tx'.target = tx.target
      BY <2>1, CargoPublishing
    <2> QED BY <2>1, <2>2, <2>4, <2>5, <2>6 DEF Cargo!Controls
  <1>2. CASE Cargo!Unlink /\ ~Cargo!Fails("unlink")
    <2>1. /\ pc = "unlink" /\ UNCHANGED <<approval, backup, project, cmd, tx>>
          /\ todo' = Tail(todo)
          /\ pc' = IF todo' = <<>> THEN "metadata" ELSE "publish"
      BY <1>2 DEF Cargo!Unlink
    <2>2. \/ /\ todo' = <<"Cargo.lock">> /\ pc' = "publish"
             /\ tx.published = {"Cargo.toml"}
          \/ pc' = "metadata" /\ tx.published = Cargo!Controls
      BY <2>1, CargoLists
    <2>3. \A q \in Cargo!Parts : CargoForward(q)'
      BY <2>1 DEF CargoForward, Cargo!Published, Cargo!Replacement
    <2> QED BY <2>1, <2>2, <2>3 DEF Cargo!Controls
  <1> QED BY <1>0, <1>1, <1>2

\* Published controls have the selected contents.
LEMMA CargoPublishedContents ==
    ASSUME tx.target \in CargoSelections,
           \A n \in Cargo!Controls : project[n] = Cargo!Replacement(n) /\ project[n] # NoFile
    PROVE  Cargo!Contents(project) = tx.target
  <1>1. tx.target \in [Cargo!Controls -> CargoBodies]
    BY CargoAssumption DEF Cargo!Controls
  <1>2. ASSUME NEW n \in Cargo!Controls
        PROVE  project[n] # NoFile /\ project[n].body = tx.target[n]
    <2>1. project[n] = [by |-> cmd, body |-> tx.target[n]]
      BY DEF Cargo!Replacement
    <2> QED BY <2>1
  <1>3. Cargo!Contents(project) = [n \in Cargo!Controls |-> tx.target[n]]
    BY <1>2 DEF Cargo!Contents
  <1> QED BY <1>1, <1>3

\* The record, the approval and the sync that commits.
LEMMA CargoApproveStep ==
    ASSUME CargoTypes, CargoTypes', edits = 0, CargoUntouched,
           Cargo!PublishMetadata \/ Cargo!Approve \/ Cargo!Sync
    PROVE  CargoLabels'
  <1>0. CASE Cargo!Fails("metadata") \/ Cargo!Fails("approve") \/ Cargo!Fails("sync")
    BY <1>0, CargoFailing DEF CargoCommit, CargoUntouched
  <1> USE DEF CargoUntouched, CargoLabels, CargoAtFront, CargoAtCommit,
          CargoAtLoop, CargoAtUndo, CargoAtEnd, CargoFront, CargoCommit, CargoUndo,
          Cargo!Go
  <1>1. CASE Cargo!PublishMetadata /\ ~Cargo!Fails("metadata")
    <2>1. /\ pc = "metadata" /\ pc' \in {"approve", "rbApproval"}
          /\ UNCHANGED <<approval, backup, cmd>>
          /\ project["metadata"] = NoFile
          /\ project' = [project EXCEPT !["metadata"] = Cargo!Published("metadata")]
          /\ tx' = [tx EXCEPT !.published = @ \cup {"metadata"}]
      BY <1>1 DEF Cargo!PublishMetadata, Cargo!Published
    <2>2. /\ tx.target \in CargoSelections /\ \A q \in Cargo!Parts : CargoForward(q)
          /\ tx.published = Cargo!Controls /\ approval = tx.doc
      BY <2>1 DEF Cargo!Controls
    <2>3. \A q \in Cargo!Parts : CargoForward(q)'
      BY <2>1, <2>2, CargoLinked DEF Cargo!Parts
    <2>4. /\ tx'.published = tx.published \cup {"metadata"} /\ tx'.doc = tx.doc
          /\ tx'.mode = tx.mode /\ tx'.target = tx.target
      BY <2>1, CargoPublishing
    <2> QED BY <2>1, <2>2, <2>3, <2>4 DEF Cargo!Parts, Cargo!Controls
  <1>2. CASE Cargo!Approve /\ ~Cargo!Fails("approve")
    <2>1. /\ pc = "approve" /\ pc' \in {"sync", "rbApproval"}
          /\ UNCHANGED <<project, backup, cmd>>
          /\ approval' = Cargo!NewDoc
          /\ tx' = [tx EXCEPT !.published = @ \cup {"approval"}]
      BY <1>2 DEF Cargo!Approve, Cargo!WriteState
    <2>2. /\ tx'.published = tx.published \cup {"approval"} /\ tx'.moved = tx.moved
          /\ tx'.plan = tx.plan /\ tx'.doc = tx.doc /\ tx'.mode = tx.mode
          /\ tx'.target = tx.target /\ tx'.source = tx.source
      BY <2>1, CargoPublishing
    <2>3. /\ tx.target \in CargoSelections /\ \A q \in Cargo!Parts : CargoForward(q)
          /\ tx.published = Cargo!Parts
      BY <2>1
    <2>4. Cargo!NewDoc' = Cargo!NewDoc
      BY <2>2 DEF Cargo!NewDoc
    <2>5. \A q \in Cargo!Parts : CargoForward(q)'
      BY <2>1, <2>2, <2>3 DEF CargoForward, Cargo!Published, Cargo!Replacement,
         Cargo!Parts, Cargo!Controls
    <2> QED BY <2>1, <2>2, <2>3, <2>4, <2>5
  <1>3. CASE Cargo!Sync /\ ~Cargo!Fails("sync")
    <2>1. /\ pc = "sync" /\ pc' \in {"inventory", "close"}
          /\ UNCHANGED <<project, approval>>
          /\ tx' = [tx EXCEPT !.mode = "committed"]
      BY <1>3 DEF Cargo!Sync, Cargo!disk
    <2>2. tx'.mode = "committed" /\ tx'.target = tx.target /\ tx'.source = tx.source
      BY <2>1 DEF CargoTypes, CargoFields
    <2>3. /\ tx.target \in CargoSelections /\ \A q \in Cargo!Parts : CargoForward(q)
          /\ tx.published = Cargo!Parts \cup {"approval"} /\ approval = Cargo!NewDoc
      BY <2>1
    <2>4. Cargo!NewDoc' = Cargo!NewDoc
      BY <2>2 DEF Cargo!NewDoc
    <2>5. \A n \in Cargo!Controls : project[n] = Cargo!Replacement(n) /\ project[n] # NoFile
      BY <2>3, CargoPublishedIsFile DEF CargoForward, Cargo!Published, CargoTypes,
         Cargo!Parts, Cargo!Controls
    <2>7. Cargo!Contents(project) = tx.target
      BY <2>3, <2>5, CargoPublishedContents
    <2>8. CargoUpdated'
      BY <2>1, <2>2, <2>3, <2>4, <2>7 DEF CargoUpdated
    <2> QED BY <2>1, <2>2, <2>8
  <1> QED BY <1>0, <1>1, <1>2, <1>3

\* The fields a step that met an error of the rollback leaves.
LEMMA CargoUncertain ==
    ASSUME CargoTypes, Cargo!Uncertain
    PROVE  /\ tx'.published = tx.published /\ tx'.moved = tx.moved
           /\ tx'.plan = tx.plan /\ tx'.doc = tx.doc /\ tx'.mode = "uncertain"
           /\ tx'.target = tx.target /\ tx'.source = tx.source
  BY DEF CargoTypes, CargoFields, Cargo!Uncertain

\* The rollback starts with the approval.
LEMMA CargoRollBackApprovalStep ==
    ASSUME CargoTypes, CargoTypes', edits = 0, CargoUntouched, Cargo!RollBackApproval
    PROVE  CargoLabels'
  <1>1. CASE pc' = "close"
    BY <1>1, CargoQuiet
  <1>2. CASE pc' # "close"
    <2>1. /\ pc = "rbApproval" /\ pc' = "rbRemove" /\ todo' = CargoUndoList
          /\ UNCHANGED <<project, backup, cmd>>
      BY <1>2 DEF Cargo!RollBackApproval, Cargo!Go, CargoUndoList
    <2>2. /\ tx.mode = "certain" /\ \A q \in Cargo!Parts : CargoForward(q)
          /\ approval = IF "approval" \in tx.published THEN Cargo!NewDoc ELSE tx.doc
      BY <2>1 DEF CargoUntouched, CargoLabels, CargoAtCommit, CargoCommit
    <2>3. /\ tx'.published = tx.published /\ tx'.moved = tx.moved
          /\ tx'.plan = tx.plan /\ tx'.doc = tx.doc /\ tx'.target = tx.target
          /\ tx'.mode \in {"certain", "uncertain"}
          /\ tx'.mode = "certain" => approval' = tx.doc
      <3>1. CASE tx' = tx
        BY <1>2, <2>2, <3>1 DEF Cargo!RollBackApproval, Cargo!WriteState,
           Cargo!Uncertain, CargoTypes, CargoFields
      <3>2. CASE Cargo!Uncertain
        BY <3>2, CargoUncertain
      <3> QED BY <1>2, <3>1, <3>2 DEF Cargo!RollBackApproval
    <2>4. \A q \in Cargo!Parts : CargoForward(q)'
      BY <2>1, <2>2, <2>3 DEF CargoForward, Cargo!Published, Cargo!Replacement
    <2> QED
      BY <2>1, <2>3, <2>4 DEF CargoLabels, CargoAtFront, CargoAtCommit,
         CargoAtLoop, CargoAtUndo, CargoAtEnd, CargoInHand, CargoFront,
         CargoCommit, CargoUndo, Cargo!Parts, Cargo!Controls
  <1> QED BY <1>1, <1>2

\* A part another one's rollback does not touch keeps its account.
LEMMA CargoOther ==
    ASSUME NEW q \in Cargo!Parts, project'[q] = project[q], backup'[q] = backup[q],
           tx'.published = tx.published, tx'.moved = tx.moved, tx'.plan = tx.plan,
           tx'.target = tx.target, cmd' = cmd,
           tx'.mode = tx.mode \/ tx'.mode = "uncertain"
    PROVE  /\ CargoForward(q) => CargoForward(q)'
           /\ CargoUndone(q) => CargoUndone(q)'
  BY DEF CargoForward, CargoUndone, Cargo!Published, Cargo!Replacement

\* The loop of the rollback goes on to the next part, or to its end.
LEMMA CargoNextPart ==
    ASSUME CargoTypes, CargoLabels, pc \in CargoUndo,
           todo' = Tail(todo), pc' = IF todo' = <<>> THEN "rbSync" ELSE "rbRemove",
           NEW h, h = Head(todo), CargoUndone(h)',
           \A q \in Cargo!Parts \ {h} :
               project'[q] = project[q] /\ backup'[q] = backup[q],
           tx'.published = tx.published, tx'.moved = tx.moved, tx'.plan = tx.plan,
           tx'.target = tx.target, tx'.doc = tx.doc, UNCHANGED <<approval, cmd>>,
           tx'.mode = tx.mode \/ tx'.mode = "uncertain"
    PROVE  CargoLabels'
  <1>0. /\ "metadata" \in Cargo!Parts /\ "Cargo.lock" \in Cargo!Parts
        /\ "Cargo.toml" \in Cargo!Parts
        /\ \A q \in Cargo!Parts : q \in {"metadata", "Cargo.lock", "Cargo.toml"}
    BY DEF Cargo!Parts, Cargo!Controls
  <1>1. tx'.mode # "committed" /\ (tx'.mode = "certain" => approval' = tx'.doc)
    BY DEF CargoLabels, CargoAtUndo
  <1>2. ASSUME NEW q \in Cargo!Parts \ {h}
        PROVE  /\ CargoForward(q) => CargoForward(q)'
               /\ CargoUndone(q) => CargoUndone(q)'
    BY CargoOther
  <1>3. CASE todo = CargoUndoList
    <2>1. /\ Head(todo) = "metadata" /\ pc' = "rbRemove"
          /\ todo' = <<"Cargo.lock", "Cargo.toml">>
          /\ CargoForward("Cargo.lock") /\ CargoForward("Cargo.toml")
      BY <1>3, CargoLists DEF CargoLabels, CargoAtUndo
    <2> QED
      BY <1>0, <1>1, <1>2, <2>1 DEF CargoLabels, CargoAtFront, CargoAtCommit,
         CargoAtLoop, CargoAtUndo, CargoAtEnd, CargoInHand, CargoFront,
         CargoCommit, CargoUndo
  <1>4. CASE todo = <<"Cargo.lock", "Cargo.toml">>
    <2>1. /\ Head(todo) = "Cargo.lock" /\ pc' = "rbRemove"
          /\ todo' = <<"Cargo.toml">>
          /\ CargoUndone("metadata") /\ CargoForward("Cargo.toml")
      BY <1>4, CargoLists DEF CargoLabels, CargoAtUndo
    <2> QED
      BY <1>0, <1>1, <1>2, <2>1 DEF CargoLabels, CargoAtFront, CargoAtCommit,
         CargoAtLoop, CargoAtUndo, CargoAtEnd, CargoInHand, CargoFront,
         CargoCommit, CargoUndo
  <1>5. CASE todo = <<"Cargo.toml">>
    <2>1. /\ Head(todo) = "Cargo.toml" /\ pc' = "rbSync"
          /\ CargoUndone("metadata") /\ CargoUndone("Cargo.lock")
      BY <1>5, CargoLists DEF CargoLabels, CargoAtUndo
    <2>2. \A p \in Cargo!Parts : CargoUndone(p)'
      BY <1>0, <1>2, <2>1
    <2> QED
      BY <1>1, <2>1, <2>2 DEF CargoLabels, CargoAtFront, CargoAtCommit,
         CargoAtLoop, CargoAtUndo, CargoAtEnd, CargoFront, CargoCommit, CargoUndo
  <1> QED BY <1>3, <1>4, <1>5 DEF CargoLabels, CargoAtUndo

\* The rollback goes on with the part it has in hand.
LEMMA CargoSamePart ==
    ASSUME CargoTypes, CargoLabels, pc \in CargoUndo, pc' \in {"rbRestore", "rbUnlink"},
           todo' = todo, NEW h, h = Head(todo), CargoInHand(h)',
           \A q \in Cargo!Parts \ {h} :
               project'[q] = project[q] /\ backup'[q] = backup[q],
           tx'.published = tx.published, tx'.moved = tx.moved, tx'.plan = tx.plan,
           tx'.target = tx.target, tx'.doc = tx.doc, UNCHANGED <<approval, cmd>>,
           tx'.mode = tx.mode \/ tx'.mode = "uncertain"
    PROVE  CargoLabels'
  <1>0. /\ "metadata" \in Cargo!Parts /\ "Cargo.lock" \in Cargo!Parts
        /\ "Cargo.toml" \in Cargo!Parts
    BY DEF Cargo!Parts, Cargo!Controls
  <1>1. tx'.mode # "committed" /\ (tx'.mode = "certain" => approval' = tx'.doc)
    BY DEF CargoLabels, CargoAtUndo
  <1>2. ASSUME NEW q \in Cargo!Parts \ {h}
        PROVE  /\ CargoForward(q) => CargoForward(q)'
               /\ CargoUndone(q) => CargoUndone(q)'
    BY CargoOther
  <1>3. \/ /\ todo' = CargoUndoList /\ CargoInHand("metadata")'
           /\ CargoForward("Cargo.lock")' /\ CargoForward("Cargo.toml")'
        \/ /\ todo' = <<"Cargo.lock", "Cargo.toml">>
           /\ CargoUndone("metadata")' /\ CargoInHand("Cargo.lock")'
           /\ CargoForward("Cargo.toml")'
        \/ /\ todo' = <<"Cargo.toml">>
           /\ CargoUndone("metadata")' /\ CargoUndone("Cargo.lock")'
           /\ CargoInHand("Cargo.toml")'
    <2>1. CASE todo = CargoUndoList
      BY <1>0, <1>2, <2>1, CargoLists DEF CargoLabels, CargoAtUndo
    <2>2. CASE todo = <<"Cargo.lock", "Cargo.toml">>
      BY <1>0, <1>2, <2>2, CargoLists DEF CargoLabels, CargoAtUndo
    <2>3. CASE todo = <<"Cargo.toml">>
      BY <1>0, <1>2, <2>3, CargoLists DEF CargoLabels, CargoAtUndo
    <2> QED BY <2>1, <2>2, <2>3 DEF CargoLabels, CargoAtUndo
  <1> QED
    BY <1>1, <1>3 DEF CargoLabels, CargoAtFront, CargoAtCommit, CargoAtLoop,
       CargoAtUndo, CargoAtEnd, CargoFront, CargoCommit, CargoUndo

\* The part the rollback has in hand.
LEMMA CargoHead ==
    ASSUME CargoLabels, pc \in CargoUndo
    PROVE  Head(todo) \in Cargo!Parts /\ CargoInHand(Head(todo))
  BY CargoLists DEF CargoLabels, CargoAtUndo, Cargo!Parts, Cargo!Controls

\* A published part is taken away again.
LEMMA CargoRemoveStep ==
    ASSUME CargoTypes, CargoTypes', CargoLabels, Cargo!RemovePublished
    PROVE  CargoLabels'
  <1> PICK p : p = Head(todo) OBVIOUS
  <1>1. pc = "rbRemove" /\ UNCHANGED <<approval, backup, cmd>>
    BY DEF Cargo!RemovePublished
  <1>2. p \in Cargo!Parts /\ CargoForward(p) /\ pc \in CargoUndo
    BY <1>1, CargoHead DEF CargoInHand, CargoUndo
  <1>3. CASE p \notin tx.published /\ pc' = "rbRestore" /\ UNCHANGED <<project, tx, todo>>
    <2>1. CargoInHand(p)'
      BY <1>1, <1>2, <1>3 DEF CargoInHand, CargoUndone, CargoForward
    <2> QED BY <1>1, <1>2, <1>3, <2>1, CargoSamePart
  <1>4. CASE /\ p \in tx.published /\ pc' = "rbRestore" /\ UNCHANGED <<todo, tx>>
             /\ project' = [project EXCEPT ![p] = NoFile]
    <2>1. CargoInHand(p)'
      BY <1>1, <1>2, <1>4 DEF CargoInHand, CargoUndone, CargoForward, CargoTypes
    <2>2. \A q \in Cargo!Parts \ {p} : project'[q] = project[q] /\ backup'[q] = backup[q]
      BY <1>1, <1>4
    <2> QED BY <1>1, <1>2, <1>4, <2>1, <2>2, CargoSamePart
  <1>5. CASE Cargo!Uncertain /\ pc' = "rbRestore" /\ UNCHANGED <<todo, project>>
    <2>1. /\ tx'.published = tx.published /\ tx'.moved = tx.moved
          /\ tx'.plan = tx.plan /\ tx'.doc = tx.doc /\ tx'.mode = "uncertain"
          /\ tx'.target = tx.target
      BY <1>5, CargoUncertain
    <2>2. CargoInHand(p)'
      BY <1>5, <2>1 DEF CargoInHand, CargoUndone
    <2> QED BY <1>1, <1>2, <1>5, <2>1, <2>2, CargoSamePart
  <1>6. CASE Cargo!Uncertain /\ Cargo!NextPart("rbRemove") /\ UNCHANGED project
    <2>1. /\ tx'.published = tx.published /\ tx'.moved = tx.moved
          /\ tx'.plan = tx.plan /\ tx'.doc = tx.doc /\ tx'.mode = "uncertain"
          /\ tx'.target = tx.target
      BY <1>6, CargoUncertain
    <2>2. CargoUndone(p)'
      BY <2>1 DEF CargoUndone
    <2>3. todo' = Tail(todo) /\ pc' = IF todo' = <<>> THEN "rbSync" ELSE "rbRemove"
      BY <1>6 DEF Cargo!NextPart, Cargo!Go
    <2> QED BY <1>1, <1>2, <1>6, <2>1, <2>2, <2>3, CargoNextPart
  <1> QED BY <1>3, <1>4, <1>5, <1>6 DEF Cargo!RemovePublished, Cargo!Go

\* A moved part is linked back.
LEMMA CargoRestoreStep ==
    ASSUME CargoTypes, CargoTypes', CargoLabels, Cargo!Restore
    PROVE  CargoLabels'
  <1> PICK p : p = Head(todo) OBVIOUS
  <1>1. pc = "rbRestore" /\ UNCHANGED <<approval, backup, cmd>>
    BY DEF Cargo!Restore
  <1>2. /\ p \in Cargo!Parts /\ pc \in CargoUndo
        /\ p \notin tx.moved => CargoUndone(p)
    BY <1>1, CargoHead DEF CargoInHand, CargoUndo
  <1>3. CASE p \notin tx.moved /\ Cargo!NextPart("rbRestore") /\ UNCHANGED <<project, tx>>
    <2>1. CargoUndone(p)'
      BY <1>2, <1>3 DEF CargoUndone
    <2>2. todo' = Tail(todo) /\ pc' = IF todo' = <<>> THEN "rbSync" ELSE "rbRemove"
      BY <1>3 DEF Cargo!NextPart, Cargo!Go
    <2> QED BY <1>1, <1>2, <1>3, <2>1, <2>2, CargoNextPart
  <1>4. CASE /\ p \in tx.moved /\ backup[p] = tx.plan[p] /\ pc' = "rbUnlink"
             /\ project' = [project EXCEPT ![p] = backup[p]] /\ UNCHANGED <<todo, tx>>
    <2>1. CargoInHand(p)'
      BY <1>1, <1>2, <1>4 DEF CargoInHand, CargoUndone, CargoTypes
    <2>2. \A q \in Cargo!Parts \ {p} : project'[q] = project[q] /\ backup'[q] = backup[q]
      BY <1>1, <1>4
    <2> QED BY <1>1, <1>2, <1>4, <2>1, <2>2, CargoSamePart
  <1>5. CASE Cargo!Uncertain /\ Cargo!NextPart("rbRestore") /\ UNCHANGED project
    <2>1. /\ tx'.published = tx.published /\ tx'.moved = tx.moved
          /\ tx'.plan = tx.plan /\ tx'.doc = tx.doc /\ tx'.mode = "uncertain"
          /\ tx'.target = tx.target
      BY <1>5, CargoUncertain
    <2>2. CargoUndone(p)'
      BY <2>1 DEF CargoUndone
    <2>3. todo' = Tail(todo) /\ pc' = IF todo' = <<>> THEN "rbSync" ELSE "rbRemove"
      BY <1>5 DEF Cargo!NextPart, Cargo!Go
    <2> QED BY <1>1, <1>2, <1>5, <2>1, <2>2, <2>3, CargoNextPart
  <1> QED BY <1>3, <1>4, <1>5 DEF Cargo!Restore, Cargo!Go

\* Its name in the backup goes.
LEMMA CargoUnlinkBackupStep ==
    ASSUME CargoTypes, CargoTypes', CargoLabels, Cargo!UnlinkBackup
    PROVE  CargoLabels'
  <1> PICK p : p = Head(todo) OBVIOUS
  <1>1. /\ pc = "rbUnlink" /\ UNCHANGED <<approval, project, cmd>>
        /\ todo' = Tail(todo) /\ pc' = IF todo' = <<>> THEN "rbSync" ELSE "rbRemove"
    BY DEF Cargo!UnlinkBackup, Cargo!NextPart, Cargo!Go
  <1>2. p \in Cargo!Parts /\ pc \in CargoUndo /\ CargoUndone(p)
    BY <1>1, CargoHead DEF CargoInHand, CargoUndo
  <1>3. CASE backup' = [backup EXCEPT ![p] = NoFile] /\ UNCHANGED tx
    <2>1. CargoUndone(p)'
      BY <1>1, <1>2, <1>3 DEF CargoUndone
    <2>2. \A q \in Cargo!Parts \ {p} : project'[q] = project[q] /\ backup'[q] = backup[q]
      BY <1>1, <1>3
    <2> QED BY <1>1, <1>2, <1>3, <2>1, <2>2, CargoNextPart
  <1>4. CASE Cargo!Uncertain /\ UNCHANGED backup
    <2>1. /\ tx'.published = tx.published /\ tx'.moved = tx.moved
          /\ tx'.plan = tx.plan /\ tx'.doc = tx.doc /\ tx'.mode = "uncertain"
          /\ tx'.target = tx.target
      BY <1>4, CargoUncertain
    <2>2. CargoUndone(p)'
      BY <2>1 DEF CargoUndone
    <2> QED BY <1>1, <1>2, <1>4, <2>1, <2>2, CargoNextPart
  <1> QED BY <1>3, <1>4 DEF Cargo!UnlinkBackup

\* The end of the rollback and the removal of the directory.
LEMMA CargoEndStep ==
    ASSUME CargoTypes, CargoTypes', CargoLabels,
           Cargo!RolledBack \/ Cargo!CheckInventory \/ Cargo!Purge
    PROVE  CargoLabels'
  <1>1. CASE pc' = "close"
    BY <1>1, CargoQuiet
  <1>2. CASE pc' # "close"
    <2>1. UNCHANGED <<project, approval, tx>> /\ pc' \in {"inventory", "purge"}
      BY <1>2 DEF Cargo!RolledBack, Cargo!CheckInventory, Cargo!Purge, Cargo!Go,
         Cargo!disk
    <2>2. \/ pc \in {"inventory", "purge"}
          \/ pc = "rbSync" /\ tx.mode = "certain"
      BY <1>2 DEF Cargo!RolledBack, Cargo!CheckInventory, Cargo!Purge, Cargo!Go
    <2>3. \/ tx.mode = "committed" /\ CargoUpdated
          \/ tx.mode = "certain" /\ CargoAsPlanned /\ approval = tx.doc
      BY <2>2 DEF CargoLabels, CargoAtEnd, CargoAtUndo, CargoUndone, CargoAsPlanned
    <2>4. CargoUpdated' <=> CargoUpdated
      BY <2>1 DEF CargoUpdated, Cargo!NewDoc, Cargo!Contents
    <2>5. CargoAsPlanned' <=> CargoAsPlanned
      BY <2>1 DEF CargoAsPlanned
    <2>6. CargoAtEnd'
      BY <2>1, <2>3, <2>4, <2>5 DEF CargoAtEnd
    <2> QED BY <2>1, <2>6 DEF CargoLabels, CargoAtFront, CargoAtCommit,
         CargoAtLoop, CargoAtUndo, CargoFront, CargoCommit, CargoUndo
  <1> QED BY <1>1, <1>2

\* A step that changes nothing the labels speak of.
LEMMA CargoStutters ==
    ASSUME CargoLabels, UNCHANGED <<pc, todo, tx, project, backup, approval, cmd>>
    PROVE  CargoLabels'
  <1>1. \A p : CargoForward(p)' <=> CargoForward(p)
    BY DEF CargoForward, Cargo!Published, Cargo!Replacement
  <1>2. \A p : (CargoUndone(p)' <=> CargoUndone(p)) /\ (CargoInHand(p)' <=> CargoInHand(p))
    BY <1>1 DEF CargoUndone, CargoInHand
  <1>3. CargoUpdated' <=> CargoUpdated
    BY DEF CargoUpdated, Cargo!NewDoc, Cargo!Contents
  <1>4. CargoAsPlanned' <=> CargoAsPlanned
    BY DEF CargoAsPlanned
  <1>5. CargoAtFront' /\ CargoAtEnd'
    BY <1>3, <1>4 DEF CargoLabels, CargoAtFront, CargoAtEnd
  <1>6. CargoAtCommit' /\ CargoAtLoop'
    BY <1>1 DEF CargoLabels, CargoAtCommit, CargoAtLoop, Cargo!NewDoc
  <1>7. CargoAtUndo'
    BY <1>1, <1>2 DEF CargoLabels, CargoAtUndo
  <1> QED BY <1>5, <1>6, <1>7 DEF CargoLabels

\* Every step keeps the invariant.
LEMMA CargoStep ==
    ASSUME CargoInv, Cargo!Next \/ UNCHANGED vars
    PROVE  CargoInv'
  <1>1. CargoTypes /\ CargoTypes'
    BY CargoTypesStep DEF CargoInv
  <1>2. ASSUME edits' = 0 PROVE CargoUntouched'
    <2>1. edits = 0
      BY <1>1, <1>2 DEF CargoTypes, Cargo!Next, vars, common, Cargo!user, Cargo!GivesUp,
         Cargo!Fails, Cargo!Begin, Cargo!Resolve, Cargo!ResolveSnapshot, Cargo!Inspect,
         Cargo!StageCache, Cargo!Select, Cargo!Prepare, Cargo!VerifyPlan, Cargo!BackUp,
         Cargo!Publish, Cargo!Unlink, Cargo!PublishMetadata, Cargo!Approve, Cargo!Sync,
         Cargo!RollBackApproval, Cargo!RemovePublished, Cargo!Restore,
         Cargo!UnlinkBackup, Cargo!RolledBack, Cargo!CheckInventory, Cargo!Purge,
         Cargo!Close, Cargo!Kill, Cargo!ClearStaleLock, Cargo!Edit
    <2>2. CargoUntouched /\ CargoLabels
      BY <2>1 DEF CargoInv, CargoUntouched
    <2>3. CargoGround'
      BY <1>1, <1>2, <2>1, <2>2, CargoGroundStep
    <2>4. CargoLabels'
      <3>1. CASE \/ Cargo!Begin \/ Cargo!Resolve \/ Cargo!ResolveSnapshot
                 \/ Cargo!Inspect \/ Cargo!StageCache \/ Cargo!Select
        BY <1>1, <2>1, <2>2, <3>1, CargoFrontStep
      <3>2. CASE Cargo!Prepare \/ Cargo!VerifyPlan
        BY <1>1, <2>1, <2>2, <3>2, CargoPrepareStep
      <3>3. CASE Cargo!BackUp
        BY <1>1, <2>1, <2>2, <3>3, CargoBackUpStep
      <3>4. CASE Cargo!Publish \/ Cargo!Unlink
        BY <1>1, <2>1, <2>2, <3>4, CargoPublishStep
      <3>5. CASE Cargo!PublishMetadata \/ Cargo!Approve \/ Cargo!Sync
        BY <1>1, <2>1, <2>2, <3>5, CargoApproveStep
      <3>6. CASE Cargo!RollBackApproval
        BY <1>1, <2>1, <2>2, <3>6, CargoRollBackApprovalStep
      <3>7. CASE Cargo!RemovePublished
        BY <1>1, <2>2, <3>7, CargoRemoveStep
      <3>8. CASE Cargo!Restore
        BY <1>1, <2>2, <3>8, CargoRestoreStep
      <3>9. CASE Cargo!UnlinkBackup
        BY <1>1, <2>2, <3>9, CargoUnlinkBackupStep
      <3>10. CASE Cargo!RolledBack \/ Cargo!CheckInventory \/ Cargo!Purge
        BY <1>1, <2>2, <3>10, CargoEndStep
      <3>11. CASE Cargo!Close \/ Cargo!Kill \/ Cargo!ClearStaleLock
        BY <3>11, CargoQuiet DEF Cargo!Close, Cargo!Kill, Cargo!ClearStaleLock, Cargo!Go
      <3>12. CASE Cargo!Edit
        BY <1>2, <2>1, <3>12 DEF Cargo!Edit
      <3>13. CASE UNCHANGED vars
        BY <2>2, <3>13, CargoStutters DEF vars, common, controls
      <3> QED BY <3>1, <3>2, <3>3, <3>4, <3>5, <3>6, <3>7, <3>8, <3>9, <3>10,
           <3>11, <3>12, <3>13 DEF Cargo!Next
    <2> QED BY <2>3, <2>4 DEF CargoUntouched
  <1> QED BY <1>1, <1>2 DEF CargoInv

\* A behaviour starts with a coherent project and no command.
LEMMA CargoInitial ==
    ASSUME Cargo!Init
    PROVE  CargoInv
  <1>1. CargoTypes
    BY BoundsAssumption DEF Cargo!Init, CargoTypes, CargoFields, Cargo!NoTx, Cargo!Nothing, CargoInside,
       CargoFront, CargoCommit, CargoUndo
  <1>2. CargoLabels
    BY DEF Cargo!Init, CargoLabels, CargoAtFront, CargoAtCommit, CargoAtLoop, CargoAtUndo,
     CargoAtEnd, CargoFront, CargoCommit, CargoUndo
  <1>3. CargoCoherent(project, approval)
    <2>1. PICK c \in Cargo!Unmanaged, d \in {NoDoc} \cup Cargo!Docs :
              /\ d # NoDoc => d = [controls |-> c, manifests |-> 0]
              /\ approval = d
              /\ project = [p \in Cargo!Parts |->
                     CASE p = "metadata" -> IF d = NoDoc THEN NoFile ELSE [by |-> 0, body |-> "record"]
                       [] OTHER -> IF c[p] = NoFile THEN NoFile ELSE [by |-> 0, body |-> c[p]]]
      BY DEF Cargo!Init
    <2>2. /\ project["metadata"] = IF d = NoDoc THEN NoFile ELSE [by |-> 0, body |-> "record"]
          /\ \A n \in Cargo!Controls :
                project[n] = IF c[n] = NoFile THEN NoFile ELSE [by |-> 0, body |-> c[n]]
      BY <2>1 DEF Cargo!Parts, Cargo!Controls
    <2>3. /\ c \in [Cargo!Controls -> CargoBodies \cup {NoFile}]
          /\ c["Cargo.toml"] # NoFile
      BY DEF Cargo!Unmanaged
    <2>4. ASSUME NEW n \in Cargo!Controls, c[n] # NoFile
          PROVE  project[n] # NoFile /\ project[n].body = c[n]
      <3>1. project[n] = [by |-> 0, body |-> c[n]] /\ c[n] \in CargoBodies
        BY <2>2, <2>3, <2>4
      <3> QED BY <3>1, CargoAssumption
    <2>5. Cargo!Contents(project) = [n \in Cargo!Controls |-> c[n]]
      BY <2>2, <2>4 DEF Cargo!Contents
    <2>6. Cargo!Contents(project) = c
      BY <2>3, <2>5
    <2> QED BY <2>1, <2>2, <2>3, <2>4, <2>6 DEF CargoCoherent, Cargo!Controls
  <1>4. CargoGround
    BY <1>3 DEF Cargo!Init, CargoGround, Cargo!Nothing
  <1> QED BY <1>1, <1>2, <1>4 DEF CargoInv, CargoUntouched

-----------------------------------------------------------------------------
(* Cargo: what the invariant gives                                         *)

LEMMA CargoOpen ==
    ASSUME CargoInv
    PROVE  Cargo!OpenMeansAdmissible
  BY DEF CargoInv, CargoUntouched, CargoGround, CargoCoherent,
     Cargo!OpenMeansAdmissible, Cargo!Admissible, Cargo!NoJournal, Cargo!Freezable,
     Cargo!Retained

LEMMA CargoKeeps ==
    ASSUME CargoTypes, Cargo!Next
    PROVE  Cargo!KeepsSeenFile
  <1>0. strays' = strays \/ edits' # edits
    BY DEF Cargo!Next, Cargo!user, Cargo!GivesUp, Cargo!Fails, Cargo!Begin, Cargo!Resolve,
       Cargo!ResolveSnapshot, Cargo!Inspect, Cargo!StageCache, Cargo!Select, Cargo!Prepare,
       Cargo!VerifyPlan, Cargo!BackUp, Cargo!Unlink, Cargo!Publish, Cargo!PublishMetadata,
       Cargo!Approve, Cargo!Sync, Cargo!RollBackApproval, Cargo!RemovePublished,
       Cargo!Restore, Cargo!UnlinkBackup, Cargo!RolledBack, Cargo!CheckInventory,
       Cargo!Purge, Cargo!Close, Cargo!Kill, Cargo!ClearStaleLock, Cargo!Edit, CargoTypes
  <1> SUFFICES ASSUME NEW n \in Cargo!Controls, Cargo!UserSaved(project[n]),
                      project[n] # tx.plan[n]
               PROVE  project'[n] = project[n] \/ edits' # edits
    BY <1>0 DEF Cargo!KeepsSeenFile
  <1>1. /\ n \in Cargo!Parts /\ n # "metadata" /\ project[n] # NoFile
        /\ project[n].by > MaxCommands
    BY DEF Cargo!UserSaved, Cargo!Parts, Cargo!Controls
  <1>2. CASE Cargo!BackUp
    BY <1>1, <1>2 DEF Cargo!BackUp, Cargo!Fails, Cargo!disk, CargoTypes
  <1>3. CASE Cargo!Publish \/ Cargo!PublishMetadata
    BY <1>1, <1>3 DEF Cargo!Publish, Cargo!PublishMetadata, Cargo!Fails, Cargo!disk,
       CargoTypes
  <1>4. CASE Cargo!RemovePublished
    <2>1. project[n] # Cargo!Published(n)
      <3>1. SUFFICES Cargo!Published(n).by \in 0..MaxCommands
        BY <1>1, BoundsAssumption
      <3>2. Cargo!Published(n) = [by |-> cmd, body |-> tx.target[n]]
        BY <1>1 DEF Cargo!Published, Cargo!Replacement
      <3> QED BY <3>2 DEF CargoTypes
    <2> QED BY <1>1, <1>4, <2>1 DEF Cargo!RemovePublished, CargoTypes
  <1>5. CASE Cargo!Restore
    BY <1>1, <1>5 DEF Cargo!Restore, CargoTypes
  <1>6. CASE Cargo!Edit
    BY <1>6 DEF Cargo!Edit, CargoTypes
  <1>7. CASE \/ Cargo!Begin \/ Cargo!Resolve \/ Cargo!ResolveSnapshot
             \/ Cargo!Inspect \/ Cargo!StageCache \/ Cargo!Select
             \/ Cargo!Prepare \/ Cargo!VerifyPlan \/ Cargo!Unlink \/ Cargo!Approve
             \/ Cargo!Sync \/ Cargo!RollBackApproval \/ Cargo!UnlinkBackup
             \/ Cargo!RolledBack \/ Cargo!CheckInventory \/ Cargo!Purge
             \/ Cargo!Close \/ Cargo!Kill \/ Cargo!ClearStaleLock
    BY <1>7 DEF Cargo!disk, Cargo!GivesUp, Cargo!Fails, Cargo!Begin, Cargo!Resolve,
       Cargo!ResolveSnapshot, Cargo!Inspect, Cargo!StageCache, Cargo!Select, Cargo!Prepare,
       Cargo!VerifyPlan, Cargo!Unlink, Cargo!Approve, Cargo!Sync, Cargo!RollBackApproval,
       Cargo!UnlinkBackup, Cargo!RolledBack, Cargo!CheckInventory, Cargo!Purge, Cargo!Close,
       Cargo!Kill, Cargo!ClearStaleLock
  <1> QED BY <1>2, <1>3, <1>4, <1>5, <1>6, <1>7 DEF Cargo!Next

LEMMA CargoApproves ==
    ASSUME Cargo!Next
    PROVE  Cargo!ApprovesTheInspected
  <1>1. CASE Cargo!Approve
    BY <1>1 DEF Cargo!Approve, Cargo!Fails, Cargo!disk, Cargo!ApprovesTheInspected,
       Cargo!PublishedSource
  <1>2. CASE Cargo!RollBackApproval
    BY <1>2 DEF Cargo!RollBackApproval, Cargo!WriteState, Cargo!ApprovesTheInspected
  <1>3. CASE ~Cargo!Approve /\ ~Cargo!RollBackApproval
    <2>1. approval' = approval
      BY <1>3 DEF Cargo!Next, Cargo!disk, Cargo!GivesUp, Cargo!Fails, Cargo!Begin, Cargo!Resolve,
         Cargo!ResolveSnapshot, Cargo!Inspect, Cargo!StageCache, Cargo!Select,
         Cargo!Prepare, Cargo!VerifyPlan, Cargo!BackUp, Cargo!Publish, Cargo!Unlink,
         Cargo!PublishMetadata, Cargo!Sync, Cargo!RemovePublished, Cargo!Restore,
         Cargo!UnlinkBackup, Cargo!RolledBack, Cargo!CheckInventory, Cargo!Purge,
         Cargo!Close, Cargo!Kill, Cargo!ClearStaleLock, Cargo!Edit
    <2> QED BY <2>1 DEF Cargo!ApprovesTheInspected
  <1> QED BY <1>1, <1>2, <1>3

\* The first state is a state ApprovedProject may start in.
LEMMA CargoStartsCoherent ==
    ASSUME Cargo!Init
    PROVE  Cargo!Coherent
  <1>1. PICK c \in Cargo!Unmanaged, d \in {NoDoc} \cup Cargo!Docs :
            /\ d # NoDoc => d = [controls |-> c, manifests |-> 0]
            /\ approval = d
            /\ project = [p \in Cargo!Parts |->
                   CASE p = "metadata" -> IF d = NoDoc THEN NoFile ELSE [by |-> 0, body |-> "record"]
                     [] OTHER -> IF c[p] = NoFile THEN NoFile ELSE [by |-> 0, body |-> c[p]]]
    BY DEF Cargo!Init
  <1>2. \A n \in Cargo!Controls :
            project[n] = IF c[n] = NoFile THEN NoFile ELSE [by |-> 0, body |-> c[n]]
    BY <1>1 DEF Cargo!Parts, Cargo!Controls
  <1>3. c \in [Cargo!Controls -> CargoBodies \cup {NoFile}]
    BY DEF Cargo!Unmanaged
  <1>4. ASSUME NEW n \in Cargo!Controls, c[n] # NoFile
        PROVE  project[n] # NoFile /\ project[n].body = c[n]
    <2>1. project[n] = [by |-> 0, body |-> c[n]] /\ c[n] \in CargoBodies
      BY <1>2, <1>3, <1>4
    <2> QED BY <2>1, CargoAssumption
  <1>5. Cargo!Contents(project) = [n \in Cargo!Controls |-> c[n]]
    BY <1>2, <1>4 DEF Cargo!Contents
  <1>6. Cargo!Contents(project) = c
    BY <1>3, <1>5
  <1>7. approval # NoDoc => approval.controls = c /\ c # NoDoc
    BY <1>1, CargoAssumption DEF Cargo!Docs
  <1>8. dir = 0 /\ edits = 0
    BY DEF Cargo!Init
  <1> QED BY <1>6, <1>7, <1>8 DEF Cargo!Coherent, Cargo!Abstract!AInit,
        Cargo!Abstract!Coherent, Cargo!Visible

\* Every step is a step of ApprovedProject, or leaves what it shows alone.
LEMMA CargoMoves ==
    ASSUME CargoInv, CargoInv', Cargo!Next
    PROVE  Cargo!MovesTogether
  <1> DEFINE Shown   == Cargo!Contents(Cargo!Visible)
             Doc     == IF dir = 0 THEN approval ELSE tx.doc
             Granted == IF Doc = NoDoc THEN NoDoc ELSE Doc.controls
  <1>1. CASE edits' # 0
    BY <1>1 DEF Cargo!MovesTogether, Cargo!Abstract!ANext, Cargo!Abstract!Drift
  <1>2. CASE edits' = 0
    <2>0. edits = 0 /\ CargoTypes /\ CargoUntouched
      BY <1>2 DEF CargoInv, CargoTypes, Cargo!Next, Cargo!user, Cargo!GivesUp,
         Cargo!Fails, Cargo!Begin, Cargo!Resolve, Cargo!ResolveSnapshot, Cargo!Inspect,
         Cargo!StageCache, Cargo!Select, Cargo!Prepare, Cargo!VerifyPlan, Cargo!BackUp,
         Cargo!Publish, Cargo!Unlink, Cargo!PublishMetadata, Cargo!Approve, Cargo!Sync,
         Cargo!RollBackApproval, Cargo!RemovePublished, Cargo!Restore,
         Cargo!UnlinkBackup, Cargo!RolledBack, Cargo!CheckInventory, Cargo!Purge,
         Cargo!Close, Cargo!Kill, Cargo!ClearStaleLock, Cargo!Edit
    <2>1. /\ dir' = dir \/ Cargo!Select \/ Cargo!Purge
          /\ dir = 0 /\ dir' = 0 => UNCHANGED <<project, approval, backup>>
          /\ dir # 0 => /\ \A p \in Cargo!Parts : tx'.plan[p] = tx.plan[p]
                        /\ tx'.doc = tx.doc /\ tx'.source = tx.source
      BY <1>2, <2>0, CargoChanges
    <2>2. \A f, g : (\A p \in Cargo!Parts : f[p] = g[p]) => Cargo!Contents(f) = Cargo!Contents(g)
      BY DEF Cargo!Contents, Cargo!Parts
    <2>3. SUFFICES \/ Shown' = Shown /\ Granted' = Granted
                   \/ Shown' \in CargoSelections /\ Granted' = Shown'
      BY <1>2, <2>0 DEF Cargo!MovesTogether, Cargo!Abstract!ANext,
         Cargo!Abstract!Approve, Cargo!Abstract!avars
    <2>4. CASE dir = 0 /\ dir' = 0
      BY <2>1, <2>4 DEF Cargo!Visible
    <2>5. CASE dir # 0 /\ dir' # 0
      BY <2>1, <2>2, <2>5 DEF Cargo!Visible
    <2>6. CASE dir = 0 /\ dir' # 0
      <3>1. Cargo!Select /\ pc = "select" /\ UNCHANGED tx
        BY <2>1, <2>6 DEF Cargo!Select, Cargo!Purge, Cargo!GivesUp, Cargo!disk, Cargo!Go
      <3>2. CargoAsPlanned /\ approval = tx.doc
        BY <2>0, <3>1 DEF CargoUntouched, CargoLabels, CargoAtFront, CargoFront
      <3> QED BY <2>2, <2>6, <3>1, <3>2 DEF Cargo!Visible, CargoAsPlanned
    <2>7. CASE dir # 0 /\ dir' = 0
      <3>1. /\ Cargo!Purge /\ pc = "purge" /\ UNCHANGED <<tx, project, approval>>
        BY <2>0, <2>1, <2>7 DEF Cargo!Purge, Cargo!Select, Cargo!GivesUp, Cargo!disk,
           Cargo!Go, Cargo!beginCargoProjectTransaction, CargoTypes
      <3>2. CASE CargoAsPlanned /\ approval = tx.doc
        BY <2>2, <2>7, <3>1, <3>2 DEF Cargo!Visible, CargoAsPlanned
      <3>3. CASE CargoUpdated
        <4>1. Shown' = tx.target /\ tx.target \in CargoSelections
          BY <2>7, <3>1, <3>3 DEF CargoUpdated, Cargo!Visible
        <4>2. Doc' = [controls |-> tx.target, manifests |-> 0]
          BY <2>0, <2>7, <3>1, <3>3 DEF CargoUpdated, Cargo!NewDoc, CargoUntouched,
             CargoGround
        <4>3. Doc' # NoDoc /\ Doc'.controls = tx.target
          BY <4>1, <4>2, CargoAssumption
        <4> QED BY <4>1, <4>3
      <3> QED BY <2>0, <3>1, <3>2, <3>3 DEF CargoUntouched, CargoLabels, CargoAtEnd
    <2> QED BY <2>4, <2>5, <2>6, <2>7
  <1> QED BY <1>1, <1>2

-----------------------------------------------------------------------------
(* Terraform: the inductive invariant                                      *)

TerraformFields == {"plan", "source", "doc", "target", "moved", "published", "mode"}

TerraformCommit == {"stage", "verify", "backup", "checkBackup", "publish", "metadata",
                    "approve", "approved", "rbApproval"}
TerraformUndo   == {"rbRemove", "rbRestore"}
TerraformInside == TerraformCommit \cup TerraformUndo \cup {"rbSync", "removeAll"}
TerraformFront  == {"resolve", "inspect", "select"}

\* What holds whatever is edited.
TerraformTypes ==
    /\ DOMAIN project = Terraform!Parts /\ DOMAIN backup = Terraform!Parts
    /\ DOMAIN tx = TerraformFields /\ DOMAIN tx.plan = Terraform!Parts
    /\ cmd \in 0..MaxCommands /\ edits \in Nat
    /\ pc # "idle" => cmd # 0
    /\ pc \in TerraformInside => dir = cmd
    /\ pc \in TerraformFront => dir = 0

\* Lock, providers, marker and approval a command may begin with.
TerraformCoherent(fs, doc) ==
    IF doc = NoDoc THEN fs["marker"] = NoFile /\ fs["providers"] = NoFile
    ELSE /\ doc.source = 0
         /\ \A p \in Terraform!Parts :
                fs[p] # NoFile /\ fs[p].body = Terraform!Body(p, doc)

\* A part that no rollback has reached.
TerraformForward(p) ==
    /\ project[p] = IF p \in tx.published THEN Terraform!Ours(p)
                    ELSE IF p \in tx.moved THEN NoFile ELSE tx.plan[p]
    /\ backup[p] = IF p \in tx.moved THEN tx.plan[p] ELSE NoFile
    /\ p \in tx.moved => tx.plan[p] # NoFile
    /\ p \in tx.published /\ p \notin tx.moved => tx.plan[p] = NoFile

TerraformAsPlanned == \A p \in Terraform!Parts : project[p] = tx.plan[p]

TerraformTarget == tx.target \in [selection : TerraformVersions, source : {0}]

TerraformUpdated ==
    /\ TerraformTarget /\ approval = tx.target
    /\ \A p \in Terraform!Parts : project[p] = Terraform!Ours(p)

\* Before the directory exists.
TerraformAtFront ==
    /\ pc \in TerraformFront =>
           /\ TerraformAsPlanned /\ approval = tx.doc /\ tx.source = 0
           /\ tx.mode = "certain" /\ tx.moved = {} /\ tx.published = {}
    /\ pc \in {"inspect", "select"} => TerraformTarget

\* Up to the rollback.
TerraformAtCommit ==
    /\ pc \in TerraformCommit =>
           /\ TerraformTarget /\ tx.mode = "certain"
           /\ \A p \in Terraform!Parts : TerraformForward(p)
           /\ approval = IF "approval" \in tx.published THEN tx.target ELSE tx.doc
    /\ pc \in {"stage", "verify", "backup"} => tx.published = {}
    /\ pc = "backup" =>
           todo \in {<<"marker", "lock", "providers">>, <<"lock", "providers">>, <<"providers">>}
    /\ pc = "publish" => todo \in {<<"lock", "providers">>, <<"providers">>}

TerraformUndoList == <<"providers", "marker", "lock">>

\* What the rollback has behind it, has in hand, and has before it.
TerraformUndone(p) == tx.mode = "certain" => project[p] = tx.plan[p]
TerraformInHand(p) ==
    /\ pc = "rbRemove" => TerraformForward(p)
    /\ pc = "rbRestore" /\ p \notin tx.moved => TerraformUndone(p)

TerraformAtUndo ==
    /\ pc \in TerraformUndo \cup {"rbSync"} => (tx.mode = "certain" => approval = tx.doc)
    /\ pc \in TerraformUndo =>
           \/ /\ todo = TerraformUndoList
              /\ TerraformInHand("providers")
              /\ TerraformForward("marker") /\ TerraformForward("lock")
           \/ /\ todo = <<"marker", "lock">>
              /\ TerraformUndone("providers") /\ TerraformInHand("marker")
              /\ TerraformForward("lock")
           \/ /\ todo = <<"lock">>
              /\ TerraformUndone("providers") /\ TerraformUndone("marker")
              /\ TerraformInHand("lock")
    /\ pc = "rbSync" => \A p \in Terraform!Parts : TerraformUndone(p)

\* The end: everything is updated, or everything is as it was.
TerraformAtEnd ==
    pc = "removeAll" =>
        TerraformUpdated \/ (TerraformAsPlanned /\ approval = tx.doc)

TerraformLabels ==
    TerraformAtFront /\ TerraformAtCommit /\ TerraformAtUndo /\ TerraformAtEnd

\* What an observer sees: the project, or what the journal leads back to.
TerraformGround ==
    /\ source = 0
    /\ dir = 0 => /\ TerraformCoherent(project, approval)
                  /\ \A p \in Terraform!Parts : backup[p] = NoFile
    /\ dir # 0 => TerraformCoherent(tx.plan, tx.doc) /\ tx.source = 0

TerraformUntouched == TerraformGround /\ TerraformLabels

TerraformInv == TerraformTypes /\ (edits = 0 => TerraformUntouched)

-----------------------------------------------------------------------------
(* Terraform: every step keeps the invariant                               *)

\* The loops of the commit and of the rollback, part by part.
LEMMA TerraformLists ==
    /\ Head(<<"marker", "lock", "providers">>) = "marker"
    /\ Tail(<<"marker", "lock", "providers">>) = <<"lock", "providers">>
    /\ Head(<<"lock", "providers">>) = "lock" /\ Tail(<<"lock", "providers">>) = <<"providers">>
    /\ Head(<<"providers">>) = "providers" /\ Tail(<<"providers">>) = <<>>
    /\ Head(TerraformUndoList) = "providers"
    /\ Tail(TerraformUndoList) = <<"marker", "lock">>
    /\ Head(<<"marker", "lock">>) = "marker" /\ Tail(<<"marker", "lock">>) = <<"lock">>
    /\ Head(<<"lock">>) = "lock" /\ Tail(<<"lock">>) = <<>>
    /\ <<"lock", "providers">> # <<>> /\ <<"providers">> # <<>>
    /\ <<"marker", "lock">> # <<>> /\ <<"lock">> # <<>>
    /\ TerraformUndoList # <<"marker", "lock">> /\ TerraformUndoList # <<"lock">>
    /\ <<"marker", "lock">> # <<"lock">>
  BY DEF TerraformUndoList

\* The parts by name.
LEMMA TerraformPartNames ==
    /\ "lock" \in Terraform!Parts /\ "providers" \in Terraform!Parts
    /\ "marker" \in Terraform!Parts
    /\ \A p \in Terraform!Parts : p \in {"lock", "providers", "marker"}
  BY DEF Terraform!Parts, Terraform!Controls

\* What the current command publishes is a file with the contents its
\* approval asks for.
LEMMA TerraformOursIsFile ==
    ASSUME cmd \in 0..MaxCommands, TerraformTarget, NEW p \in Terraform!Parts
    PROVE  /\ Terraform!Ours(p) # NoFile
           /\ Terraform!Ours(p).body = Terraform!Body(p, tx.target)
  <1>1. /\ tx.target.selection \in TerraformVersions /\ tx.target.source = 0
    BY DEF TerraformTarget
  <1>2. Terraform!Body(p, tx.target) \in {<<v>> : v \in TerraformVersions}
            \cup (TerraformVersions \X Nat)
    BY <1>1 DEF Terraform!Body
  <1>3. Terraform!Ours(p) = [by |-> cmd, body |-> Terraform!Body(p, tx.target)]
    BY DEF Terraform!Ours
  <1>4. cmd \in Nat
    BY BoundsAssumption
  <1> QED BY <1>2, <1>3, <1>4, TerraformAssumption

\* The part of the invariant that edits do not disturb.
LEMMA TerraformTypesStep ==
    ASSUME TerraformTypes, Terraform!Next \/ UNCHANGED vars
    PROVE  TerraformTypes'
  <1> USE BoundsAssumption DEF TerraformTypes, TerraformFields, TerraformCommit,
          TerraformUndo, TerraformInside, TerraformFront, Terraform!Go,
          Terraform!disk, Terraform!user, Terraform!GivesUp, Terraform!Fails
  <1>1. CASE Terraform!Begin
    <2>1. cmd' \in 0..MaxCommands /\ cmd' # 0
      BY <1>1 DEF Terraform!Begin
    <2>2. DOMAIN tx' = TerraformFields /\ DOMAIN tx'.plan = Terraform!Parts
      BY <1>1 DEF Terraform!Begin, Terraform!NoTx
    <2> QED
      BY <1>1, <2>1, <2>2 DEF Terraform!Begin, Terraform!Admissible, Terraform!NoJournal
  <1>2. CASE Terraform!Resolve
    BY <1>2 DEF Terraform!Resolve
  <1>3. CASE Terraform!Inspect
    BY <1>3 DEF Terraform!Inspect
  <1>4. CASE Terraform!Commit
    BY <1>4 DEF Terraform!Commit, Terraform!beginTerraformProjectTransaction
  <1>5. CASE Terraform!Stage
    BY <1>5 DEF Terraform!Stage
  <1>6. CASE Terraform!VerifyPlan \/ Terraform!CheckBackup
    BY <1>6 DEF Terraform!VerifyPlan, Terraform!CheckBackup
  <1>7. CASE Terraform!BackUp
    BY <1>7 DEF Terraform!BackUp
  <1>8. CASE Terraform!Publish
    BY <1>8 DEF Terraform!Publish
  <1>9. CASE Terraform!PublishMetadata
    BY <1>9 DEF Terraform!PublishMetadata
  <1>10. CASE Terraform!Approve
    BY <1>10 DEF Terraform!Approve
  <1>11. CASE Terraform!Approved
    BY <1>11 DEF Terraform!Approved
  <1>12. CASE Terraform!RollBackApproval
    BY <1>12 DEF Terraform!RollBackApproval, Terraform!Uncertain
  <1>13. CASE Terraform!RemovePublished
    BY <1>13 DEF Terraform!RemovePublished, Terraform!Uncertain
  <1>14. CASE Terraform!Restore
    BY <1>14 DEF Terraform!Restore, Terraform!Uncertain
  <1>15. CASE Terraform!RolledBack
    BY <1>15 DEF Terraform!RolledBack
  <1>16. CASE Terraform!RemoveAll
    BY <1>16 DEF Terraform!RemoveAll
  <1>17. CASE Terraform!Close \/ Terraform!Kill \/ Terraform!ClearStaleLock
    BY <1>17 DEF Terraform!Close, Terraform!Kill, Terraform!ClearStaleLock
  <1>18. CASE Terraform!Edit
    BY <1>18 DEF Terraform!Edit
  <1>19. CASE UNCHANGED vars
    BY <1>19 DEF vars, common, controls
  <1> QED BY <1>1, <1>2, <1>3, <1>4, <1>5, <1>6, <1>7, <1>8, <1>9, <1>10, <1>11,
       <1>12, <1>13, <1>14, <1>15, <1>16, <1>17, <1>18, <1>19 DEF Terraform!Next

\* What the steps do to what an observer sees: it changes only with the
\* directory, and the frozen pair stays while it exists.
LEMMA TerraformChanges ==
    ASSUME TerraformTypes, edits' = 0, Terraform!Next \/ UNCHANGED vars
    PROVE  /\ edits = 0 /\ source' = source
           /\ dir' = dir \/ Terraform!Commit \/ Terraform!RemoveAll
           /\ dir = 0 /\ dir' = 0 => UNCHANGED <<project, approval, backup>>
           /\ dir # 0 => /\ tx'.plan = tx.plan
                         /\ tx'.doc = tx.doc /\ tx'.source = tx.source
  <1> USE DEF TerraformTypes, TerraformFields, TerraformCommit, TerraformUndo,
          TerraformInside, Terraform!Go, Terraform!disk, Terraform!user,
          Terraform!GivesUp, Terraform!Fails
  <1>1. CASE Terraform!Begin
    BY <1>1 DEF Terraform!Begin, Terraform!Admissible, Terraform!NoJournal
  <1>2. CASE Terraform!Resolve
    BY <1>2 DEF Terraform!Resolve
  <1>3. CASE Terraform!Inspect
    BY <1>3 DEF Terraform!Inspect
  <1>4. CASE Terraform!Commit
    BY <1>4 DEF Terraform!Commit, Terraform!beginTerraformProjectTransaction
  <1>5. CASE Terraform!Stage
    BY <1>5 DEF Terraform!Stage
  <1>6. CASE Terraform!VerifyPlan \/ Terraform!CheckBackup
    BY <1>6 DEF Terraform!VerifyPlan, Terraform!CheckBackup
  <1>7. CASE Terraform!BackUp
    BY <1>7 DEF Terraform!BackUp
  <1>8. CASE Terraform!Publish
    BY <1>8 DEF Terraform!Publish
  <1>9. CASE Terraform!PublishMetadata
    BY <1>9 DEF Terraform!PublishMetadata
  <1>10. CASE Terraform!Approve
    BY <1>10 DEF Terraform!Approve
  <1>11. CASE Terraform!Approved
    BY <1>11 DEF Terraform!Approved
  <1>12. CASE Terraform!RollBackApproval
    BY <1>12 DEF Terraform!RollBackApproval, Terraform!Uncertain
  <1>13. CASE Terraform!RemovePublished
    BY <1>13 DEF Terraform!RemovePublished, Terraform!Uncertain
  <1>14. CASE Terraform!Restore
    BY <1>14 DEF Terraform!Restore, Terraform!Uncertain
  <1>15. CASE Terraform!RolledBack
    BY <1>15 DEF Terraform!RolledBack
  <1>16. CASE Terraform!RemoveAll
    BY <1>16 DEF Terraform!RemoveAll
  <1>17. CASE Terraform!Close \/ Terraform!Kill \/ Terraform!ClearStaleLock
    BY <1>17 DEF Terraform!Close, Terraform!Kill, Terraform!ClearStaleLock
  <1>18. CASE Terraform!Edit
    BY <1>18 DEF Terraform!Edit
  <1>19. CASE UNCHANGED vars
    BY <1>19 DEF vars, common, controls
  <1> QED BY <1>1, <1>2, <1>3, <1>4, <1>5, <1>6, <1>7, <1>8, <1>9, <1>10, <1>11,
       <1>12, <1>13, <1>14, <1>15, <1>16, <1>17, <1>18, <1>19 DEF Terraform!Next

\* Coherence depends on the parts only.
LEMMA TerraformCoherentSame ==
    ASSUME NEW f, NEW g, NEW d, \A p \in Terraform!Parts : f[p] = g[p],
           TerraformCoherent(f, d)
    PROVE  TerraformCoherent(g, d)
  BY TerraformPartNames DEF TerraformCoherent

\* An updated project is coherent with its approval.
LEMMA TerraformUpdatedCoherent ==
    ASSUME TerraformTypes, TerraformUpdated
    PROVE  TerraformCoherent(project, approval) /\ approval # NoDoc
  <1>1. /\ tx.target.source = 0 /\ tx.target \in [selection : TerraformVersions, source : Nat]
    BY DEF TerraformUpdated, TerraformTarget
  <1>2. approval # NoDoc /\ approval.source = 0
    BY <1>1, TerraformAssumption DEF TerraformUpdated
  <1>3. ASSUME NEW p \in Terraform!Parts
        PROVE  project[p] # NoFile /\ project[p].body = Terraform!Body(p, approval)
    BY TerraformOursIsFile DEF TerraformUpdated, TerraformTypes
  <1> QED BY <1>2, <1>3 DEF TerraformCoherent

\* The steps that make and remove the directory.
LEMMA TerraformDirectory ==
    ASSUME TerraformTypes, TerraformUntouched, Terraform!Commit \/ Terraform!RemoveAll
    PROVE  /\ dir = 0 /\ dir' # 0 =>
                  /\ UNCHANGED <<tx, project, approval>> /\ TerraformAsPlanned
                  /\ approval = tx.doc /\ tx.source = 0
           /\ dir # 0 /\ dir' = 0 =>
                  /\ UNCHANGED <<tx, project, approval>>
                  /\ backup' = Terraform!Nothing
                  /\ TerraformUpdated \/ (TerraformAsPlanned /\ approval = tx.doc)
  <1>1. CASE Terraform!Commit
    BY <1>1 DEF Terraform!Commit, Terraform!GivesUp, Terraform!Go, Terraform!disk,
       TerraformUntouched, TerraformLabels, TerraformAtFront, TerraformFront,
       TerraformTypes
  <1>2. CASE Terraform!RemoveAll
    BY <1>2 DEF Terraform!RemoveAll, Terraform!Go,
       TerraformUntouched, TerraformLabels, TerraformAtEnd, TerraformTypes, TerraformInside
  <1> QED BY <1>1, <1>2

\* The project, or what the journal leads back to, stays coherent.
LEMMA TerraformGroundStep ==
    ASSUME TerraformTypes, TerraformTypes', edits' = 0, TerraformUntouched,
           Terraform!Next \/ UNCHANGED vars
    PROVE  TerraformGround'
  <1>0. /\ edits = 0 /\ source' = source
        /\ dir' = dir \/ Terraform!Commit \/ Terraform!RemoveAll
        /\ dir = 0 /\ dir' = 0 => UNCHANGED <<project, approval, backup>>
        /\ dir # 0 => /\ tx'.plan = tx.plan
                      /\ tx'.doc = tx.doc /\ tx'.source = tx.source
    BY TerraformChanges
  <1>a. /\ source = 0
        /\ dir = 0 => /\ TerraformCoherent(project, approval)
                      /\ \A p \in Terraform!Parts : backup[p] = NoFile
        /\ dir # 0 => TerraformCoherent(tx.plan, tx.doc) /\ tx.source = 0
    BY DEF TerraformUntouched, TerraformGround
  <1>1. CASE dir = 0 /\ dir' = 0
    BY <1>0, <1>a, <1>1 DEF TerraformGround
  <1>2. CASE dir # 0 /\ dir' # 0
    BY <1>0, <1>a, <1>2 DEF TerraformGround
  <1>3. CASE dir = 0 /\ dir' # 0
    <2>1. /\ UNCHANGED <<tx, project, approval>> /\ TerraformAsPlanned
          /\ approval = tx.doc /\ tx.source = 0
      BY <1>0, <1>3, TerraformDirectory
    <2>2. TerraformCoherent(tx.plan, tx.doc)
      BY <1>a, <1>3, <2>1, TerraformCoherentSame DEF TerraformAsPlanned
    <2> QED BY <1>0, <1>a, <1>3, <2>1, <2>2 DEF TerraformGround
  <1>4. CASE dir # 0 /\ dir' = 0
    <2>1. /\ UNCHANGED <<tx, project, approval>>
          /\ backup' = Terraform!Nothing
          /\ TerraformUpdated \/ (TerraformAsPlanned /\ approval = tx.doc)
      BY <1>0, <1>4, TerraformDirectory
    <2>2. TerraformCoherent(project, approval)
      <3>1. CASE TerraformAsPlanned /\ approval = tx.doc
        BY <1>a, <1>4, <3>1, TerraformCoherentSame DEF TerraformAsPlanned
      <3>2. CASE TerraformUpdated
        BY <3>2, TerraformUpdatedCoherent
      <3> QED BY <2>1, <3>1, <3>2
    <2>3. \A p \in Terraform!Parts : backup'[p] = NoFile
      BY <2>1 DEF Terraform!Nothing
    <2> QED BY <1>0, <1>a, <1>4, <2>1, <2>2, <2>3 DEF TerraformGround
  <1> QED BY <1>1, <1>2, <1>3, <1>4

\* Between two commands, and on the way out, the labels say nothing.
LEMMA TerraformQuiet ==
    ASSUME pc' \in {"idle", "close"}
    PROVE  TerraformLabels'
  BY DEF TerraformLabels, TerraformAtFront, TerraformAtCommit, TerraformAtUndo,
     TerraformAtEnd, TerraformFront, TerraformCommit, TerraformUndo

\* A step that changes nothing the labels speak of.
LEMMA TerraformSame ==
    ASSUME UNCHANGED <<tx, project, backup, approval, cmd>>
    PROVE  /\ \A p : TerraformForward(p)' <=> TerraformForward(p)
           /\ \A p : TerraformUndone(p)' <=> TerraformUndone(p)
           /\ TerraformTarget' <=> TerraformTarget
           /\ TerraformUpdated' <=> TerraformUpdated
           /\ TerraformAsPlanned' <=> TerraformAsPlanned
  BY DEF TerraformForward, TerraformUndone, TerraformTarget, TerraformUpdated,
     TerraformAsPlanned, Terraform!Ours

\* A call of the commit that fails leaves everything to the rollback.
LEMMA TerraformFailing ==
    ASSUME TerraformLabels, NEW from \in TerraformCommit, Terraform!Fails(from)
    PROVE  TerraformLabels'
  <1>1. UNCHANGED <<tx, project, backup, approval, cmd>> /\ pc' = "rbApproval" /\ pc = from
    BY DEF Terraform!Fails, Terraform!Go, Terraform!disk
  <1> QED BY <1>1, TerraformSame DEF TerraformLabels, TerraformAtFront, TerraformAtCommit,
       TerraformAtUndo, TerraformAtEnd, TerraformFront, TerraformCommit, TerraformUndo

\* Up to the directory nothing of the project changes.
LEMMA TerraformFrontStep ==
    ASSUME TerraformTypes, TerraformUntouched,
           \/ Terraform!Begin \/ Terraform!Resolve \/ Terraform!Inspect \/ Terraform!Commit
    PROVE  TerraformLabels'
  <1> USE DEF TerraformLabels, TerraformAtFront, TerraformAtCommit, TerraformAtUndo,
          TerraformAtEnd, TerraformFront, TerraformCommit, TerraformUndo, Terraform!Go,
          Terraform!disk, Terraform!user
  <1>0. CASE pc' = "close"
    BY <1>0, TerraformQuiet
  <1>1. CASE Terraform!Begin /\ pc' # "close"
    <2>1. tx' = [Terraform!NoTx EXCEPT !.plan = project, !.source = source, !.doc = approval]
      BY <1>1 DEF Terraform!Begin
    <2>2. /\ tx'.plan = project /\ tx'.source = source /\ tx'.doc = approval
          /\ tx'.moved = {} /\ tx'.published = {} /\ tx'.mode = "certain"
      BY <2>1 DEF Terraform!NoTx
    <2>3. pc' = "resolve" /\ UNCHANGED <<project, approval, source>> /\ source = 0
      BY <1>1 DEF Terraform!Begin, TerraformUntouched, TerraformGround
    <2> QED BY <2>2, <2>3 DEF TerraformAsPlanned
  <1>2. CASE Terraform!Resolve /\ pc' # "close"
    <2>1. /\ pc = "resolve" /\ pc' = "inspect" /\ UNCHANGED <<project, approval>>
      BY <1>2 DEF Terraform!Resolve, Terraform!GivesUp
    <2>2. PICK v \in TerraformVersions :
              tx' = [tx EXCEPT !.target = [selection |-> v, source |-> tx.source]]
      BY <1>2 DEF Terraform!Resolve, Terraform!GivesUp
    <2>3. /\ tx'.plan = tx.plan /\ tx'.source = tx.source /\ tx'.doc = tx.doc
          /\ tx'.moved = tx.moved /\ tx'.published = tx.published
          /\ tx'.mode = tx.mode /\ tx'.target = [selection |-> v, source |-> tx.source]
      BY <2>2 DEF TerraformTypes, TerraformFields
    <2>4. tx.source = 0 /\ TerraformAsPlanned /\ approval = tx.doc
          /\ tx.mode = "certain" /\ tx.moved = {} /\ tx.published = {}
      BY <2>1 DEF TerraformUntouched
    <2>5. TerraformTarget' /\ TerraformAsPlanned'
      BY <2>1, <2>3, <2>4 DEF TerraformTarget, TerraformAsPlanned
    <2> QED BY <2>1, <2>3, <2>4, <2>5
  <1>3. CASE Terraform!Inspect /\ pc' # "close"
    <2>1. /\ pc = "inspect" /\ pc' = "select"
          /\ UNCHANGED <<tx, project, backup, approval, cmd>>
      BY <1>3 DEF Terraform!Inspect, Terraform!GivesUp
    <2> QED BY <2>1, TerraformSame DEF TerraformUntouched
  <1>4. CASE Terraform!Commit /\ pc' # "close"
    <2>1. /\ pc = "select" /\ pc' = "stage"
          /\ UNCHANGED <<tx, project, backup, approval, cmd>> /\ dir = 0
      BY <1>4 DEF Terraform!Commit, Terraform!GivesUp, TerraformTypes
    <2>2. /\ TerraformAsPlanned /\ TerraformTarget /\ tx.moved = {} /\ tx.published = {}
          /\ tx.mode = "certain" /\ approval = tx.doc
          /\ \A p \in Terraform!Parts : backup[p] = NoFile
      BY <2>1 DEF TerraformUntouched, TerraformGround
    <2>3. \A p \in Terraform!Parts : TerraformForward(p)
      BY <2>2 DEF TerraformForward, TerraformAsPlanned
    <2> QED BY <2>1, <2>2, <2>3, TerraformSame
  <1> QED BY <1>0, <1>1, <1>2, <1>3, <1>4

\* The calls of the commit that change no part.
LEMMA TerraformCheckStep ==
    ASSUME TerraformTypes, TerraformLabels,
           Terraform!Stage \/ Terraform!VerifyPlan \/ Terraform!CheckBackup
    PROVE  TerraformLabels'
  <1>0. CASE pc' = "close"
    BY <1>0, TerraformQuiet
  <1>1. CASE Terraform!Fails("verify") \/ Terraform!Fails("checkBackup")
    BY <1>1, TerraformFailing DEF TerraformCommit
  <1>2. CASE pc' # "close" /\ ~Terraform!Fails("verify") /\ ~Terraform!Fails("checkBackup")
    <2>1. /\ UNCHANGED <<tx, project, backup, approval, cmd>>
          /\ \/ pc = "stage" /\ pc' \in {"stage", "verify"}
             \/ pc = "verify" /\ pc' = "backup" /\ todo' = <<"marker", "lock", "providers">>
             \/ pc = "checkBackup" /\ pc' = "publish" /\ todo' = <<"lock", "providers">>
      BY <1>2 DEF Terraform!Stage, Terraform!VerifyPlan, Terraform!CheckBackup,
         Terraform!Go, Terraform!disk
    <2> QED
      BY <2>1, TerraformSame DEF TerraformLabels, TerraformAtFront, TerraformAtCommit,
         TerraformAtUndo, TerraformAtEnd, TerraformFront, TerraformCommit, TerraformUndo
  <1> QED BY <1>0, <1>1, <1>2

\* The fields of the transaction a step that moves part p aside leaves.
LEMMA TerraformMoving ==
    ASSUME TerraformTypes, NEW p, tx' = [tx EXCEPT !.moved = @ \cup {p}]
    PROVE  /\ tx'.moved = tx.moved \cup {p} /\ tx'.published = tx.published
           /\ tx'.plan = tx.plan /\ tx'.doc = tx.doc /\ tx'.mode = tx.mode
           /\ tx'.target = tx.target
  BY DEF TerraformTypes, TerraformFields

\* ... and one that publishes.
LEMMA TerraformPublishing ==
    ASSUME TerraformTypes, NEW S, tx' = [tx EXCEPT !.published = @ \cup S]
    PROVE  /\ tx'.published = tx.published \cup S /\ tx'.moved = tx.moved
           /\ tx'.plan = tx.plan /\ tx'.doc = tx.doc /\ tx'.mode = tx.mode
           /\ tx'.target = tx.target
  BY DEF TerraformTypes, TerraformFields

\* One part is moved into the backup.
LEMMA TerraformBackUpStep ==
    ASSUME TerraformTypes, TerraformLabels, Terraform!BackUp
    PROVE  TerraformLabels'
  <1>1. CASE Terraform!Fails("backup")
    BY <1>1, TerraformFailing DEF TerraformCommit
  <1>2. CASE ~Terraform!Fails("backup")
    <2> PICK p : p = Head(todo) OBVIOUS
    <2>1. /\ pc = "backup" /\ UNCHANGED <<approval, cmd>>
          /\ backup' = [backup EXCEPT ![p] = tx.plan[p]]
          /\ \/ tx.plan[p] = NoFile /\ UNCHANGED <<project, tx>>
             \/ /\ tx.plan[p] # NoFile /\ project[p] = tx.plan[p] /\ backup[p] = NoFile
                /\ project' = [project EXCEPT ![p] = NoFile]
                /\ tx' = [tx EXCEPT !.moved = @ \cup {p}]
          /\ todo' = Tail(todo)
          /\ pc' = IF todo' = <<>> THEN "checkBackup" ELSE "backup"
      BY <1>2 DEF Terraform!BackUp, Terraform!Go
    <2>2. /\ TerraformTarget /\ tx.mode = "certain" /\ tx.published = {}
          /\ \A q \in Terraform!Parts : TerraformForward(q)
          /\ approval = tx.doc
      BY <2>1 DEF TerraformLabels, TerraformAtCommit, TerraformCommit
    <2>3. /\ p \in Terraform!Parts
          /\ \/ pc' = "backup" /\ todo' \in {<<"lock", "providers">>, <<"providers">>}
             \/ pc' = "checkBackup"
      BY <2>1, TerraformLists, TerraformPartNames DEF TerraformLabels, TerraformAtCommit
    <2>4. /\ tx'.published = {} /\ tx'.doc = tx.doc /\ tx'.mode = tx.mode
          /\ tx'.target = tx.target /\ tx'.plan = tx.plan
          /\ \/ tx.plan[p] = NoFile /\ tx'.moved = tx.moved
             \/ tx.plan[p] # NoFile /\ tx'.moved = tx.moved \cup {p}
      BY <2>1, <2>2, TerraformMoving
    <2>5. ASSUME NEW q \in Terraform!Parts PROVE TerraformForward(q)'
      BY <2>1, <2>2, <2>3, <2>4 DEF TerraformForward, TerraformTypes
    <2>6. TerraformTarget' /\ approval' = tx'.doc
      BY <2>1, <2>2, <2>4 DEF TerraformTarget
    <2> QED
      BY <2>2, <2>3, <2>4, <2>5, <2>6 DEF TerraformLabels, TerraformAtFront,
         TerraformAtCommit, TerraformAtUndo, TerraformAtEnd, TerraformFront,
         TerraformCommit, TerraformUndo
  <1> QED BY <1>1, <1>2

\* A part comes under its free name: all parts are still accounted for.
LEMMA TerraformPlaced ==
    ASSUME TerraformTypes, NEW p \in Terraform!Parts, NEW S,
           TerraformTarget, \A q \in Terraform!Parts : TerraformForward(q),
           project[p] = NoFile,
           project' = [project EXCEPT ![p] = Terraform!Ours(p)],
           tx' = [tx EXCEPT !.published = @ \cup S],
           \A q \in Terraform!Parts : q \in S <=> q = p,
           UNCHANGED <<backup, cmd>>
    PROVE  (\A q \in Terraform!Parts : TerraformForward(q)') /\ TerraformTarget'
  <1>1. /\ tx'.published = tx.published \cup S /\ tx'.moved = tx.moved
        /\ tx'.plan = tx.plan /\ tx'.target = tx.target
    BY TerraformPublishing
  <1>2. \A q \in Terraform!Parts : Terraform!Ours(q)' = Terraform!Ours(q)
    BY <1>1 DEF Terraform!Ours
  <1>3. Terraform!Ours(p) # NoFile
    BY TerraformOursIsFile DEF TerraformTypes
  <1>4. ASSUME NEW q \in Terraform!Parts PROVE TerraformForward(q)'
    BY <1>1, <1>2, <1>3 DEF TerraformForward, TerraformTypes
  <1> QED BY <1>1, <1>4 DEF TerraformTarget

\* Lock and providers are moved under their names.
LEMMA TerraformPublishStep ==
    ASSUME TerraformTypes, TerraformLabels, Terraform!Publish
    PROVE  TerraformLabels'
  <1>1. CASE Terraform!Fails("publish")
    BY <1>1, TerraformFailing DEF TerraformCommit
  <1>2. CASE ~Terraform!Fails("publish")
    <2> PICK p : p = Head(todo) OBVIOUS
    <2>1. /\ pc = "publish" /\ UNCHANGED <<approval, backup, cmd>>
          /\ project[p] = NoFile
          /\ project' = [project EXCEPT ![p] = Terraform!Ours(p)]
          /\ tx' = [tx EXCEPT !.published = @ \cup {p}]
          /\ todo' = Tail(todo)
          /\ pc' = IF todo' = <<>> THEN "metadata" ELSE "publish"
      BY <1>2 DEF Terraform!Publish, Terraform!Go
    <2>2. /\ TerraformTarget /\ tx.mode = "certain"
          /\ \A q \in Terraform!Parts : TerraformForward(q)
          /\ approval = IF "approval" \in tx.published THEN tx.target ELSE tx.doc
      BY <2>1 DEF TerraformLabels, TerraformAtCommit, TerraformCommit
    <2>3. /\ p \in {"lock", "providers"} /\ p \in Terraform!Parts
          /\ \/ pc' = "publish" /\ todo' \in {<<"providers">>}
             \/ pc' = "metadata"
      BY <2>1, TerraformLists, TerraformPartNames DEF TerraformLabels, TerraformAtCommit
    <2>4. /\ tx'.published = tx.published \cup {p} /\ tx'.doc = tx.doc
          /\ tx'.mode = tx.mode /\ tx'.target = tx.target
      BY <2>1, TerraformPublishing
    <2>5. (\A q \in Terraform!Parts : TerraformForward(q)') /\ TerraformTarget'
      <3>1. PICK S : S = {p}
        OBVIOUS
      <3>2. tx' = [tx EXCEPT !.published = @ \cup S]
        BY <2>1, <3>1
      <3>3. \A q \in Terraform!Parts : q \in S <=> q = p
        BY <3>1
      <3> QED BY <2>1, <2>2, <2>3, <3>2, <3>3, TerraformPlaced
    <2>6. approval' = IF "approval" \in tx'.published THEN tx'.target ELSE tx'.doc
      BY <2>1, <2>2, <2>3, <2>4
    <2> QED
      BY <2>2, <2>3, <2>4, <2>5, <2>6 DEF TerraformLabels, TerraformAtFront,
         TerraformAtCommit, TerraformAtUndo, TerraformAtEnd, TerraformFront,
         TerraformCommit, TerraformUndo
  <1> QED BY <1>1, <1>2

\* The marker is linked, or only its directory made.
LEMMA TerraformMetadataStep ==
    ASSUME TerraformTypes, TerraformLabels, Terraform!PublishMetadata
    PROVE  TerraformLabels'
  <1>1. /\ pc = "metadata" /\ pc' \in {"approve", "rbApproval"}
        /\ UNCHANGED <<approval, backup, cmd>>
    BY DEF Terraform!PublishMetadata, Terraform!Go
  <1>2. /\ TerraformTarget /\ tx.mode = "certain"
        /\ \A q \in Terraform!Parts : TerraformForward(q)
        /\ approval = IF "approval" \in tx.published THEN tx.target ELSE tx.doc
    BY <1>1 DEF TerraformLabels, TerraformAtCommit, TerraformCommit
  <1>3. PICK made \in SUBSET {"directory"} :
            \/ /\ project["marker"] = NoFile
               /\ project' = [project EXCEPT !["marker"] = Terraform!Ours("marker")]
               /\ tx' = [tx EXCEPT !.published = @ \cup made \cup {"marker"}]
            \/ tx' = [tx EXCEPT !.published = @ \cup made] /\ UNCHANGED project
    BY DEF Terraform!PublishMetadata
  <1>4. "directory" \notin Terraform!Parts
    BY TerraformPartNames
  <1>5. CASE /\ project["marker"] = NoFile
             /\ project' = [project EXCEPT !["marker"] = Terraform!Ours("marker")]
             /\ tx' = [tx EXCEPT !.published = @ \cup made \cup {"marker"}]
    <2>1. PICK S : S = made \cup {"marker"}
      OBVIOUS
    <2>2. tx' = [tx EXCEPT !.published = @ \cup S]
      BY <1>5, <2>1
    <2>3. \A q \in Terraform!Parts : q \in S <=> q = "marker"
      BY <1>4, <2>1
    <2>4. (\A q \in Terraform!Parts : TerraformForward(q)') /\ TerraformTarget'
      BY <1>1, <1>2, <1>5, <2>2, <2>3, TerraformPlaced, TerraformPartNames
    <2>5. /\ tx'.published = tx.published \cup S /\ tx'.doc = tx.doc
          /\ tx'.mode = tx.mode /\ tx'.target = tx.target
      BY <2>2, TerraformPublishing
    <2>6. approval' = IF "approval" \in tx'.published THEN tx'.target ELSE tx'.doc
      BY <1>1, <1>2, <2>1, <2>5
    <2> QED
      BY <1>1, <1>2, <2>4, <2>5, <2>6 DEF TerraformLabels, TerraformAtFront,
         TerraformAtCommit, TerraformAtUndo, TerraformAtEnd, TerraformFront,
         TerraformCommit, TerraformUndo
  <1>6. CASE tx' = [tx EXCEPT !.published = @ \cup made] /\ UNCHANGED project
    <2>1. /\ tx'.published = tx.published \cup made /\ tx'.moved = tx.moved
          /\ tx'.plan = tx.plan /\ tx'.doc = tx.doc /\ tx'.mode = tx.mode
          /\ tx'.target = tx.target
      BY <1>6, TerraformPublishing
    <2>2. \A q \in Terraform!Parts : q \in tx'.published <=> q \in tx.published
      BY <1>4, <2>1
    <2>3. ASSUME NEW q \in Terraform!Parts PROVE TerraformForward(q)'
      BY <1>1, <1>2, <1>6, <2>1, <2>2 DEF TerraformForward, Terraform!Ours
    <2>4. /\ approval' = IF "approval" \in tx'.published THEN tx'.target ELSE tx'.doc
          /\ TerraformTarget'
      BY <1>1, <1>2, <2>1 DEF TerraformTarget
    <2> QED
      BY <1>1, <1>2, <2>1, <2>3, <2>4 DEF TerraformLabels, TerraformAtFront,
         TerraformAtCommit, TerraformAtUndo, TerraformAtEnd, TerraformFront,
         TerraformCommit, TerraformUndo
  <1> QED BY <1>3, <1>5, <1>6

\* The approval, and the last look before the directory goes.
LEMMA TerraformApproveStep ==
    ASSUME TerraformTypes, TerraformLabels, Terraform!Approve \/ Terraform!Approved
    PROVE  TerraformLabels'
  <1>0. CASE pc' = "close"
    BY <1>0, TerraformQuiet
  <1>1. CASE Terraform!Fails("approve") \/ Terraform!Fails("approved")
    BY <1>1, TerraformFailing DEF TerraformCommit
  <1>2. CASE Terraform!Approve /\ ~Terraform!Fails("approve")
    <2>1. /\ pc = "approve" /\ pc' \in {"approved", "rbApproval"}
          /\ UNCHANGED <<project, backup, cmd>>
          /\ approval' = tx.target
          /\ tx' = [tx EXCEPT !.published = @ \cup {"approval"}]
      BY <1>2 DEF Terraform!Approve, Terraform!WriteState, Terraform!Go
    <2>2. /\ TerraformTarget /\ tx.mode = "certain"
          /\ \A q \in Terraform!Parts : TerraformForward(q)
      BY <2>1 DEF TerraformLabels, TerraformAtCommit, TerraformCommit
    <2>3. /\ tx'.published = tx.published \cup {"approval"} /\ tx'.moved = tx.moved
          /\ tx'.plan = tx.plan /\ tx'.doc = tx.doc /\ tx'.mode = tx.mode
          /\ tx'.target = tx.target
      BY <2>1, TerraformPublishing
    <2>4. \A q \in Terraform!Parts : q \in tx'.published <=> q \in tx.published
      BY <2>3, TerraformPartNames
    <2>5. ASSUME NEW q \in Terraform!Parts PROVE TerraformForward(q)'
      BY <2>1, <2>2, <2>3, <2>4 DEF TerraformForward, Terraform!Ours
    <2>6. TerraformTarget'
      BY <2>2, <2>3 DEF TerraformTarget
    <2> QED
      BY <2>1, <2>2, <2>3, <2>5, <2>6 DEF TerraformLabels, TerraformAtFront,
         TerraformAtCommit, TerraformAtUndo, TerraformAtEnd, TerraformFront,
         TerraformCommit, TerraformUndo
  <1>3. CASE Terraform!Approved /\ ~Terraform!Fails("approved") /\ pc' # "close"
    <2>1. /\ pc = "approved" /\ pc' = "removeAll"
          /\ UNCHANGED <<tx, project, backup, approval, cmd>>
          /\ approval = tx.target /\ \A p \in Terraform!Parts : project[p] = Terraform!Ours(p)
      BY <1>3 DEF Terraform!Approved, Terraform!Go, Terraform!disk,
         Terraform!PublishedIntact, Terraform!StatePublished
    <2>2. TerraformTarget
      BY <2>1 DEF TerraformLabels, TerraformAtCommit, TerraformCommit
    <2>3. TerraformUpdated
      BY <2>1, <2>2 DEF TerraformUpdated
    <2> QED
      BY <2>1, <2>3, TerraformSame DEF TerraformLabels, TerraformAtFront,
         TerraformAtCommit, TerraformAtUndo, TerraformAtEnd, TerraformFront,
         TerraformCommit, TerraformUndo
  <1> QED BY <1>0, <1>1, <1>2, <1>3

\* The fields a step that met an error of the rollback leaves.
LEMMA TerraformUncertain ==
    ASSUME TerraformTypes, Terraform!Uncertain
    PROVE  /\ tx'.published = tx.published /\ tx'.moved = tx.moved
           /\ tx'.plan = tx.plan /\ tx'.doc = tx.doc /\ tx'.mode = "uncertain"
           /\ tx'.target = tx.target
  BY DEF TerraformTypes, TerraformFields, Terraform!Uncertain

\* The rollback starts with the approval.
LEMMA TerraformRollBackApprovalStep ==
    ASSUME TerraformTypes, TerraformLabels, Terraform!RollBackApproval
    PROVE  TerraformLabels'
  <1>1. CASE pc' = "close"
    BY <1>1, TerraformQuiet
  <1>2. CASE pc' # "close"
    <2>1. /\ pc = "rbApproval" /\ pc' = "rbRemove" /\ todo' = TerraformUndoList
          /\ UNCHANGED <<project, backup, cmd>>
      BY <1>2 DEF Terraform!RollBackApproval, Terraform!Go, TerraformUndoList
    <2>2. /\ tx.mode = "certain" /\ \A q \in Terraform!Parts : TerraformForward(q)
          /\ approval = IF "approval" \in tx.published THEN tx.target ELSE tx.doc
      BY <2>1 DEF TerraformLabels, TerraformAtCommit, TerraformCommit
    <2>3. /\ tx'.published = tx.published /\ tx'.moved = tx.moved
          /\ tx'.plan = tx.plan /\ tx'.doc = tx.doc /\ tx'.target = tx.target
          /\ tx'.mode = "certain" => approval' = tx.doc
      <3>1. CASE tx' = tx
        BY <1>2, <2>2, <3>1 DEF Terraform!RollBackApproval, Terraform!WriteState,
           Terraform!Uncertain, TerraformTypes, TerraformFields
      <3>2. CASE Terraform!Uncertain
        BY <3>2, TerraformUncertain
      <3> QED BY <1>2, <3>1, <3>2 DEF Terraform!RollBackApproval
    <2>4. \A q \in Terraform!Parts : TerraformForward(q)'
      BY <2>1, <2>2, <2>3 DEF TerraformForward, Terraform!Ours
    <2> QED
      BY <2>1, <2>3, <2>4, TerraformPartNames DEF TerraformLabels, TerraformAtFront,
         TerraformAtCommit, TerraformAtUndo, TerraformAtEnd, TerraformInHand,
         TerraformFront, TerraformCommit, TerraformUndo
  <1> QED BY <1>1, <1>2

\* A part another one's rollback does not touch keeps its account.
LEMMA TerraformOther ==
    ASSUME NEW q \in Terraform!Parts, project'[q] = project[q], backup'[q] = backup[q],
           tx'.published = tx.published, tx'.moved = tx.moved, tx'.plan = tx.plan,
           tx'.target = tx.target, cmd' = cmd,
           tx'.mode = tx.mode \/ tx'.mode = "uncertain"
    PROVE  /\ TerraformForward(q) => TerraformForward(q)'
           /\ TerraformUndone(q) => TerraformUndone(q)'
  BY DEF TerraformForward, TerraformUndone, Terraform!Ours

\* A published part is taken away again.
LEMMA TerraformRemoveStep ==
    ASSUME TerraformTypes, TerraformLabels, Terraform!RemovePublished
    PROVE  TerraformLabels'
  <1> PICK p : p = Head(todo) OBVIOUS
  <1>1. /\ pc = "rbRemove" /\ pc' = "rbRestore" /\ UNCHANGED <<approval, backup, cmd, todo>>
        /\ pc \in TerraformUndo
    BY DEF Terraform!RemovePublished, Terraform!Go, TerraformUndo
  <1>2. p \in Terraform!Parts /\ TerraformForward(p)
    BY <1>1, TerraformLists, TerraformPartNames DEF TerraformLabels, TerraformAtUndo,
       TerraformInHand
  <1>3. /\ tx'.published = tx.published /\ tx'.moved = tx.moved /\ tx'.plan = tx.plan
        /\ tx'.target = tx.target /\ tx'.doc = tx.doc
        /\ tx'.mode = tx.mode \/ tx'.mode = "uncertain"
    BY TerraformUncertain DEF Terraform!RemovePublished
  <1>4. \A q \in Terraform!Parts \ {p} : project'[q] = project[q] /\ backup'[q] = backup[q]
    BY <1>1 DEF Terraform!RemovePublished, TerraformTypes
  <1>5. TerraformInHand(p)'
    <2>1. CASE UNCHANGED tx
      BY <1>1, <1>2, <2>1, TerraformUncertain DEF Terraform!RemovePublished,
         TerraformInHand, TerraformUndone, TerraformForward, TerraformTypes
    <2>2. CASE Terraform!Uncertain
      BY <1>1, <2>2, TerraformUncertain DEF TerraformInHand, TerraformUndone
    <2> QED BY <2>1, <2>2 DEF Terraform!RemovePublished
  <1>6. ASSUME NEW q \in Terraform!Parts \ {p}
        PROVE  /\ TerraformForward(q) => TerraformForward(q)'
               /\ TerraformUndone(q) => TerraformUndone(q)'
    BY <1>1, <1>3, <1>4, TerraformOther
  <1>7. tx'.mode = "certain" => approval' = tx'.doc
    BY <1>1, <1>3 DEF TerraformLabels, TerraformAtUndo
  <1>8. \/ /\ todo' = TerraformUndoList /\ TerraformInHand("providers")'
           /\ TerraformForward("marker")' /\ TerraformForward("lock")'
        \/ /\ todo' = <<"marker", "lock">>
           /\ TerraformUndone("providers")' /\ TerraformInHand("marker")'
           /\ TerraformForward("lock")'
        \/ /\ todo' = <<"lock">>
           /\ TerraformUndone("providers")' /\ TerraformUndone("marker")'
           /\ TerraformInHand("lock")'
    <2>1. CASE todo = TerraformUndoList
      BY <1>1, <1>5, <1>6, <2>1, TerraformLists, TerraformPartNames
         DEF TerraformLabels, TerraformAtUndo
    <2>2. CASE todo = <<"marker", "lock">>
      BY <1>1, <1>5, <1>6, <2>2, TerraformLists, TerraformPartNames
         DEF TerraformLabels, TerraformAtUndo
    <2>3. CASE todo = <<"lock">>
      BY <1>1, <1>5, <1>6, <2>3, TerraformLists, TerraformPartNames
         DEF TerraformLabels, TerraformAtUndo
    <2> QED BY <1>1, <2>1, <2>2, <2>3 DEF TerraformLabels, TerraformAtUndo
  <1> QED
    BY <1>1, <1>7, <1>8 DEF TerraformLabels, TerraformAtFront, TerraformAtCommit,
       TerraformAtUndo, TerraformAtEnd, TerraformFront, TerraformCommit, TerraformUndo

\* A moved part goes back under its name.
LEMMA TerraformRestoreStep ==
    ASSUME TerraformTypes, TerraformLabels, Terraform!Restore
    PROVE  TerraformLabels'
  <1> PICK p : p = Head(todo) OBVIOUS
  <1>1. /\ pc = "rbRestore" /\ UNCHANGED <<approval, cmd>> /\ pc \in TerraformUndo
        /\ todo' = Tail(todo) /\ pc' = IF todo' = <<>> THEN "rbSync" ELSE "rbRemove"
    BY DEF Terraform!Restore, Terraform!Go, TerraformUndo
  <1>2. p \in Terraform!Parts /\ (p \notin tx.moved => TerraformUndone(p))
    BY <1>1, TerraformLists, TerraformPartNames DEF TerraformLabels, TerraformAtUndo,
       TerraformInHand
  <1>3. /\ tx'.published = tx.published /\ tx'.moved = tx.moved /\ tx'.plan = tx.plan
        /\ tx'.target = tx.target /\ tx'.doc = tx.doc
        /\ tx'.mode = tx.mode \/ tx'.mode = "uncertain"
    BY TerraformUncertain DEF Terraform!Restore
  <1>4. \A q \in Terraform!Parts \ {p} : project'[q] = project[q] /\ backup'[q] = backup[q]
    BY DEF Terraform!Restore, TerraformTypes
  <1>5. TerraformUndone(p)'
    <2>1. CASE UNCHANGED tx
      BY <1>2, <2>1, TerraformUncertain DEF Terraform!Restore, TerraformUndone, TerraformTypes
    <2>2. CASE Terraform!Uncertain
      BY <2>2, TerraformUncertain DEF TerraformUndone
    <2> QED BY <2>1, <2>2 DEF Terraform!Restore
  <1>6. ASSUME NEW q \in Terraform!Parts \ {p}
        PROVE  /\ TerraformForward(q) => TerraformForward(q)'
               /\ TerraformUndone(q) => TerraformUndone(q)'
    BY <1>1, <1>3, <1>4, TerraformOther
  <1>7. tx'.mode = "certain" => approval' = tx'.doc
    BY <1>1, <1>3 DEF TerraformLabels, TerraformAtUndo
  <1>8. CASE todo = TerraformUndoList
    <2>1. /\ p = "providers" /\ pc' = "rbRemove" /\ todo' = <<"marker", "lock">>
          /\ TerraformForward("marker") /\ TerraformForward("lock")
      BY <1>1, <1>8, TerraformLists DEF TerraformLabels, TerraformAtUndo
    <2> QED
      BY <1>5, <1>6, <1>7, <2>1, TerraformPartNames DEF TerraformLabels,
         TerraformAtFront, TerraformAtCommit, TerraformAtUndo, TerraformAtEnd,
         TerraformInHand, TerraformFront, TerraformCommit, TerraformUndo
  <1>9. CASE todo = <<"marker", "lock">>
    <2>1. /\ p = "marker" /\ pc' = "rbRemove" /\ todo' = <<"lock">>
          /\ TerraformUndone("providers") /\ TerraformForward("lock")
      BY <1>1, <1>9, TerraformLists DEF TerraformLabels, TerraformAtUndo
    <2> QED
      BY <1>5, <1>6, <1>7, <2>1, TerraformPartNames DEF TerraformLabels,
         TerraformAtFront, TerraformAtCommit, TerraformAtUndo, TerraformAtEnd,
         TerraformInHand, TerraformFront, TerraformCommit, TerraformUndo
  <1>10. CASE todo = <<"lock">>
    <2>1. /\ p = "lock" /\ pc' = "rbSync"
          /\ TerraformUndone("providers") /\ TerraformUndone("marker")
      BY <1>1, <1>10, TerraformLists DEF TerraformLabels, TerraformAtUndo
    <2>2. \A q \in Terraform!Parts : TerraformUndone(q)'
      BY <1>5, <1>6, <2>1, TerraformPartNames
    <2> QED
      BY <1>7, <2>1, <2>2 DEF TerraformLabels, TerraformAtFront, TerraformAtCommit,
         TerraformAtUndo, TerraformAtEnd, TerraformFront, TerraformCommit, TerraformUndo
  <1> QED BY <1>1, <1>8, <1>9, <1>10 DEF TerraformLabels, TerraformAtUndo

\* The end of the rollback and the removal of the directory.
LEMMA TerraformEndStep ==
    ASSUME TerraformTypes, TerraformLabels, Terraform!RolledBack \/ Terraform!RemoveAll
    PROVE  TerraformLabels'
  <1>1. CASE pc' = "close"
    BY <1>1, TerraformQuiet
  <1>2. CASE pc' # "close"
    <2>1. /\ UNCHANGED <<project, approval, tx, cmd>> /\ pc' = "removeAll"
          /\ pc = "removeAll" \/ (pc = "rbSync" /\ tx.mode = "certain")
      BY <1>2 DEF Terraform!RolledBack, Terraform!RemoveAll, Terraform!Go, Terraform!disk
    <2>2. TerraformUpdated \/ (TerraformAsPlanned /\ approval = tx.doc)
      BY <2>1 DEF TerraformLabels, TerraformAtEnd, TerraformAtUndo, TerraformUndone,
         TerraformAsPlanned
    <2>3. (TerraformUpdated' <=> TerraformUpdated) /\ (TerraformAsPlanned' <=> TerraformAsPlanned)
      BY <2>1 DEF TerraformUpdated, TerraformTarget, Terraform!Ours, TerraformAsPlanned
    <2> QED
      BY <2>1, <2>2, <2>3 DEF TerraformLabels, TerraformAtFront, TerraformAtCommit,
         TerraformAtUndo, TerraformAtEnd, TerraformFront, TerraformCommit, TerraformUndo
  <1> QED BY <1>1, <1>2

\* Every step keeps the invariant.
LEMMA TerraformStep ==
    ASSUME TerraformInv, Terraform!Next \/ UNCHANGED vars
    PROVE  TerraformInv'
  <1>1. TerraformTypes /\ TerraformTypes'
    BY TerraformTypesStep DEF TerraformInv
  <1>2. ASSUME edits' = 0 PROVE TerraformUntouched'
    <2>1. edits = 0
      BY <1>1, <1>2, TerraformChanges
    <2>2. TerraformUntouched /\ TerraformLabels
      BY <2>1 DEF TerraformInv, TerraformUntouched
    <2>3. TerraformGround'
      BY <1>1, <1>2, <2>2, TerraformGroundStep
    <2>4. TerraformLabels'
      <3>1. CASE Terraform!Begin \/ Terraform!Resolve \/ Terraform!Inspect \/ Terraform!Commit
        BY <1>1, <2>2, <3>1, TerraformFrontStep
      <3>2. CASE Terraform!Stage \/ Terraform!VerifyPlan \/ Terraform!CheckBackup
        BY <1>1, <2>2, <3>2, TerraformCheckStep
      <3>3. CASE Terraform!BackUp
        BY <1>1, <2>2, <3>3, TerraformBackUpStep
      <3>4. CASE Terraform!Publish
        BY <1>1, <2>2, <3>4, TerraformPublishStep
      <3>5. CASE Terraform!PublishMetadata
        BY <1>1, <2>2, <3>5, TerraformMetadataStep
      <3>6. CASE Terraform!Approve \/ Terraform!Approved
        BY <1>1, <2>2, <3>6, TerraformApproveStep
      <3>7. CASE Terraform!RollBackApproval
        BY <1>1, <2>2, <3>7, TerraformRollBackApprovalStep
      <3>8. CASE Terraform!RemovePublished
        BY <1>1, <2>2, <3>8, TerraformRemoveStep
      <3>9. CASE Terraform!Restore
        BY <1>1, <2>2, <3>9, TerraformRestoreStep
      <3>10. CASE Terraform!RolledBack \/ Terraform!RemoveAll
        BY <1>1, <2>2, <3>10, TerraformEndStep
      <3>11. CASE Terraform!Close \/ Terraform!Kill \/ Terraform!ClearStaleLock
        BY <3>11, TerraformQuiet DEF Terraform!Close, Terraform!Kill,
           Terraform!ClearStaleLock, Terraform!Go
      <3>12. CASE Terraform!Edit
        BY <1>2, <2>1, <3>12 DEF Terraform!Edit
      <3>13. CASE UNCHANGED vars
        <4>1. UNCHANGED <<tx, project, backup, approval, cmd, pc, todo>>
          BY <3>13 DEF vars, common, controls
        <4>2. \A p : TerraformInHand(p)' <=> TerraformInHand(p)
          BY <4>1, TerraformSame DEF TerraformInHand
        <4> QED BY <2>2, <4>1, <4>2, TerraformSame DEF TerraformLabels,
             TerraformAtFront, TerraformAtCommit, TerraformAtUndo, TerraformAtEnd
      <3> QED BY <3>1, <3>2, <3>3, <3>4, <3>5, <3>6, <3>7, <3>8, <3>9, <3>10,
           <3>11, <3>12, <3>13 DEF Terraform!Next
    <2> QED BY <2>3, <2>4 DEF TerraformUntouched
  <1> QED BY <1>1, <1>2 DEF TerraformInv

\* A behaviour starts with a coherent project and no command.
LEMMA TerraformInitial ==
    ASSUME Terraform!Init
    PROVE  TerraformInv
  <1>1. TerraformTypes
    <2>1. DOMAIN project = Terraform!Parts /\ DOMAIN backup = Terraform!Parts
      BY DEF Terraform!Init, Terraform!Nothing
    <2> QED BY <2>1, BoundsAssumption DEF Terraform!Init, TerraformTypes, TerraformFields,
         Terraform!NoTx, Terraform!Nothing, TerraformInside, TerraformFront,
         TerraformCommit, TerraformUndo
  <1>2. TerraformLabels
    BY DEF Terraform!Init, TerraformLabels, TerraformAtFront, TerraformAtCommit,
       TerraformAtUndo, TerraformAtEnd, TerraformFront, TerraformCommit, TerraformUndo
  <1>3. TerraformCoherent(project, approval)
    <2>1. CASE /\ approval = NoDoc
               /\ \E l \in {NoFile} \cup [by : {0}, body : {<<v>> : v \in TerraformVersions}] :
                     project = [Terraform!Nothing EXCEPT !["lock"] = l]
      BY <2>1 DEF TerraformCoherent, Terraform!Nothing, Terraform!Parts, Terraform!Controls
    <2>2. CASE /\ approval \in [selection : TerraformVersions, source : {0}]
               /\ project = [p \in Terraform!Parts |->
                                [by |-> 0, body |-> Terraform!Body(p, approval)]]
      <3>1. approval # NoDoc /\ approval.source = 0
        BY <2>2, TerraformAssumption
      <3>2. ASSUME NEW p \in Terraform!Parts
            PROVE  project[p] # NoFile /\ project[p].body = Terraform!Body(p, approval)
        <4>1. project[p] = [by |-> 0, body |-> Terraform!Body(p, approval)]
          BY <2>2
        <4>2. Terraform!Body(p, approval) \in {<<v>> : v \in TerraformVersions}
                  \cup (TerraformVersions \X Nat)
          BY <2>2 DEF Terraform!Body
        <4> QED BY <4>1, <4>2, TerraformAssumption
      <3> QED BY <3>1, <3>2 DEF TerraformCoherent
    <2> QED BY <2>1, <2>2 DEF Terraform!Init
  <1>4. TerraformGround
    BY <1>3 DEF Terraform!Init, TerraformGround, Terraform!Nothing
  <1> QED BY <1>1, <1>2, <1>4 DEF TerraformInv, TerraformUntouched

-----------------------------------------------------------------------------
(* Terraform: what the invariant gives                                     *)

LEMMA TerraformOpen ==
    ASSUME TerraformInv
    PROVE  Terraform!OpenMeansAdmissible
  BY DEF TerraformInv, TerraformUntouched, TerraformGround, TerraformCoherent,
     Terraform!OpenMeansAdmissible, Terraform!Admissible, Terraform!NoJournal,
     Terraform!NoInstallation, Terraform!Retained

LEMMA TerraformKeeps ==
    ASSUME TerraformTypes, Terraform!Next
    PROVE  Terraform!KeepsSeenFile
  <1> SUFFICES ASSUME NEW n \in Terraform!Controls, Terraform!UserSaved(project[n]),
                      project[n] # tx.plan[n]
               PROVE  project'[n] = project[n] \/ edits' # edits
    BY DEF Terraform!KeepsSeenFile
  <1>1. /\ n \in Terraform!Parts /\ n # "marker" /\ project[n] # NoFile
        /\ project[n].by > MaxCommands
    BY DEF Terraform!UserSaved, Terraform!Parts, Terraform!Controls
  <1>2. CASE Terraform!BackUp
    BY <1>1, <1>2 DEF Terraform!BackUp, Terraform!Fails, Terraform!disk, TerraformTypes
  <1>3. CASE Terraform!Publish \/ Terraform!PublishMetadata
    BY <1>1, <1>3 DEF Terraform!Publish, Terraform!PublishMetadata, Terraform!Fails,
       Terraform!disk, TerraformTypes
  <1>4. CASE Terraform!RemovePublished
    <2>1. project[n] # Terraform!Ours(n)
      <3>1. SUFFICES Terraform!Ours(n).by \in 0..MaxCommands
        BY <1>1, BoundsAssumption
      <3>2. Terraform!Ours(n) = [by |-> cmd, body |-> Terraform!Body(n, tx.target)]
        BY DEF Terraform!Ours
      <3> QED BY <3>2 DEF TerraformTypes
    <2> QED BY <1>1, <1>4, <2>1 DEF Terraform!RemovePublished, TerraformTypes
  <1>5. CASE Terraform!Restore
    BY <1>1, <1>5 DEF Terraform!Restore, TerraformTypes
  <1>6. CASE Terraform!Edit
    BY <1>6 DEF Terraform!Edit, TerraformTypes
  <1>7. CASE \/ Terraform!Begin \/ Terraform!Resolve \/ Terraform!Inspect
             \/ Terraform!Commit \/ Terraform!Stage \/ Terraform!VerifyPlan
             \/ Terraform!CheckBackup \/ Terraform!Approve \/ Terraform!Approved
             \/ Terraform!RollBackApproval \/ Terraform!RolledBack
             \/ Terraform!RemoveAll \/ Terraform!Close \/ Terraform!Kill
             \/ Terraform!ClearStaleLock
    BY <1>7 DEF Terraform!disk, Terraform!GivesUp, Terraform!Fails, Terraform!Begin,
       Terraform!Resolve, Terraform!Inspect, Terraform!Commit, Terraform!Stage,
       Terraform!VerifyPlan, Terraform!CheckBackup, Terraform!Approve, Terraform!Approved,
       Terraform!RollBackApproval, Terraform!RolledBack, Terraform!RemoveAll,
       Terraform!Close, Terraform!Kill, Terraform!ClearStaleLock
  <1> QED BY <1>2, <1>3, <1>4, <1>5, <1>6, <1>7 DEF Terraform!Next

LEMMA TerraformApproves ==
    ASSUME Terraform!Next
    PROVE  Terraform!ApprovesTheInspected
  <1>1. CASE Terraform!Approve
    BY <1>1 DEF Terraform!Approve, Terraform!Fails, Terraform!disk,
       Terraform!ApprovesTheInspected, Terraform!PublishedIntact
  <1>2. CASE Terraform!RollBackApproval
    BY <1>2 DEF Terraform!RollBackApproval, Terraform!WriteState,
       Terraform!StatePublished, Terraform!ApprovesTheInspected
  <1>3. CASE ~Terraform!Approve /\ ~Terraform!RollBackApproval
    <2>1. approval' = approval
      BY <1>3 DEF Terraform!Next, Terraform!disk, Terraform!GivesUp, Terraform!Fails,
         Terraform!Begin, Terraform!Resolve, Terraform!Inspect, Terraform!Commit,
         Terraform!Stage, Terraform!VerifyPlan, Terraform!BackUp, Terraform!CheckBackup,
         Terraform!Publish, Terraform!PublishMetadata, Terraform!Approved,
         Terraform!RemovePublished, Terraform!Restore, Terraform!RolledBack,
         Terraform!RemoveAll, Terraform!Close, Terraform!Kill, Terraform!ClearStaleLock,
         Terraform!Edit
    <2> QED BY <2>1 DEF Terraform!ApprovesTheInspected
  <1> QED BY <1>1, <1>2, <1>3

\* The first state is a state ApprovedProject may start in.
LEMMA TerraformStartsCoherent ==
    ASSUME Terraform!Init
    PROVE  Terraform!Coherent
  <1>0. dir = 0 /\ edits = 0
    BY DEF Terraform!Init
  <1>1. CASE approval = NoDoc
    <2>1. PICK l \in {NoFile} \cup [by : {0}, body : {<<v>> : v \in TerraformVersions}] :
              project = [Terraform!Nothing EXCEPT !["lock"] = l]
      BY <1>1, TerraformAssumption DEF Terraform!Init
    <2>2. project["lock"] = l /\ project["providers"] = NoFile
      BY <2>1 DEF Terraform!Nothing, Terraform!Parts, Terraform!Controls
    <2>3. /\ Terraform!Contents(project)["providers"] = NoFile
          /\ Terraform!Contents(project) \in
                [Terraform!Controls -> {NoFile} \cup {<<v>> : v \in TerraformVersions}]
      BY <2>2 DEF Terraform!Contents, Terraform!Controls
    <2> QED BY <1>0, <1>1, <2>3 DEF Terraform!Coherent, Terraform!Abstract!AInit,
          Terraform!Abstract!Coherent
  <1>2. CASE approval # NoDoc
    <2>1. /\ approval \in [selection : TerraformVersions, source : {0}]
          /\ project = [p \in Terraform!Parts |->
                           [by |-> 0, body |-> Terraform!Body(p, approval)]]
      BY <1>2 DEF Terraform!Init
    <2>2. TerraformCoherent(project, approval)
      BY <1>0, TerraformInitial DEF TerraformInv, TerraformUntouched, TerraformGround
    <2>3. Terraform!Contents(project) = Terraform!Approves(approval)
      BY <1>2, <2>2 DEF TerraformCoherent, Terraform!Contents, Terraform!Approves,
         Terraform!Body, Terraform!Parts, Terraform!Controls
    <2>4. Terraform!Approves(approval) # NoDoc
      BY <2>1, TerraformAssumption DEF Terraform!Approves, Terraform!Controls
    <2> QED BY <1>0, <1>2, <2>3, <2>4 DEF Terraform!Coherent, Terraform!Abstract!AInit,
          Terraform!Abstract!Coherent
  <1> QED BY <1>1, <1>2

\* Every step is a step of ApprovedProject, or leaves what it shows alone.
LEMMA TerraformMoves ==
    ASSUME TerraformInv, TerraformInv', Terraform!Next
    PROVE  Terraform!MovesTogether
  <1> DEFINE Shown   == Terraform!Contents(IF dir = 0 THEN project ELSE tx.plan)
             Doc     == IF dir = 0 THEN approval ELSE tx.doc
             Granted == IF Doc = NoDoc THEN NoDoc ELSE Terraform!Approves(Doc)
  <1>1. CASE edits' # 0
    BY <1>1 DEF Terraform!MovesTogether, Terraform!Abstract!ANext, Terraform!Abstract!Drift
  <1>2. CASE edits' = 0
    <2>1. /\ edits = 0 /\ TerraformTypes
          /\ dir' = dir \/ Terraform!Commit \/ Terraform!RemoveAll
          /\ dir = 0 /\ dir' = 0 => UNCHANGED <<project, approval, backup>>
          /\ dir # 0 => /\ tx'.plan = tx.plan
                        /\ tx'.doc = tx.doc /\ tx'.source = tx.source
      BY <1>2, TerraformChanges DEF TerraformInv
    <2>2. TerraformUntouched
      BY <2>1 DEF TerraformInv
    <2>3. SUFFICES \/ Shown' = Shown /\ Granted' = Granted
                   \/ /\ Shown' \in {Terraform!Approves(d) : d \in Terraform!Docs}
                      /\ Granted' = Shown'
      BY <1>2, <2>1 DEF Terraform!MovesTogether, Terraform!Abstract!ANext,
         Terraform!Abstract!Approve, Terraform!Abstract!avars
    <2>4. TerraformAsPlanned => Terraform!Contents(project) = Terraform!Contents(tx.plan)
      BY DEF TerraformAsPlanned, Terraform!Contents, Terraform!Parts
    <2>5. CASE (dir = 0 /\ dir' = 0) \/ (dir # 0 /\ dir' # 0)
      BY <2>1, <2>5
    <2>6. CASE dir = 0 /\ dir' # 0
      BY <2>1, <2>2, <2>4, <2>6, TerraformDirectory
    <2>7. CASE dir # 0 /\ dir' = 0
      <3>1. /\ UNCHANGED <<tx, project, approval>>
            /\ TerraformUpdated \/ (TerraformAsPlanned /\ approval = tx.doc)
        BY <2>1, <2>2, <2>7, TerraformDirectory
      <3>2. CASE TerraformAsPlanned /\ approval = tx.doc
        BY <2>4, <2>7, <3>1, <3>2
      <3>3. CASE TerraformUpdated
        <4>1. TerraformCoherent(project, approval) /\ approval # NoDoc
          BY <2>1, <3>3, TerraformUpdatedCoherent
        <4>2. Terraform!Contents(project) = Terraform!Approves(approval)
          BY <4>1 DEF TerraformCoherent, Terraform!Contents, Terraform!Approves,
             Terraform!Body, Terraform!Parts, Terraform!Controls
        <4>3. approval \in Terraform!Docs
          BY <3>3, BoundsAssumption DEF TerraformUpdated, TerraformTarget, Terraform!Docs
        <4>4. Shown' = Terraform!Approves(approval) /\ Granted' = Terraform!Approves(approval)
          BY <2>7, <3>1, <4>1, <4>2
        <4> QED BY <4>3, <4>4
      <3> QED BY <3>1, <3>2, <3>3
    <2> QED BY <2>5, <2>6, <2>7
  <1> QED BY <1>1, <1>2

-----------------------------------------------------------------------------
(* npm: the inductive invariant                                            *)

NpmFields == {"plan", "before", "out", "mode", "view"}
NpmInside == {"verify", "backup", "publish", "metadata", "sync", "rollback",
              "rolledBack", "inventory", "purge"}

\* A control made by a command.
NpmMade(f) == f = NoFile \/ f.by \in 0..MaxCommands

\* What holds whatever a user edits.
NpmTypes ==
    /\ DOMAIN project = Npm!Members /\ DOMAIN backup = Npm!Members
    /\ DOMAIN selected = Npm!Members
    /\ DOMAIN tx = NpmFields /\ DOMAIN tx.before = Npm!Members /\ DOMAIN tx.out = Npm!Members
    /\ cmd \in 0..MaxCommands /\ edits \in Nat
    /\ pc # "idle" => cmd # 0
    /\ pc \in NpmInside => dir = cmd
    /\ \A n \in Npm!Controls : NpmMade(selected[n]) /\ NpmMade(tx.out[n])

\* Controls and marker a promotion accepts.
NpmCoherent(f) ==
    /\ \A n \in Npm!Controls : f[n] # NoFile
    /\ IF f["haa"] # NoFile /\ f["haa"].marker # <<>>
       THEN f["haa"].marker = Npm!Bound(f) ELSE Npm!Bound(f) = <<"none", "none">>

\* A member that no rollback has reached.
NpmForward(m) ==
    /\ backup[m] = tx.before[m]
    /\ tx.before[m] # NoFile => tx.before[m] = tx.view[m]
    /\ tx.out[m] = NoFile =>
           project[m] = IF tx.before[m] # NoFile THEN NoFile ELSE tx.view[m]
    /\ tx.out[m] # NoFile /\ tx.before[m] = NoFile => tx.view[m] = NoFile

\* The members of a complete output, with the marker.
NpmOutput(s, m) ==
    [by |-> cmd, body |-> s, marker |-> IF m = "haa" THEN <<s, s>> ELSE <<>>]

NpmAsBefore == \A m \in Npm!Members : project[m] = tx.view[m]
NpmUpdated == \E s \in NpmSets : \A m \in Npm!Members : project[m] = NpmOutput(s, m)

NpmAtFront ==
    pc \in {"prepare", "open", "verify", "backup"} =>
        \A m \in Npm!Members : tx.out[m] = NoFile

\* One set is prepared, and what is published is of it.
NpmAtCommit ==
    /\ pc \in {"open", "verify", "backup", "publish", "metadata"} =>
           \E s \in NpmSets : \A m \in Npm!Members :
               /\ selected[m] \in {NoFile, Npm!Member(cmd, s)}
               /\ tx.out[m] \in {NoFile, Npm!Member(cmd, s)}
    /\ pc \in {"prepare", "open", "verify"} => \A m \in Npm!Members : tx.before[m] = NoFile
    /\ pc \in {"verify", "backup", "publish", "metadata", "sync"} =>
           \A m \in Npm!Members : NpmForward(m)
    /\ pc \in {"publish", "metadata"} =>
           \A m \in Npm!Members : tx.out[m] # NoFile => project[m] = tx.out[m]
    /\ pc = "metadata" => \A m \in Npm!Members : tx.out[m] # NoFile
    /\ pc = "sync" =>
           \E s \in NpmSets : \A m \in Npm!Members : tx.out[m] = NpmOutput(s, m)

\* The loops of the commit: what is still to be moved aside, what is published.
NpmAtLoop ==
    /\ pc = "backup" =>
           \/ todo = Npm!Order /\ \A m \in Npm!Members : tx.before[m] = NoFile
           \/ /\ todo = <<"package-lock.json", "node_modules", "haa">>
              /\ \A m \in Npm!Members \ {"package.json"} : tx.before[m] = NoFile
           \/ /\ todo = <<"node_modules", "haa">>
              /\ \A m \in {"node_modules", "haa"} : tx.before[m] = NoFile
           \/ todo = <<"haa">> /\ tx.before["haa"] = NoFile
    /\ pc = "publish" =>
           \/ todo = Npm!Order
           \/ /\ todo = <<"package-lock.json", "node_modules", "haa">>
              /\ tx.out["package.json"] # NoFile
           \/ /\ todo = <<"node_modules", "haa">>
              /\ \A m \in Npm!Controls : tx.out[m] # NoFile
           \/ /\ todo = <<"haa">>
              /\ \A m \in Npm!Members \ {"haa"} : tx.out[m] # NoFile

NpmUndone(m) == tx.mode = "certain" => project[m] = tx.view[m]

NpmAtUndo ==
    /\ pc = "rollback" =>
           \/ todo = Npm!Reversed /\ \A m \in Npm!Members : NpmForward(m)
           \/ /\ todo = <<"node_modules", "package-lock.json", "package.json">>
              /\ NpmUndone("haa") /\ \A m \in Npm!Members \ {"haa"} : NpmForward(m)
           \/ /\ todo = <<"package-lock.json", "package.json">>
              /\ NpmUndone("haa") /\ NpmUndone("node_modules")
              /\ \A m \in Npm!Controls : NpmForward(m)
           \/ /\ todo = <<"package.json">>
              /\ \A m \in Npm!Members \ {"package.json"} : NpmUndone(m)
              /\ NpmForward("package.json")
    /\ pc = "rolledBack" => \A m \in Npm!Members : NpmUndone(m)

NpmAtEnd == pc \in {"inventory", "purge"} => NpmUpdated \/ NpmAsBefore

NpmLabels == NpmAtFront /\ NpmAtCommit /\ NpmAtLoop /\ NpmAtUndo /\ NpmAtEnd

NpmGround ==
    /\ dir = 0 => NpmCoherent(project) /\ \A m \in Npm!Members : backup[m] = NoFile
    /\ dir # 0 => NpmCoherent(tx.view)

NpmUntouched == NpmGround /\ NpmLabels

NpmInv == NpmTypes /\ (edits = 0 => NpmUntouched)

-----------------------------------------------------------------------------
(* npm: every step keeps the invariant                                     *)

\* The loops of the commit and of the rollback, member by member.
LEMMA NpmLists ==
    /\ Head(Npm!Order) = "package.json"
    /\ Tail(Npm!Order) = <<"package-lock.json", "node_modules", "haa">>
    /\ Head(<<"package-lock.json", "node_modules", "haa">>) = "package-lock.json"
    /\ Tail(<<"package-lock.json", "node_modules", "haa">>) = <<"node_modules", "haa">>
    /\ Head(<<"node_modules", "haa">>) = "node_modules"
    /\ Tail(<<"node_modules", "haa">>) = <<"haa">>
    /\ Head(<<"haa">>) = "haa" /\ Tail(<<"haa">>) = <<>>
    /\ <<"package-lock.json", "node_modules", "haa">> # <<>>
    /\ <<"node_modules", "haa">> # <<>> /\ <<"haa">> # <<>>
    /\ Head(Npm!Reversed) = "haa"
    /\ Tail(Npm!Reversed) = <<"node_modules", "package-lock.json", "package.json">>
    /\ Head(<<"node_modules", "package-lock.json", "package.json">>) = "node_modules"
    /\ Tail(<<"node_modules", "package-lock.json", "package.json">>)
          = <<"package-lock.json", "package.json">>
    /\ Head(<<"package-lock.json", "package.json">>) = "package-lock.json"
    /\ Tail(<<"package-lock.json", "package.json">>) = <<"package.json">>
    /\ Head(<<"package.json">>) = "package.json" /\ Tail(<<"package.json">>) = <<>>
    /\ <<"node_modules", "package-lock.json", "package.json">> # <<>>
    /\ <<"package-lock.json", "package.json">> # <<>> /\ <<"package.json">> # <<>>
  BY DEF Npm!Order, Npm!Reversed

LEMMA NpmNames ==
    /\ "package.json" \in Npm!Members /\ "package-lock.json" \in Npm!Members
    /\ "node_modules" \in Npm!Members /\ "haa" \in Npm!Members
    /\ Npm!Controls = {"package.json", "package-lock.json"}
    /\ \A m \in Npm!Members : m \in {"package.json", "package-lock.json", "node_modules", "haa"}
  BY DEF Npm!Members, Npm!Controls

\* The part of the invariant that edits do not disturb.
LEMMA NpmTypesStep ==
    ASSUME NpmTypes, Npm!Next \/ UNCHANGED vars
    PROVE  NpmTypes'
  <1> USE BoundsAssumption DEF NpmTypes, NpmFields, NpmInside, NpmMade, Npm!Go,
          Npm!disk, Npm!user, Npm!Fails
  <1>0. Npm!Controls \subseteq Npm!Members /\ "haa" \notin Npm!Controls
    BY DEF Npm!Members, Npm!Controls
  <1>1. CASE Npm!Begin
    <2>1. cmd' \in 0..MaxCommands /\ cmd' # 0
      BY <1>1 DEF Npm!Begin
    <2>2. CASE tx' = [Npm!NoTx EXCEPT !.plan = project, !.view = tx.view]
      <3>1. /\ DOMAIN tx' = NpmFields /\ tx'.before = Npm!Nothing /\ tx'.out = Npm!Nothing
        BY <2>2 DEF Npm!NoTx
      <3> QED BY <1>0, <1>1, <2>1, <3>1 DEF Npm!Begin, Npm!Nothing
    <2>3. CASE UNCHANGED tx
      BY <1>0, <1>1, <2>1, <2>3 DEF Npm!Begin, Npm!Nothing
    <2> QED BY <1>1, <2>2, <2>3 DEF Npm!Begin
  <1>2. CASE Npm!Prepare
    <2>1. CASE UNCHANGED selected
      BY <1>2, <2>1 DEF Npm!Prepare
    <2>2. CASE \E s \in NpmSets : selected' = [m \in Npm!Members |-> Npm!Member(cmd, s)]
      <3>1. PICK s \in NpmSets : selected' = [m \in Npm!Members |-> Npm!Member(cmd, s)]
        BY <2>2
      <3>2. ASSUME NEW n \in Npm!Controls PROVE selected'[n].by = cmd
        BY <1>0, <3>1 DEF Npm!Member
      <3> QED BY <1>2, <3>1, <3>2 DEF Npm!Prepare
    <2> QED BY <1>2, <2>1, <2>2 DEF Npm!Prepare
  <1>3. CASE Npm!Open
    BY <1>3 DEF Npm!Open
  <1>4. CASE Npm!VerifyPlan
    BY <1>4 DEF Npm!VerifyPlan
  <1>5. CASE Npm!BackUp
    BY <1>5 DEF Npm!BackUp
  <1>6. CASE Npm!Publish
    <2>1. CASE Npm!Fails("publish")
      BY <2>1
    <2>2. CASE ~Npm!Fails("publish")
      <3>1. PICK m : m = Head(todo)
        OBVIOUS
      <3>2. /\ tx' = [tx EXCEPT !.out[m] = selected[m]]
            /\ project' = [project EXCEPT ![m] = selected[m]]
            /\ selected' = [selected EXCEPT ![m] = NoFile]
            /\ UNCHANGED <<dir, backup, cmd, edits>>
            /\ pc = "publish" /\ pc' \in {"metadata", "publish"}
        BY <1>6, <2>2, <3>1 DEF Npm!Publish
      <3>3. /\ DOMAIN tx' = NpmFields /\ tx'.before = tx.before
            /\ tx'.out = [tx.out EXCEPT ![m] = selected[m]]
        BY <3>2
      <3>4. ASSUME NEW n \in Npm!Controls PROVE NpmMade(selected'[n]) /\ NpmMade(tx'.out[n])
        BY <1>0, <3>2, <3>3
      <3> QED BY <3>2, <3>3, <3>4
    <2> QED BY <2>1, <2>2
  <1>7. CASE Npm!PublishMetadata
    <2>1. CASE Npm!Fails("metadata")
      BY <2>1
    <2>2. CASE ~Npm!Fails("metadata")
      <3>1. /\ \/ tx' = tx \/ tx' = [tx EXCEPT !.out["haa"].marker = Npm!Bound(project)]
            /\ project' = [project EXCEPT !["haa"].marker = Npm!Bound(project)]
            /\ UNCHANGED <<dir, backup, selected, cmd, edits>>
            /\ pc = "metadata" /\ pc' \in {"sync", "rollback"}
        BY <1>7, <2>2 DEF Npm!PublishMetadata
      <3>2. /\ DOMAIN tx' = NpmFields /\ tx'.before = tx.before
            /\ DOMAIN tx'.out = Npm!Members
            /\ \A n \in Npm!Controls : tx'.out[n] = tx.out[n]
        BY <1>0, <3>1
      <3> QED BY <3>1, <3>2
    <2> QED BY <2>1, <2>2
  <1>8. CASE Npm!VerifyOutputs
    BY <1>8 DEF Npm!VerifyOutputs
  <1>9. CASE Npm!RollBack
    BY <1>9 DEF Npm!RollBack, Npm!Uncertain, Npm!RemovedPartly
  <1>10. CASE Npm!RolledBack \/ Npm!Inventory
    BY <1>10 DEF Npm!RolledBack, Npm!Inventory
  <1>11. CASE Npm!Purge
    BY <1>11 DEF Npm!Purge
  <1>12. CASE Npm!Close \/ Npm!Kill \/ Npm!ClearStaleLock
    BY <1>12 DEF Npm!Close, Npm!Kill, Npm!ClearStaleLock
  <1>13. CASE Npm!Edit
    BY <1>13 DEF Npm!Edit
  <1>14. CASE UNCHANGED vars
    BY <1>14 DEF vars, common, controls
  <1> QED BY <1>1, <1>2, <1>3, <1>4, <1>5, <1>6, <1>7, <1>8, <1>9, <1>10, <1>11,
       <1>12, <1>13, <1>14 DEF Npm!Next

\* What the steps do to what an observer sees: it changes only with the
\* directory, and the view stays while it exists.
LEMMA NpmChanges ==
    ASSUME NpmTypes, edits' = 0, Npm!Next \/ UNCHANGED vars
    PROVE  /\ edits = 0
           /\ dir' = dir \/ Npm!Open \/ Npm!Purge
           /\ dir = 0 /\ dir' = 0 => UNCHANGED <<project, backup>>
           /\ dir # 0 => tx'.view = tx.view
  <1> USE DEF NpmTypes, NpmFields, NpmInside, Npm!Go, Npm!disk, Npm!user, Npm!Fails
  <1>1. CASE Npm!Begin
    BY <1>1 DEF Npm!Begin, Npm!NoTx
  <1>2. CASE Npm!Prepare
    BY <1>2 DEF Npm!Prepare
  <1>3. CASE Npm!Open
    BY <1>3 DEF Npm!Open, Npm!NoJournal
  <1>4. CASE Npm!VerifyPlan
    BY <1>4 DEF Npm!VerifyPlan
  <1>5. CASE Npm!BackUp
    BY <1>5 DEF Npm!BackUp
  <1>6. CASE Npm!Publish
    BY <1>6 DEF Npm!Publish
  <1>7. CASE Npm!PublishMetadata
    BY <1>7 DEF Npm!PublishMetadata
  <1>8. CASE Npm!VerifyOutputs
    BY <1>8 DEF Npm!VerifyOutputs
  <1>9. CASE Npm!RollBack
    BY <1>9 DEF Npm!RollBack, Npm!Uncertain
  <1>10. CASE Npm!RolledBack \/ Npm!Inventory
    BY <1>10 DEF Npm!RolledBack, Npm!Inventory
  <1>11. CASE Npm!Purge
    BY <1>11 DEF Npm!Purge
  <1>12. CASE Npm!Close \/ Npm!Kill \/ Npm!ClearStaleLock
    BY <1>12 DEF Npm!Close, Npm!Kill, Npm!ClearStaleLock
  <1>13. CASE Npm!Edit
    BY <1>13 DEF Npm!Edit
  <1>14. CASE UNCHANGED vars
    BY <1>14 DEF vars, common, controls
  <1> QED BY <1>1, <1>2, <1>3, <1>4, <1>5, <1>6, <1>7, <1>8, <1>9, <1>10, <1>11,
       <1>12, <1>13, <1>14 DEF Npm!Next

\* Coherence depends on the members only.
LEMMA NpmCoherentSame ==
    ASSUME NEW f, NEW g, \A m \in Npm!Members : f[m] = g[m], NpmCoherent(f)
    PROVE  NpmCoherent(g)
  BY NpmNames DEF NpmCoherent, Npm!Bound

\* A complete output is a project a promotion accepts.
LEMMA NpmUpdatedCoherent ==
    ASSUME NpmTypes, NpmUpdated
    PROVE  NpmCoherent(project)
  <1>1. PICK s \in NpmSets : \A m \in Npm!Members : project[m] = NpmOutput(s, m)
    BY DEF NpmUpdated
  <1>2. ASSUME NEW m \in Npm!Members
        PROVE  /\ project[m] # NoFile /\ project[m].body = s
               /\ m = "haa" => project[m].marker = <<s, s>>
    <2>1. project[m] = [by |-> cmd, body |-> s,
                        marker |-> IF m = "haa" THEN <<s, s>> ELSE <<>>]
      BY <1>1 DEF NpmOutput
    <2>2. cmd \in Nat
      BY BoundsAssumption DEF NpmTypes
    <2> QED BY <2>1, <2>2, NpmAssumption
  <1>3. Npm!Bound(project) = <<s, s>>
    BY <1>2, NpmNames DEF Npm!Bound
  <1> QED BY <1>2, <1>3, NpmNames DEF NpmCoherent

\* The steps that make and remove the directory.
LEMMA NpmDirectory ==
    ASSUME NpmTypes, NpmUntouched, Npm!Open \/ Npm!Purge
    PROVE  /\ dir = 0 /\ dir' # 0 => UNCHANGED project /\ tx'.view = project
           /\ dir # 0 /\ dir' = 0 =>
                  /\ UNCHANGED <<tx, project>> /\ backup' = Npm!Nothing
                  /\ NpmUpdated \/ NpmAsBefore
  <1>1. CASE Npm!Open
    BY <1>1 DEF Npm!Open, Npm!Go, Npm!NoJournal, NpmTypes, NpmFields
  <1>2. CASE Npm!Purge
    BY <1>2 DEF Npm!Purge, Npm!Go, NpmUntouched, NpmLabels, NpmAtEnd, NpmTypes, NpmInside
  <1> QED BY <1>1, <1>2

\* The project, or what the directory leads back to, stays coherent.
LEMMA NpmGroundStep ==
    ASSUME NpmTypes, edits' = 0, NpmUntouched, Npm!Next \/ UNCHANGED vars
    PROVE  NpmGround'
  <1>0. /\ dir' = dir \/ Npm!Open \/ Npm!Purge
        /\ dir = 0 /\ dir' = 0 => UNCHANGED <<project, backup>>
        /\ dir # 0 => tx'.view = tx.view
    BY NpmChanges
  <1>a. /\ dir = 0 => NpmCoherent(project) /\ \A m \in Npm!Members : backup[m] = NoFile
        /\ dir # 0 => NpmCoherent(tx.view)
    BY DEF NpmUntouched, NpmGround
  <1>1. CASE (dir = 0 /\ dir' = 0) \/ (dir # 0 /\ dir' # 0)
    BY <1>0, <1>a, <1>1 DEF NpmGround
  <1>2. CASE dir = 0 /\ dir' # 0
    BY <1>0, <1>a, <1>2, NpmDirectory DEF NpmGround
  <1>3. CASE dir # 0 /\ dir' = 0
    <2>1. /\ UNCHANGED <<tx, project>> /\ backup' = Npm!Nothing
          /\ NpmUpdated \/ NpmAsBefore
      BY <1>0, <1>3, NpmDirectory
    <2>2. NpmCoherent(project)
      <3>1. CASE NpmAsBefore
        BY <1>a, <1>3, <3>1, NpmCoherentSame DEF NpmAsBefore
      <3>2. CASE NpmUpdated
        BY <3>2, NpmUpdatedCoherent
      <3> QED BY <2>1, <3>1, <3>2
    <2>3. \A m \in Npm!Members : backup'[m] = NoFile
      BY <2>1 DEF Npm!Nothing
    <2> QED BY <1>3, <2>1, <2>2, <2>3 DEF NpmGround
  <1> QED BY <1>1, <1>2, <1>3

\* Between two commands, and on the way out, the labels say nothing.
LEMMA NpmQuiet ==
    ASSUME pc' \in {"idle", "close"}
    PROVE  NpmLabels'
  BY DEF NpmLabels, NpmAtFront, NpmAtCommit, NpmAtLoop, NpmAtUndo, NpmAtEnd

\* A step that changes nothing the labels speak of.
LEMMA NpmSame ==
    ASSUME UNCHANGED <<tx, project, backup, selected, cmd>>
    PROVE  /\ \A m : NpmForward(m)' <=> NpmForward(m)
           /\ \A m : NpmUndone(m)' <=> NpmUndone(m)
           /\ NpmUpdated' <=> NpmUpdated
           /\ NpmAsBefore' <=> NpmAsBefore
  BY DEF NpmForward, NpmUndone, NpmUpdated, NpmOutput, NpmAsBefore

\* A call of the commit that fails leaves everything to the rollback.
LEMMA NpmFailing ==
    ASSUME NpmLabels, NEW from \in {"backup", "publish", "metadata", "sync"}, Npm!Fails(from)
    PROVE  NpmLabels'
  <1>1. CASE pc' = "close"
    BY <1>1, NpmQuiet
  <1>2. CASE pc' # "close"
    <2>1. /\ UNCHANGED <<tx, project, backup, selected, cmd>> /\ pc' = "rollback" /\ pc = from
          /\ todo' = Npm!Reversed
      BY <1>2 DEF Npm!Fails, Npm!Go, Npm!disk
    <2>2. \A m \in Npm!Members : NpmForward(m)'
      BY <2>1, NpmSame DEF NpmLabels, NpmAtCommit
    <2> QED BY <2>1, <2>2 DEF NpmLabels, NpmAtFront, NpmAtCommit, NpmAtLoop,
         NpmAtUndo, NpmAtEnd
  <1> QED BY <1>1, <1>2

\* Up to the directory nothing of the project changes.
LEMMA NpmFrontStep ==
    ASSUME NpmTypes, NpmUntouched, Npm!Begin \/ Npm!Prepare \/ Npm!Open \/ Npm!VerifyPlan
    PROVE  NpmLabels'
  <1> USE DEF NpmLabels, NpmAtFront, NpmAtCommit, NpmAtLoop, NpmAtUndo, NpmAtEnd, Npm!Go
  <1>0. CASE pc' = "close"
    BY <1>0, NpmQuiet
  <1>1. CASE Npm!Begin /\ pc' # "close"
    <2>1. tx' = [Npm!NoTx EXCEPT !.plan = project, !.view = tx.view] /\ pc' = "prepare"
      BY <1>1 DEF Npm!Begin
    <2>2. tx'.out = Npm!Nothing /\ tx'.before = Npm!Nothing
      BY <2>1 DEF Npm!NoTx
    <2> QED BY <2>1, <2>2 DEF Npm!Nothing
  <1>2. CASE Npm!Prepare /\ pc' # "close"
    <2>1. pc = "prepare" /\ pc' = "open" /\ UNCHANGED <<tx, cmd>>
      BY <1>2 DEF Npm!Prepare
    <2>2. PICK s \in NpmSets : selected' = [m \in Npm!Members |-> Npm!Member(cmd, s)]
      BY <1>2 DEF Npm!Prepare
    <2>3. \A m \in Npm!Members :
              selected'[m] = Npm!Member(cmd', s) /\ tx'.out[m] = NoFile
      BY <2>1, <2>2 DEF NpmUntouched, Npm!Member
    <2> QED BY <2>1, <2>3 DEF NpmUntouched
  <1>3. CASE Npm!Open /\ pc' # "close"
    <2>1. /\ pc = "open" /\ pc' = "verify" /\ dir = 0 /\ UNCHANGED <<project, backup, selected, cmd>>
          /\ tx' = [tx EXCEPT !.view = project]
      BY <1>3 DEF Npm!Open, Npm!NoJournal
    <2>2. tx'.view = project /\ tx'.out = tx.out /\ tx'.before = tx.before
      BY <2>1 DEF NpmTypes, NpmFields
    <2>3. /\ \A m \in Npm!Members : tx.out[m] = NoFile /\ tx.before[m] = NoFile /\ backup[m] = NoFile
          /\ \E s \in NpmSets : \A m \in Npm!Members :
                /\ selected[m] \in {NoFile, Npm!Member(cmd, s)}
                /\ tx.out[m] \in {NoFile, Npm!Member(cmd, s)}
      BY <2>1 DEF NpmUntouched, NpmGround
    <2>4. ASSUME NEW m \in Npm!Members PROVE NpmForward(m)'
      BY <2>1, <2>2, <2>3 DEF NpmForward
    <2>5. \E s \in NpmSets : \A m \in Npm!Members :
              /\ selected'[m] \in {NoFile, Npm!Member(cmd, s)'}
              /\ tx'.out[m] \in {NoFile, Npm!Member(cmd, s)'}
      BY <2>1, <2>2, <2>3 DEF Npm!Member
    <2> QED BY <2>1, <2>2, <2>3, <2>4, <2>5
  <1>4. CASE Npm!VerifyPlan /\ pc' # "close"
    <2>1. /\ pc = "verify" /\ pc' = "backup" /\ todo' = Npm!Order
          /\ UNCHANGED <<tx, project, backup, selected, cmd>>
      BY <1>4 DEF Npm!VerifyPlan, Npm!disk
    <2>2. /\ \A m \in Npm!Members : tx.out[m] = NoFile /\ tx.before[m] = NoFile /\ NpmForward(m)
          /\ \E s \in NpmSets : \A m \in Npm!Members :
                /\ selected[m] \in {NoFile, Npm!Member(cmd, s)}
                /\ tx.out[m] \in {NoFile, Npm!Member(cmd, s)}
      BY <2>1 DEF NpmUntouched
    <2> QED BY <2>1, <2>2, NpmSame
  <1> QED BY <1>0, <1>1, <1>2, <1>3, <1>4

\* One member is moved into the backup.
LEMMA NpmBackUpStep ==
    ASSUME NpmTypes, NpmLabels, Npm!BackUp
    PROVE  NpmLabels'
  <1>1. CASE Npm!Fails("backup")
    BY <1>1, NpmFailing
  <1>2. CASE ~Npm!Fails("backup")
    <2> PICK m : m = Head(todo) OBVIOUS
    <2>1. /\ pc = "backup" /\ UNCHANGED <<selected, cmd>>
          /\ backup' = [backup EXCEPT ![m] = project[m]]
          /\ project' = [project EXCEPT ![m] = NoFile]
          /\ tx' = [tx EXCEPT !.before[m] = project[m]]
          /\ \/ Tail(todo) = <<>> /\ pc' = "publish" /\ todo' = Npm!Order
             \/ Tail(todo) # <<>> /\ pc' = "backup" /\ todo' = Tail(todo)
      BY <1>2 DEF Npm!BackUp, Npm!Go
    <2>2. /\ \A q \in Npm!Members : NpmForward(q) /\ tx.out[q] = NoFile
          /\ \E s \in NpmSets : \A q \in Npm!Members :
                /\ selected[q] \in {NoFile, Npm!Member(cmd, s)}
                /\ tx.out[q] \in {NoFile, Npm!Member(cmd, s)}
      BY <2>1 DEF NpmLabels, NpmAtFront, NpmAtCommit
    <2>3. /\ m \in Npm!Members /\ tx.before[m] = NoFile
          /\ \/ pc' = "publish" /\ todo' = Npm!Order
             \/ /\ pc' = "backup" /\ todo' = <<"package-lock.json", "node_modules", "haa">>
                /\ m = "package.json"
                /\ \A q \in Npm!Members \ {"package.json"} : tx.before[q] = NoFile
             \/ /\ pc' = "backup" /\ todo' = <<"node_modules", "haa">>
                /\ m = "package-lock.json"
                /\ \A q \in {"node_modules", "haa"} : tx.before[q] = NoFile
             \/ /\ pc' = "backup" /\ todo' = <<"haa">>
                /\ m = "node_modules" /\ tx.before["haa"] = NoFile
      BY <2>1, NpmLists, NpmNames DEF NpmLabels, NpmAtLoop
    <2>4. /\ tx'.out = tx.out /\ tx'.view = tx.view
          /\ tx'.before = [tx.before EXCEPT ![m] = project[m]]
      BY <2>1 DEF NpmTypes, NpmFields
    <2>5. /\ project[m] = tx.view[m]
          /\ \A q \in Npm!Members \ {m} : tx'.before[q] = tx.before[q]
          /\ tx'.before[m] = project[m]
      BY <2>2, <2>3, <2>4 DEF NpmForward, NpmTypes
    <2>6. ASSUME NEW q \in Npm!Members PROVE NpmForward(q)'
      <3>1. CASE q = m
        BY <2>1, <2>2, <2>3, <2>4, <2>5, <3>1 DEF NpmForward, NpmTypes
      <3>2. CASE q # m
        <4>1. project'[q] = project[q] /\ backup'[q] = backup[q]
          BY <2>1, <3>2 DEF NpmTypes
        <4> QED BY <2>2, <2>4, <2>5, <3>2, <4>1 DEF NpmForward
      <3> QED BY <3>1, <3>2
    <2>7. NpmAtFront'
      BY <2>2, <2>4 DEF NpmAtFront
    <2>8. NpmAtCommit'
      BY <2>1, <2>2, <2>3, <2>4, <2>6 DEF NpmAtCommit, Npm!Member
    <2>9. NpmAtLoop'
      BY <2>3, <2>5, NpmNames DEF NpmAtLoop
    <2> QED BY <2>3, <2>7, <2>8, <2>9 DEF NpmLabels, NpmAtUndo, NpmAtEnd
  <1> QED BY <1>1, <1>2

\* One member of the output is moved under its name.
LEMMA NpmPublishStep ==
    ASSUME NpmTypes, NpmLabels, Npm!Publish
    PROVE  NpmLabels'
  <1>1. CASE Npm!Fails("publish")
    BY <1>1, NpmFailing
  <1>2. CASE ~Npm!Fails("publish")
    <2> PICK m : m = Head(todo) OBVIOUS
    <2>1. /\ pc = "publish" /\ UNCHANGED <<backup, cmd>>
          /\ selected[m] # NoFile /\ project[m] = NoFile
          /\ project' = [project EXCEPT ![m] = selected[m]]
          /\ selected' = [selected EXCEPT ![m] = NoFile]
          /\ tx' = [tx EXCEPT !.out[m] = selected[m]]
          /\ todo' = Tail(todo)
          /\ pc' = IF todo' = <<>> THEN "metadata" ELSE "publish"
      BY <1>2 DEF Npm!Publish, Npm!Go
    <2>2. \A q \in Npm!Members :
              NpmForward(q) /\ (tx.out[q] # NoFile => project[q] = tx.out[q])
      BY <2>1 DEF NpmLabels, NpmAtCommit
    <2>3. PICK s \in NpmSets : \A q \in Npm!Members :
                /\ selected[q] \in {NoFile, Npm!Member(cmd, s)}
                /\ tx.out[q] \in {NoFile, Npm!Member(cmd, s)}
      BY <2>1 DEF NpmLabels, NpmAtCommit
    <2>4. /\ m \in Npm!Members
          /\ \/ /\ pc' = "metadata" /\ m = "haa"
                /\ \A q \in Npm!Members \ {"haa"} : tx.out[q] # NoFile
             \/ /\ pc' = "publish" /\ todo' = <<"package-lock.json", "node_modules", "haa">>
                /\ m = "package.json"
             \/ /\ pc' = "publish" /\ todo' = <<"node_modules", "haa">>
                /\ m = "package-lock.json" /\ tx.out["package.json"] # NoFile
             \/ /\ pc' = "publish" /\ todo' = <<"haa">>
                /\ m = "node_modules" /\ \A q \in Npm!Controls : tx.out[q] # NoFile
      BY <2>1, NpmLists, NpmNames DEF NpmLabels, NpmAtLoop
    <2>5. /\ tx'.before = tx.before /\ tx'.view = tx.view
          /\ tx'.out = [tx.out EXCEPT ![m] = selected[m]]
      BY <2>1 DEF NpmTypes, NpmFields
    <2>6. /\ tx'.out[m] = selected[m] /\ project'[m] = selected[m] /\ selected'[m] = NoFile
          /\ \A q \in Npm!Members \ {m} :
                tx'.out[q] = tx.out[q] /\ project'[q] = project[q] /\ selected'[q] = selected[q]
      BY <2>1, <2>4, <2>5 DEF NpmTypes
    <2>7. ASSUME NEW q \in Npm!Members
          PROVE  NpmForward(q)' /\ (tx'.out[q] # NoFile => project'[q] = tx'.out[q])
      BY <2>1, <2>2, <2>5, <2>6 DEF NpmForward
    <2>8. \A q \in Npm!Members :
              /\ selected'[q] \in {NoFile, Npm!Member(cmd, s)'}
              /\ tx'.out[q] \in {NoFile, Npm!Member(cmd, s)'}
      BY <2>1, <2>3, <2>6 DEF Npm!Member
    <2>9. \A q \in Npm!Members : tx.out[q] # NoFile \/ q = m => tx'.out[q] # NoFile
      BY <2>1, <2>6
    <2>10. NpmAtLoop' /\ (pc' = "metadata" => \A q \in Npm!Members : tx'.out[q] # NoFile)
      BY <2>4, <2>9, NpmNames DEF NpmAtLoop
    <2>11. NpmAtCommit'
      BY <2>4, <2>7, <2>8, <2>10 DEF NpmAtCommit
    <2> QED BY <2>4, <2>10, <2>11 DEF NpmLabels, NpmAtFront, NpmAtUndo, NpmAtEnd
  <1> QED BY <1>1, <1>2

\* The marker is written; a failure after it leaves it to the rollback.
LEMMA NpmMetadataStep ==
    ASSUME NpmTypes, NpmLabels, Npm!PublishMetadata
    PROVE  NpmLabels'
  <1>1. CASE Npm!Fails("metadata")
    BY <1>1, NpmFailing
  <1>2. CASE ~Npm!Fails("metadata")
    <2>1. /\ pc = "metadata" /\ pc' \in {"sync", "rollback"} /\ UNCHANGED <<backup, cmd>>
          /\ project' = [project EXCEPT !["haa"].marker = Npm!Bound(project)]
          /\ tx' = IF pc' = "sync" THEN [tx EXCEPT !.out["haa"].marker = Npm!Bound(project)] ELSE tx
          /\ todo' = Npm!Reversed
      BY <1>2 DEF Npm!PublishMetadata, Npm!Go
    <2>2. /\ \A q \in Npm!Members : NpmForward(q) /\ project[q] = tx.out[q] /\ tx.out[q] # NoFile
      BY <2>1 DEF NpmLabels, NpmAtCommit
    <2>3. PICK s \in NpmSets : \A q \in Npm!Members : tx.out[q] = Npm!Member(cmd, s)
      BY <2>1, <2>2 DEF NpmLabels, NpmAtCommit
    <2>4. \A q \in Npm!Members :
              tx.out[q] = [by |-> cmd, body |-> s, marker |-> <<>>] /\ project[q].body = s
      BY <2>2, <2>3 DEF Npm!Member
    <2>5. Npm!Bound(project) = <<s, s>>
      BY <2>4, NpmNames DEF Npm!Bound
    <2>6. \A q \in Npm!Members \ {"haa"} : project'[q] = project[q]
      BY <2>1 DEF NpmTypes
    <2>7. CASE pc' = "rollback"
      <3>1. tx' = tx
        BY <2>1, <2>7
      <3>2. \A q \in Npm!Members : NpmForward(q)'
        BY <2>1, <2>2, <3>1 DEF NpmForward
      <3> QED BY <2>1, <2>7, <3>2 DEF NpmLabels, NpmAtFront, NpmAtCommit, NpmAtLoop,
           NpmAtUndo, NpmAtEnd
    <2>8. CASE pc' = "sync"
      <3>1. tx' = [tx EXCEPT !.out["haa"].marker = Npm!Bound(project)]
        BY <2>1, <2>8
      <3>2. /\ tx'.before = tx.before /\ tx'.view = tx.view
            /\ tx'.out = [tx.out EXCEPT !["haa"].marker = Npm!Bound(project)]
        BY <3>1 DEF NpmTypes, NpmFields
      <3>3. /\ \A q \in Npm!Members \ {"haa"} : tx'.out[q] = tx.out[q]
            /\ tx'.out["haa"] = [tx.out["haa"] EXCEPT !.marker = <<s, s>>]
        BY <2>5, <3>2, NpmNames DEF NpmTypes
      <3>4. tx'.out["haa"] = [by |-> cmd, body |-> s, marker |-> <<s, s>>]
        BY <2>4, <3>3, NpmNames
      <3>5. \A q \in Npm!Members : tx'.out[q] = NpmOutput(s, q)'
        BY <2>1, <2>4, <3>3, <3>4 DEF NpmOutput
      <3>6. ASSUME NEW q \in Npm!Members PROVE NpmForward(q)'
        <4>1. cmd \in Nat
          BY BoundsAssumption DEF NpmTypes
        <4>2. tx'.out[q] # NoFile
          BY <2>2, <3>3, <3>4, <4>1, NpmAssumption
        <4> QED BY <2>1, <2>2, <3>2, <4>2 DEF NpmForward
      <3> QED BY <2>8, <3>5, <3>6 DEF NpmLabels, NpmAtFront, NpmAtCommit, NpmAtLoop,
           NpmAtUndo, NpmAtEnd
    <2> QED BY <2>1, <2>7, <2>8
  <1> QED BY <1>1, <1>2

\* The outputs are verified once more.
LEMMA NpmVerifyStep ==
    ASSUME NpmTypes, NpmLabels, Npm!VerifyOutputs
    PROVE  NpmLabels'
  <1>1. CASE Npm!Fails("sync")
    BY <1>1, NpmFailing
  <1>2. CASE ~Npm!Fails("sync")
    <2>1. /\ pc = "sync" /\ pc' = "inventory" /\ project = tx.out /\ UNCHANGED <<project, cmd>>
      BY <1>2 DEF Npm!VerifyOutputs, Npm!Go, Npm!disk
    <2>2. NpmUpdated
      BY <2>1 DEF NpmLabels, NpmAtCommit, NpmUpdated
    <2>3. NpmUpdated'
      BY <2>1, <2>2 DEF NpmUpdated, NpmOutput
    <2> QED BY <2>1, <2>3 DEF NpmLabels, NpmAtFront, NpmAtCommit, NpmAtLoop,
         NpmAtUndo, NpmAtEnd
  <1> QED BY <1>1, <1>2

\* One member is rolled back.
LEMMA NpmRollBackStep ==
    ASSUME NpmTypes, NpmLabels, Npm!RollBack
    PROVE  NpmLabels'
  <1> PICK m : m = Head(todo) OBVIOUS
  <1>1. /\ pc = "rollback" /\ todo' = Tail(todo)
        /\ pc' = IF todo' = <<>> THEN "rolledBack" ELSE "rollback"
    BY DEF Npm!RollBack, Npm!Go
  <1>2. m \in Npm!Members /\ NpmForward(m)
    BY <1>1, NpmLists, NpmNames DEF NpmLabels, NpmAtUndo
  <1>3. /\ tx'.before = tx.before /\ tx'.out = tx.out /\ tx'.view = tx.view
        /\ tx'.mode = tx.mode \/ tx'.mode = "uncertain"
    BY DEF Npm!RollBack, Npm!Uncertain, NpmTypes, NpmFields
  <1>4. \A q \in Npm!Members \ {m} : project'[q] = project[q] /\ backup'[q] = backup[q]
    BY DEF Npm!RollBack, Npm!RemovedPartly, NpmTypes
  <1>5. NpmUndone(m)'
    <2>1. CASE UNCHANGED tx /\ ~Npm!Uncertain
      BY <1>2, <2>1 DEF Npm!RollBack, NpmUndone, NpmForward, NpmTypes
    <2>2. CASE Npm!Uncertain
      <3>1. tx'.mode = "uncertain"
        BY <2>2 DEF Npm!Uncertain, NpmTypes, NpmFields
      <3> QED BY <3>1 DEF NpmUndone
    <2> QED BY <2>1, <2>2 DEF Npm!RollBack
  <1>6. ASSUME NEW q \in Npm!Members \ {m}
        PROVE  (NpmForward(q) => NpmForward(q)') /\ (NpmUndone(q) => NpmUndone(q)')
    BY <1>3, <1>4 DEF NpmForward, NpmUndone
  <1>7. NpmAtUndo'
    <2>1. CASE todo = Npm!Reversed
      <3>1. /\ m = "haa" /\ pc' = "rollback"
            /\ todo' = <<"node_modules", "package-lock.json", "package.json">>
            /\ \A q \in Npm!Members : NpmForward(q)
        BY <1>1, <2>1, NpmLists, NpmNames DEF NpmLabels, NpmAtUndo, Npm!Reversed
      <3> QED BY <1>5, <1>6, <3>1 DEF NpmAtUndo
    <2>2. CASE todo = <<"node_modules", "package-lock.json", "package.json">>
      <3>1. /\ m = "node_modules" /\ pc' = "rollback"
            /\ todo' = <<"package-lock.json", "package.json">>
            /\ NpmUndone("haa") /\ \A q \in Npm!Controls : NpmForward(q)
        BY <1>1, <2>2, NpmLists, NpmNames DEF NpmLabels, NpmAtUndo, Npm!Reversed
      <3> QED BY <1>5, <1>6, <3>1, NpmNames DEF NpmAtUndo
    <2>3. CASE todo = <<"package-lock.json", "package.json">>
      <3>1. /\ m = "package-lock.json" /\ pc' = "rollback" /\ todo' = <<"package.json">>
            /\ NpmUndone("haa") /\ NpmUndone("node_modules") /\ NpmForward("package.json")
        BY <1>1, <2>3, NpmLists, NpmNames DEF NpmLabels, NpmAtUndo, Npm!Reversed
      <3> QED BY <1>5, <1>6, <3>1, NpmNames DEF NpmAtUndo
    <2>4. CASE todo = <<"package.json">>
      <3>1. /\ m = "package.json" /\ pc' = "rolledBack"
            /\ \A q \in Npm!Members \ {"package.json"} : NpmUndone(q)
        BY <1>1, <2>4, NpmLists, NpmNames DEF NpmLabels, NpmAtUndo, Npm!Reversed
      <3> QED BY <1>5, <1>6, <3>1, NpmNames DEF NpmAtUndo
    <2> QED BY <1>1, <2>1, <2>2, <2>3, <2>4 DEF NpmLabels, NpmAtUndo
  <1> QED BY <1>1, <1>7 DEF NpmLabels, NpmAtFront, NpmAtCommit, NpmAtLoop, NpmAtEnd

\* The end of the rollback and the removal of the directory.
LEMMA NpmEndStep ==
    ASSUME NpmTypes, NpmLabels, Npm!RolledBack \/ Npm!Inventory \/ Npm!Purge
    PROVE  NpmLabels'
  <1>1. CASE pc' = "close"
    BY <1>1, NpmQuiet
  <1>2. CASE pc' # "close"
    <2>1. /\ UNCHANGED <<project, tx, cmd>> /\ pc' \in {"inventory", "purge"}
          /\ pc \in {"inventory", "purge"} \/ (pc = "rolledBack" /\ tx.mode = "certain")
      BY <1>2 DEF Npm!RolledBack, Npm!Inventory, Npm!Purge, Npm!Go, Npm!disk
    <2>2. NpmUpdated \/ NpmAsBefore
      BY <2>1 DEF NpmLabels, NpmAtEnd, NpmAtUndo, NpmUndone, NpmAsBefore
    <2>3. (NpmUpdated' <=> NpmUpdated) /\ (NpmAsBefore' <=> NpmAsBefore)
      BY <2>1 DEF NpmUpdated, NpmOutput, NpmAsBefore
    <2> QED BY <2>1, <2>2, <2>3 DEF NpmLabels, NpmAtFront, NpmAtCommit, NpmAtLoop,
         NpmAtUndo, NpmAtEnd
  <1> QED BY <1>1, <1>2

\* Every step keeps the invariant.
LEMMA NpmStep ==
    ASSUME NpmInv, Npm!Next \/ UNCHANGED vars
    PROVE  NpmInv'
  <1>1. NpmTypes /\ NpmTypes'
    BY NpmTypesStep DEF NpmInv
  <1>2. ASSUME edits' = 0 PROVE NpmUntouched'
    <2>1. edits = 0
      BY <1>1, <1>2, NpmChanges
    <2>2. NpmUntouched /\ NpmLabels
      BY <2>1 DEF NpmInv, NpmUntouched
    <2>3. NpmGround'
      BY <1>1, <1>2, <2>2, NpmGroundStep
    <2>4. NpmLabels'
      <3>1. CASE Npm!Begin \/ Npm!Prepare \/ Npm!Open \/ Npm!VerifyPlan
        BY <1>1, <2>2, <3>1, NpmFrontStep
      <3>2. CASE Npm!BackUp
        BY <1>1, <2>2, <3>2, NpmBackUpStep
      <3>3. CASE Npm!Publish
        BY <1>1, <2>2, <3>3, NpmPublishStep
      <3>4. CASE Npm!PublishMetadata
        BY <1>1, <2>2, <3>4, NpmMetadataStep
      <3>5. CASE Npm!VerifyOutputs
        BY <1>1, <2>2, <3>5, NpmVerifyStep
      <3>6. CASE Npm!RollBack
        BY <1>1, <2>2, <3>6, NpmRollBackStep
      <3>7. CASE Npm!RolledBack \/ Npm!Inventory \/ Npm!Purge
        BY <1>1, <2>2, <3>7, NpmEndStep
      <3>8. CASE Npm!Close \/ Npm!Kill \/ Npm!ClearStaleLock
        BY <3>8, NpmQuiet DEF Npm!Close, Npm!Kill, Npm!ClearStaleLock, Npm!Go
      <3>9. CASE Npm!Edit
        BY <1>2, <2>1, <3>9 DEF Npm!Edit
      <3>10. CASE UNCHANGED vars
        <4>1. UNCHANGED <<tx, project, backup, selected, cmd, pc, todo>>
          BY <3>10 DEF vars, common, controls
        <4>2. NpmAtFront' /\ NpmAtLoop' /\ NpmAtEnd'
          BY <2>2, <4>1, NpmSame DEF NpmLabels, NpmAtFront, NpmAtLoop, NpmAtEnd
        <4>3. NpmAtUndo'
          BY <2>2, <4>1, NpmSame DEF NpmLabels, NpmAtUndo
        <4>4. NpmAtCommit'
          BY <2>2, <4>1, NpmSame DEF NpmLabels, NpmAtCommit, Npm!Member, NpmOutput
        <4> QED BY <4>2, <4>3, <4>4 DEF NpmLabels
      <3> QED BY <3>1, <3>2, <3>3, <3>4, <3>5, <3>6, <3>7, <3>8, <3>9, <3>10
           DEF Npm!Next
    <2> QED BY <2>3, <2>4 DEF NpmUntouched
  <1> QED BY <1>1, <1>2 DEF NpmInv

\* The two kinds of project a behaviour starts with.
LEMMA NpmStart ==
    ASSUME Npm!Init
    PROVE  \/ \A m \in Npm!Members :
                 \/ project[m] = [by |-> 0, body |-> "none", marker |-> <<>>]
                 \/ project[m] = NoFile /\ m \notin Npm!Controls
           \/ \E s \in NpmSets : \A m \in Npm!Members :
                 project[m] = [by |-> 0, body |-> s,
                               marker |-> IF m = "haa" THEN <<s, s>> ELSE <<>>]
  <1>1. CASE \E extra \in SUBSET {"node_modules", "haa"} :
                 project = [m \in Npm!Members |-> IF m \in Npm!Controls \cup extra
                                THEN Npm!Member(0, "none") ELSE NoFile]
    BY <1>1 DEF Npm!Member
  <1>2. CASE \E s \in NpmSets : project = [m \in Npm!Members |->
                 IF m = "haa" THEN [Npm!Member(0, s) EXCEPT !.marker = <<s, s>>]
                 ELSE Npm!Member(0, s)]
    <2>1. PICK s \in NpmSets : project = [m \in Npm!Members |->
              IF m = "haa" THEN [Npm!Member(0, s) EXCEPT !.marker = <<s, s>>]
              ELSE Npm!Member(0, s)]
      BY <1>2
    <2>2. /\ [Npm!Member(0, s) EXCEPT !.marker = <<s, s>>]
                = [by |-> 0, body |-> s, marker |-> <<s, s>>]
          /\ Npm!Member(0, s) = [by |-> 0, body |-> s, marker |-> <<>>]
      BY DEF Npm!Member
    <2> QED BY <2>1, <2>2
  <1> QED BY <1>1, <1>2 DEF Npm!Init

\* A behaviour starts with a coherent project and no command.
LEMMA NpmInitial ==
    ASSUME Npm!Init
    PROVE  NpmInv
  <1>1. NpmTypes
    <2>1. DOMAIN project = Npm!Members /\ cmd \in 0..MaxCommands
      BY BoundsAssumption DEF Npm!Init
    <2>2. /\ selected = Npm!Nothing /\ backup = Npm!Nothing /\ tx = Npm!NoTx
          /\ pc = "idle" /\ edits = 0
      BY DEF Npm!Init
    <2>3. \A n \in Npm!Controls : NpmMade(selected[n]) /\ NpmMade(tx.out[n])
      BY <2>2 DEF Npm!NoTx, Npm!Nothing, Npm!Members, NpmMade
    <2> QED BY <2>1, <2>2, <2>3 DEF NpmTypes, NpmFields, Npm!NoTx, Npm!Nothing, NpmInside
  <1>2. NpmLabels
    BY DEF Npm!Init, NpmLabels, NpmAtFront, NpmAtCommit, NpmAtLoop, NpmAtUndo, NpmAtEnd
  <1>3. NpmCoherent(project)
    <2>1. CASE \A m \in Npm!Members :
                  \/ project[m] = [by |-> 0, body |-> "none", marker |-> <<>>]
                  \/ project[m] = NoFile /\ m \notin Npm!Controls
      <3>1. \A n \in Npm!Controls : project[n] # NoFile /\ project[n].body = "none"
        BY <2>1, NpmNames, NpmAssumption
      <3>2. project["haa"] # NoFile => project["haa"].marker = <<>>
        BY <2>1, NpmNames
      <3> QED BY <3>1, <3>2, NpmNames DEF NpmCoherent, Npm!Bound
    <2>2. CASE \E s \in NpmSets : \A m \in Npm!Members :
                  project[m] = [by |-> 0, body |-> s,
                                marker |-> IF m = "haa" THEN <<s, s>> ELSE <<>>]
      <3>1. PICK s \in NpmSets : \A m \in Npm!Members :
                project[m] = [by |-> 0, body |-> s,
                              marker |-> IF m = "haa" THEN <<s, s>> ELSE <<>>]
        BY <2>2
      <3>2. ASSUME NEW m \in Npm!Members
            PROVE  /\ project[m] # NoFile /\ project[m].body = s
                   /\ m = "haa" => project[m].marker = <<s, s>>
        <4>1. PICK b \in Nat : b = 0
          OBVIOUS
        <4>2. project[m] = [by |-> b, body |-> s,
                              marker |-> IF m = "haa" THEN <<s, s>> ELSE <<>>]
          BY <3>1, <4>1
        <4> QED BY <4>1, <4>2, NpmAssumption
      <3>3. /\ \A n \in Npm!Controls : project[n] # NoFile /\ project[n].body = s
            /\ project["haa"] # NoFile /\ project["haa"].marker = <<s, s>>
        BY <3>2, NpmNames
      <3> QED BY <3>2, <3>3, NpmNames DEF NpmCoherent, Npm!Bound
    <2> QED BY <2>1, <2>2, NpmStart
  <1>4. NpmGround
    BY <1>3 DEF Npm!Init, NpmGround, Npm!Nothing
  <1> QED BY <1>1, <1>2, <1>4 DEF NpmInv, NpmUntouched

-----------------------------------------------------------------------------
(* npm: what the invariant gives                                           *)

LEMMA NpmOpen ==
    ASSUME NpmInv
    PROVE  Npm!OpenMeansAdmissible
  BY DEF NpmInv, NpmUntouched, NpmGround, NpmCoherent, Npm!OpenMeansAdmissible,
     Npm!ManagedOrEmpty, Npm!Freezable, Npm!Marker, Npm!DependencyFree

\* What is in the directory was recorded as it was moved there, each member at
\* its turn, and nothing is in it before it is made.
NpmRecorded ==
    /\ dir = 0 \/ pc = "verify" => \A m \in Npm!Members : backup[m] = NoFile
    /\ pc = "backup" =>
           \/ todo = Npm!Order /\ \A m \in Npm!Members : backup[m] = NoFile
           \/ /\ todo = <<"package-lock.json", "node_modules", "haa">>
              /\ \A m \in Npm!Members \ {"package.json"} : backup[m] = NoFile
           \/ /\ todo = <<"node_modules", "haa">>
              /\ \A m \in {"node_modules", "haa"} : backup[m] = NoFile
           \/ todo = <<"haa">> /\ backup["haa"] = NoFile
    /\ pc \in NpmInside => \A m \in Npm!Members : backup[m] \in {NoFile, tx.before[m]}

LEMMA NpmRecordedStep ==
    ASSUME NpmTypes, NpmRecorded, Npm!Next \/ UNCHANGED vars
    PROVE  NpmRecorded'
  <1> USE DEF NpmRecorded, NpmInside, Npm!Go, Npm!disk, Npm!user, Npm!Fails
  <1>1. CASE Npm!Begin
    BY <1>1 DEF Npm!Begin
  <1>2. CASE Npm!Prepare
    BY <1>2 DEF Npm!Prepare
  <1>3. CASE Npm!Open
    <2>1. tx' = tx \/ tx' = [tx EXCEPT !.view = project]
      BY <1>3 DEF Npm!Open
    <2>2. tx'.before = tx.before
      BY <2>1 DEF NpmTypes, NpmFields
    <2>3. /\ pc' \in {"verify", "close"} /\ UNCHANGED backup
          /\ dir' = 0 \/ pc' = "verify" => dir = 0
      BY <1>3 DEF Npm!Open, Npm!NoJournal, NpmTypes
    <2> HIDE DEF NpmInside
    <2>4. \A m \in Npm!Members : dir' = 0 \/ pc' = "verify" => backup'[m] = NoFile
      BY <2>3
    <2>5. pc' # "backup" /\ (pc' \in NpmInside => pc' = "verify")
      BY <2>3 DEF NpmInside
    <2> QED BY <2>4, <2>5
  <1>4. CASE Npm!VerifyPlan \/ Npm!VerifyOutputs
    <2>1. tx'.before = tx.before
      BY <1>4 DEF Npm!VerifyPlan, Npm!VerifyOutputs, NpmTypes, NpmFields
    <2> QED BY <1>4, <2>1 DEF Npm!VerifyPlan, Npm!VerifyOutputs
  <1>5. CASE Npm!BackUp
    <2>1. CASE Npm!Fails("backup")
      BY <2>1
    <2>2. CASE ~Npm!Fails("backup")
      <3>1. PICK m : m = Head(todo)
        OBVIOUS
      <3>2. /\ backup' = [backup EXCEPT ![m] = project[m]]
            /\ tx' = [tx EXCEPT !.before[m] = project[m]]
            /\ pc = "backup" /\ dir' = dir
        BY <1>5, <2>2, <3>1 DEF Npm!BackUp
      <3>3. tx'.before = [tx.before EXCEPT ![m] = project[m]]
        BY <3>2 DEF NpmTypes, NpmFields
      <3>4. dir # 0
        BY <3>2 DEF NpmTypes
      <3>5. \A n \in Npm!Members : backup'[n] \in {NoFile, tx'.before[n]}
        BY <3>2, <3>3 DEF NpmTypes
      <3>6. \/ Tail(todo) = <<>> /\ pc' = "publish"
            \/ Tail(todo) # <<>> /\ pc' = "backup" /\ todo' = Tail(todo)
        BY <1>5, <2>2 DEF Npm!BackUp
      <3>7. \A n \in Npm!Members : n # m => backup'[n] = backup[n]
        BY <3>2 DEF NpmTypes
      <3> QED BY <3>1, <3>2, <3>4, <3>5, <3>6, <3>7, NpmLists, NpmNames
        <2> QED BY <2>1, <2>2
  <1>6. CASE Npm!Publish \/ Npm!PublishMetadata
    <2>1. tx'.before = tx.before
      BY <1>6 DEF Npm!Publish, Npm!PublishMetadata, NpmTypes, NpmFields
    <2> QED BY <1>6, <2>1 DEF Npm!Publish, Npm!PublishMetadata
  <1>7. CASE Npm!RollBack
    <2>1. tx'.before = tx.before
      BY <1>7 DEF Npm!RollBack, Npm!Uncertain, NpmTypes, NpmFields
    <2> QED BY <1>7, <2>1 DEF Npm!RollBack, NpmTypes
  <1>8. CASE Npm!RolledBack \/ Npm!Inventory \/ Npm!Close \/ Npm!Kill \/ Npm!ClearStaleLock
    BY <1>8 DEF Npm!RolledBack, Npm!Inventory, Npm!Close, Npm!Kill, Npm!ClearStaleLock
  <1>9. CASE Npm!Purge
    BY <1>9 DEF Npm!Purge, Npm!Nothing, NpmTypes
  <1>10. CASE Npm!Edit
    BY <1>10 DEF Npm!Edit
  <1>11. CASE UNCHANGED vars
    BY <1>11 DEF vars, common, controls
  <1> QED
    BY <1>1, <1>2, <1>3, <1>4, <1>5, <1>6, <1>7, <1>8, <1>9, <1>10, <1>11 DEF Npm!Next

LEMMA NpmKeeps ==
    ASSUME NpmTypes, NpmRecorded, Npm!Next
    PROVE  Npm!KeepsSeenFile
  <1>0. strays' = strays \/ edits' # edits
    BY DEF Npm!Next, Npm!disk, Npm!user, Npm!Fails, Npm!Begin, Npm!Prepare, Npm!Open,
       Npm!VerifyPlan, Npm!BackUp, Npm!Publish, Npm!PublishMetadata, Npm!VerifyOutputs,
       Npm!RollBack, Npm!RolledBack, Npm!Inventory, Npm!Purge, Npm!Close, Npm!Kill,
       Npm!ClearStaleLock, Npm!Edit, NpmTypes
  <1>a. ASSUME NEW n \in Npm!Controls, Npm!UserSaved(project[n])
        PROVE  \/ project'[n] = project[n] \/ edits' # edits
               \/ pc = "backup" /\ backup'[n] = project[n]
    <2>1. /\ n \in Npm!Members /\ n # "haa" /\ project[n] # NoFile
          /\ project[n].by > MaxCommands /\ project[n] # tx.out[n]
      BY <1>a, BoundsAssumption, NpmNames DEF Npm!UserSaved, NpmTypes, NpmMade, Npm!Members
    <2>2. CASE Npm!BackUp
      BY <2>1, <2>2 DEF Npm!BackUp, Npm!Fails, Npm!disk, NpmTypes
    <2>3. CASE Npm!Publish
      BY <2>1, <2>3 DEF Npm!Publish, Npm!Fails, Npm!disk, NpmTypes
    <2>4. CASE Npm!PublishMetadata
      BY <2>1, <2>4 DEF Npm!PublishMetadata, Npm!Fails, Npm!disk, NpmTypes
    <2>5. CASE Npm!RollBack
      BY <2>1, <2>5 DEF Npm!RollBack, Npm!RemovedPartly, NpmTypes
    <2>6. CASE Npm!Edit
      BY <2>6 DEF Npm!Edit, NpmTypes
    <2>7. CASE \/ Npm!Begin \/ Npm!Prepare \/ Npm!Open \/ Npm!VerifyPlan
               \/ Npm!VerifyOutputs \/ Npm!RolledBack \/ Npm!Inventory \/ Npm!Purge
               \/ Npm!Close \/ Npm!Kill \/ Npm!ClearStaleLock
      BY <2>7 DEF Npm!disk, Npm!Fails, Npm!Begin, Npm!Prepare, Npm!Open, Npm!VerifyPlan,
         Npm!VerifyOutputs, Npm!RolledBack, Npm!Inventory, Npm!Purge, Npm!Close,
         Npm!Kill, Npm!ClearStaleLock
    <2> QED BY <2>2, <2>3, <2>4, <2>5, <2>6, <2>7 DEF Npm!Next
  <1>b. ASSUME NEW n \in Npm!Controls, Npm!UserSaved(backup[n])
        PROVE  \/ backup'[n] = backup[n] \/ project'[n] = backup[n]
               \/ tx.mode = "committed"
    <2>1. n \in Npm!Members /\ backup[n] # NoFile
      BY <1>b, NpmNames DEF Npm!UserSaved
    <2>2. CASE Npm!BackUp
      <3>1. CASE Npm!Fails("backup")
        BY <3>1 DEF Npm!Fails, Npm!disk
      <3>2. CASE ~Npm!Fails("backup")
        <4>1. /\ backup' = [backup EXCEPT ![Head(todo)] = project[Head(todo)]]
              /\ pc = "backup"
          BY <2>2, <3>2 DEF Npm!BackUp
        <4>2. CASE n # Head(todo)
          BY <4>1, <4>2
        <4>3. n # Head(todo)
          BY <2>1, <4>1, NpmLists, NpmNames DEF NpmRecorded
        <4> QED BY <4>2, <4>3
      <3> QED BY <3>1, <3>2
    <2>3. CASE Npm!RollBack
      <3>1. backup[n] = tx.before[n]
        BY <2>1, <2>3 DEF Npm!RollBack, NpmRecorded, NpmInside
      <3> QED BY <2>1, <2>3, <3>1 DEF Npm!RollBack, NpmTypes
    <2>4. CASE Npm!Purge
      BY <2>1, <2>4 DEF Npm!Purge, Npm!Wanted, Npm!Nothing, NpmTypes
    <2>5. CASE \/ Npm!Begin \/ Npm!Prepare \/ Npm!Open \/ Npm!VerifyPlan \/ Npm!Publish
               \/ Npm!PublishMetadata \/ Npm!VerifyOutputs \/ Npm!RolledBack
               \/ Npm!Inventory \/ Npm!Close \/ Npm!Kill \/ Npm!ClearStaleLock \/ Npm!Edit
      BY <2>5 DEF Npm!disk, Npm!Fails, Npm!Begin, Npm!Prepare, Npm!Open, Npm!VerifyPlan,
         Npm!Publish, Npm!PublishMetadata, Npm!VerifyOutputs, Npm!RolledBack,
         Npm!Inventory, Npm!Close, Npm!Kill, Npm!ClearStaleLock, Npm!Edit
    <2> QED BY <2>2, <2>3, <2>4, <2>5 DEF Npm!Next
  <1> QED BY <1>0, <1>a, <1>b DEF Npm!KeepsSeenFile

\* The first state is a state ApprovedProject may start in.
LEMMA NpmStartsCoherent ==
    ASSUME Npm!Init
    PROVE  Npm!Coherent
  <1> DEFINE Shown == [m \in Npm!Members |->
                 IF Npm!Visible[m] = NoFile THEN NoFile ELSE Npm!Visible[m].body]
             Granted == IF Npm!Visible["haa"] = NoFile \/ Npm!Visible["haa"].marker = <<>>
                        THEN NoFile ELSE [m \in Npm!Members |-> Npm!Visible["haa"].marker[1]]
  <1>0. dir = 0 /\ edits = 0 /\ Npm!Visible = project
    BY DEF Npm!Init, Npm!Visible
  <1>1. SUFFICES IF Granted = NoFile
                 THEN Shown \in {c \in [Npm!Members -> {"none", NoFile}] :
                                    \A n \in Npm!Controls : c[n] = "none"}
                 ELSE Shown = Granted
    BY <1>0 DEF Npm!Coherent, Npm!Abstract!AInit, Npm!Abstract!Coherent
  <1>2. CASE \A m \in Npm!Members :
                \/ project[m] = [by |-> 0, body |-> "none", marker |-> <<>>]
                \/ project[m] = NoFile /\ m \notin Npm!Controls
    <2>1. \A m \in Npm!Members :
              /\ project[m] # NoFile => project[m].body = "none" /\ project[m].marker = <<>>
              /\ m \in Npm!Controls => project[m] # NoFile
      BY <1>2, NpmAssumption
    <2>2. Granted = NoFile
      BY <1>0, <2>1, NpmNames
    <2>3. /\ Shown \in [Npm!Members -> {"none", NoFile}]
          /\ \A n \in Npm!Controls : Shown[n] = "none"
      BY <1>0, <2>1, NpmNames
    <2> QED BY <2>2, <2>3
  <1>3. CASE \E s \in NpmSets : \A m \in Npm!Members :
                project[m] = [by |-> 0, body |-> s,
                              marker |-> IF m = "haa" THEN <<s, s>> ELSE <<>>]
    <2>1. PICK s \in NpmSets : \A m \in Npm!Members :
              project[m] = [by |-> 0, body |-> s,
                            marker |-> IF m = "haa" THEN <<s, s>> ELSE <<>>]
      BY <1>3
    <2>2. ASSUME NEW m \in Npm!Members
          PROVE  /\ project[m] # NoFile /\ project[m].body = s
                 /\ m = "haa" => project[m].marker = <<s, s>>
      <3>1. PICK b \in Nat : b = 0
        OBVIOUS
      <3>2. project[m] = [by |-> b, body |-> s,
                            marker |-> IF m = "haa" THEN <<s, s>> ELSE <<>>]
        BY <2>1, <3>1
      <3> QED BY <3>1, <3>2, NpmAssumption
    <2>3. project["haa"].marker = <<s, s>>
      BY <2>2, NpmNames
    <2>4. Granted = [m \in Npm!Members |-> s]
      BY <1>0, <2>2, <2>3, NpmNames
    <2>5. Granted # NoFile
      BY <2>4, NpmAssumption DEF Npm!Members, Npm!Controls
    <2>6. Shown = [m \in Npm!Members |-> s]
      BY <1>0, <2>2
    <2> QED BY <2>4, <2>5, <2>6
  <1> QED BY <1>2, <1>3, NpmStart

\* Every step is a step of ApprovedProject, or leaves what it shows alone.
LEMMA NpmMoves ==
    ASSUME NpmInv, NpmInv', Npm!Next
    PROVE  Npm!MovesTogether
  <1> DEFINE Shown == [m \in Npm!Members |->
                 IF Npm!Visible[m] = NoFile THEN NoFile ELSE Npm!Visible[m].body]
             Granted == IF Npm!Visible["haa"] = NoFile \/ Npm!Visible["haa"].marker = <<>>
                        THEN NoFile ELSE [m \in Npm!Members |-> Npm!Visible["haa"].marker[1]]
  <1>1. CASE edits' # 0
    BY <1>1 DEF Npm!MovesTogether, Npm!Abstract!ANext, Npm!Abstract!Drift
  <1>2. CASE edits' = 0
    <2>1. /\ edits = 0 /\ NpmTypes
          /\ dir' = dir \/ Npm!Open \/ Npm!Purge
          /\ dir = 0 /\ dir' = 0 => UNCHANGED <<project, backup>>
          /\ dir # 0 => tx'.view = tx.view
      BY <1>2, NpmChanges DEF NpmInv
    <2>2. NpmUntouched
      BY <2>1 DEF NpmInv
    <2>3. SUFFICES \/ Shown' = Shown /\ Granted' = Granted
                   \/ /\ Shown' \in {[m \in Npm!Members |-> s] : s \in NpmSets}
                      /\ Granted' = Shown'
      BY <1>2, <2>1 DEF Npm!MovesTogether, Npm!Abstract!ANext,
         Npm!Abstract!Approve, Npm!Abstract!avars
    <2>4. CASE \A m \in Npm!Members : Npm!Visible'[m] = Npm!Visible[m]
      BY <2>4, NpmNames
    <2>5. CASE (dir = 0 /\ dir' = 0) \/ (dir # 0 /\ dir' # 0)
      BY <2>1, <2>4, <2>5 DEF Npm!Visible
    <2>6. CASE dir = 0 /\ dir' # 0
      BY <2>1, <2>2, <2>4, <2>6, NpmDirectory DEF Npm!Visible
    <2>7. CASE dir # 0 /\ dir' = 0
      <3>1. UNCHANGED <<tx, project>> /\ (NpmUpdated \/ NpmAsBefore)
        BY <2>1, <2>2, <2>7, NpmDirectory
      <3>2. CASE NpmAsBefore
        BY <2>4, <2>7, <3>1, <3>2 DEF Npm!Visible, NpmAsBefore
      <3>3. CASE NpmUpdated
        <4>1. PICK s \in NpmSets : \A m \in Npm!Members : project[m] = NpmOutput(s, m)
          BY <3>3 DEF NpmUpdated
        <4>2. ASSUME NEW m \in Npm!Members
              PROVE  /\ project[m] # NoFile /\ project[m].body = s
                     /\ m = "haa" => project[m].marker = <<s, s>>
          <5>1. project[m] = [by |-> cmd, body |-> s,
                              marker |-> IF m = "haa" THEN <<s, s>> ELSE <<>>]
            BY <4>1 DEF NpmOutput
          <5>2. cmd \in Nat
            BY <2>1, BoundsAssumption DEF NpmTypes
          <5> QED BY <5>1, <5>2, NpmAssumption
        <4>3. Npm!Visible' = project
          BY <2>7, <3>1 DEF Npm!Visible
        <4>4. Shown' = [m \in Npm!Members |-> s] /\ Granted' = [m \in Npm!Members |-> s]
          BY <4>2, <4>3, NpmNames
        <4> QED BY <4>4
      <3> QED BY <3>1, <3>2, <3>3
    <2> QED BY <2>5, <2>6, <2>7
  <1> QED BY <1>1, <1>2

-----------------------------------------------------------------------------
(* The Python environment: the inductive invariant                         *)

VenvFields == {"before", "current", "desired", "update", "backed", "published",
               "ledgerAt", "mode"}

\* The calls of a command that owns the recovery directory.
VenvForward == {"ledger", "backup", "move", "publish", "place", "ledgerAside",
                "ledgerNext", "ledgerPlace", "reconcile"}
VenvInside  == VenvForward \cup {"rbLedger", "rbPublished", "rbBacked", "inventory", "purge"}

\* Files that no user saved.
VenvOld == 0..(MaxCommands + 1)

VenvTypes ==
    /\ files \in [VenvKeys -> Nat]
    /\ DOMAIN tx = VenvFields
    /\ cmd \in 0..MaxCommands /\ edits \in Nat
    /\ pc # "idle" => cmd # 0
    /\ pc \in VenvInside => dir = cmd
    /\ pc = "prepare" => dir = 0

\* A ledger records no file of the user.
VenvLedger(l) == DOMAIN l \subseteq VenvKeys /\ \A k \in DOMAIN l : l[k].file \in VenvOld

\* The ledgers, and what was frozen under the one in force.
VenvLedgers ==
    /\ VenvLedger(ledger) /\ VenvLedger(aledger) /\ VenvLedger(nextLedger)
    /\ VenvLedger(tx.current) /\ VenvLedger(tx.desired)
    /\ DOMAIN tx.update \subseteq VenvKeys
    /\ \A k \in VenvKeys :
           /\ tx.before[k] \in VenvOld
           /\ tx.before[k] # 0 => k \in DOMAIN tx.current

\* A destination of the update, or one only its distributions own.
VenvTaken(k) ==
    k \in DOMAIN tx.current => tx.current[k].owners \subseteq Venv!Replaced(tx.update)

VenvLoop ==
    /\ pc \in {"ledger", "backup", "move", "publish", "place"} => todo \in Seq(VenvKeys)
    /\ pc \in {"ledger", "backup", "move"} => \A i \in 1..Len(todo) : VenvTaken(todo[i])
    /\ pc \in {"move", "place"} => todo # <<>>
    /\ pc = "move" => tx.before[Head(todo)] # 0

\* What a record of the journal names: a step and, for most, a destination.
VenvSteps   == {"begin", "backup", "publish", "backup-metadata", "publish-metadata"}
VenvIntents == VenvSteps \X (VenvKeys \cup {""})

\* What the recovery directory holds, and the originals found in it.
VenvDirectory ==
    /\ aside \in Seq(Nat) /\ tx.backed \in Seq(VenvKeys)
    /\ journal \in Seq(VenvIntents)
    /\ dir = 0 => aside = <<>>
    /\ pc = "prepare" => tx.backed = <<>>
    /\ pc \in VenvInside \ {"purge"} => Len(aside) = Len(tx.backed)
    /\ pc \in VenvForward \ {"ledger"} => journal # <<>>
    /\ pc \in VenvInside /\ journal = <<>> => aside = <<>>
    /\ pc = "purge" => \A i \in 1..Len(aside) : aside[i] \in VenvOld

\* What an unedited environment keeps to.
VenvGround ==
    edits = 0 =>
        /\ dir = 0 => Venv!Holds(ledger)
        /\ pc \in {"inventory", "purge"} => Venv!Holds(ledger)

VenvInv == VenvTypes /\ VenvLedgers /\ VenvLoop /\ VenvDirectory /\ VenvGround

-----------------------------------------------------------------------------
(* The Python environment: every step keeps the invariant                  *)

\* The order a loop takes a finite set in is a list of its elements.
LEMMA VenvListed ==
    ASSUME NEW S, IsFiniteSet(S)
    PROVE  Venv!SetToSeq(S) \in Seq(S)
  <1>1. Cardinality(S) \in Nat /\ ExistsBijection(1..Cardinality(S), S)
    BY FS_CardinalityType
  <1>2. PICK f \in [1..Cardinality(S) -> S] : \A a, b \in DOMAIN f : f[a] = f[b] => a = b
    BY <1>1 DEF ExistsBijection, Bijection, Injection, IsInjective
  <1>3. Venv!SetToSeq(S) \in [1..Cardinality(S) -> S]
    BY <1>2 DEF Venv!SetToSeq, Venv!IsInjective, Venv!Cardinality, Cardinality
  <1> QED BY <1>1, <1>3

\* The list of two lists.
LEMMA VenvJoined ==
    ASSUME NEW S, NEW T, NEW U, S \subseteq U, T \subseteq U,
           NEW s \in Seq(S), NEW t \in Seq(T)
    PROVE  /\ s \o t \in Seq(U)
           /\ \A i \in 1..Len(s \o t) : (s \o t)[i] \in S \cup T
  <1>1. s \in Seq(S \cup T) /\ t \in Seq(S \cup T)
    OBVIOUS
  <1>2. s \o t \in Seq(S \cup T)
    BY <1>1
  <1> QED BY <1>2

\* Fields of the transaction and what the control is about.
LEMMA VenvTypesStep ==
    ASSUME VenvInv, Venv!Next \/ UNCHANGED vars
    PROVE  VenvTypes'
  <1> USE DEF VenvFields, VenvInside, VenvForward, Venv!Go, Venv!disk, Venv!user
  <1>0. VenvTypes /\ MaxCommands \in Nat
    BY BoundsAssumption DEF VenvInv
  <1>1. CASE Venv!Begin
    <2>1. DOMAIN tx' = VenvFields
      BY <1>0, <1>1 DEF VenvTypes, Venv!Begin, Venv!NoTx
    <2> QED BY <1>0, <1>1, <2>1 DEF VenvTypes, Venv!Begin
  <1>2. CASE Venv!Prepare
    BY <1>0, <1>2 DEF VenvTypes, Venv!Prepare
  <1>3. CASE Venv!OpenJournal
    BY <1>0, <1>3 DEF VenvTypes, Venv!OpenJournal, Venv!Fails
  <1>4. CASE Venv!IntendBackup
    BY <1>0, <1>4 DEF VenvTypes, Venv!IntendBackup, Venv!Fails
  <1>5. CASE Venv!MoveAside
    <2>1. files' \in [VenvKeys -> Nat]
      BY <1>0, <1>5 DEF VenvTypes, Venv!MoveAside, Venv!Fails, Venv!TakeAside, Venv!Absent
    <2>2. DOMAIN tx' = VenvFields
      BY <1>0, <1>5 DEF VenvTypes, Venv!MoveAside, Venv!Fails
    <2> QED BY <1>0, <1>5, <2>1, <2>2 DEF VenvTypes, Venv!MoveAside, Venv!Fails
  <1>6. CASE Venv!IntendPublish
    BY <1>0, <1>6 DEF VenvTypes, Venv!IntendPublish, Venv!Fails
  <1>7. CASE Venv!Place
    <2>1. files' \in [VenvKeys -> Nat] /\ DOMAIN tx' = VenvFields
      BY <1>0, <1>7 DEF VenvTypes, Venv!Place, Venv!Fails, Venv!Written
    <2> QED BY <1>0, <1>7, <2>1 DEF VenvTypes, Venv!Place, Venv!Fails
  <1>8. CASE Venv!LedgerAside
    <2>1. DOMAIN tx' = VenvFields
      BY <1>0, <1>8 DEF VenvTypes, Venv!LedgerAside, Venv!Fails
    <2> QED BY <1>0, <1>8, <2>1 DEF VenvTypes, Venv!LedgerAside, Venv!Fails
  <1>9. CASE Venv!LedgerNext
    BY <1>0, <1>9 DEF VenvTypes, Venv!LedgerNext, Venv!Fails
  <1>10. CASE Venv!LedgerPlace
    BY <1>0, <1>10 DEF VenvTypes, Venv!LedgerPlace, Venv!Fails
  <1>11. CASE Venv!Reconcile
    BY <1>0, <1>11 DEF VenvTypes, Venv!Reconcile, Venv!Fails
  <1>12. CASE Venv!RollBackLedger
    BY <1>0, <1>12 DEF VenvTypes, Venv!RollBackLedger, Venv!GiveUp
  <1>13. CASE Venv!RemovePublished
    <2>1. files' \in [VenvKeys -> Nat] /\ DOMAIN tx' = VenvFields
      BY <1>0, <1>13 DEF VenvTypes, Venv!RemovePublished, Venv!GiveUp, Venv!RemoveFile,
         Venv!Absent
    <2> QED BY <1>0, <1>13, <2>1 DEF VenvTypes, Venv!RemovePublished, Venv!GiveUp
  <1>14. CASE Venv!RestoreBacked
    <2>1. DOMAIN tx' = VenvFields
      BY <1>0, <1>14 DEF VenvTypes, Venv!RestoreBacked, Venv!GiveUp
    <2>2. files' \in [VenvKeys -> Nat]
      <3>1. CASE pc = "rbBacked" /\ tx.backed # <<>>
              /\ files' = [files EXCEPT ![Venv!Last(tx.backed)] = Venv!Last(aside)]
        <4>1. aside \in Seq(Nat) /\ tx.backed \in Seq(VenvKeys) /\ Len(aside) = Len(tx.backed)
          BY <3>1 DEF VenvInv, VenvDirectory
        <4>2. Venv!Last(aside) \in Nat
          BY <3>1, <4>1 DEF Venv!Last
        <4> QED BY <1>0, <3>1, <4>2 DEF VenvTypes
      <3>2. CASE files' = files
        BY <1>0, <3>2 DEF VenvTypes
      <3> QED BY <1>14, <3>1, <3>2 DEF Venv!RestoreBacked, Venv!GiveUp
    <2> QED BY <1>0, <1>14, <2>1, <2>2 DEF VenvTypes, Venv!RestoreBacked, Venv!GiveUp
  <1>15. CASE Venv!Inventory
    BY <1>0, <1>15 DEF VenvTypes, Venv!Inventory, Venv!GiveUp
  <1>16. CASE Venv!Purge
    BY <1>0, <1>16 DEF VenvTypes, Venv!Purge, Venv!GiveUp
  <1>17. CASE Venv!Close \/ Venv!Kill \/ Venv!ClearStaleLock
    BY <1>0, <1>17 DEF VenvTypes, Venv!Close, Venv!Kill, Venv!ClearStaleLock
  <1>18. CASE Venv!Edit
    <2>1. edits' \in Nat /\ files' \in [VenvKeys -> Nat]
      BY <1>0, <1>18 DEF VenvTypes, Venv!Edit
    <2> QED BY <1>0, <1>18, <2>1 DEF VenvTypes, Venv!Edit
  <1>19. CASE UNCHANGED vars
    BY <1>0, <1>19 DEF VenvTypes, vars, common, environment
  <1> QED BY <1>1, <1>2, <1>3, <1>4, <1>5, <1>6, <1>7, <1>8, <1>9, <1>10, <1>11, <1>12,
             <1>13, <1>14, <1>15, <1>16, <1>17, <1>18, <1>19 DEF Venv!Next

\* The plan of a transaction is made by Begin and Prepare; the ledgers that
\* later steps put in force are the ones made before.
LEMMA VenvFrame ==
    ASSUME VenvTypes, Venv!Next \/ UNCHANGED vars, ~Venv!Begin, ~Venv!Prepare
    PROVE  /\ tx'.before = tx.before /\ tx'.current = tx.current
           /\ tx'.desired = tx.desired /\ tx'.update = tx.update
           /\ {ledger', aledger', nextLedger'}
                  \subseteq {ledger, aledger, nextLedger, tx.desired, Venv!NoLedger}
           /\ Venv!MoveAside \/ Venv!RestoreBacked \/ tx'.backed = tx.backed
  <1> USE DEF VenvFields, Venv!Go, Venv!disk, Venv!user
  <1>1. CASE UNCHANGED <<tx, ledger, aledger, nextLedger>>
    BY <1>1
  <1>2. CASE Venv!MoveAside
    BY <1>1, <1>2 DEF VenvTypes, Venv!MoveAside, Venv!Fails
  <1>3. CASE Venv!Place
    BY <1>1, <1>3 DEF VenvTypes, Venv!Place, Venv!Fails
  <1>4. CASE Venv!LedgerAside
    BY <1>1, <1>4 DEF VenvTypes, Venv!LedgerAside, Venv!Fails
  <1>5. CASE Venv!LedgerNext
    BY <1>1, <1>5 DEF VenvTypes, Venv!LedgerNext, Venv!Fails
  <1>6. CASE Venv!LedgerPlace
    BY <1>1, <1>6 DEF VenvTypes, Venv!LedgerPlace, Venv!Fails
  <1>7. CASE Venv!Reconcile
    BY <1>1, <1>7 DEF VenvTypes, Venv!Reconcile, Venv!Fails
  <1>8. CASE Venv!RollBackLedger
    BY <1>1, <1>8 DEF VenvTypes, Venv!RollBackLedger, Venv!GiveUp
  <1>9. CASE Venv!RemovePublished
    BY <1>1, <1>9 DEF VenvTypes, Venv!RemovePublished, Venv!GiveUp
  <1>10. CASE Venv!RestoreBacked
    BY <1>1, <1>10 DEF VenvTypes, Venv!RestoreBacked, Venv!GiveUp
  <1>11. CASE Venv!Inventory \/ Venv!Purge
    BY <1>1, <1>11 DEF VenvTypes, Venv!Inventory, Venv!Purge, Venv!GiveUp
  <1>12. CASE Venv!OpenJournal \/ Venv!IntendBackup \/ Venv!IntendPublish
    BY <1>1, <1>12 DEF Venv!OpenJournal, Venv!IntendBackup, Venv!IntendPublish, Venv!Fails
  <1>13. CASE Venv!Close \/ Venv!Kill \/ Venv!ClearStaleLock \/ Venv!Edit
    BY <1>1, <1>13 DEF Venv!Close, Venv!Kill, Venv!ClearStaleLock, Venv!Edit
  <1>14. CASE UNCHANGED vars
    BY <1>1, <1>14 DEF vars, common, environment
  <1> QED BY <1>2, <1>3, <1>4, <1>5, <1>6, <1>7, <1>8, <1>9, <1>10, <1>11, <1>12, <1>13,
             <1>14 DEF Venv!Next

\* What a command freezes is what the ledger in force records.
LEMMA VenvBeginPlan ==
    ASSUME VenvInv, Venv!Begin, pc' = "prepare"
    PROVE  /\ dir = 0 /\ UNCHANGED <<files, ledger, aledger, nextLedger>>
           /\ tx'.current = ledger /\ tx'.desired = Venv!NoLedger /\ tx'.update = <<>>
           /\ tx'.backed = <<>>
           /\ \A k \in VenvKeys : tx'.before[k] = IF k \in DOMAIN ledger
                                                  THEN ledger[k].file ELSE 0
  <1> USE DEF Venv!Go, Venv!disk, Venv!user
  <1>1. /\ dir = 0 /\ Venv!Holds(ledger) /\ UNCHANGED <<files, ledger, aledger, nextLedger>>
        /\ tx' = [Venv!NoTx EXCEPT !.current = ledger, !.before = Venv!Frozen]
    BY DEF Venv!Begin
  <1>2. tx' = [before |-> Venv!Frozen, current |-> ledger, desired |-> Venv!NoLedger,
               update |-> <<>>, backed |-> <<>>, published |-> <<>>, ledgerAt |-> "unmoved",
               mode |-> "clean"]
    BY <1>1 DEF Venv!NoTx
  <1>3. \A k \in VenvKeys : Venv!Frozen[k] = IF k \in DOMAIN ledger THEN ledger[k].file ELSE 0
    BY <1>1 DEF Venv!Frozen, Venv!Holds, Venv!Owned, Venv!Absent
  <1>4. /\ tx'.before = Venv!Frozen /\ tx'.current = ledger /\ tx'.desired = Venv!NoLedger
        /\ tx'.update = <<>> /\ tx'.backed = <<>>
    BY <1>2
  <1> QED BY <1>1, <1>3, <1>4

\* The ledgers never record a file of the user, and neither does the plan.
LEMMA VenvLedgersStep ==
    ASSUME VenvInv, Venv!Next \/ UNCHANGED vars
    PROVE  VenvLedgers'
  <1> USE DEF Venv!Go, Venv!disk, Venv!user
  <1>0. VenvTypes /\ VenvLedgers /\ MaxCommands \in Nat
    BY BoundsAssumption DEF VenvInv
  <1>1. VenvLedger(<<>>)
    BY DEF VenvLedger
  <1>2. CASE ~Venv!Begin /\ ~Venv!Prepare
    <2>1. /\ tx'.before = tx.before /\ tx'.current = tx.current
          /\ tx'.desired = tx.desired /\ tx'.update = tx.update
          /\ {ledger', aledger', nextLedger'}
                 \subseteq {ledger, aledger, nextLedger, tx.desired, <<>>}
      BY <1>0, <1>2, VenvFrame DEF Venv!NoLedger
    <2>2. \A l \in {ledger, aledger, nextLedger, tx.desired, <<>>} : VenvLedger(l)
      BY <1>0, <1>1 DEF VenvLedgers
    <2>3. VenvLedger(ledger') /\ VenvLedger(aledger') /\ VenvLedger(nextLedger')
      BY <2>1, <2>2
    <2> QED BY <1>0, <2>1, <2>3 DEF VenvLedgers, VenvLedger
  <1>3. CASE Venv!Begin
    <2>1. CASE pc' = "prepare"
      <3>1. /\ UNCHANGED <<ledger, aledger, nextLedger>> /\ tx'.current = ledger
            /\ tx'.desired = <<>> /\ tx'.update = <<>>
            /\ \A k \in VenvKeys : tx'.before[k] = IF k \in DOMAIN ledger
                                                   THEN ledger[k].file ELSE 0
        BY <1>3, <2>1, VenvBeginPlan DEF Venv!NoLedger
      <3>2. \A k \in VenvKeys : tx'.before[k] \in VenvOld
                                /\ (tx'.before[k] # 0 => k \in DOMAIN tx'.current)
        BY <1>0, <3>1 DEF VenvLedgers, VenvLedger, VenvOld
      <3> QED BY <1>0, <1>1, <3>1, <3>2 DEF VenvLedgers, VenvLedger
    <2>2. CASE tx' = [tx EXCEPT !.mode = "clean"]
      <3>1. /\ tx'.before = tx.before /\ tx'.current = tx.current
            /\ tx'.desired = tx.desired /\ tx'.update = tx.update
        BY <1>0, <2>2 DEF VenvTypes, VenvFields
      <3> QED BY <1>0, <1>3, <3>1 DEF VenvLedgers, VenvLedger, Venv!Begin
    <2> QED BY <1>3, <2>1, <2>2 DEF Venv!Begin
  <1>4. CASE Venv!Prepare
    <2>1. CASE UNCHANGED tx
      BY <1>0, <1>4, <2>1 DEF VenvLedgers, VenvLedger, Venv!Prepare
    <2>2. CASE \E u \in VenvUpdates : tx' = [tx EXCEPT !.update = u, !.desired = Venv!Desired(u),
                                !.mode = IF pc' = "close" THEN "recovery" ELSE @]
      <3>1. PICK u \in VenvUpdates : tx' = [tx EXCEPT !.update = u, !.desired = Venv!Desired(u),
                                !.mode = IF pc' = "close" THEN "recovery" ELSE @]
        BY <2>2
      <3>2. /\ tx'.before = tx.before /\ tx'.current = tx.current
            /\ tx'.desired = Venv!Desired(u) /\ tx'.update = u
        BY <1>0, <3>1 DEF VenvTypes, VenvFields
      <3>3. cmd + 1 \in VenvOld
        BY <1>0 DEF VenvTypes, VenvOld
      <3>4. VenvLedger(Venv!Desired(u))
        <4>1. DOMAIN Venv!Desired(u) \subseteq DOMAIN tx.current \cup DOMAIN u
          BY DEF Venv!Desired, Venv!Owned
        <4>2. ASSUME NEW k \in DOMAIN Venv!Desired(u) PROVE Venv!Desired(u)[k].file \in VenvOld
          <5>1. CASE k \in DOMAIN u
            <6>1. Venv!Desired(u)[k] = [owners |-> u[k], file |-> cmd + 1]
              BY <4>2, <5>1 DEF Venv!Desired, Venv!Owned, Venv!Written
            <6> QED BY <3>3, <6>1
          <5>2. CASE k \notin DOMAIN u
            <6>1. Venv!Desired(u)[k] = tx.current[k] /\ k \in DOMAIN tx.current
              BY <4>2, <5>2 DEF Venv!Desired, Venv!Owned
            <6> QED BY <1>0, <6>1 DEF VenvLedgers, VenvLedger
          <5> QED BY <5>1, <5>2
        <4> QED BY <1>0, <4>1, <4>2, VenvAssumption DEF VenvLedgers, VenvLedger
      <3>5. UNCHANGED <<ledger, aledger, nextLedger>>
        BY <1>4 DEF Venv!Prepare
      <3> QED BY <1>0, <3>2, <3>4, <3>5, VenvAssumption DEF VenvLedgers, VenvLedger
    <2> QED BY <1>4, <2>1, <2>2 DEF Venv!Prepare
  <1> QED BY <1>2, <1>3, <1>4

\* The loops over destinations: a prepared list is of destinations the update
\* takes, and the loops go down it.
LEMMA VenvPrepareLoop ==
    ASSUME VenvInv, Venv!Prepare, pc' = "ledger"
    PROVE  /\ todo' \in Seq(VenvKeys)
           /\ (\A i \in 1..Len(todo) : VenvTaken(todo[i]))'
  <1>1. PICK u \in VenvUpdates :
            /\ Venv!Compatible(u)
            /\ tx' = [tx EXCEPT !.update = u, !.desired = Venv!Desired(u),
                                !.mode = IF pc' = "close" THEN "recovery" ELSE @]
            /\ todo' = Venv!SetToSeq(DOMAIN u) \o Venv!SetToSeq(Venv!Obsolete(u))
    BY DEF Venv!Prepare, Venv!Go
  <1>2. tx'.current = tx.current /\ tx'.update = u
    BY <1>1 DEF VenvInv, VenvTypes, VenvFields
  <1>3. DOMAIN u \subseteq VenvKeys /\ Venv!Obsolete(u) \subseteq VenvKeys
    BY VenvAssumption DEF Venv!Obsolete, Venv!Owned, VenvInv, VenvLedgers, VenvLedger
  <1>4. IsFiniteSet(DOMAIN u) /\ IsFiniteSet(Venv!Obsolete(u))
    BY <1>3, VenvAssumption, FS_Subset
  <1>5. /\ Venv!SetToSeq(DOMAIN u) \in Seq(DOMAIN u)
        /\ Venv!SetToSeq(Venv!Obsolete(u)) \in Seq(Venv!Obsolete(u))
    BY <1>4, VenvListed
  <1>6. /\ todo' \in Seq(VenvKeys)
        /\ \A i \in 1..Len(todo') : todo'[i] \in DOMAIN u \cup Venv!Obsolete(u)
    BY <1>1, <1>3, <1>5, VenvJoined
  <1>7. ASSUME NEW k \in DOMAIN u \cup Venv!Obsolete(u), k \in DOMAIN tx.current
        PROVE  tx.current[k].owners \subseteq Venv!Replaced(u)
    BY <1>1, <1>7 DEF Venv!Compatible, Venv!Obsolete, Venv!Owned
  <1> QED BY <1>2, <1>6, <1>7 DEF VenvTaken, Venv!Replaced

\* A loop that goes on has fewer destinations of the same kind before it.
LEMMA VenvTailLoop ==
    ASSUME NEW S, NEW s \in Seq(S), s # <<>>
    PROVE  /\ Head(s) \in S /\ Head(s) = s[1] /\ 1 \in 1..Len(s)
           /\ Tail(s) \in Seq(S)
           /\ \A i \in 1..Len(Tail(s)) : i + 1 \in 1..Len(s) /\ Tail(s)[i] = s[i + 1]
  OBVIOUS

LEMMA VenvLoopStep ==
    ASSUME VenvInv, Venv!Next \/ UNCHANGED vars
    PROVE  VenvLoop'
  <1> USE DEF Venv!Go, Venv!disk, Venv!user
  <1>0. VenvTypes /\ VenvLedgers /\ VenvLoop
    BY DEF VenvInv
  <1>1. CASE UNCHANGED <<todo, pc, tx>>
    BY <1>0, <1>1 DEF VenvLoop, VenvTaken, Venv!Replaced
  <1>2. CASE pc' \notin {"ledger", "backup", "move", "publish", "place"}
    BY <1>2 DEF VenvLoop
  <1>3. CASE Venv!Prepare
    BY <1>2, <1>3, VenvPrepareLoop DEF VenvLoop, Venv!Prepare
  <1>4. CASE Venv!OpenJournal
    BY <1>0, <1>2, <1>4 DEF Venv!OpenJournal, Venv!Fails, VenvLoop, VenvTaken, Venv!Replaced
  <1>5. CASE Venv!IntendBackup
    <2>0. pc = "backup" /\ UNCHANGED tx
      BY <1>5 DEF Venv!IntendBackup, Venv!Fails
    <2>1. CASE todo # <<>> /\ tx.before[Head(todo)] = 0 /\ todo' = Tail(todo) /\ pc' = pc
      <3>1. /\ Tail(todo) \in Seq(VenvKeys)
            /\ \A i \in 1..Len(Tail(todo)) : i + 1 \in 1..Len(todo) /\ Tail(todo)[i] = todo[i + 1]
        BY <1>0, <2>0, <2>1, VenvTailLoop DEF VenvLoop
      <3>2. \A i \in 1..Len(Tail(todo)) : VenvTaken(Tail(todo)[i])
        BY <1>0, <2>0, <3>1 DEF VenvLoop
      <3> QED BY <2>0, <2>1, <3>1, <3>2 DEF VenvLoop, VenvTaken, Venv!Replaced
    <2>2. CASE todo # <<>> /\ tx.before[Head(todo)] # 0 /\ todo' = todo /\ pc' = "move"
      BY <1>0, <2>0, <2>2 DEF VenvLoop, VenvTaken, Venv!Replaced
    <2>3. CASE pc' = "publish" /\ todo' = Venv!SetToSeq(DOMAIN tx.update)
      <3>1. DOMAIN tx.update \subseteq VenvKeys /\ IsFiniteSet(DOMAIN tx.update)
        BY <1>0, VenvAssumption, FS_Subset DEF VenvLedgers
      <3>2. todo' \in Seq(VenvKeys)
        BY <2>3, <3>1, VenvListed
      <3> QED BY <2>3, <3>2 DEF VenvLoop
    <2> QED BY <1>2, <1>5, <2>1, <2>2, <2>3 DEF Venv!IntendBackup, Venv!Fails, Venv!Absent
  <1>6. CASE Venv!MoveAside
    <2>1. CASE pc = "move" /\ pc' = "backup" /\ todo' = Tail(todo)
      <3>1. tx'.current = tx.current /\ tx'.update = tx.update
        BY <1>0, <1>6, VenvFrame DEF Venv!MoveAside, Venv!Begin, Venv!Prepare, Venv!Next
      <3>2. /\ Tail(todo) \in Seq(VenvKeys)
            /\ \A i \in 1..Len(Tail(todo)) : i + 1 \in 1..Len(todo) /\ Tail(todo)[i] = todo[i + 1]
        BY <1>0, <2>1, VenvTailLoop DEF VenvLoop
      <3>3. \A i \in 1..Len(Tail(todo)) : VenvTaken(Tail(todo)[i])
        BY <1>0, <2>1, <3>2 DEF VenvLoop
      <3> QED BY <2>1, <3>1, <3>2, <3>3 DEF VenvLoop, VenvTaken, Venv!Replaced
    <2> QED BY <1>2, <1>6, <2>1 DEF Venv!MoveAside, Venv!Fails
  <1>7. CASE Venv!IntendPublish
    BY <1>0, <1>2, <1>7 DEF Venv!IntendPublish, Venv!Fails, VenvLoop
  <1>8. CASE Venv!Place
    <2>1. CASE pc = "place" /\ pc' = "publish" /\ todo' = Tail(todo)
      BY <1>0, <2>1, VenvTailLoop DEF VenvLoop
    <2> QED BY <1>2, <1>8, <2>1 DEF Venv!Place, Venv!Fails
  <1>9. CASE \/ Venv!Begin \/ Venv!LedgerAside \/ Venv!LedgerNext \/ Venv!LedgerPlace
             \/ Venv!Reconcile
    BY <1>2, <1>9 DEF Venv!Begin, Venv!LedgerAside, Venv!LedgerNext, Venv!LedgerPlace,
       Venv!Reconcile, Venv!Fails
  <1>10. CASE \/ Venv!RollBackLedger \/ Venv!RemovePublished \/ Venv!RestoreBacked
              \/ Venv!Inventory \/ Venv!Purge
    BY <1>2, <1>10 DEF Venv!RollBackLedger, Venv!RemovePublished, Venv!RestoreBacked,
       Venv!Inventory, Venv!Purge, Venv!GiveUp
  <1>11. CASE Venv!Close \/ Venv!Kill \/ Venv!ClearStaleLock \/ Venv!Edit
    BY <1>1, <1>2, <1>11 DEF Venv!Close, Venv!Kill, Venv!ClearStaleLock, Venv!Edit
  <1>12. CASE UNCHANGED vars
    BY <1>1, <1>12 DEF vars, common
  <1> QED BY <1>3, <1>4, <1>5, <1>6, <1>7, <1>8, <1>9, <1>10, <1>11, <1>12 DEF Venv!Next

\* Taking the last element from a list, and adding one.
LEMMA VenvFront ==
    ASSUME NEW S, NEW s \in Seq(S), s # <<>>
    PROVE  /\ Venv!Front(s) \in Seq(S) /\ Len(Venv!Front(s)) = Len(s) - 1
           /\ Venv!Last(s) \in S /\ Venv!Last(s) = s[Len(s)]
           /\ \A i \in 1..(Len(s) - 1) : Venv!Front(s)[i] = s[i]
  <1>1. Len(s) \in Nat /\ Len(s) >= 1
    OBVIOUS
  <1> DEFINE n == Len(s) - 1
  <1>2. n \in Nat /\ n <= Len(s)
    BY <1>1
  <1> HIDE DEF n
  <1>3. /\ SubSeq(s, 1, n) \in Seq(S) /\ Len(SubSeq(s, 1, n)) = n
        /\ \A i \in 1..n : SubSeq(s, 1, n)[i] = s[i]
    BY <1>2
  <1>4. Venv!Front(s) = SubSeq(s, 1, n) /\ n = Len(s) - 1
    BY DEF Venv!Front, n
  <1>5. Venv!Last(s) \in S /\ Venv!Last(s) = s[Len(s)]
    BY <1>1 DEF Venv!Last
  <1> QED BY <1>3, <1>4, <1>5

LEMMA VenvAppend ==
    ASSUME NEW S, NEW s \in Seq(S), NEW e \in S
    PROVE  /\ Append(s, e) \in Seq(S) /\ Len(Append(s, e)) = Len(s) + 1
           /\ Append(s, e) # <<>> /\ Append(s, e)[Len(s) + 1] = e
           /\ \A i \in 1..Len(s) : Append(s, e)[i] = s[i]
  OBVIOUS

\* The journal grows by an intent.
LEMMA VenvIntent ==
    ASSUME VenvDirectory, NEW a \in VenvSteps, NEW k \in VenvKeys \cup {""}
    PROVE  Append(journal, <<a, k>>) \in Seq(VenvIntents) /\ Append(journal, <<a, k>>) # <<>>
  <1>1. journal \in Seq(VenvIntents)
    BY DEF VenvDirectory
  <1>2. <<a, k>> \in VenvIntents
    BY DEF VenvIntents
  <1> QED BY <1>1, <1>2, VenvAppend

\* What the directory keeps when neither its members nor the list of moved
\* files change.
LEMMA VenvDirectorySame ==
    ASSUME VenvTypes, VenvDirectory, UNCHANGED <<dir, aside>>, tx'.backed = tx.backed,
           \/ journal' = journal
           \/ journal' \in Seq(VenvIntents) /\ journal' # <<>>,
           pc' = "prepare" => pc = "prepare",
           pc' \in VenvInside => pc \in VenvInside,
           pc' = "purge" => pc = "purge", pc' # "purge" => pc # "purge" \/ pc' \notin VenvInside,
           pc' = "ledger" => pc = "ledger",
           pc' \in VenvForward \ {"ledger"} =>
               pc \in VenvForward \ {"ledger"} \/ journal' # <<>>
    PROVE  VenvDirectory'
  <1>1. /\ aside' \in Seq(Nat) /\ tx'.backed \in Seq(VenvKeys)
        /\ journal' \in Seq(VenvIntents)
        /\ dir' = 0 => aside' = <<>>
        /\ pc' = "prepare" => tx'.backed = <<>>
    BY DEF VenvDirectory
  <1>2. pc' \in VenvInside \ {"purge"} => Len(aside') = Len(tx'.backed)
    BY DEF VenvDirectory
  <1>3. pc' \in VenvForward \ {"ledger"} => journal' # <<>>
    BY DEF VenvDirectory
  <1>4. pc' \in VenvInside /\ journal' = <<>> => aside' = <<>>
    BY DEF VenvDirectory
  <1>5. pc' = "purge" => \A i \in 1..Len(aside') : aside'[i] \in VenvOld
    BY DEF VenvDirectory
  <1> QED BY <1>1, <1>2, <1>3, <1>4, <1>5 DEF VenvDirectory

LEMMA VenvDirectoryStep ==
    ASSUME VenvInv, Venv!Next \/ UNCHANGED vars
    PROVE  VenvDirectory'
  <1> USE DEF Venv!Go, Venv!disk, Venv!user, VenvInside, VenvForward
  <1>0. VenvTypes /\ VenvLedgers /\ VenvLoop /\ VenvDirectory
    BY DEF VenvInv
  <1>1. CASE Venv!Begin
    <2>1. CASE pc' = "prepare"
      <3>1. tx'.backed = <<>>
        BY <1>1, <2>1, VenvBeginPlan
      <3> QED BY <1>0, <1>1, <2>1, <3>1 DEF VenvDirectory, Venv!Begin
    <2>2. CASE pc' = "close" /\ tx' = [tx EXCEPT !.mode = "clean"]
      <3>1. tx'.backed = tx.backed
        BY <1>0, <2>2 DEF VenvTypes, VenvFields
      <3> QED BY <1>0, <1>1, <2>2, <3>1 DEF VenvDirectory, Venv!Begin
    <2> QED BY <1>1, <2>1, <2>2 DEF Venv!Begin
  <1>2. CASE Venv!Prepare
    <2>1. pc = "prepare" /\ tx'.backed = tx.backed /\ pc' \in {"ledger", "close"}
          /\ UNCHANGED <<aside, journal>> /\ dir' \in {dir, cmd}
      BY <1>0, <1>2 DEF Venv!Prepare, VenvTypes, VenvFields
    <2>2. aside = <<>> /\ tx.backed = <<>>
      BY <1>0, <2>1 DEF VenvDirectory, VenvTypes
    <2> QED BY <1>0, <2>1, <2>2 DEF VenvDirectory
  <1>3. CASE Venv!OpenJournal
    <2>1. CASE Venv!Fails("ledger")
      BY <1>0, <2>1, VenvDirectorySame DEF Venv!Fails
    <2>2. PICK r \in VenvIntents : ~Venv!Fails("ledger") => journal' = Append(journal, r)
      <3>1. <<"begin", "">> \in VenvIntents
        BY DEF VenvIntents, VenvSteps
      <3> QED BY <1>3, <3>1, Zenon DEF Venv!OpenJournal, Venv!Append1
    <2>3. CASE ~Venv!Fails("ledger")
      <3>0. journal \in Seq(VenvIntents) /\ journal' = Append(journal, r)
        BY <1>0, <2>2, <2>3 DEF VenvDirectory
      <3>1. journal' \in Seq(VenvIntents) /\ journal' # <<>>
        BY <3>0, VenvAppend
      <3>2. pc' \in {"backup", "rbLedger"} /\ pc = "ledger" /\ UNCHANGED <<dir, aside, tx>>
        BY <1>3, <2>3 DEF Venv!OpenJournal
      <3> QED BY <1>0, <3>1, <3>2, VenvDirectorySame
    <2> QED BY <2>1, <2>3
  <1>4. CASE Venv!IntendBackup
    <2>1. CASE journal' = journal
      BY <1>0, <1>4, <2>1, VenvDirectorySame DEF Venv!IntendBackup, Venv!Fails
    <2>2. CASE todo # <<>> /\ journal' = Append(journal, <<"backup", Head(todo)>>)
      <3>1. Head(todo) \in VenvKeys
        BY <1>0, <1>4, <2>2, VenvTailLoop DEF VenvLoop, Venv!IntendBackup
      <3>2. journal' \in Seq(VenvIntents) /\ journal' # <<>>
        BY <1>0, <2>2, <3>1, VenvIntent DEF VenvSteps
      <3> QED BY <1>0, <1>4, <3>2, VenvDirectorySame DEF Venv!IntendBackup, Venv!Fails
    <2> QED BY <1>4, <2>1, <2>2 DEF Venv!IntendBackup, Venv!Fails, Venv!Append1
  <1>5. CASE Venv!MoveAside
    <2>1. CASE UNCHANGED <<dir, aside, journal, tx>> /\ pc' = "rbLedger"
      BY <1>0, <1>5, <2>1, VenvDirectorySame DEF Venv!MoveAside, Venv!Fails
    <2>2. CASE /\ pc' \in {"backup", "rbLedger"} /\ Venv!TakeAside(Head(todo))
               /\ tx' = [tx EXCEPT !.backed = Append(@, Head(todo))]
      <3>1. pc = "move" /\ UNCHANGED <<dir, journal>> /\ dir # 0 /\ journal # <<>>
        BY <1>0, <1>5, <2>2 DEF Venv!MoveAside, Venv!Fails, VenvTypes, VenvDirectory
      <3>2. Head(todo) \in VenvKeys
        BY <1>0, <3>1, VenvTailLoop DEF VenvLoop
      <3>3. tx'.backed = Append(tx.backed, Head(todo)) /\ aside' = Append(aside, files[Head(todo)])
        BY <1>0, <2>2 DEF VenvTypes, VenvFields, Venv!TakeAside
      <3>4. files[Head(todo)] \in Nat
        BY <1>0, <3>2 DEF VenvTypes
      <3>5. /\ tx'.backed \in Seq(VenvKeys) /\ aside' \in Seq(Nat)
            /\ Len(tx'.backed) = Len(aside')
        BY <1>0, <3>1, <3>2, <3>3, <3>4 DEF VenvDirectory
      <3> QED BY <1>0, <2>2, <3>1, <3>5 DEF VenvDirectory
    <2> QED BY <1>5, <2>1, <2>2 DEF Venv!MoveAside, Venv!Fails
  <1>6. CASE Venv!IntendPublish
    <2>1. CASE journal' = journal
      BY <1>0, <1>6, <2>1, VenvDirectorySame DEF Venv!IntendPublish, Venv!Fails
    <2>2. CASE pc = "publish" /\ todo # <<>> /\ journal' = Append(journal, <<"publish", Head(todo)>>)
      <3>1. Head(todo) \in VenvKeys
        BY <1>0, <2>2, VenvTailLoop DEF VenvLoop
      <3>2. journal' \in Seq(VenvIntents) /\ journal' # <<>>
        BY <1>0, <2>2, <3>1, VenvIntent DEF VenvSteps
      <3> QED BY <1>0, <1>6, <3>2, VenvDirectorySame DEF Venv!IntendPublish, Venv!Fails
    <2> QED BY <1>6, <2>1, <2>2 DEF Venv!IntendPublish, Venv!Fails, Venv!Append1
  <1>7. CASE Venv!Place
    <2>1. tx'.backed = tx.backed
      BY <1>0, <1>7 DEF VenvTypes, VenvFields, Venv!Place, Venv!Fails
    <2> QED BY <1>0, <1>7, <2>1, VenvDirectorySame DEF Venv!Place, Venv!Fails
  <1>8. CASE Venv!LedgerAside
    <2>1. tx'.backed = tx.backed
      BY <1>0, <1>8 DEF VenvTypes, VenvFields, Venv!LedgerAside, Venv!Fails
    <2>2. journal' = journal \/ journal' = Append(journal, <<"backup-metadata", "">>)
      BY <1>8 DEF Venv!LedgerAside, Venv!Fails, Venv!Append1
    <2>3. \/ journal' = journal
          \/ journal' \in Seq(VenvIntents) /\ journal' # <<>>
      BY <1>0, <2>2, VenvIntent DEF VenvSteps
    <2> QED BY <1>0, <1>8, <2>1, <2>3, VenvDirectorySame DEF Venv!LedgerAside, Venv!Fails
  <1>9. CASE Venv!LedgerNext
    <2>1. journal' = journal \/ journal' = Append(journal, <<"publish-metadata", "">>)
      BY <1>9 DEF Venv!LedgerNext, Venv!Fails, Venv!Append1
    <2>2. \/ journal' = journal
          \/ journal' \in Seq(VenvIntents) /\ journal' # <<>>
      BY <1>0, <2>1, VenvIntent DEF VenvSteps
    <2> QED BY <1>0, <1>9, <2>2, VenvDirectorySame DEF Venv!LedgerNext, Venv!Fails
  <1>10. CASE Venv!LedgerPlace \/ Venv!Reconcile
    <2>1. tx'.backed = tx.backed
      BY <1>0, <1>10 DEF VenvTypes, VenvFields, Venv!LedgerPlace, Venv!Reconcile, Venv!Fails
    <2> QED BY <1>0, <1>10, <2>1, VenvDirectorySame
         DEF Venv!LedgerPlace, Venv!Reconcile, Venv!Fails
  <1>11. CASE Venv!RollBackLedger \/ Venv!RemovePublished
    <2>1. tx'.backed = tx.backed
      BY <1>0, <1>11 DEF VenvTypes, VenvFields, Venv!RollBackLedger, Venv!RemovePublished,
         Venv!GiveUp
    <2> QED BY <1>0, <1>11, <2>1, VenvDirectorySame
         DEF Venv!RollBackLedger, Venv!RemovePublished, Venv!GiveUp
  <1>12. CASE Venv!RestoreBacked
    <2>1. CASE /\ pc = "rbBacked" /\ tx.backed # <<>> /\ aside' = Venv!Front(aside)
               /\ tx' = [tx EXCEPT !.backed = Venv!Front(@)] /\ UNCHANGED <<dir, journal, pc>>
      <3>1. tx'.backed = Venv!Front(tx.backed)
        BY <1>0, <2>1 DEF VenvTypes, VenvFields
      <3>2. /\ aside \in Seq(Nat) /\ tx.backed \in Seq(VenvKeys)
            /\ Len(aside) = Len(tx.backed) /\ journal # <<>> /\ dir # 0 /\ aside # <<>>
        BY <1>0, <2>1 DEF VenvDirectory, VenvTypes
      <3>3. aside' \in Seq(Nat) /\ Len(aside') = Len(aside) - 1
        BY <2>1, <3>2, VenvFront
      <3>4. tx'.backed \in Seq(VenvKeys) /\ Len(tx'.backed) = Len(tx.backed) - 1
        BY <2>1, <3>1, <3>2, VenvFront
      <3> QED BY <1>0, <2>1, <3>2, <3>3, <3>4 DEF VenvDirectory
    <2>2. CASE UNCHANGED <<dir, aside, journal>> /\ tx' \in {tx, [tx EXCEPT !.mode = "recovery"]}
              /\ pc' \in {"inventory", "close"}
      <3>1. tx'.backed = tx.backed
        BY <1>0, <2>2 DEF VenvTypes, VenvFields
      <3> QED BY <1>0, <1>12, <2>2, <3>1, VenvDirectorySame DEF Venv!RestoreBacked, Venv!GiveUp
    <2> QED BY <1>12, <2>1, <2>2 DEF Venv!RestoreBacked, Venv!GiveUp
  <1>13. CASE Venv!Inventory
    <2>1. CASE pc' = "purge"
      <3>1. /\ pc = "inventory" /\ UNCHANGED <<dir, aside, journal, tx>>
            /\ \/ \A i \in 1..Len(aside) : aside[i] = tx.before[tx.backed[i]]
               \/ aside = <<>>
        BY <1>13, <2>1 DEF Venv!Inventory, Venv!GiveUp
      <3>2. \A i \in 1..Len(aside) : aside[i] \in VenvOld
        BY <1>0, <3>1 DEF VenvDirectory, VenvLedgers
      <3> QED BY <1>0, <2>1, <3>1, <3>2 DEF VenvDirectory
    <2>2. CASE pc' = "close"
      <3>1. tx'.backed = tx.backed
        BY <1>0, <1>13 DEF VenvTypes, VenvFields, Venv!Inventory, Venv!GiveUp
      <3> QED BY <1>0, <1>13, <2>2, <3>1, VenvDirectorySame DEF Venv!Inventory, Venv!GiveUp
    <2> QED BY <1>13, <2>1, <2>2 DEF Venv!Inventory, Venv!GiveUp
  <1>14. CASE Venv!Purge
    <2>0. pc = "purge" /\ tx'.backed = tx.backed /\ dir # 0
      BY <1>0, <1>14 DEF VenvTypes, VenvFields, Venv!Purge, Venv!GiveUp
    <2>1. CASE /\ \E i \in 1..Len(aside) : aside[i] # Venv!Absent
                                            /\ aside' = [aside EXCEPT ![i] = Venv!Absent]
               /\ UNCHANGED <<dir, journal, pc>>
      <3>1. PICK i \in 1..Len(aside) : aside' = [aside EXCEPT ![i] = 0]
        BY <2>1 DEF Venv!Absent
      <3>2. aside' \in Seq(Nat) /\ Len(aside') = Len(aside)
        BY <1>0, <3>1 DEF VenvDirectory
      <3>3. \A j \in 1..Len(aside) : aside'[j] \in VenvOld
        BY <1>0, <2>0, <3>1, BoundsAssumption DEF VenvDirectory, VenvOld
      <3>4. journal # <<>>
        BY <1>0, <2>0, <3>1 DEF VenvDirectory
      <3> QED BY <1>0, <2>0, <2>1, <3>2, <3>3, <3>4 DEF VenvDirectory
    <2>2. CASE UNCHANGED <<dir, aside, journal>> /\ pc' \in {"purge", "close"}
      BY <1>0, <2>0, <2>2, VenvDirectorySame
    <2>3. CASE journal' = <<>> /\ aside' = <<>> /\ UNCHANGED <<dir, pc>>
      BY <1>0, <2>0, <2>3 DEF VenvDirectory
    <2>4. CASE journal = <<>> /\ UNCHANGED <<aside, journal>> /\ pc' = "close"
      BY <1>0, <2>0, <2>4 DEF VenvDirectory
    <2> QED BY <1>14, <2>1, <2>2, <2>3, <2>4 DEF Venv!Purge, Venv!GiveUp
  <1>15. CASE Venv!Close \/ Venv!Kill \/ Venv!ClearStaleLock \/ Venv!Edit
    BY <1>0, <1>15, VenvDirectorySame
       DEF Venv!Close, Venv!Kill, Venv!ClearStaleLock, Venv!Edit
  <1>16. CASE UNCHANGED vars
    <2>1. UNCHANGED <<dir, aside, journal, tx, pc>>
      BY <1>16 DEF vars, common, environment
    <2> QED BY <1>0, <2>1 DEF VenvDirectory
  <1> QED BY <1>1, <1>2, <1>3, <1>4, <1>5, <1>6, <1>7, <1>8, <1>9, <1>10, <1>11, <1>12,
             <1>13, <1>14, <1>15, <1>16 DEF Venv!Next

\* Whether a ledger holds depends on the files alone.
LEMMA VenvHoldsSame ==
    ASSUME UNCHANGED <<files, ledger>>
    PROVE  Venv!Holds(ledger)' <=> Venv!Holds(ledger)
  BY DEF Venv!Holds, Venv!Owned

LEMMA VenvGroundStep ==
    ASSUME VenvInv, Venv!Next \/ UNCHANGED vars
    PROVE  VenvGround'
  <1> USE DEF Venv!Go, Venv!disk, Venv!user
  <1>0. VenvTypes /\ VenvGround
    BY DEF VenvInv
  <1> SUFFICES ASSUME edits' = 0
               PROVE  /\ dir' = 0 => Venv!Holds(ledger)'
                      /\ pc' \in {"inventory", "purge"} => Venv!Holds(ledger)'
    BY DEF VenvGround
  <1>1. CASE Venv!Edit
    BY <1>0, <1>1 DEF Venv!Edit, VenvTypes
  <1>2. CASE ~Venv!Edit
    <2>1. UNCHANGED edits /\ edits = 0
      BY <1>2 DEF Venv!Next, Venv!Begin, Venv!Prepare, Venv!OpenJournal, Venv!IntendBackup,
         Venv!MoveAside, Venv!IntendPublish, Venv!Place, Venv!LedgerAside, Venv!LedgerNext,
         Venv!LedgerPlace, Venv!Reconcile, Venv!RollBackLedger, Venv!RemovePublished,
         Venv!RestoreBacked, Venv!Inventory, Venv!Purge, Venv!Close, Venv!Kill,
         Venv!ClearStaleLock, Venv!Fails, Venv!GiveUp, vars, common
    <2>2. CASE dir # 0 /\ dir' = dir /\ pc' \notin {"inventory", "purge"}
      BY <2>2
    <2>3. CASE /\ UNCHANGED <<files, ledger>> /\ (dir' = 0 => dir = 0)
               /\ pc' \in {"inventory", "purge"} => pc \in {"inventory", "purge"}
      BY <1>0, <2>1, <2>3, VenvHoldsSame DEF VenvGround
    <2>4. CASE /\ Venv!OpenJournal \/ Venv!IntendBackup \/ Venv!MoveAside \/ Venv!IntendPublish
                  \/ Venv!Place
      BY <1>0, <2>2, <2>4 DEF VenvTypes, VenvInside, VenvForward, Venv!OpenJournal,
         Venv!IntendBackup, Venv!MoveAside, Venv!IntendPublish, Venv!Place, Venv!Fails
    <2>5. CASE Venv!LedgerAside \/ Venv!LedgerNext \/ Venv!LedgerPlace
      BY <1>0, <2>2, <2>5 DEF VenvTypes, VenvInside, VenvForward, Venv!LedgerAside,
         Venv!LedgerNext, Venv!LedgerPlace, Venv!Fails
    <2>6. CASE Venv!Reconcile
      <3>1. CASE pc' = "inventory"
        <4>1. pc = "reconcile" /\ Venv!Holds(ledger) /\ UNCHANGED <<files, ledger, dir>>
          BY <2>6, <3>1 DEF Venv!Reconcile, Venv!Fails
        <4> QED BY <1>0, <3>1, <4>1, VenvHoldsSame
      <3> QED BY <1>0, <2>2, <2>6, <3>1 DEF VenvTypes, VenvInside, VenvForward,
           Venv!Reconcile, Venv!Fails
    <2>7. CASE Venv!RollBackLedger \/ Venv!RemovePublished
      BY <1>0, <2>2, <2>7 DEF VenvTypes, VenvInside, Venv!RollBackLedger,
         Venv!RemovePublished, Venv!GiveUp
    <2>8. CASE Venv!RestoreBacked
      <3>1. CASE pc' = "inventory"
        <4>1. pc = "rbBacked" /\ Venv!Holds(ledger) /\ UNCHANGED <<files, ledger, dir>>
          BY <2>8, <3>1 DEF Venv!RestoreBacked, Venv!GiveUp
        <4> QED BY <1>0, <3>1, <4>1, VenvHoldsSame
      <3> QED BY <1>0, <2>2, <2>8, <3>1 DEF VenvTypes, VenvInside, Venv!RestoreBacked,
           Venv!GiveUp
    <2>9. CASE Venv!Purge
      <3>1. pc = "purge" /\ UNCHANGED <<files, ledger>>
        BY <2>9 DEF Venv!Purge, Venv!GiveUp
      <3> QED BY <1>0, <2>1, <3>1, VenvHoldsSame DEF VenvGround
    <2>10. CASE Venv!Begin \/ Venv!Prepare
      BY <1>0, <2>3, <2>10 DEF Venv!Begin, Venv!Prepare, VenvTypes
    <2>11. CASE Venv!Inventory \/ Venv!Close \/ Venv!Kill \/ Venv!ClearStaleLock
      BY <2>3, <2>11 DEF Venv!Inventory, Venv!Close, Venv!Kill, Venv!ClearStaleLock,
         Venv!GiveUp
    <2>12. CASE UNCHANGED vars
      BY <2>3, <2>12 DEF vars, common, environment
    <2> QED BY <1>2, <2>4, <2>5, <2>6, <2>7, <2>8, <2>9, <2>10, <2>11, <2>12 DEF Venv!Next
  <1> QED BY <1>1, <1>2

\* Every step keeps the invariant.
LEMMA VenvStep ==
    ASSUME VenvInv, Venv!Next \/ UNCHANGED vars
    PROVE  VenvInv'
  BY VenvTypesStep, VenvLedgersStep, VenvLoopStep, VenvDirectoryStep, VenvGroundStep
     DEF VenvInv

LEMMA VenvInitial ==
    ASSUME Venv!Init
    PROVE  VenvInv
  <1>0. /\ ledger \in VenvBefore /\ MaxCommands \in Nat
        /\ DOMAIN ledger \subseteq VenvKeys /\ \A k \in DOMAIN ledger : ledger[k].file = 1
    BY BoundsAssumption, VenvAssumption DEF Venv!Init
  <1>1. /\ tx.before = [k \in VenvKeys |-> 0] /\ tx.current = <<>> /\ tx.desired = <<>>
        /\ tx.update = <<>> /\ tx.backed = <<>> /\ DOMAIN tx = VenvFields
    BY DEF Venv!Init, Venv!NoTx, Venv!NoLedger, Venv!Absent, VenvFields
  <1>2. PICK mine \in SUBSET (VenvKeys \ DOMAIN ledger) :
            files = [k \in VenvKeys |-> IF k \in DOMAIN ledger THEN ledger[k].file
                                        ELSE IF k \in mine THEN 1 ELSE 0]
    BY DEF Venv!Init, Venv!Owned, Venv!Absent
  <1>3. files \in [VenvKeys -> Nat] /\ Venv!Holds(ledger)
    BY <1>0, <1>2 DEF Venv!Holds, Venv!Owned
  <1>4. VenvTypes
    BY <1>0, <1>1, <1>3 DEF VenvTypes, VenvInside, VenvForward, Venv!Init
  <1>5. VenvLedger(ledger) /\ VenvLedger(<<>>)
    BY <1>0 DEF VenvLedger, VenvOld
  <1>6. VenvLedgers
    BY <1>0, <1>1, <1>5 DEF VenvLedgers, Venv!Init, Venv!NoLedger, VenvOld
  <1>7. VenvLoop /\ VenvDirectory
    BY <1>1 DEF VenvLoop, VenvDirectory, VenvInside, VenvForward, Venv!Init
  <1>8. VenvGround
    BY <1>3 DEF VenvGround
  <1> QED BY <1>4, <1>6, <1>7, <1>8 DEF VenvInv

-----------------------------------------------------------------------------
(* The Python environment: what the invariant gives                        *)

\* Without a recovery directory the ledger holds.
LEMMA VenvOpen ==
    ASSUME VenvInv
    PROVE  Venv!OpenMeansAdmissible
  BY DEF VenvInv, VenvGround, Venv!OpenMeansAdmissible

\* The files that a step of the transaction may take from a destination: one it
\* moves aside, and one it wrote itself.
LEMMA VenvFilesKept ==
    ASSUME VenvInv, Venv!Next, edits' = edits,
           NEW k \in VenvKeys, files[k] \notin {0, cmd + 1}, files'[k] # files[k]
    PROVE  /\ Venv!Mine(k)
           /\ aside' = Append(aside, files[k])
  <1> USE DEF Venv!Go, Venv!disk, Venv!user
  <1>0. VenvTypes /\ VenvLedgers /\ VenvLoop /\ VenvDirectory
    BY DEF VenvInv
  <1>1. CASE Venv!MoveAside
    <2>1. /\ pc = "move" /\ aside' = Append(aside, files[Head(todo)])
          /\ files' = [files EXCEPT ![Head(todo)] = 0]
      BY <1>1 DEF Venv!MoveAside, Venv!Fails, Venv!TakeAside, Venv!Absent
    <2>2. k = Head(todo)
      BY <1>0, <2>1 DEF VenvTypes
    <2>3. todo \in Seq(VenvKeys) /\ todo # <<>> /\ tx.before[k] # 0
      BY <1>0, <2>1, <2>2 DEF VenvLoop
    <2>4. k = todo[1] /\ 1 \in 1..Len(todo)
      BY <2>2, <2>3, VenvTailLoop
    <2>5. VenvTaken(k) /\ k \in DOMAIN tx.current
      BY <1>0, <2>1, <2>3, <2>4 DEF VenvLoop, VenvLedgers
    <2> QED BY <2>1, <2>2, <2>5 DEF Venv!Mine, VenvTaken, Venv!Owned
  <1>2. CASE Venv!Place
    BY <1>0, <1>2 DEF Venv!Place, Venv!Fails, Venv!Absent, VenvTypes
  <1>3. CASE Venv!RemovePublished
    BY <1>0, <1>3 DEF Venv!RemovePublished, Venv!GiveUp, Venv!RemoveFile, Venv!Written,
       VenvTypes
  <1>4. CASE Venv!RestoreBacked
    BY <1>0, <1>4 DEF Venv!RestoreBacked, Venv!GiveUp, Venv!Absent, VenvTypes
  <1>5. CASE Venv!Edit
    BY <1>0, <1>5 DEF Venv!Edit, VenvTypes
  <1>6. CASE \/ Venv!Begin \/ Venv!Prepare \/ Venv!OpenJournal \/ Venv!IntendBackup
             \/ Venv!IntendPublish \/ Venv!LedgerAside \/ Venv!LedgerNext
    BY <1>6 DEF Venv!Begin, Venv!Prepare, Venv!OpenJournal, Venv!IntendBackup,
       Venv!IntendPublish, Venv!LedgerAside, Venv!LedgerNext, Venv!Fails
  <1>7. CASE \/ Venv!LedgerPlace \/ Venv!Reconcile \/ Venv!RollBackLedger \/ Venv!Inventory
             \/ Venv!Purge \/ Venv!Close \/ Venv!Kill \/ Venv!ClearStaleLock
    BY <1>7 DEF Venv!LedgerPlace, Venv!Reconcile, Venv!RollBackLedger, Venv!Inventory,
       Venv!Purge, Venv!Close, Venv!Kill, Venv!ClearStaleLock, Venv!Fails, Venv!GiveUp
  <1> QED BY <1>1, <1>2, <1>3, <1>4, <1>5, <1>6, <1>7 DEF Venv!Next

\* A file of the user in the directory is never taken out of it.
LEMMA VenvAsideKept ==
    ASSUME VenvInv, Venv!Next,
           NEW i \in 1..Len(aside), aside[i] > MaxCommands + 1
    PROVE  \E j \in 1..Len(aside') : aside'[j] = aside[i]
  <1> USE DEF Venv!Go, Venv!disk, Venv!user
  <1>0. /\ VenvTypes /\ VenvLedgers /\ VenvLoop /\ VenvDirectory /\ MaxCommands \in Nat
        /\ aside \in Seq(Nat) /\ aside[i] \notin VenvOld
    BY BoundsAssumption DEF VenvInv, VenvDirectory, VenvOld
  <1>1. CASE aside' = aside
    BY <1>1
  <1>2. CASE Venv!MoveAside
    <2>1. SUFFICES ASSUME pc = "move", aside' = Append(aside, files[Head(todo)])
                   PROVE  \E j \in 1..Len(aside') : aside'[j] = aside[i]
      BY <1>1, <1>2 DEF Venv!MoveAside, Venv!Fails, Venv!TakeAside
    <2>2. Head(todo) \in VenvKeys
      BY <1>0, <2>1, VenvTailLoop DEF VenvLoop
    <2>3. files[Head(todo)] \in Nat
      BY <1>0, <2>2 DEF VenvTypes
    <2>4. Len(aside') = Len(aside) + 1 /\ aside'[i] = aside[i] /\ i \in 1..Len(aside')
      BY <1>0, <2>1, <2>3, VenvAppend
    <2> QED BY <2>4
  <1>3. CASE Venv!RestoreBacked
    <2>1. SUFFICES ASSUME /\ pc = "rbBacked" /\ tx.backed # <<>> /\ aside' = Venv!Front(aside)
                          /\ Venv!Last(aside) = tx.before[Venv!Last(tx.backed)]
                   PROVE  \E j \in 1..Len(aside') : aside'[j] = aside[i]
      BY <1>1, <1>3 DEF Venv!RestoreBacked, Venv!GiveUp
    <2>2. aside # <<>> /\ tx.backed \in Seq(VenvKeys)
      BY <1>0 DEF VenvDirectory
    <2>3. Venv!Last(tx.backed) \in VenvKeys
      BY <2>1, <2>2, VenvFront
    <2>4. aside[Len(aside)] \in VenvOld
      BY <1>0, <2>1, <2>2, <2>3, VenvFront DEF VenvLedgers
    <2>5. i # Len(aside)
      BY <1>0, <2>4
    <2>6. i \in 1..(Len(aside) - 1)
      BY <1>0, <2>5
    <2>7. Len(aside') = Len(aside) - 1 /\ aside'[i] = aside[i]
      BY <1>0, <2>1, <2>2, <2>6, VenvFront
    <2> QED BY <2>6, <2>7
  <1>4. CASE Venv!Purge
    <2>1. aside[i] \in VenvOld \/ aside' = aside
      BY <1>0, <1>4 DEF Venv!Purge, Venv!GiveUp, VenvDirectory
    <2> QED BY <1>0, <1>1, <2>1
  <1>5. CASE \/ Venv!Begin \/ Venv!Prepare \/ Venv!OpenJournal \/ Venv!IntendBackup
             \/ Venv!IntendPublish \/ Venv!Place \/ Venv!LedgerAside \/ Venv!LedgerNext
    BY <1>1, <1>5 DEF Venv!Begin, Venv!Prepare, Venv!OpenJournal, Venv!IntendBackup,
       Venv!IntendPublish, Venv!Place, Venv!LedgerAside, Venv!LedgerNext, Venv!Fails
  <1>6. CASE \/ Venv!LedgerPlace \/ Venv!Reconcile \/ Venv!RollBackLedger
             \/ Venv!RemovePublished \/ Venv!Inventory
    BY <1>1, <1>6 DEF Venv!LedgerPlace, Venv!Reconcile, Venv!RollBackLedger,
       Venv!RemovePublished, Venv!Inventory, Venv!Fails, Venv!GiveUp
  <1>7. CASE Venv!Close \/ Venv!Kill \/ Venv!ClearStaleLock \/ Venv!Edit
    BY <1>1, <1>7 DEF Venv!Close, Venv!Kill, Venv!ClearStaleLock, Venv!Edit
  <1> QED BY <1>2, <1>3, <1>4, <1>5, <1>6, <1>7 DEF Venv!Next

LEMMA VenvKeeps ==
    ASSUME VenvInv, Venv!Next
    PROVE  Venv!KeepsSeenFile
  <1>1. ASSUME NEW k \in VenvKeys, files[k] \notin {Venv!Absent, Venv!Written(cmd)},
               edits' = edits, files'[k] # files[k]
        PROVE  Venv!Mine(k) /\ Venv!Contains(aside', files[k])
    <2>1. Venv!Mine(k) /\ aside' = Append(aside, files[k])
      BY <1>1, VenvFilesKept DEF Venv!Absent, Venv!Written
    <2>2. aside \in Seq(Nat) /\ files[k] \in Nat
      BY DEF VenvInv, VenvTypes, VenvDirectory
    <2>3. Len(aside') = Len(aside) + 1 /\ aside'[Len(aside) + 1] = files[k]
      BY <2>1, <2>2, VenvAppend
    <2> QED BY <2>1, <2>2, <2>3 DEF Venv!Contains
  <1>2. ASSUME NEW f \in Venv!ToSet(aside), Venv!UserSaved(f)
        PROVE  Venv!Contains(aside', f)
    <2>1. PICK i \in 1..Len(aside) : f = aside[i]
      BY <1>2 DEF Venv!ToSet, VenvInv, VenvDirectory
    <2> QED BY <1>2, <2>1, VenvAsideKept DEF Venv!Contains, Venv!UserSaved
  <1>3. strays' = strays \/ edits' # edits
    <2>1. CASE Venv!Edit
      BY <2>1 DEF Venv!Edit, VenvInv, VenvTypes
    <2>2. ASSUME NEW from, Venv!Fails(from) \/ Venv!GiveUp(from)
          PROVE  UNCHANGED Venv!user
      BY <2>2, Zenon DEF Venv!Fails, Venv!GiveUp
    <2>3. Venv!Begin => UNCHANGED Venv!user
      BY <2>2, Zenon DEF Venv!Begin
    <2>4. Venv!Prepare => UNCHANGED Venv!user
      BY <2>2, Zenon DEF Venv!Prepare
    <2>5. Venv!OpenJournal => UNCHANGED Venv!user
      BY <2>2, Zenon DEF Venv!OpenJournal
    <2>6. Venv!IntendBackup => UNCHANGED Venv!user
      BY <2>2, Zenon DEF Venv!IntendBackup
    <2>7. Venv!MoveAside => UNCHANGED Venv!user
      BY <2>2, Zenon DEF Venv!MoveAside
    <2>8. Venv!IntendPublish => UNCHANGED Venv!user
      BY <2>2, Zenon DEF Venv!IntendPublish
    <2>9. Venv!Place => UNCHANGED Venv!user
      BY <2>2, Zenon DEF Venv!Place
    <2>10. Venv!LedgerAside => UNCHANGED Venv!user
      BY <2>2, Zenon DEF Venv!LedgerAside
    <2>11. Venv!LedgerNext => UNCHANGED Venv!user
      BY <2>2, Zenon DEF Venv!LedgerNext
    <2>12. Venv!LedgerPlace => UNCHANGED Venv!user
      BY <2>2, Zenon DEF Venv!LedgerPlace
    <2>13. Venv!Reconcile => UNCHANGED Venv!user
      BY <2>2, Zenon DEF Venv!Reconcile
    <2>14. Venv!RollBackLedger => UNCHANGED Venv!user
      BY <2>2, Zenon DEF Venv!RollBackLedger
    <2>15. Venv!RemovePublished => UNCHANGED Venv!user
      BY <2>2, Zenon DEF Venv!RemovePublished
    <2>16. Venv!RestoreBacked => UNCHANGED Venv!user
      BY <2>2, Zenon DEF Venv!RestoreBacked
    <2>17. Venv!Inventory => UNCHANGED Venv!user
      BY <2>2, Zenon DEF Venv!Inventory
    <2>18. Venv!Purge => UNCHANGED Venv!user
      BY <2>2, Zenon DEF Venv!Purge
    <2>19. Venv!Close => UNCHANGED Venv!user
      BY <2>2, Zenon DEF Venv!Close
    <2>20. Venv!Kill => UNCHANGED Venv!user
      BY <2>2, Zenon DEF Venv!Kill
    <2>21. Venv!ClearStaleLock => UNCHANGED Venv!user
      BY <2>2, Zenon DEF Venv!ClearStaleLock
    <2>22. UNCHANGED Venv!user => strays' = strays
      BY DEF Venv!user
    <2> QED BY <2>1, <2>3, <2>4, <2>5, <2>6, <2>7, <2>8, <2>9, <2>10, <2>11, <2>12, <2>13, <2>14, <2>15, <2>16, <2>17, <2>18, <2>19, <2>20, <2>21, <2>22, Zenon DEF Venv!Next
  <1> QED BY <1>1, <1>2, <1>3 DEF Venv!KeepsSeenFile

-----------------------------------------------------------------------------
(* The Python environment: what the journal leads back to                  *)

\* The calls between the making of the directory and the look that ends the
\* command.
VenvActive == VenvForward \cup {"rbLedger", "rbPublished", "rbBacked"}

VenvListedIn(k, s) == \E i \in 1..Len(s) : s[i] = k
VenvDistinct(s) == \A i, j \in 1..Len(s) : s[i] = s[j] => i = j

\* A destination of the plan is as it was frozen, moved aside or replaced.
VenvMoved ==
    /\ VenvDistinct(tx.backed) /\ VenvDistinct(tx.published)
    /\ \A k \in VenvKeys :
           /\ VenvListedIn(k, tx.published) => files[k] = cmd + 1
           /\ VenvListedIn(k, tx.backed) /\ ~VenvListedIn(k, tx.published) => files[k] = 0
           /\ k \in DOMAIN tx.update \cup DOMAIN tx.current /\ ~VenvListedIn(k, tx.backed) =>
                  IF VenvListedIn(k, tx.published) THEN tx.before[k] = 0
                                                   ELSE files[k] = tx.before[k]

\* The members of the directory are the originals.
VenvMembers == \A i \in 1..Len(aside) : aside[i] = tx.before[tx.backed[i]]

VenvNames(j, k) == \E h \in 1..Len(j) : j[h][2] = k

\* The journal: its first record, an intent for each file that was moved aside,
\* in their order, at most one more, and one for each that was published.
VenvJournal ==
    /\ pc = "ledger" => journal = <<>>
    /\ journal # <<>> => Len(journal) > Len(tx.backed) /\ journal[1][1] = "begin"
    /\ pc = "backup" => Len(journal) = Len(tx.backed) + 1
    /\ pc = "move" => /\ Len(journal) = Len(tx.backed) + 2
                      /\ journal[Len(journal)] = <<"backup", Head(todo)>>
    /\ pc = "place" => VenvNames(journal, Head(todo))
    /\ \A i \in 1..Len(tx.backed) : journal[i + 1] = <<"backup", tx.backed[i]>>
    /\ \A i \in 1..Len(tx.published) : VenvNames(journal, tx.published[i])

\* Where the loops and the rollback are, and which ledger is where.
VenvPhase ==
    /\ pc = "ledger" => tx.backed = <<>>
    /\ pc \in {"ledger", "backup", "move", "rbBacked"} => tx.published = <<>>
    /\ pc \in {"ledger", "backup", "move", "publish", "place", "ledgerAside"} =>
           tx.ledgerAt = "unmoved" /\ aledger = <<>>
    /\ pc \in {"ledgerNext", "ledgerPlace"} => aledger = tx.current
    /\ pc = "ledgerPlace" => nextLedger = tx.desired
    /\ tx.ledgerAt \in {"unmoved", "aside", "published"}
    /\ tx.ledgerAt = "unmoved" => ledger = tx.current
    /\ tx.ledgerAt = "aside" => aledger = tx.current
    /\ tx.ledgerAt = "published" => ledger = tx.desired /\ aledger = tx.current

\* A directory that is gone left nothing; a plan is made on what was frozen.
VenvReady ==
    /\ tx.published \in Seq(VenvKeys)
    /\ dir = 0 => aledger = <<>> /\ journal = <<>>
    /\ pc \in VenvInside /\ journal = <<>> => aledger = <<>>
    /\ pc = "prepare" =>
           /\ tx.published = <<>> /\ tx.ledgerAt = "unmoved"
           /\ \A k \in VenvKeys : tx.before[k] = IF k \in DOMAIN tx.current
                                                 THEN tx.current[k].file ELSE 0

\* In an unedited environment: where a command is at work, and what it left.
VenvTraced ==
    edits = 0 =>
        /\ pc \in VenvActive => VenvMoved /\ VenvMembers /\ VenvJournal /\ VenvPhase
        /\ pc \in {"inventory", "purge"} => ledger \in {tx.current, tx.desired}
        /\ pc \notin VenvActive => Venv!RecoverableFromJournal

VenvJournaled == VenvInv /\ VenvReady /\ VenvTraced

\* The i-th intent to back up is the record after the first i.
VenvIntended(n) ==
    /\ journal \in Seq(VenvIntents) /\ Len(journal) > n /\ journal[1][1] = "begin"
    /\ \A h \in 1..n : journal[h + 1] = <<"backup", tx.backed[h]>>

LEMMA VenvBackups ==
    ASSUME NEW n \in Nat, VenvIntended(n), NEW i \in 1..n
    PROVE  Venv!Original(tx.backed[i], i)
  <1>0. i \in Nat /\ i + 1 \in 1..(n + 1)
    OBVIOUS
  <1>1. \A h \in 1..(i + 1) : journal[h][1] = "backup" <=> h # 1
    <2>1. ASSUME NEW h \in 2..(i + 1) PROVE journal[h][1] = "backup"
      <3>1. h - 1 \in 1..n /\ (h - 1) + 1 = h
        OBVIOUS
      <3>2. journal[h] = <<"backup", tx.backed[h - 1]>>
        BY <3>1 DEF VenvIntended
      <3> QED BY <3>2
    <2>3. journal[1][1] # "backup"
      BY DEF VenvIntended
    <2>4. \A h \in 1..(i + 1) : h = 1 \/ h \in 2..(i + 1)
      BY <1>0
    <2>5. \A h \in 2..(i + 1) : h # 1
      BY <1>0
    <2>6. \A h \in 2..(i + 1) : journal[h][1] = "backup"
      BY <2>1, Zenon
    <2> QED BY <2>3, <2>4, <2>5, <2>6, Zenon
  <1>2. \A h : h \in 2..(i + 1) <=> h \in 1..(i + 1) /\ h # 1
    BY <1>0
  <1>3. Venv!Backups(i + 1) = 2..(i + 1)
    BY <1>1, <1>2, Zenon DEF Venv!Backups
  <1>4. Venv!Cardinality(Venv!Backups(i + 1)) = Cardinality(2..(i + 1))
    BY <1>3 DEF Venv!Cardinality, Cardinality
  <1>5. Cardinality(2..(i + 1)) = i
    BY <1>0, FS_Interval
  <1>6. journal[i + 1] = <<"backup", tx.backed[i]>>
    BY DEF VenvIntended
  <1>7. i + 1 \in 1..Len(journal)
    <2>1. journal \in Seq(VenvIntents)
      BY DEF VenvIntended
    <2>2. Len(journal) \in Nat
      BY <2>1
    <2>3. Len(journal) > n
      BY DEF VenvIntended
    <2> QED BY <1>0, <2>2, <2>3
  <1>8. Venv!Cardinality(Venv!Backups(i + 1)) = i
    BY <1>4, <1>5
  <1> QED BY <1>6, <1>7, <1>8, Zenon DEF Venv!Original

\* While a command is at work every destination of its plan is recoverable,
\* and so is the ledger.
LEMMA VenvRecoverable ==
    ASSUME VenvJournaled, edits = 0, pc \in VenvActive
    PROVE  /\ \A k \in DOMAIN tx.update \cup DOMAIN tx.current : Venv!Recoverable(k)
           /\ tx.current \in {ledger, aledger}
  <1>0. /\ VenvMoved /\ VenvMembers /\ VenvJournal /\ VenvPhase
        /\ VenvTypes /\ VenvLedgers /\ VenvDirectory /\ VenvReady
    BY DEF VenvJournaled, VenvInv, VenvTraced
  <1>1. tx.current \in {ledger, aledger}
    BY <1>0 DEF VenvPhase
  <1>2. ASSUME NEW k \in DOMAIN tx.update \cup DOMAIN tx.current
        PROVE  Venv!Recoverable(k)
    <2>0. k \in VenvKeys
      BY <1>0 DEF VenvLedgers, VenvLedger
    <2>1. CASE VenvListedIn(k, tx.backed)
      <3>1. PICK i \in 1..Len(tx.backed) : tx.backed[i] = k
        BY <2>1 DEF VenvListedIn
      <3>2. /\ Len(tx.backed) \in Nat /\ Len(aside) = Len(tx.backed) /\ tx.backed # <<>>
        BY <1>0, <3>1 DEF VenvDirectory, VenvActive, VenvInside, VenvForward
      <3>3. VenvIntended(Len(tx.backed))
        <4>1. aside # <<>>
          BY <3>1, <3>2
        <4>2. journal # <<>> /\ journal \in Seq(VenvIntents)
          BY <1>0, <4>1 DEF VenvDirectory, VenvActive, VenvInside
        <4> QED BY <1>0, <3>2, <4>2 DEF VenvIntended, VenvJournal
      <3>4. Venv!Original(k, i)
        BY <3>1, <3>2, <3>3, VenvBackups
      <3>5. Venv!Named(k)
        BY <3>4 DEF Venv!Original, Venv!Named
      <3>6. i \in 1..Len(aside) /\ aside[i] = tx.before[k]
        BY <1>0, <3>1, <3>2 DEF VenvMembers
      <3> QED BY <3>4, <3>5, <3>6 DEF Venv!Recoverable
    <2>2. CASE ~VenvListedIn(k, tx.backed) /\ VenvListedIn(k, tx.published)
      <3>1. tx.before[k] = 0
        BY <1>0, <2>0, <2>2 DEF VenvMoved
      <3>2. Venv!Named(k)
        BY <1>0, <2>2 DEF VenvJournal, VenvListedIn, VenvNames, Venv!Named
      <3> QED BY <3>1, <3>2 DEF Venv!Recoverable, Venv!Absent
    <2>3. CASE ~VenvListedIn(k, tx.backed) /\ ~VenvListedIn(k, tx.published)
      BY <1>0, <2>0, <2>3 DEF VenvMoved, Venv!Recoverable
    <2> QED BY <2>1, <2>2, <2>3
  <1> QED BY <1>1, <1>2

LEMMA VenvLeadsBack ==
    ASSUME VenvJournaled
    PROVE  Venv!RecoverableFromJournal
  <1>1. CASE edits = 0 /\ pc \in VenvActive
    BY <1>1, VenvRecoverable DEF Venv!RecoverableFromJournal, Venv!Owned
  <1>2. CASE edits = 0 /\ pc \notin VenvActive
    BY <1>2 DEF VenvJournaled, VenvTraced
  <1>3. CASE edits # 0
    BY <1>3 DEF Venv!RecoverableFromJournal
  <1> QED BY <1>1, <1>2, <1>3

\* Nobody edits in a step after which nobody has.
LEMMA VenvUnedited ==
    ASSUME VenvInv, Venv!Next \/ UNCHANGED vars, edits' = 0
    PROVE  edits = 0 /\ ~Venv!Edit
  <1> USE DEF Venv!user
  <1>0. edits \in Nat
    BY DEF VenvInv, VenvTypes
  <1>1. ~Venv!Edit
    BY <1>0 DEF Venv!Edit
  <1> QED BY <1>1 DEF Venv!Next, Venv!Begin, Venv!Prepare, Venv!OpenJournal, Venv!IntendBackup,
         Venv!MoveAside, Venv!IntendPublish, Venv!Place, Venv!LedgerAside, Venv!LedgerNext,
         Venv!LedgerPlace, Venv!Reconcile, Venv!RollBackLedger, Venv!RemovePublished,
         Venv!RestoreBacked, Venv!Inventory, Venv!Purge, Venv!Close, Venv!Kill,
         Venv!ClearStaleLock, Venv!Fails, Venv!GiveUp, vars, common

\* What was published, outside Begin: one more after a move, one less after
\* the removal of the last, the same otherwise.
LEMMA VenvPublished ==
    ASSUME VenvInv, Venv!Next \/ UNCHANGED vars, ~Venv!Begin
    PROVE  \/ tx'.published = tx.published
           \/ /\ Venv!Place /\ pc = "place" /\ todo # <<>>
              /\ tx'.published = Append(tx.published, Head(todo))
           \/ /\ Venv!RemovePublished /\ tx.published # <<>>
              /\ tx'.published = Venv!Front(tx.published)
  <1> USE DEF Venv!Go, Venv!disk, Venv!user
  <1>0. DOMAIN tx = VenvFields /\ (pc = "place" => todo # <<>>)
    BY DEF VenvInv, VenvTypes, VenvLoop
  <1>1. CASE tx' = tx
    BY <1>1
  <1>2. CASE Venv!Prepare
    BY <1>0, <1>1, <1>2 DEF VenvFields, Venv!Prepare
  <1>3. CASE Venv!MoveAside
    BY <1>0, <1>1, <1>3 DEF VenvFields, Venv!MoveAside, Venv!Fails
  <1>4. CASE Venv!Place
    BY <1>0, <1>1, <1>4 DEF VenvFields, Venv!Place, Venv!Fails
  <1>5. CASE Venv!LedgerAside \/ Venv!LedgerPlace \/ Venv!Reconcile
    BY <1>0, <1>1, <1>5 DEF VenvFields, Venv!LedgerAside, Venv!LedgerPlace, Venv!Reconcile,
       Venv!Fails
  <1>6. CASE Venv!RollBackLedger \/ Venv!RestoreBacked \/ Venv!Inventory \/ Venv!Purge
    BY <1>0, <1>1, <1>6 DEF VenvFields, Venv!RollBackLedger, Venv!RestoreBacked,
       Venv!Inventory, Venv!Purge, Venv!GiveUp
  <1>7. CASE Venv!RemovePublished
    BY <1>0, <1>1, <1>7 DEF VenvFields, Venv!RemovePublished, Venv!GiveUp
  <1>8. CASE \/ Venv!OpenJournal \/ Venv!IntendBackup \/ Venv!IntendPublish \/ Venv!LedgerNext
             \/ Venv!Close \/ Venv!Kill \/ Venv!ClearStaleLock \/ Venv!Edit
             \/ UNCHANGED vars
    BY <1>1, <1>8 DEF Venv!OpenJournal, Venv!IntendBackup, Venv!IntendPublish,
       Venv!LedgerNext, Venv!Close, Venv!Kill, Venv!ClearStaleLock, Venv!Edit, Venv!Fails,
       vars, common
  <1> QED BY <1>2, <1>3, <1>4, <1>5, <1>6, <1>7, <1>8 DEF Venv!Next

\* What is in a list after an element was added, or taken from its end.
LEMMA VenvLonger ==
    ASSUME NEW S, NEW s \in Seq(S), NEW e \in S
    PROVE  /\ \A k : VenvListedIn(k, Append(s, e)) <=> VenvListedIn(k, s) \/ k = e
           /\ VenvDistinct(s) /\ ~VenvListedIn(e, s) => VenvDistinct(Append(s, e))
  <1>0. /\ Len(s) \in Nat /\ Len(Append(s, e)) = Len(s) + 1
        /\ Append(s, e)[Len(s) + 1] = e /\ \A i \in 1..Len(s) : Append(s, e)[i] = s[i]
    BY VenvAppend
  <1>1. ASSUME NEW k PROVE VenvListedIn(k, Append(s, e)) <=> VenvListedIn(k, s) \/ k = e
    <2>1. \A i : i \in 1..(Len(s) + 1) <=> i \in 1..Len(s) \/ i = Len(s) + 1
      BY <1>0
    <2> QED BY <1>0, <2>1, Zenon DEF VenvListedIn
  <1>2. ASSUME VenvDistinct(s), ~VenvListedIn(e, s) PROVE VenvDistinct(Append(s, e))
    <2>1. \A i : i \in 1..(Len(s) + 1) <=> i \in 1..Len(s) \/ i = Len(s) + 1
      BY <1>0
    <2>2. \A i \in 1..Len(s) : s[i] # e
      BY <1>2 DEF VenvListedIn
    <2>3. \A i, j \in 1..Len(s) : s[i] = s[j] => i = j
      BY <1>2 DEF VenvDistinct
    <2> QED BY <1>0, <2>1, <2>2, <2>3, Zenon DEF VenvDistinct
  <1> QED BY <1>1, <1>2

LEMMA VenvShorter ==
    ASSUME NEW S, NEW s \in Seq(S), s # <<>>, VenvDistinct(s)
    PROVE  /\ \A k : VenvListedIn(k, s) <=> VenvListedIn(k, Venv!Front(s)) \/ k = Venv!Last(s)
           /\ ~VenvListedIn(Venv!Last(s), Venv!Front(s))
           /\ VenvDistinct(Venv!Front(s))
  <1> DEFINE n == Len(s) - 1
  <1>0. /\ n \in Nat /\ Len(s) = n + 1 /\ Len(Venv!Front(s)) = n
        /\ Venv!Last(s) = s[n + 1] /\ \A i \in 1..n : Venv!Front(s)[i] = s[i]
    BY VenvFront
  <1> HIDE DEF n
  <1>1. \A i : i \in 1..(n + 1) <=> i \in 1..n \/ i = n + 1
    BY <1>0
  <1>2. \A i \in 1..n : i # n + 1
    BY <1>0
  <1>3. \A i, j \in 1..(n + 1) : s[i] = s[j] => i = j
    BY <1>0 DEF VenvDistinct
  <1>4. ASSUME NEW k
        PROVE  VenvListedIn(k, s) <=> VenvListedIn(k, Venv!Front(s)) \/ k = Venv!Last(s)
    BY <1>0, <1>1, Zenon DEF VenvListedIn
  <1>5. ~VenvListedIn(Venv!Last(s), Venv!Front(s))
    BY <1>0, <1>1, <1>2, <1>3, Zenon DEF VenvListedIn
  <1>6. VenvDistinct(Venv!Front(s))
    <2>1. ASSUME NEW i \in 1..n, NEW j \in 1..n, s[i] = s[j] PROVE i = j
      BY <1>1, <1>3, <2>1
    <2>2. \A i, j \in 1..n : s[i] = s[j] => i = j
      BY <2>1
    <2>3. \A i, j \in 1..n : Venv!Front(s)[i] = Venv!Front(s)[j] => i = j
      BY <1>0, <2>2
    <2> QED BY <1>0, <2>3 DEF VenvDistinct
  <1> QED BY <1>4, <1>5, <1>6

\* The plan of a command is fixed while it is at work.
LEMMA VenvPlanKept ==
    ASSUME VenvInv, Venv!Next \/ UNCHANGED vars, pc \in VenvActive, pc' \in VenvActive
    PROVE  /\ ~Venv!Begin /\ ~Venv!Prepare
           /\ tx'.before = tx.before /\ tx'.current = tx.current
           /\ tx'.desired = tx.desired /\ tx'.update = tx.update /\ cmd' = cmd
           /\ tx.backed \in Seq(VenvKeys) /\ aside \in Seq(Nat) /\ Len(aside) = Len(tx.backed)
  <1> USE DEF Venv!Go, Venv!disk, Venv!user, VenvActive, VenvForward
  <1>1. ~Venv!Begin /\ ~Venv!Prepare
    BY DEF Venv!Begin, Venv!Prepare
  <1>2. cmd' = cmd
    BY <1>1 DEF Venv!Next, Venv!OpenJournal, Venv!IntendBackup,
         Venv!MoveAside, Venv!IntendPublish, Venv!Place, Venv!LedgerAside, Venv!LedgerNext,
         Venv!LedgerPlace, Venv!Reconcile, Venv!RollBackLedger, Venv!RemovePublished,
         Venv!RestoreBacked, Venv!Inventory, Venv!Purge, Venv!Close, Venv!Kill,
         Venv!ClearStaleLock, Venv!Edit, Venv!Fails, Venv!GiveUp, vars, common
  <1>3. tx.backed \in Seq(VenvKeys) /\ aside \in Seq(Nat) /\ Len(aside) = Len(tx.backed)
    BY DEF VenvInv, VenvDirectory, VenvInside
  <1> QED BY <1>1, <1>2, <1>3, VenvFrame DEF VenvInv

\* What the steps of a command at work do to the destinations: a file goes to
\* the end of the directory or comes back from it, an output is published or
\* withdrawn, or nothing moves.
VenvGoesAside == LET k == Head(todo) IN
    /\ pc = "move" /\ pc' \in {"backup", "rbLedger"} /\ todo # <<>> /\ todo \in Seq(VenvKeys)
    /\ tx.before[k] # 0 /\ files[k] # 0 /\ files' = [files EXCEPT ![k] = 0]
    /\ aside' = Append(aside, files[k]) /\ tx'.backed = Append(tx.backed, k)
    /\ tx'.published = tx.published /\ journal' = journal /\ todo' = Tail(todo)
VenvComesBack == LET k == Venv!Last(tx.backed) IN
    /\ pc = "rbBacked" /\ pc' = "rbBacked" /\ tx.backed # <<>>
    /\ Venv!Last(aside) = tx.before[k] /\ files[k] = 0
    /\ files' = [files EXCEPT ![k] = Venv!Last(aside)]
    /\ aside' = Venv!Front(aside) /\ tx'.backed = Venv!Front(tx.backed)
    /\ tx'.published = tx.published /\ journal' = journal
VenvIsPublished == LET k == Head(todo) IN
    /\ pc = "place" /\ pc' \in {"publish", "rbLedger"} /\ todo # <<>> /\ todo \in Seq(VenvKeys)
    /\ files[k] = 0 /\ files' = [files EXCEPT ![k] = cmd + 1]
    /\ tx'.published = Append(tx.published, k)
    /\ UNCHANGED <<aside, journal>> /\ tx'.backed = tx.backed
VenvIsWithdrawn == LET k == Venv!Last(tx.published) IN
    /\ pc = "rbPublished" /\ pc' = "rbPublished" /\ tx.published # <<>>
    /\ files[k] = cmd + 1 /\ files' = [files EXCEPT ![k] = 0]
    /\ tx'.published = Venv!Front(tx.published)
    /\ UNCHANGED <<aside, journal>> /\ tx'.backed = tx.backed
VenvNothingMoves ==
    /\ UNCHANGED <<files, aside>>
    /\ tx'.backed = tx.backed /\ tx'.published = tx.published

LEMMA VenvMoves ==
    ASSUME VenvInv, Venv!Next \/ UNCHANGED vars, pc \in VenvActive, pc' \in VenvActive, ~Venv!Edit
    PROVE  VenvGoesAside \/ VenvComesBack \/ VenvIsPublished \/ VenvIsWithdrawn \/ VenvNothingMoves
  <1> USE DEF Venv!Go, Venv!disk, Venv!user
  <1>0. /\ DOMAIN tx = VenvFields
        /\ pc \in {"move", "place"} => todo # <<>> /\ todo \in Seq(VenvKeys)
        /\ pc = "move" => tx.before[Head(todo)] # 0
    BY DEF VenvInv, VenvTypes, VenvLoop
  <1>1. CASE UNCHANGED <<files, aside, tx>>
    BY <1>1 DEF VenvNothingMoves
  <1>2. CASE Venv!MoveAside
    <2>1. CASE Venv!Fails("move")
      BY <1>1, <2>1 DEF Venv!Fails
    <2>2. CASE ~Venv!Fails("move")
      <3>1. VenvGoesAside
        BY <1>0, <1>2, <2>2 DEF VenvFields, Venv!MoveAside, VenvGoesAside, Venv!TakeAside,
           Venv!Absent
      <3> QED BY <3>1
    <2> QED BY <2>1, <2>2
  <1>3. CASE Venv!Place
    <2>1. CASE Venv!Fails("place")
      BY <1>1, <2>1 DEF Venv!Fails
    <2>2. CASE ~Venv!Fails("place")
      <3>1. VenvIsPublished
        BY <1>0, <1>3, <2>2 DEF VenvFields, Venv!Place, VenvIsPublished, Venv!Absent,
           Venv!Written
      <3> QED BY <3>1
    <2> QED BY <2>1, <2>2
  <1>4. CASE Venv!RemovePublished
    <2>1. CASE pc' = "rbPublished"
      <3>1. VenvIsWithdrawn
        BY <1>0, <1>4, <2>1 DEF VenvFields, Venv!RemovePublished, VenvIsWithdrawn,
           Venv!RemoveFile, Venv!Absent, Venv!Written, Venv!GiveUp
      <3> QED BY <3>1
    <2>2. CASE pc' # "rbPublished"
      BY <1>1, <1>4, <2>2 DEF Venv!RemovePublished, Venv!GiveUp, VenvActive, VenvForward
    <2> QED BY <2>1, <2>2
  <1>5. CASE Venv!RestoreBacked
    <2>1. VenvComesBack
      BY <1>0, <1>5 DEF VenvFields, Venv!RestoreBacked, VenvComesBack, Venv!Absent, Venv!GiveUp,
         VenvActive, VenvForward
    <2> QED BY <2>1
  <1>6. CASE Venv!LedgerAside \/ Venv!LedgerPlace \/ Venv!RollBackLedger
    BY <1>0, <1>6 DEF VenvNothingMoves, VenvFields, Venv!LedgerAside, Venv!LedgerPlace,
       Venv!RollBackLedger, Venv!Fails, Venv!GiveUp
  <1>7. CASE \/ Venv!OpenJournal \/ Venv!IntendBackup \/ Venv!IntendPublish
             \/ Venv!LedgerNext \/ UNCHANGED vars
    BY <1>1, <1>7 DEF Venv!OpenJournal, Venv!IntendBackup, Venv!IntendPublish,
       Venv!LedgerNext, Venv!Fails, vars, common, environment
  <1>8. CASE Venv!Reconcile
    BY <1>1, <1>8 DEF Venv!Reconcile, Venv!Fails, VenvActive, VenvForward
  <1>9. CASE \/ Venv!Begin \/ Venv!Prepare \/ Venv!Inventory \/ Venv!Purge
             \/ Venv!Close \/ Venv!Kill \/ Venv!ClearStaleLock
    BY <1>9 DEF Venv!Begin, Venv!Prepare, Venv!Inventory, Venv!Purge, Venv!Close, Venv!Kill,
       Venv!ClearStaleLock, Venv!GiveUp, VenvActive, VenvForward
  <1> QED BY <1>2, <1>3, <1>4, <1>5, <1>6, <1>7, <1>8, <1>9 DEF Venv!Next

\* Moves and restores keep every destination frozen, aside or replaced.
LEMMA VenvMovedStep ==
    ASSUME VenvJournaled, edits = 0, Venv!Next \/ UNCHANGED vars,
           pc \in VenvActive, pc' \in VenvActive, ~Venv!Edit
    PROVE  VenvMoved'
  <1>0. /\ VenvMoved /\ VenvMembers /\ VenvPhase /\ VenvInv
        /\ files \in [VenvKeys -> Nat] /\ cmd \in Nat /\ MaxCommands \in Nat
        /\ \A k \in VenvKeys : tx.before[k] # 0 => k \in DOMAIN tx.current
        /\ tx.published \in Seq(VenvKeys)
    BY BoundsAssumption
       DEF VenvJournaled, VenvInv, VenvTraced, VenvTypes, VenvLedgers, VenvReady
  <1>1. /\ tx'.before = tx.before /\ tx'.current = tx.current /\ tx'.update = tx.update
        /\ cmd' = cmd /\ tx.backed \in Seq(VenvKeys)
    BY <1>0, VenvPlanKept
  <1>2. CASE VenvNothingMoves
    BY <1>0, <1>1, <1>2 DEF VenvMoved, VenvListedIn, VenvDistinct, VenvNothingMoves
  <1>3. CASE VenvGoesAside
    <2> DEFINE h == Head(todo)
    <2>1. /\ h \in VenvKeys /\ tx.before[h] # 0 /\ files[h] # 0
          /\ files' = [files EXCEPT ![h] = 0]
          /\ tx'.backed = Append(tx.backed, h) /\ tx'.published = tx.published
          /\ tx.published = <<>>
      BY <1>0, <1>3, VenvTailLoop DEF VenvGoesAside, VenvPhase
    <2> HIDE DEF h
    <2>2. \A k : ~VenvListedIn(k, tx.published)
      BY <2>1 DEF VenvListedIn
    <2>3. ~VenvListedIn(h, tx.backed)
      BY <1>0, <2>1, <2>2 DEF VenvMoved
    <2>4. /\ \A k : VenvListedIn(k, tx'.backed) <=> VenvListedIn(k, tx.backed) \/ k = h
          /\ VenvDistinct(tx'.backed)
      BY <1>0, <1>1, <2>1, <2>3, VenvLonger DEF VenvMoved
    <2>5. \A k \in VenvKeys : files'[k] = IF k = h THEN 0 ELSE files[k]
      BY <1>0, <2>1
    <2>6. VenvMoved'
      BY <1>0, <1>1, <2>1, <2>2, <2>4, <2>5 DEF VenvMoved
    <2> QED BY <2>6
  <1>4. CASE VenvComesBack
    <2> DEFINE h == Venv!Last(tx.backed)
    <2>1. /\ h \in VenvKeys /\ files' = [files EXCEPT ![h] = Venv!Last(aside)]
          /\ Venv!Last(aside) = tx.before[h]
          /\ tx'.backed = Venv!Front(tx.backed) /\ tx.backed # <<>>
          /\ tx'.published = tx.published /\ tx.published = <<>>
      BY <1>0, <1>1, <1>4, VenvFront DEF VenvComesBack, VenvPhase
    <2>4. /\ \A k : VenvListedIn(k, tx.backed) <=> VenvListedIn(k, tx'.backed) \/ k = h
          /\ ~VenvListedIn(h, tx'.backed) /\ VenvDistinct(tx'.backed)
      BY <1>0, <1>1, <2>1, VenvShorter DEF VenvMoved
    <2> HIDE DEF h
    <2>2. \A k : ~VenvListedIn(k, tx.published)
      BY <2>1 DEF VenvListedIn
    <2>5. \A k \in VenvKeys : files'[k] = IF k = h THEN tx.before[h] ELSE files[k]
      BY <1>0, <2>1
    <2>6. VenvMoved'
      BY <1>0, <1>1, <2>1, <2>2, <2>4, <2>5 DEF VenvMoved
    <2> QED BY <2>6
  <1>5. CASE VenvIsPublished
    <2> DEFINE h == Head(todo)
    <2>1. /\ h \in VenvKeys /\ files[h] = 0
          /\ files' = [files EXCEPT ![h] = cmd + 1]
          /\ tx'.published = Append(tx.published, h) /\ tx'.backed = tx.backed
      BY <1>0, <1>5, VenvTailLoop DEF VenvIsPublished
    <2> HIDE DEF h
    <2>3. ~VenvListedIn(h, tx.published)
      BY <1>0, <2>1 DEF VenvMoved
    <2>4. /\ \A k : VenvListedIn(k, tx'.published) <=> VenvListedIn(k, tx.published) \/ k = h
          /\ VenvDistinct(tx'.published)
      BY <1>0, <1>1, <2>1, <2>3, VenvLonger DEF VenvMoved
    <2>5. \A k \in VenvKeys : files'[k] = IF k = h THEN cmd + 1 ELSE files[k]
      BY <1>0, <2>1
    <2>6. h \in DOMAIN tx.update \cup DOMAIN tx.current /\ ~VenvListedIn(h, tx.backed) =>
              tx.before[h] = 0
      BY <1>0, <2>1, <2>3 DEF VenvMoved
    <2>7. VenvMoved'
      BY <1>0, <1>1, <2>1, <2>4, <2>5, <2>6 DEF VenvMoved
    <2> QED BY <2>7
  <1>6. CASE VenvIsWithdrawn
    <2> DEFINE h == Venv!Last(tx.published)
    <2>1. /\ h \in VenvKeys /\ files' = [files EXCEPT ![h] = 0]
          /\ tx'.published = Venv!Front(tx.published) /\ tx.published # <<>>
          /\ tx'.backed = tx.backed
      BY <1>0, <1>1, <1>6, VenvFront DEF VenvIsWithdrawn
    <2>4. /\ \A k : VenvListedIn(k, tx.published) <=> VenvListedIn(k, tx'.published) \/ k = h
          /\ ~VenvListedIn(h, tx'.published) /\ VenvDistinct(tx'.published)
      BY <1>0, <1>1, <2>1, VenvShorter DEF VenvMoved
    <2> HIDE DEF h
    <2>5. \A k \in VenvKeys : files'[k] = IF k = h THEN 0 ELSE files[k]
      BY <1>0, <2>1
    <2>6. VenvMoved'
      BY <1>0, <1>1, <2>1, <2>4, <2>5 DEF VenvMoved
    <2> QED BY <2>6
  <1> QED BY <1>0, <1>2, <1>3, <1>4, <1>5, <1>6, VenvMoves

\* The directory goes on to hold the originals, in the order of the moves.
LEMMA VenvMembersStep ==
    ASSUME VenvJournaled, edits = 0, Venv!Next \/ UNCHANGED vars,
           pc \in VenvActive, pc' \in VenvActive, ~Venv!Edit
    PROVE  VenvMembers'
  <1>0. /\ VenvMoved /\ VenvMembers /\ VenvPhase /\ VenvInv
        /\ files \in [VenvKeys -> Nat]
        /\ \A k \in VenvKeys : tx.before[k] # 0 => k \in DOMAIN tx.current
    BY DEF VenvJournaled, VenvInv, VenvTraced, VenvTypes, VenvLedgers
  <1>1. /\ tx'.before = tx.before /\ tx.backed \in Seq(VenvKeys)
        /\ aside \in Seq(Nat) /\ Len(aside) = Len(tx.backed)
    BY <1>0, VenvPlanKept
  <1>2. CASE UNCHANGED aside /\ tx'.backed = tx.backed
    BY <1>0, <1>1, <1>2 DEF VenvMembers
  <1>3. CASE VenvGoesAside
    <2> DEFINE h == Head(todo)
    <2>1. /\ h \in VenvKeys /\ tx.before[h] # 0 /\ files[h] # 0
          /\ aside' = Append(aside, files[h])
          /\ tx'.backed = Append(tx.backed, h) /\ tx.published = <<>>
      BY <1>0, <1>3, VenvTailLoop DEF VenvGoesAside, VenvPhase
    <2> HIDE DEF h
    <2>2. \A k : ~VenvListedIn(k, tx.published)
      BY <2>1 DEF VenvListedIn
    <2>3. files[h] = tx.before[h] /\ files[h] \in Nat
      BY <1>0, <2>1, <2>2 DEF VenvMoved
    <2>4. /\ Len(aside') = Len(aside) + 1 /\ aside'[Len(aside) + 1] = files[h]
          /\ \A i \in 1..Len(aside) : aside'[i] = aside[i]
      BY <1>1, <2>1, <2>3, VenvAppend
    <2>5. /\ tx'.backed[Len(aside) + 1] = h
          /\ \A i \in 1..Len(aside) : tx'.backed[i] = tx.backed[i]
      BY <1>1, <2>1, VenvAppend
    <2>6. Len(aside) \in Nat
      BY <1>1
    <2>7. \A i \in 1..(Len(aside) + 1) : i \in 1..Len(aside) \/ i = Len(aside) + 1
      BY <2>6
    <2>8. VenvMembers'
      BY <1>0, <1>1, <2>3, <2>4, <2>5, <2>7 DEF VenvMembers
    <2> QED BY <2>8
  <1>4. CASE VenvComesBack
    <2>1. tx'.backed = Venv!Front(tx.backed) /\ aside' = Venv!Front(aside) /\ tx.backed # <<>>
      BY <1>4 DEF VenvComesBack
    <2>2. aside # <<>>
      BY <1>1, <2>1
    <2>3. /\ Len(aside') = Len(aside) - 1
          /\ \A i \in 1..(Len(aside) - 1) : aside'[i] = aside[i]
      BY <1>1, <2>1, <2>2, VenvFront
    <2>4. \A i \in 1..(Len(aside) - 1) : tx'.backed[i] = tx.backed[i]
      <3>1. \A i \in 1..(Len(tx.backed) - 1) : tx'.backed[i] = tx.backed[i]
        BY <1>1, <2>1, VenvFront
      <3> QED BY <1>1, <3>1
    <2>5. \A i \in 1..(Len(aside) - 1) : i \in 1..Len(aside)
      BY <1>1
    <2> QED BY <1>0, <1>1, <2>3, <2>4, <2>5 DEF VenvMembers
  <1> QED BY <1>0, <1>2, <1>3, <1>4, VenvMoves
          DEF VenvIsPublished, VenvIsWithdrawn, VenvNothingMoves

\* The journal of a command at work only grows, and what it names it names on.
LEMMA VenvGrows ==
    ASSUME VenvInv, Venv!Next \/ UNCHANGED vars, pc \in VenvActive, pc' \in VenvActive,
           journal' # journal
    PROVE  /\ ~VenvGoesAside /\ ~VenvComesBack /\ tx'.backed = tx.backed
           /\ tx'.published = tx.published
           /\ \E r \in VenvIntents :
                 /\ journal' = Append(journal, r)
                 /\ pc = "ledger" => r[1] = "begin"
                 /\ pc' = "place" => todo' = todo /\ r[2] = Head(todo)
                 /\ pc' = "move" => pc = "backup" /\ todo' = todo /\ r = <<"backup", Head(todo)>>
                 /\ pc' = "backup" => pc = "ledger"
           /\ pc \in VenvForward /\ pc' # "ledger"
  <1> USE DEF Venv!Go, Venv!disk, Venv!user, VenvActive, VenvForward
  <1>0. /\ VenvTypes /\ VenvLoop /\ VenvDirectory /\ DOMAIN tx = VenvFields
    BY DEF VenvInv, VenvTypes
  <1>1. ~VenvGoesAside /\ ~VenvComesBack
    BY DEF VenvGoesAside, VenvComesBack
  <1>2. CASE Venv!OpenJournal
    <2>1. PICK r : r = <<"begin", "">>
      OBVIOUS
    <2>2. r \in VenvIntents
      BY <2>1 DEF VenvIntents, VenvSteps
    <2>3. r[1] = "begin"
      BY <2>1
    <2>4. journal' = Append(journal, r) /\ pc = "ledger" /\ pc' \in {"backup", "rbLedger"}
          /\ tx' = tx
      BY <1>2, <2>1 DEF Venv!OpenJournal, Venv!Append1, Venv!Fails
    <2> QED BY <1>1, <2>2, <2>3, <2>4
  <1>3. CASE Venv!IntendBackup
    <2>1. /\ pc = "backup" /\ todo # <<>> /\ journal' = Append(journal, <<"backup", Head(todo)>>)
          /\ todo' = todo /\ tx' = tx /\ pc' \in {"move", "rbLedger"}
      BY <1>3 DEF Venv!IntendBackup, Venv!Append1, Venv!Fails
    <2>2. Head(todo) \in VenvKeys
      BY <1>0, <2>1, VenvTailLoop DEF VenvLoop
    <2>3. <<"backup", Head(todo)>> \in VenvIntents
      BY <2>2 DEF VenvIntents, VenvSteps
    <2> QED BY <1>1, <2>1, <2>3
  <1>4. CASE Venv!IntendPublish
    <2>1. /\ pc = "publish" /\ todo # <<>>
          /\ journal' = Append(journal, <<"publish", Head(todo)>>)
          /\ todo' = todo /\ tx' = tx /\ pc' \in {"place", "rbLedger"}
      BY <1>4 DEF Venv!IntendPublish, Venv!Append1, Venv!Fails
    <2>2. Head(todo) \in VenvKeys
      BY <1>0, <2>1, VenvTailLoop DEF VenvLoop
    <2>3. <<"publish", Head(todo)>> \in VenvIntents
      BY <2>2 DEF VenvIntents, VenvSteps
    <2> QED BY <1>1, <2>1, <2>3
  <1>5. CASE Venv!LedgerAside
    <2>1. PICK r : r = <<"backup-metadata", "">>
      OBVIOUS
    <2>2. r \in VenvIntents
      BY <2>1 DEF VenvIntents, VenvSteps
    <2>3. journal' = Append(journal, r) /\ pc = "ledgerAside"
          /\ pc' \in {"ledgerNext", "rbLedger"}
      BY <1>5, <2>1 DEF Venv!LedgerAside, Venv!Fails, Venv!Append1
    <2>4. tx'.backed = tx.backed /\ tx'.published = tx.published
      BY <1>0, <1>5 DEF VenvFields, Venv!LedgerAside, Venv!Fails
    <2> QED BY <1>1, <2>2, <2>3, <2>4
  <1>6. CASE Venv!LedgerNext
    <2>1. PICK r : r = <<"publish-metadata", "">>
      OBVIOUS
    <2>2. r \in VenvIntents
      BY <2>1 DEF VenvIntents, VenvSteps
    <2>3. journal' = Append(journal, r) /\ pc = "ledgerNext" /\ pc' = "ledgerPlace" /\ tx' = tx
      BY <1>6, <2>1 DEF Venv!LedgerNext, Venv!Fails, Venv!Append1
    <2> QED BY <1>1, <2>2, <2>3
  <1>7. CASE \/ Venv!MoveAside \/ Venv!Place \/ Venv!LedgerPlace \/ Venv!Reconcile
             \/ Venv!RollBackLedger \/ Venv!RemovePublished \/ Venv!RestoreBacked
    BY <1>7 DEF Venv!MoveAside, Venv!Place, Venv!LedgerPlace, Venv!Reconcile, Venv!Fails,
       Venv!RollBackLedger, Venv!RemovePublished, Venv!RestoreBacked, Venv!GiveUp
  <1>8. CASE \/ Venv!Begin \/ Venv!Prepare \/ Venv!Inventory \/ Venv!Purge
             \/ Venv!Close \/ Venv!Kill \/ Venv!ClearStaleLock
    BY <1>8 DEF Venv!Begin, Venv!Prepare, Venv!Inventory, Venv!Purge, Venv!Close, Venv!Kill,
       Venv!ClearStaleLock, Venv!GiveUp
  <1>9. CASE Venv!Edit \/ UNCHANGED vars
    BY <1>9 DEF Venv!Edit, vars, environment
  <1> QED BY <1>2, <1>3, <1>4, <1>5, <1>6, <1>7, <1>8, <1>9 DEF Venv!Next

\* A journal that grew begins as it did.
LEMMA VenvNamedOn ==
    ASSUME journal \in Seq(VenvIntents), NEW r \in VenvIntents, journal' = Append(journal, r)
    PROVE  /\ Len(journal) \in Nat /\ Len(journal') = Len(journal) + 1
           /\ journal'[Len(journal) + 1] = r
           /\ \A i \in 1..Len(journal) : journal'[i] = journal[i]
           /\ \A k : VenvNames(journal, k) => VenvNames(journal', k)
           /\ VenvNames(journal', r[2])
  <1>0. /\ Len(journal) \in Nat /\ Len(journal') = Len(journal) + 1
        /\ journal'[Len(journal) + 1] = r
        /\ \A i \in 1..Len(journal) : journal'[i] = journal[i]
    BY VenvAppend
  <1>1. ASSUME NEW k, VenvNames(journal, k) PROVE VenvNames(journal', k)
    <2>1. PICK i \in 1..Len(journal) : journal[i][2] = k
      BY <1>1 DEF VenvNames
    <2>2. i \in 1..Len(journal') /\ journal'[i][2] = k
      BY <1>0, <2>1
    <2> QED BY <2>2 DEF VenvNames
  <1>2. VenvNames(journal', r[2])
    <2>1. Len(journal) + 1 \in 1..Len(journal')
      BY <1>0
    <2> QED BY <1>0, <2>1 DEF VenvNames
  <1> QED BY <1>0, <1>1, <1>2

\* A step that writes no record begins no move and no publication.
LEMMA VenvStays ==
    ASSUME VenvInv, Venv!Next \/ UNCHANGED vars, pc \in VenvActive, pc' \in VenvActive,
           ~Venv!Edit, journal' = journal
    PROVE  /\ pc' = "ledger" => pc = "ledger"
           /\ pc' \in {"move", "place"} => pc' = pc /\ todo' = todo /\ VenvNothingMoves
           /\ pc' = "backup" => VenvGoesAside \/ (pc = "backup" /\ VenvNothingMoves)
  <1> USE DEF Venv!Go, Venv!disk, Venv!user, VenvActive, VenvForward
  <1>0. journal \in Seq(VenvIntents)
    BY DEF VenvInv, VenvDirectory
  <1>1. VenvGoesAside \/ VenvComesBack \/ VenvIsPublished \/ VenvIsWithdrawn \/ VenvNothingMoves
    BY VenvMoves
  <1>2. CASE Venv!OpenJournal
    <2>0. Venv!Fails("ledger") => pc' = "rbLedger"
      BY DEF Venv!Fails
    <2>1. PICK r : r = <<"begin", "">>
      OBVIOUS
    <2>2. r \in VenvIntents
      BY <2>1 DEF VenvIntents, VenvSteps
    <2>3. ~Venv!Fails("ledger") => journal' = Append(journal, r)
      BY <1>2, <2>1 DEF Venv!OpenJournal, Venv!Append1
    <2>4. /\ Len(Append(journal, r)) = Len(journal) + 1 /\ Len(journal) \in Nat
      BY <1>0, <2>2, VenvAppend
    <2> QED BY <2>0, <2>3, <2>4
  <1>3. CASE Venv!IntendBackup
    <2>1. CASE pc' = "backup"
      BY <1>1, <1>3, <2>1 DEF Venv!IntendBackup, Venv!Fails, VenvComesBack, VenvIsPublished,
         VenvIsWithdrawn
    <2>2. CASE pc' = "move"
      <3>1. /\ journal' = Append(journal, <<"backup", Head(todo)>>) /\ pc = "backup"
            /\ todo # <<>>
        BY <1>3, <2>2 DEF Venv!IntendBackup, Venv!Fails, Venv!Append1
      <3>2. Head(todo) \in VenvKeys
        BY <3>1, VenvTailLoop DEF VenvInv, VenvLoop
      <3>3. <<"backup", Head(todo)>> \in VenvIntents
        BY <3>2 DEF VenvIntents, VenvSteps
      <3>4. Len(journal') = Len(journal) + 1 /\ Len(journal) \in Nat
        BY <1>0, <3>1, <3>3, VenvAppend
      <3> QED BY <3>4
    <2> QED BY <1>3, <2>1, <2>2 DEF Venv!IntendBackup, Venv!Fails
  <1>4. CASE Venv!IntendPublish
    <2>1. CASE pc' = "place"
      <3>1. /\ journal' = Append(journal, <<"publish", Head(todo)>>) /\ pc = "publish"
            /\ todo # <<>>
        BY <1>4, <2>1 DEF Venv!IntendPublish, Venv!Fails, Venv!Append1
      <3>2. Head(todo) \in VenvKeys
        BY <3>1, VenvTailLoop DEF VenvInv, VenvLoop
      <3>3. <<"publish", Head(todo)>> \in VenvIntents
        BY <3>2 DEF VenvIntents, VenvSteps
      <3>4. Len(journal') = Len(journal) + 1 /\ Len(journal) \in Nat
        BY <1>0, <3>1, <3>3, VenvAppend
      <3> QED BY <3>4
    <2> QED BY <1>4, <2>1 DEF Venv!IntendPublish, Venv!Fails
  <1>5. CASE Venv!MoveAside
    <2>1. CASE Venv!Fails("move")
      BY <2>1 DEF Venv!Fails
    <2>2. CASE ~Venv!Fails("move")
      <3>1. /\ DOMAIN tx = VenvFields /\ todo # <<>> /\ todo \in Seq(VenvKeys)
            /\ tx.before[Head(todo)] # 0
        BY <1>5 DEF VenvInv, VenvTypes, VenvLoop, Venv!MoveAside
      <3>2. VenvGoesAside
        BY <1>5, <2>2, <3>1 DEF VenvFields, Venv!MoveAside, VenvGoesAside, Venv!TakeAside,
           Venv!Absent
      <3> QED BY <3>2 DEF VenvGoesAside
    <2> QED BY <2>1, <2>2
  <1>6. CASE \/ Venv!Place \/ Venv!LedgerAside \/ Venv!LedgerNext
             \/ Venv!LedgerPlace \/ Venv!Reconcile \/ Venv!RollBackLedger
             \/ Venv!RemovePublished \/ Venv!RestoreBacked
    BY <1>6 DEF Venv!Place, Venv!LedgerAside, Venv!LedgerNext,
       Venv!LedgerPlace, Venv!Reconcile, Venv!Fails,
       Venv!RollBackLedger, Venv!RemovePublished, Venv!RestoreBacked, Venv!GiveUp
  <1>7. CASE \/ Venv!Begin \/ Venv!Prepare \/ Venv!Inventory \/ Venv!Purge
             \/ Venv!Close \/ Venv!Kill \/ Venv!ClearStaleLock
    BY <1>7 DEF Venv!Begin, Venv!Prepare, Venv!Inventory, Venv!Purge, Venv!Close, Venv!Kill,
       Venv!ClearStaleLock, Venv!GiveUp
  <1>8. CASE UNCHANGED vars
    BY <1>8 DEF VenvNothingMoves, vars, common, environment
  <1> QED BY <1>2, <1>3, <1>4, <1>5, <1>6, <1>7, <1>8 DEF Venv!Next

\* What a directory that is gone leaves, and what a plan is made on.
LEMMA VenvReadyStep ==
    ASSUME VenvInv, VenvReady, Venv!Next \/ UNCHANGED vars
    PROVE  VenvReady'
  <1> USE DEF Venv!Go, Venv!disk, Venv!user, VenvInside, VenvForward
  <1>0. VenvTypes /\ VenvLoop /\ VenvDirectory
    BY DEF VenvInv
  <1>1. tx'.published \in Seq(VenvKeys)
    <2>1. CASE ~Venv!Begin
      <3>1. CASE Venv!Place /\ pc = "place" /\ todo # <<>>
                 /\ tx'.published = Append(tx.published, Head(todo))
        <4>1. Head(todo) \in VenvKeys
          BY <1>0, <3>1, VenvTailLoop DEF VenvLoop
        <4> QED BY <3>1, <4>1, VenvAppend DEF VenvReady
      <3>2. CASE tx.published # <<>> /\ tx'.published = Venv!Front(tx.published)
        BY <3>2, VenvFront DEF VenvReady
      <3>3. CASE tx'.published = tx.published
        BY <3>3 DEF VenvReady
      <3> QED BY <2>1, <3>1, <3>2, <3>3, VenvPublished
    <2>2. CASE Venv!Begin
      <3>1. \/ tx' = [Venv!NoTx EXCEPT !.current = ledger, !.before = Venv!Frozen]
            \/ tx' = [tx EXCEPT !.mode = "clean"]
        BY <2>2 DEF Venv!Begin
      <3>2. CASE tx' = [Venv!NoTx EXCEPT !.current = ledger, !.before = Venv!Frozen]
        <4>1. tx'.published = <<>>
          BY <3>2 DEF Venv!NoTx
        <4> QED BY <4>1
      <3>3. CASE tx' = [tx EXCEPT !.mode = "clean"]
        <4>1. tx'.published = tx.published
          BY <1>0, <3>3 DEF VenvTypes, VenvFields
        <4> QED BY <4>1 DEF VenvReady
      <3> QED BY <3>1, <3>2, <3>3
    <2> QED BY <2>1, <2>2
  <1>2. dir' = 0 => aledger' = <<>> /\ journal' = <<>>
    <2>1. CASE Venv!Purge
      <3>1. pc = "purge" /\ dir # 0
        BY <1>0, <2>1 DEF VenvTypes, Venv!Purge, Venv!GiveUp
      <3> QED BY <2>1, <3>1 DEF VenvReady, Venv!Purge, Venv!GiveUp
    <2>2. CASE Venv!Prepare
      BY <1>0, <2>2 DEF VenvReady, VenvTypes, Venv!Prepare
    <2>3. CASE \/ Venv!OpenJournal \/ Venv!IntendBackup \/ Venv!MoveAside
               \/ Venv!IntendPublish \/ Venv!Place
      BY <1>0, <2>3 DEF VenvReady, VenvTypes, Venv!OpenJournal, Venv!IntendBackup,
         Venv!MoveAside, Venv!IntendPublish, Venv!Place, Venv!Fails
    <2>4. CASE Venv!LedgerAside \/ Venv!LedgerNext \/ Venv!LedgerPlace \/ Venv!Reconcile
      BY <1>0, <2>4 DEF VenvReady, VenvTypes, Venv!LedgerAside, Venv!LedgerNext,
         Venv!LedgerPlace, Venv!Reconcile, Venv!Fails
    <2>5. CASE Venv!RollBackLedger \/ Venv!RemovePublished \/ Venv!RestoreBacked
      BY <1>0, <2>5 DEF VenvReady, VenvTypes, Venv!RollBackLedger, Venv!RemovePublished,
         Venv!RestoreBacked, Venv!GiveUp
    <2>6. CASE UNCHANGED <<dir, aledger, journal>>
      BY <2>6 DEF VenvReady
    <2>7. CASE \/ Venv!Begin \/ Venv!Inventory \/ Venv!Close \/ Venv!Kill
               \/ Venv!ClearStaleLock \/ Venv!Edit \/ UNCHANGED vars
      BY <2>6, <2>7 DEF Venv!Begin, Venv!Inventory, Venv!Close, Venv!Kill,
         Venv!ClearStaleLock, Venv!Edit, Venv!GiveUp, vars, common, environment
    <2> QED BY <2>1, <2>2, <2>3, <2>4, <2>5, <2>7 DEF Venv!Next
  <1>3. pc' \in VenvInside /\ journal' = <<>> => aledger' = <<>>
    <2>1. CASE Venv!Purge
      BY <1>0, <2>1 DEF VenvReady, VenvInside, Venv!Purge, Venv!GiveUp, Venv!NoLedger
    <2>2. CASE pc \in VenvActive /\ pc' \in VenvActive /\ journal' # journal
      <3>1. PICK r \in VenvIntents : journal' = Append(journal, r)
        BY <2>2, VenvGrows
      <3> QED BY <1>0, <3>1, VenvAppend DEF VenvDirectory
    <2>3. CASE journal' = journal /\ aledger' \in {aledger, <<>>}
               /\ (pc' \in VenvInside => pc \in VenvInside)
      BY <2>3 DEF VenvReady
    <2>4. CASE Venv!Prepare
      BY <1>0, <2>4 DEF VenvReady, VenvTypes, Venv!Prepare
    <2>5. CASE pc' \notin VenvInside
      BY <2>5
    <2>6. CASE Venv!LedgerAside
      <3>1. pc = "ledgerAside" /\ pc' \in {"ledgerNext", "rbLedger"}
        BY <2>6 DEF Venv!LedgerAside, Venv!Fails
      <3>2. journal # <<>>
        BY <1>0, <3>1 DEF VenvDirectory, VenvForward
      <3> QED BY <2>2, <3>1, <3>2 DEF VenvActive, VenvForward
    <2>7. CASE Venv!LedgerNext
      <3>1. pc = "ledgerNext" /\ pc' \in {"ledgerPlace", "rbLedger"}
        BY <2>7 DEF Venv!LedgerNext, Venv!Fails
      <3>2. journal # <<>>
        BY <1>0, <3>1 DEF VenvDirectory, VenvForward
      <3> QED BY <2>2, <3>1, <3>2 DEF VenvActive, VenvForward
    <2>8. CASE Venv!OpenJournal
      <3>1. pc = "ledger" /\ pc' \in {"backup", "rbLedger"} /\ aledger' = aledger
        BY <2>8 DEF Venv!OpenJournal, Venv!Fails
      <3> QED BY <2>2, <2>3, <3>1 DEF VenvActive, VenvForward, VenvInside
    <2>9. CASE Venv!IntendBackup \/ Venv!IntendPublish
      <3>1. /\ pc \in {"backup", "publish"} /\ aledger' = aledger
            /\ pc' \in {"backup", "publish", "move", "place", "ledgerAside", "rbLedger"}
        BY <2>9 DEF Venv!IntendBackup, Venv!IntendPublish, Venv!Fails
      <3> QED BY <2>2, <2>3, <3>1 DEF VenvActive, VenvForward, VenvInside
    <2>10. CASE Venv!MoveAside \/ Venv!Place \/ Venv!LedgerPlace \/ Venv!Reconcile
      BY <2>3, <2>10 DEF Venv!MoveAside, Venv!Place, Venv!LedgerPlace, Venv!Reconcile,
         Venv!Fails, VenvInside, VenvForward
    <2>11. CASE \/ Venv!RollBackLedger \/ Venv!RemovePublished \/ Venv!RestoreBacked
                \/ Venv!Inventory
      BY <2>3, <2>5, <2>11 DEF Venv!RollBackLedger, Venv!RemovePublished, Venv!RestoreBacked,
         Venv!Inventory, Venv!GiveUp, Venv!NoLedger, VenvInside, VenvForward
    <2>12. CASE Venv!Begin \/ Venv!Close \/ Venv!Kill
      BY <2>5, <2>12 DEF Venv!Begin, Venv!Close, Venv!Kill, VenvInside, VenvForward
    <2>13. CASE Venv!Edit \/ Venv!ClearStaleLock \/ UNCHANGED vars
      BY <2>3, <2>13 DEF Venv!Edit, Venv!ClearStaleLock, vars, common, environment
    <2> QED BY <2>1, <2>4, <2>6, <2>7, <2>8, <2>9, <2>10, <2>11, <2>12, <2>13 DEF Venv!Next
  <1>4. pc' = "prepare" =>
            /\ tx'.published = <<>> /\ tx'.ledgerAt = "unmoved"
            /\ \A k \in VenvKeys : tx'.before[k] = IF k \in DOMAIN tx'.current
                                                   THEN tx'.current[k].file ELSE 0
    <2>1. CASE Venv!Begin
      <3> SUFFICES ASSUME pc' = "prepare"
                   PROVE  /\ tx'.published = <<>> /\ tx'.ledgerAt = "unmoved"
                          /\ \A k \in VenvKeys : tx'.before[k] = IF k \in DOMAIN tx'.current
                                                       THEN tx'.current[k].file ELSE 0
        OBVIOUS
      <3>1. tx' = [Venv!NoTx EXCEPT !.current = ledger, !.before = Venv!Frozen]
        BY <2>1 DEF Venv!Begin
      <3>2. tx'.published = <<>> /\ tx'.ledgerAt = "unmoved"
        BY <3>1 DEF Venv!NoTx
      <3>3. /\ tx'.current = ledger
            /\ \A k \in VenvKeys : tx'.before[k] = IF k \in DOMAIN ledger
                                                   THEN ledger[k].file ELSE 0
        BY <2>1, VenvBeginPlan
      <3> QED BY <3>2, <3>3
    <2>2. CASE Venv!Edit \/ Venv!ClearStaleLock \/ UNCHANGED vars
      BY <2>2 DEF VenvReady, Venv!Edit, Venv!ClearStaleLock, vars, common
    <2>3. CASE pc' # "prepare"
      BY <2>3
    <2>4. CASE \/ Venv!Prepare \/ Venv!OpenJournal \/ Venv!IntendBackup
               \/ Venv!MoveAside \/ Venv!IntendPublish \/ Venv!Place \/ Venv!LedgerAside
               \/ Venv!LedgerNext
      BY <2>3, <2>4 DEF Venv!Prepare, Venv!OpenJournal, Venv!IntendBackup,
         Venv!MoveAside, Venv!IntendPublish, Venv!Place, Venv!LedgerAside, Venv!LedgerNext,
         Venv!Fails
    <2>5. CASE \/ Venv!LedgerPlace \/ Venv!Reconcile \/ Venv!RollBackLedger
               \/ Venv!RemovePublished \/ Venv!RestoreBacked \/ Venv!Close \/ Venv!Kill
               \/ Venv!Inventory \/ Venv!Purge
      BY <2>3, <2>5 DEF Venv!LedgerPlace, Venv!Reconcile, Venv!RollBackLedger,
         Venv!RemovePublished, Venv!RestoreBacked, Venv!Close, Venv!Kill, Venv!Fails,
         Venv!GiveUp, Venv!Inventory, Venv!Purge
    <2> QED BY <2>1, <2>2, <2>4, <2>5 DEF Venv!Next
  <1> QED BY <1>1, <1>2, <1>3, <1>4 DEF VenvReady

\* Every move that was made is in the journal before the next one.
LEMMA VenvJournalStep ==
    ASSUME VenvJournaled, edits = 0, Venv!Next \/ UNCHANGED vars,
           pc \in VenvActive, pc' \in VenvActive, ~Venv!Edit
    PROVE  VenvJournal'
  <1>0. /\ VenvJournal /\ VenvPhase /\ VenvInv /\ journal \in Seq(VenvIntents)
        /\ tx.published \in Seq(VenvKeys)
    BY DEF VenvJournaled, VenvInv, VenvTraced, VenvDirectory, VenvReady
  <1>1. /\ tx.backed \in Seq(VenvKeys) /\ Len(tx.backed) \in Nat /\ Len(journal) \in Nat
    BY <1>0, VenvPlanKept
  <1>2. CASE journal' # journal
    <2>1. PICK r \in VenvIntents :
                 /\ journal' = Append(journal, r)
                 /\ pc = "ledger" => r[1] = "begin"
                 /\ pc' = "place" => todo' = todo /\ r[2] = Head(todo)
                 /\ pc' = "move" => pc = "backup" /\ todo' = todo /\ r = <<"backup", Head(todo)>>
                 /\ pc' = "backup" => pc = "ledger"
      BY <1>0, <1>2, VenvGrows
    <2>2. tx'.backed = tx.backed /\ tx'.published = tx.published /\ pc' # "ledger"
      BY <1>0, <1>2, VenvGrows
    <2>3. /\ Len(journal') = Len(journal) + 1
          /\ journal'[Len(journal) + 1] = r
          /\ \A i \in 1..Len(journal) : journal'[i] = journal[i]
          /\ \A k : VenvNames(journal, k) => VenvNames(journal', k)
          /\ VenvNames(journal', r[2])
      BY <1>0, <2>1, VenvNamedOn
    <2>4. Len(journal') > Len(tx.backed) /\ journal'[1][1] = "begin"
      <3>0. pc \in VenvForward
        BY <1>0, <1>2, VenvGrows
      <3>1. CASE journal = <<>>
        <4>0. pc = "ledger"
          BY <1>0, <3>0, <3>1 DEF VenvInv, VenvDirectory
        <4>1. Len(journal) = 0 /\ Len(tx.backed) = 0 /\ r[1] = "begin"
          BY <1>0, <2>1, <3>1, <4>0 DEF VenvPhase
        <4> QED BY <2>3, <4>1
      <3>2. CASE journal # <<>>
        <4>1. Len(journal) > Len(tx.backed) /\ journal[1][1] = "begin"
          BY <1>0, <3>2 DEF VenvJournal
        <4>2. 1 \in 1..Len(journal)
          BY <1>1, <4>1
        <4>3. Len(journal') > Len(tx.backed)
          BY <1>1, <2>3, <4>1
        <4> QED BY <2>3, <4>1, <4>2, <4>3
      <3> QED BY <3>1, <3>2
    <2>5. pc' = "backup" => Len(journal') = Len(tx.backed) + 1
      <3>1. pc = "ledger" => Len(journal) = 0 /\ Len(tx.backed) = 0
        BY <1>0 DEF VenvJournal, VenvPhase
      <3> QED BY <2>1, <2>3, <3>1
    <2>6. pc' = "move" => /\ Len(journal') = Len(tx.backed) + 2
                          /\ journal'[Len(journal')] = <<"backup", Head(todo')>>
      <3>1. pc = "backup" => Len(journal) = Len(tx.backed) + 1
        BY <1>0 DEF VenvJournal
      <3> QED BY <1>1, <2>1, <2>3, <3>1
    <2>7. pc' = "place" => VenvNames(journal', Head(todo'))
      BY <2>1, <2>3
    <2>8. \A i \in 1..Len(tx.backed) : journal'[i + 1] = <<"backup", tx.backed[i]>>
      <3>1. CASE pc = "ledger"
        <4>1. Len(tx.backed) = 0
          BY <1>0, <3>1 DEF VenvPhase
        <4> QED BY <4>1
      <3>2. CASE pc # "ledger"
        <4>0. journal # <<>>
          BY <1>0, <1>2, <3>2, VenvGrows DEF VenvInv, VenvDirectory
        <4>1. /\ Len(journal) > Len(tx.backed)
              /\ \A i \in 1..Len(tx.backed) : journal[i + 1] = <<"backup", tx.backed[i]>>
          BY <1>0, <4>0 DEF VenvJournal
        <4>2. \A i \in 1..Len(tx.backed) : i + 1 \in 1..Len(journal)
          BY <1>1, <4>1
        <4>3. \A i \in 1..Len(tx.backed) : journal'[i + 1] = journal[i + 1]
          BY <2>3, <4>2
        <4> QED BY <4>1, <4>3
      <3> QED BY <3>1, <3>2
    <2>9. \A i \in 1..Len(tx.published) : VenvNames(journal', tx.published[i])
      BY <1>0, <2>3 DEF VenvJournal
    <2> QED BY <2>2, <2>4, <2>5, <2>6, <2>7, <2>8, <2>9 DEF VenvJournal
  <1>3. CASE journal' = journal
    <2>0. /\ pc' = "ledger" => pc = "ledger"
          /\ pc' \in {"move", "place"} => pc' = pc /\ todo' = todo /\ VenvNothingMoves
          /\ pc' = "backup" => VenvGoesAside \/ (pc = "backup" /\ VenvNothingMoves)
      BY <1>0, <1>3, VenvStays
    <2>1. CASE VenvNothingMoves
      BY <1>0, <1>3, <2>0, <2>1 DEF VenvJournal, VenvNothingMoves, VenvGoesAside
    <2>2. CASE VenvGoesAside
      <3> DEFINE h == Head(todo)
      <3>1. /\ h \in VenvKeys /\ tx'.backed = Append(tx.backed, h) /\ pc = "move"
            /\ tx'.published = tx.published /\ pc' \in {"backup", "rbLedger"}
            /\ Len(journal) = Len(tx.backed) + 2
            /\ journal[Len(tx.backed) + 2] = <<"backup", h>>
        BY <1>0, <2>2, VenvTailLoop DEF VenvGoesAside, VenvJournal
      <3> HIDE DEF h
      <3>2. /\ Len(tx'.backed) = Len(tx.backed) + 1 /\ tx'.backed[Len(tx.backed) + 1] = h
            /\ \A i \in 1..Len(tx.backed) : tx'.backed[i] = tx.backed[i]
        BY <1>1, <3>1, VenvAppend
      <3>3. Len(journal') = Len(tx'.backed) + 1
        BY <1>1, <1>3, <3>1, <3>2
      <3>4. ASSUME NEW i \in 1..Len(tx'.backed)
            PROVE  journal'[i + 1] = <<"backup", tx'.backed[i]>>
        <4>1. i \in 1..Len(tx.backed) \/ i = Len(tx.backed) + 1
          BY <1>1, <3>2, <3>4
        <4>2. CASE i \in 1..Len(tx.backed)
          BY <1>0, <1>3, <3>1, <3>2, <4>2 DEF VenvJournal
        <4>3. CASE i = Len(tx.backed) + 1
          <5>1. i + 1 = Len(tx.backed) + 2 /\ tx'.backed[i] = h
            BY <1>1, <3>2, <4>3
          <5> QED BY <1>3, <3>1, <5>1
        <4> QED BY <4>1, <4>2, <4>3
      <3>5. Len(journal') > Len(tx'.backed) /\ journal'[1][1] = "begin"
        <4>1. journal[1][1] = "begin"
          BY <1>0, <3>1 DEF VenvJournal
        <4> QED BY <1>1, <1>3, <3>2, <3>3, <4>1
      <3> QED BY <1>0, <1>3, <3>1, <3>3, <3>4, <3>5 DEF VenvJournal
    <2>3. CASE VenvComesBack
      <3>1. /\ tx'.backed = Venv!Front(tx.backed) /\ tx.backed # <<>> /\ pc' = "rbBacked"
            /\ pc = "rbBacked" /\ tx'.published = tx.published
        BY <2>3 DEF VenvComesBack
      <3>2. /\ Len(tx'.backed) = Len(tx.backed) - 1
            /\ \A i \in 1..(Len(tx.backed) - 1) : tx'.backed[i] = tx.backed[i]
        BY <1>1, <3>1, VenvFront
      <3>3. Len(journal) > Len(tx.backed) /\ journal[1][1] = "begin"
        <4>1. Len(aside) = Len(tx.backed) /\ aside # <<>>
          BY <1>0, <1>1, <3>1 DEF VenvInv, VenvDirectory, VenvInside
        <4>2. journal # <<>>
          BY <1>0, <3>1, <4>1 DEF VenvInv, VenvDirectory, VenvInside
        <4> QED BY <1>0, <4>2 DEF VenvJournal
      <3>4. Len(journal') > Len(tx'.backed)
        BY <1>1, <1>3, <3>2, <3>3
      <3>5. \A i \in 1..(Len(tx.backed) - 1) : i \in 1..Len(tx.backed)
        BY <1>1
      <3>6. \A i \in 1..Len(tx'.backed) : journal'[i + 1] = <<"backup", tx'.backed[i]>>
        BY <1>0, <1>3, <3>2, <3>5 DEF VenvJournal
      <3> QED BY <1>0, <1>3, <3>1, <3>3, <3>4, <3>6 DEF VenvJournal
    <2>4. CASE VenvIsPublished
      <3> DEFINE h == Head(todo)
      <3>1. /\ h \in VenvKeys /\ tx'.published = Append(tx.published, h) /\ pc = "place"
            /\ tx'.backed = tx.backed /\ pc' \in {"publish", "rbLedger"}
            /\ VenvNames(journal, h)
        BY <1>0, <2>4, VenvTailLoop DEF VenvIsPublished, VenvJournal
      <3> HIDE DEF h
      <3>2. /\ Len(tx'.published) = Len(tx.published) + 1 /\ Len(tx.published) \in Nat
            /\ tx'.published[Len(tx.published) + 1] = h
            /\ \A i \in 1..Len(tx.published) : tx'.published[i] = tx.published[i]
        BY <1>0, <3>1, VenvAppend
      <3>3. \A i \in 1..Len(tx'.published) : i \in 1..Len(tx.published)
                                            \/ i = Len(tx.published) + 1
        BY <3>2
      <3>4. \A i \in 1..Len(tx'.published) : VenvNames(journal', tx'.published[i])
        BY <1>0, <1>3, <3>1, <3>2, <3>3 DEF VenvJournal
      <3> QED BY <1>0, <1>3, <3>1, <3>4 DEF VenvJournal
    <2>5. CASE VenvIsWithdrawn
      <3>1. /\ tx'.published = Venv!Front(tx.published) /\ tx.published # <<>>
            /\ pc = "rbPublished" /\ pc' = "rbPublished" /\ tx'.backed = tx.backed
        BY <2>5 DEF VenvIsWithdrawn
      <3>2. /\ Len(tx'.published) = Len(tx.published) - 1
            /\ \A i \in 1..(Len(tx.published) - 1) : tx'.published[i] = tx.published[i]
        BY <1>0, <3>1, VenvFront
      <3>3. \A i \in 1..(Len(tx.published) - 1) : i \in 1..Len(tx.published)
        BY <1>0
      <3>4. \A i \in 1..Len(tx'.published) : VenvNames(journal', tx'.published[i])
        BY <1>0, <1>3, <3>1, <3>2, <3>3 DEF VenvJournal
      <3> QED BY <1>0, <1>3, <3>1, <3>4 DEF VenvJournal
    <2> QED BY <1>0, <2>1, <2>2, <2>3, <2>4, <2>5, VenvMoves
  <1> QED BY <1>2, <1>3

\* The loops leave each other as they should, and the ledger in force is where
\* the transaction says.
LEMMA VenvPhaseStep ==
    ASSUME VenvJournaled, edits = 0, Venv!Next \/ UNCHANGED vars,
           pc \in VenvActive, pc' \in VenvActive, ~Venv!Edit
    PROVE  VenvPhase'
  <1> USE DEF Venv!Go, Venv!disk, Venv!user
  <1>0. /\ VenvPhase /\ VenvInv /\ DOMAIN tx = VenvFields
    BY DEF VenvJournaled, VenvTraced, VenvInv, VenvTypes
  <1>1. tx'.current = tx.current /\ tx'.desired = tx.desired
    BY <1>0, VenvPlanKept
  <1>2. CASE Venv!OpenJournal
    BY <1>0, <1>2 DEF VenvPhase, Venv!OpenJournal, Venv!Fails
  <1>3. CASE Venv!IntendBackup
    BY <1>0, <1>3 DEF VenvPhase, Venv!IntendBackup, Venv!Fails
  <1>4. CASE Venv!MoveAside
    <2>1. /\ pc = "move" /\ pc' \in {"backup", "rbLedger"} /\ tx'.published = tx.published
          /\ tx'.ledgerAt = tx.ledgerAt /\ UNCHANGED <<ledger, aledger, nextLedger>>
      BY <1>0, <1>4 DEF VenvFields, Venv!MoveAside, Venv!Fails
    <2> QED BY <1>0, <1>1, <2>1 DEF VenvPhase
  <1>5. CASE Venv!IntendPublish
    BY <1>0, <1>5 DEF VenvPhase, Venv!IntendPublish, Venv!Fails
  <1>6. CASE Venv!Place
    <2>1. /\ pc = "place" /\ pc' \in {"publish", "rbLedger"}
          /\ tx'.ledgerAt = tx.ledgerAt /\ UNCHANGED <<ledger, aledger, nextLedger>>
      BY <1>0, <1>6 DEF VenvFields, Venv!Place, Venv!Fails
    <2> QED BY <1>0, <1>1, <2>1 DEF VenvPhase
  <1>7. CASE Venv!LedgerAside
    <2>0. pc = "ledgerAside" /\ pc' \in {"ledgerNext", "rbLedger"}
      BY <1>7 DEF Venv!LedgerAside, Venv!Fails
    <2>1. CASE UNCHANGED <<ledger, aledger, tx>> /\ (pc' = "rbLedger" \/ tx.current = <<>>)
      BY <1>0, <2>0, <2>1 DEF VenvPhase
    <2>2. CASE /\ aledger' = ledger /\ ledger' = Venv!NoLedger
               /\ tx' = [tx EXCEPT !.ledgerAt = "aside"]
      <3>1. tx'.ledgerAt = "aside" /\ aledger' = tx.current
        BY <1>0, <2>0, <2>2 DEF VenvPhase, VenvFields
      <3> QED BY <1>1, <2>0, <3>1 DEF VenvPhase
    <2> QED BY <1>7, <2>1, <2>2 DEF Venv!LedgerAside, Venv!Fails, Venv!NoLedger
  <1>8. CASE Venv!LedgerNext
    <2>1. /\ pc = "ledgerNext" /\ pc' \in {"ledgerPlace", "rbLedger"}
          /\ UNCHANGED <<ledger, aledger, tx>> /\ (pc' = "ledgerPlace" => nextLedger' = tx.desired)
      BY <1>8 DEF Venv!LedgerNext, Venv!Fails
    <2> QED BY <1>0, <2>1 DEF VenvPhase
  <1>9. CASE Venv!LedgerPlace
    <2>0. pc = "ledgerPlace" /\ pc' \in {"reconcile", "rbLedger"} /\ UNCHANGED aledger
      BY <1>9 DEF Venv!LedgerPlace, Venv!Fails
    <2>1. CASE UNCHANGED <<ledger, tx>>
      BY <1>0, <2>0, <2>1 DEF VenvPhase
    <2>2. CASE ledger' = nextLedger /\ tx' = [tx EXCEPT !.ledgerAt = "published"]
      <3>1. tx'.ledgerAt = "published" /\ ledger' = tx.desired /\ aledger' = tx.current
        BY <1>0, <2>0, <2>2 DEF VenvPhase, VenvFields
      <3> QED BY <1>1, <2>0, <3>1 DEF VenvPhase
    <2> QED BY <1>9, <2>1, <2>2 DEF Venv!LedgerPlace, Venv!Fails
  <1>10. CASE Venv!Reconcile
    <2>1. pc = "reconcile" /\ pc' = "rbLedger" /\ UNCHANGED <<ledger, aledger, tx>>
      BY <1>10 DEF Venv!Reconcile, Venv!Fails, VenvActive, VenvForward
    <2> QED BY <1>0, <2>1 DEF VenvPhase
  <1>11. CASE Venv!RollBackLedger
    <2>1. /\ pc = "rbLedger" /\ pc' = "rbPublished"
          /\ ledger' = IF tx.ledgerAt = "unmoved" THEN ledger ELSE aledger
          /\ tx' = [tx EXCEPT !.ledgerAt = "unmoved"]
      BY <1>11 DEF Venv!RollBackLedger, Venv!GiveUp, VenvActive, VenvForward
    <2>2. tx'.ledgerAt = "unmoved"
      BY <1>0, <2>1 DEF VenvFields
    <2>3. ledger' = tx.current
      BY <1>0, <2>1 DEF VenvPhase
    <2> QED BY <1>1, <2>1, <2>2, <2>3 DEF VenvPhase
  <1>12. CASE Venv!RemovePublished
    <2>1. /\ pc = "rbPublished" /\ UNCHANGED <<ledger, aledger>>
          /\ tx'.ledgerAt = tx.ledgerAt
          /\ \/ pc' = "rbPublished"
             \/ pc' = "rbBacked" /\ tx'.published = <<>>
      BY <1>0, <1>12 DEF VenvFields, Venv!RemovePublished, Venv!GiveUp, VenvActive, VenvForward
    <2> QED BY <1>0, <1>1, <2>1 DEF VenvPhase
  <1>13. CASE Venv!RestoreBacked
    <2>1. /\ pc = "rbBacked" /\ pc' = "rbBacked" /\ UNCHANGED <<ledger, aledger>>
          /\ tx'.ledgerAt = tx.ledgerAt /\ tx'.published = tx.published
      BY <1>0, <1>13 DEF VenvFields, Venv!RestoreBacked, Venv!GiveUp, VenvActive, VenvForward
    <2> QED BY <1>0, <1>1, <2>1 DEF VenvPhase
  <1>14. CASE \/ Venv!Begin \/ Venv!Prepare \/ Venv!Inventory \/ Venv!Purge
              \/ Venv!Close \/ Venv!Kill \/ Venv!ClearStaleLock
    BY <1>14 DEF Venv!Begin, Venv!Prepare, Venv!Inventory, Venv!Purge, Venv!Close, Venv!Kill,
       Venv!ClearStaleLock, Venv!GiveUp, VenvActive, VenvForward
  <1>15. CASE UNCHANGED vars
    BY <1>0, <1>15 DEF VenvPhase, vars, common, environment
  <1> QED BY <1>2, <1>3, <1>4, <1>5, <1>6, <1>7, <1>8, <1>9, <1>10, <1>11, <1>12, <1>13,
             <1>14, <1>15 DEF Venv!Next

\* A plan is made of what was frozen, before the directory has any member.
LEMMA VenvPlanned ==
    ASSUME VenvInv, VenvReady, Venv!Prepare, pc' = "ledger"
    PROVE  VenvMoved' /\ VenvMembers' /\ VenvJournal' /\ VenvPhase'
  <1> USE DEF Venv!Go, Venv!disk, Venv!user
  <1>1. PICK u \in VenvUpdates :
            /\ tx' = [tx EXCEPT !.update = u, !.desired = Venv!Desired(u),
                                !.mode = IF pc' = "close" THEN "recovery" ELSE @]
            /\ Venv!CheckBefore
    BY DEF Venv!Prepare
  <1>2. /\ tx'.current = tx.current /\ tx'.update = u /\ tx'.before = tx.before
        /\ tx'.backed = tx.backed /\ tx'.published = tx.published
        /\ tx'.ledgerAt = tx.ledgerAt
    BY <1>1 DEF VenvInv, VenvTypes, VenvFields
  <1>3. /\ pc = "prepare" /\ dir = 0 /\ UNCHANGED <<files, ledger, aside, aledger, journal>>
    BY DEF Venv!Prepare, VenvInv, VenvTypes
  <1>4. /\ aside = <<>> /\ tx.backed = <<>> /\ tx.published = <<>> /\ journal = <<>>
        /\ aledger = <<>> /\ tx.ledgerAt = "unmoved"
        /\ \A k \in VenvKeys : tx.before[k] = IF k \in DOMAIN tx.current
                                              THEN tx.current[k].file ELSE 0
    BY <1>3 DEF VenvReady, VenvInv, VenvDirectory
  <1>5. /\ ledger = tx.current
        /\ \A k \in DOMAIN tx.current : files[k] = tx.current[k].file
        /\ \A k \in DOMAIN u \ DOMAIN tx.current : files[k] = 0
    BY <1>1, <1>2 DEF Venv!CheckBefore, Venv!Holds, Venv!Owned, Venv!Absent
  <1>6. VenvMoved'
    <2>1. \A k : ~VenvListedIn(k, tx'.backed) /\ ~VenvListedIn(k, tx'.published)
      BY <1>2, <1>4 DEF VenvListedIn
    <2>2. VenvDistinct(tx'.backed) /\ VenvDistinct(tx'.published)
      BY <1>2, <1>4 DEF VenvDistinct
    <2>3. \A k \in VenvKeys : k \in DOMAIN u \cup DOMAIN tx.current => files[k] = tx.before[k]
      BY <1>4, <1>5
    <2> QED BY <1>2, <1>3, <2>1, <2>2, <2>3 DEF VenvMoved
  <1>7. VenvMembers'
    BY <1>3, <1>4 DEF VenvMembers
  <1>8. VenvJournal'
    BY <1>2, <1>3, <1>4 DEF VenvJournal
  <1>9. VenvPhase'
    BY <1>2, <1>3, <1>4, <1>5 DEF VenvPhase
  <1> QED BY <1>6, <1>7, <1>8, <1>9

\* What is recoverable depends on the files, the members and the journal.
LEMMA VenvRecoverableKept ==
    ASSUME UNCHANGED <<files, aside, journal>>, tx'.before = tx.before, NEW k
    PROVE  Venv!Recoverable(k)' <=> Venv!Recoverable(k)
  <1>1. Venv!Named(k)' <=> Venv!Named(k)
    BY DEF Venv!Named
  <1>2. ASSUME NEW i PROVE Venv!Original(k, i)' <=> Venv!Original(k, i)
    BY DEF Venv!Original, Venv!Backups
  <1> QED BY <1>1, <1>2 DEF Venv!Recoverable

LEMMA VenvLeadsOn ==
    ASSUME Venv!RecoverableFromJournal, edits = 0, dir' # 0 => dir # 0,
           UNCHANGED <<files, ledger, aside, aledger, journal>>,
           tx'.before = tx.before, tx'.current = tx.current, tx'.desired = tx.desired,
           tx'.update = tx.update
    PROVE  Venv!RecoverableFromJournal'
  <1>1. \A k : Venv!Recoverable(k)' <=> Venv!Recoverable(k)
    BY VenvRecoverableKept
  <1>2. CASE Venv!WholeAs(tx.current)
    <2>1. Venv!WholeAs(tx.current)'
      BY <1>2 DEF Venv!WholeAs, Venv!Holds, Venv!Owned
    <2> QED BY <2>1 DEF Venv!RecoverableFromJournal
  <1>3. CASE Venv!WholeAs(tx.desired)
    <2>1. Venv!WholeAs(tx.desired)'
      BY <1>3 DEF Venv!WholeAs, Venv!Holds, Venv!Owned
    <2> QED BY <2>1 DEF Venv!RecoverableFromJournal
  <1>4. CASE /\ \A k \in DOMAIN tx.update \cup Venv!Owned(tx.current) : Venv!Recoverable(k)
             /\ tx.current \in {ledger, aledger}
    <2>1. /\ \A k \in DOMAIN tx'.update \cup DOMAIN tx'.current : Venv!Recoverable(k)'
          /\ tx'.current \in {ledger', aledger'}
      BY <1>1, <1>4 DEF Venv!Owned
    <2> QED BY <2>1 DEF Venv!RecoverableFromJournal, Venv!Owned
  <1>5. CASE dir' = 0
    BY <1>5 DEF Venv!RecoverableFromJournal
  <1> QED BY <1>2, <1>3, <1>4, <1>5 DEF Venv!RecoverableFromJournal

\* A command begins its work by making the directory.
LEMMA VenvEnters ==
    ASSUME Venv!Next \/ UNCHANGED vars, pc \notin VenvActive, pc' \in VenvActive
    PROVE  Venv!Prepare /\ pc' = "ledger"
  <1> USE DEF Venv!Go, Venv!disk, Venv!user, VenvActive, VenvForward
  <1>1. CASE \/ Venv!OpenJournal \/ Venv!IntendBackup \/ Venv!MoveAside
             \/ Venv!IntendPublish \/ Venv!Place \/ Venv!LedgerAside \/ Venv!LedgerNext
    BY <1>1 DEF Venv!OpenJournal, Venv!IntendBackup, Venv!MoveAside, Venv!IntendPublish,
       Venv!Place, Venv!LedgerAside, Venv!LedgerNext, Venv!Fails
  <1>2. CASE \/ Venv!LedgerPlace \/ Venv!Reconcile \/ Venv!RollBackLedger
             \/ Venv!RemovePublished \/ Venv!RestoreBacked
    BY <1>2 DEF Venv!LedgerPlace, Venv!Reconcile, Venv!RollBackLedger, Venv!RemovePublished,
       Venv!RestoreBacked, Venv!Fails, Venv!GiveUp
  <1>3. CASE \/ Venv!Begin \/ Venv!Inventory \/ Venv!Purge \/ Venv!Close \/ Venv!Kill
             \/ Venv!ClearStaleLock \/ Venv!Edit
    BY <1>3 DEF Venv!Begin, Venv!Inventory, Venv!Purge, Venv!Close, Venv!Kill,
       Venv!ClearStaleLock, Venv!Edit, Venv!GiveUp
  <1>4. CASE UNCHANGED vars
    BY <1>4 DEF vars, common
  <1>5. CASE Venv!Prepare
    BY <1>5 DEF Venv!Prepare
  <1> QED BY <1>1, <1>2, <1>3, <1>4, <1>5 DEF Venv!Next

\* The ledger that the clean-up finds in force is the one before or the one
\* after.
LEMMA VenvEndsWhole ==
    ASSUME VenvJournaled, edits = 0, Venv!Next \/ UNCHANGED vars, ~Venv!Edit,
           pc' \in {"inventory", "purge"}
    PROVE  ledger' \in {tx'.current, tx'.desired}
  <1> USE DEF Venv!Go, Venv!disk, Venv!user
  <1>0. /\ DOMAIN tx = VenvFields
        /\ pc \in {"inventory", "purge"} => ledger \in {tx.current, tx.desired}
    BY DEF VenvJournaled, VenvInv, VenvTypes, VenvTraced
  <1>1. CASE Venv!Reconcile
    <2>1. tx'.desired = tx.desired /\ ledger' = tx.desired
      BY <1>0, <1>1 DEF VenvFields, Venv!Reconcile, Venv!Fails
    <2> QED BY <2>1
  <1>2. CASE Venv!RestoreBacked
    BY <1>2 DEF Venv!RestoreBacked, Venv!GiveUp
  <1>3. CASE Venv!Inventory \/ Venv!Purge
    BY <1>0, <1>3 DEF Venv!Inventory, Venv!Purge, Venv!GiveUp
  <1>4. CASE Venv!ClearStaleLock \/ UNCHANGED vars
    BY <1>0, <1>4 DEF Venv!ClearStaleLock, vars, common, environment
  <1>5. CASE \/ Venv!Begin \/ Venv!Prepare \/ Venv!OpenJournal \/ Venv!IntendBackup
             \/ Venv!MoveAside \/ Venv!IntendPublish \/ Venv!Place \/ Venv!LedgerAside
             \/ Venv!LedgerNext
    BY <1>5 DEF Venv!Begin, Venv!Prepare, Venv!OpenJournal, Venv!IntendBackup,
       Venv!MoveAside, Venv!IntendPublish, Venv!Place, Venv!LedgerAside, Venv!LedgerNext,
       Venv!Fails
  <1>6. CASE \/ Venv!LedgerPlace \/ Venv!RollBackLedger \/ Venv!RemovePublished
             \/ Venv!Close \/ Venv!Kill
    BY <1>6 DEF Venv!LedgerPlace, Venv!RollBackLedger, Venv!RemovePublished, Venv!Close,
       Venv!Kill, Venv!Fails, Venv!GiveUp
  <1> QED BY <1>1, <1>2, <1>3, <1>4, <1>5, <1>6 DEF Venv!Next

\* Whatever a command that stops leaves is recoverable.
LEMMA VenvLeaves ==
    ASSUME VenvJournaled, edits = 0, Venv!Next \/ UNCHANGED vars, ~Venv!Edit,
           pc' \notin VenvActive
    PROVE  Venv!RecoverableFromJournal'
  <1> USE DEF Venv!Go, Venv!disk, Venv!user
  <1>0. /\ DOMAIN tx = VenvFields /\ VenvInv /\ Venv!RecoverableFromJournal
    BY VenvLeadsBack DEF VenvJournaled, VenvInv, VenvTypes
  <1>1. CASE /\ UNCHANGED <<files, ledger, aside, aledger, journal, dir>>
             /\ tx' \in {tx, [tx EXCEPT !.mode = "recovery"], [tx EXCEPT !.mode = "clean"],
                         [tx EXCEPT !.mode = "committed"]}
    <2>1. /\ tx'.before = tx.before /\ tx'.current = tx.current /\ tx'.desired = tx.desired
          /\ tx'.update = tx.update
      BY <1>0, <1>1 DEF VenvFields
    <2> QED BY <1>0, <1>1, <2>1, VenvLeadsOn
  <1>2. CASE dir' = 0
    BY <1>2 DEF Venv!RecoverableFromJournal
  <1>3. CASE Venv!Begin
    BY <1>1, <1>2, <1>3 DEF Venv!Begin
  <1>4. CASE Venv!Prepare
    <2>1. pc = "prepare" /\ dir = 0 /\ pc' = "close"
      BY <1>0, <1>4 DEF VenvInv, VenvTypes, Venv!Prepare, VenvActive, VenvForward
    <2>2. CASE UNCHANGED dir
      BY <1>2, <2>1, <2>2
    <2>3. CASE ~UNCHANGED dir
      <3>1. PICK u \in VenvUpdates :
                /\ tx' = [tx EXCEPT !.update = u, !.desired = Venv!Desired(u),
                                    !.mode = IF pc' = "close" THEN "recovery" ELSE @]
                /\ Venv!CheckBefore
        BY <1>4, <2>3 DEF Venv!Prepare
      <3>2. tx'.current = tx.current /\ UNCHANGED <<files, ledger>>
        BY <1>0, <1>4, <3>1 DEF VenvFields, Venv!Prepare
      <3>3. ledger = tx.current /\ \A k \in DOMAIN tx.current : files[k] = tx.current[k].file
        BY <3>1 DEF Venv!CheckBefore, Venv!Holds, Venv!Owned
      <3>4. Venv!WholeAs(tx.current)'
        BY <3>2, <3>3 DEF Venv!WholeAs, Venv!Holds, Venv!Owned
      <3> QED BY <3>4 DEF Venv!RecoverableFromJournal
    <2> QED BY <2>2, <2>3
  <1>5. CASE Venv!Reconcile
    BY <1>1, <1>5 DEF Venv!Reconcile, Venv!Fails, VenvActive, VenvForward
  <1>6. CASE Venv!RollBackLedger
    <2>1. CASE Venv!GiveUp("rbLedger")
      BY <1>1, <2>1 DEF Venv!GiveUp
    <2>2. CASE ~Venv!GiveUp("rbLedger")
      <3>1. /\ pc = "rbLedger" /\ tx.ledgerAt = "published"
            /\ tx' = [tx EXCEPT !.mode = "recovery"]
            /\ UNCHANGED <<files, aside, aledger, journal>>
        BY <1>6, <2>2 DEF Venv!RollBackLedger, VenvActive, VenvForward
      <3>2. tx'.before = tx.before /\ tx'.current = tx.current /\ tx'.update = tx.update
        BY <1>0, <3>1 DEF VenvFields
      <3>3. pc \in VenvActive
        BY <3>1 DEF VenvActive, VenvForward
      <3>4. VenvPhase
        BY <3>3 DEF VenvJournaled, VenvTraced
      <3>5. aledger = tx.current
        BY <3>1, <3>4 DEF VenvPhase
      <3>6. \A k \in DOMAIN tx.update \cup DOMAIN tx.current : Venv!Recoverable(k)
        BY <3>3, VenvRecoverable
      <3>7. \A k \in DOMAIN tx'.update \cup DOMAIN tx'.current : Venv!Recoverable(k)'
        BY <3>1, <3>2, <3>6, VenvRecoverableKept
      <3> QED BY <3>1, <3>2, <3>5, <3>7 DEF Venv!RecoverableFromJournal, Venv!Owned
    <2> QED BY <2>1, <2>2
  <1>7. CASE Venv!RemovePublished
    BY <1>1, <1>7 DEF Venv!RemovePublished, Venv!GiveUp, VenvActive, VenvForward
  <1>8. CASE Venv!RestoreBacked
    BY <1>1, <1>8 DEF Venv!RestoreBacked, Venv!GiveUp, VenvActive, VenvForward
  <1>9. CASE Venv!Inventory
    BY <1>1, <1>9 DEF Venv!Inventory, Venv!GiveUp
  <1>10. CASE Venv!Purge
    <2>1. CASE pc' = "purge"
      <3>1. pc = "purge" /\ UNCHANGED <<files, ledger, tx>>
        BY <1>10, <2>1 DEF Venv!Purge, Venv!GiveUp
      <3>2. Venv!Holds(ledger) /\ ledger \in {tx.current, tx.desired}
        BY <1>0, <3>1 DEF VenvJournaled, VenvInv, VenvGround, VenvTraced
      <3>3. \A k \in DOMAIN ledger : files[k] = ledger[k].file
        BY <3>2 DEF Venv!Holds, Venv!Owned
      <3>4. CASE ledger = tx.current
        <4>1. Venv!WholeAs(tx.current)'
          BY <3>1, <3>3, <3>4 DEF Venv!WholeAs, Venv!Holds, Venv!Owned
        <4> QED BY <4>1 DEF Venv!RecoverableFromJournal
      <3>5. CASE ledger = tx.desired
        <4>1. Venv!WholeAs(tx.desired)'
          BY <3>1, <3>3, <3>5 DEF Venv!WholeAs, Venv!Holds, Venv!Owned
        <4> QED BY <4>1 DEF Venv!RecoverableFromJournal
      <3> QED BY <3>2, <3>4, <3>5
    <2>2. CASE pc' # "purge"
      BY <1>1, <1>2, <1>10, <2>2 DEF Venv!Purge, Venv!GiveUp
    <2> QED BY <2>1, <2>2
  <1>11. CASE Venv!Close \/ Venv!Kill \/ Venv!ClearStaleLock \/ UNCHANGED vars
    BY <1>1, <1>11 DEF Venv!Close, Venv!Kill, Venv!ClearStaleLock, vars, common, environment
  <1>12. CASE \/ Venv!OpenJournal \/ Venv!IntendBackup \/ Venv!MoveAside
              \/ Venv!IntendPublish \/ Venv!Place
    BY <1>12 DEF Venv!OpenJournal, Venv!IntendBackup, Venv!MoveAside, Venv!IntendPublish,
       Venv!Place, Venv!Fails, VenvActive, VenvForward
  <1>13. CASE Venv!LedgerAside \/ Venv!LedgerNext \/ Venv!LedgerPlace
    BY <1>13 DEF Venv!LedgerAside, Venv!LedgerNext, Venv!LedgerPlace, Venv!Fails, VenvActive,
       VenvForward
  <1> QED BY <1>3, <1>4, <1>5, <1>6, <1>7, <1>8, <1>9, <1>10, <1>11, <1>12, <1>13
          DEF Venv!Next

\* Every step keeps what the journal leads back to.
LEMMA VenvJournaledStep ==
    ASSUME VenvJournaled, Venv!Next \/ UNCHANGED vars
    PROVE  VenvJournaled'
  <1>1. VenvInv' /\ VenvReady'
    BY VenvStep, VenvReadyStep DEF VenvJournaled
  <1>2. ASSUME edits' = 0
        PROVE  /\ pc' \in VenvActive =>
                      VenvMoved' /\ VenvMembers' /\ VenvJournal' /\ VenvPhase'
               /\ pc' \in {"inventory", "purge"} => ledger' \in {tx'.current, tx'.desired}
               /\ pc' \notin VenvActive => Venv!RecoverableFromJournal'
    <2>1. edits = 0 /\ ~Venv!Edit
      BY <1>2, VenvUnedited DEF VenvJournaled
    <2>2. ASSUME pc' \in VenvActive
          PROVE  VenvMoved' /\ VenvMembers' /\ VenvJournal' /\ VenvPhase'
      <3>1. CASE pc \in VenvActive
        BY <2>1, <2>2, <3>1, VenvMovedStep, VenvMembersStep, VenvJournalStep, VenvPhaseStep
      <3>2. CASE pc \notin VenvActive
        BY <2>2, <3>2, VenvEnters, VenvPlanned DEF VenvJournaled
      <3> QED BY <3>1, <3>2
    <2> QED BY <2>1, <2>2, VenvEndsWhole, VenvLeaves
  <1> QED BY <1>1, <1>2 DEF VenvJournaled, VenvTraced

LEMMA VenvStarts ==
    ASSUME Venv!Init
    PROVE  VenvJournaled
  <1>1. /\ dir = 0 /\ pc = "idle" /\ aledger = <<>> /\ journal = <<>>
        /\ tx.published = <<>>
    BY DEF Venv!Init, Venv!NoTx, Venv!NoLedger
  <1>2. VenvReady
    BY <1>1 DEF VenvReady
  <1>3. VenvTraced
    BY <1>1 DEF VenvTraced, VenvActive, VenvForward, Venv!RecoverableFromJournal
  <1> QED BY <1>2, <1>3, VenvInitial DEF VenvJournaled

-----------------------------------------------------------------------------
(* The theorems                                                            *)

Inv ==
    /\ kind \in {"cargo", "terraform", "npm", "venv"}
    /\ kind = "cargo" => CargoInv
    /\ kind = "terraform" => TerraformInv
    /\ kind = "npm" => NpmInv /\ NpmRecorded
    /\ kind = "venv" => VenvJournaled

LEMMA Initially == Init => Inv
  <1> SUFFICES ASSUME Init PROVE Inv
    OBVIOUS
  <1>1. CASE kind = "cargo" /\ Cargo!Init
    BY <1>1, CargoInitial DEF Inv
  <1>2. CASE kind = "terraform" /\ Terraform!Init
    BY <1>2, TerraformInitial DEF Inv
  <1>3. CASE kind = "npm" /\ Npm!Init
    <2>1. NpmRecorded
      BY <1>3 DEF Npm!Init, Npm!Nothing, NpmRecorded, NpmInside
    <2> QED BY <1>3, <2>1, NpmInitial DEF Inv
  <1>4. CASE kind = "venv" /\ Venv!Init
    BY <1>4, VenvStarts DEF Inv
  <1> QED BY <1>1, <1>2, <1>3, <1>4 DEF Init

LEMMA Stepwise == Inv /\ [Next]_vars => Inv'
  <1> SUFFICES ASSUME Inv, Next \/ UNCHANGED vars PROVE Inv'
    OBVIOUS
  <1>0. kind' = kind
    BY DEF Next, vars
  <1>1. CASE kind = "cargo"
    <2>1. CargoInv /\ (Cargo!Next \/ UNCHANGED vars)
      BY <1>1 DEF Inv, Next
    <2>2. CargoInv'
      BY <2>1, CargoStep
    <2> QED BY <1>0, <1>1, <2>2 DEF Inv
  <1>2. CASE kind = "terraform"
    <2>1. TerraformInv /\ (Terraform!Next \/ UNCHANGED vars)
      BY <1>2 DEF Inv, Next
    <2>2. TerraformInv'
      BY <2>1, TerraformStep
    <2> QED BY <1>0, <1>2, <2>2 DEF Inv
  <1>3. CASE kind = "npm"
    <2>1. NpmInv /\ NpmRecorded /\ (Npm!Next \/ UNCHANGED vars)
      BY <1>3 DEF Inv, Next
    <2>2. NpmInv'
      BY <2>1, NpmStep
    <2>3. NpmRecorded'
      BY <2>1, NpmRecordedStep DEF NpmInv
    <2> QED BY <1>0, <1>3, <2>2, <2>3 DEF Inv
  <1>4. CASE kind = "venv"
    <2>1. VenvJournaled /\ (Venv!Next \/ UNCHANGED vars)
      BY <1>4 DEF Inv, Next
    <2>2. VenvJournaled'
      BY <2>1, VenvJournaledStep
    <2> QED BY <1>0, <1>4, <2>2 DEF Inv
  <1> QED BY <1>1, <1>2, <1>3, <1>4 DEF Inv

LEMMA Invariance == Spec => []Inv
  BY Initially, Stepwise, PTL DEF Spec

\* Whatever failed or was killed before: without a journal directory the next
\* command admits the project or the environment, until a user edits it.
THEOREM OpenProjectsAreAdmissible == Spec => []OpenMeansAdmissible
  <1>1. Inv => OpenMeansAdmissible
    <2> SUFFICES ASSUME Inv PROVE OpenMeansAdmissible
      OBVIOUS
    <2>1. CASE kind = "cargo"
      <3>1. Cargo!OpenMeansAdmissible
        BY <2>1, CargoOpen DEF Inv
      <3> QED BY <2>1, <3>1 DEF OpenMeansAdmissible
    <2>2. CASE kind = "terraform"
      <3>1. Terraform!OpenMeansAdmissible
        BY <2>2, TerraformOpen DEF Inv
      <3> QED BY <2>2, <3>1 DEF OpenMeansAdmissible
    <2>3. CASE kind = "npm"
      <3>1. Npm!OpenMeansAdmissible
        BY <2>3, NpmOpen DEF Inv
      <3> QED BY <2>3, <3>1 DEF OpenMeansAdmissible
    <2>4. CASE kind = "venv"
      <3>1. Venv!OpenMeansAdmissible
        BY <2>4, VenvOpen DEF Inv, VenvJournaled
      <3> QED BY <2>4, <3>1 DEF OpenMeansAdmissible
    <2> QED BY <2>1, <2>2, <2>3, <2>4 DEF Inv
  <1> QED BY <1>1, Invariance, PTL

\* Whenever an update of an environment is killed or gives up, the environment
\* is whole, as before or as updated, or the journal leads from every
\* destination of the plan that differs to its original in the directory.
THEOREM EnvironmentsAreRecoverable == Spec => []RecoverableFromJournal
  <1>1. Inv => RecoverableFromJournal
    BY VenvLeadsBack DEF Inv, RecoverableFromJournal
  <1> QED BY <1>1, Invariance, PTL

\* No step of a transaction, its rollback and its clean-up included, replaces
\* or removes a file a user saved that its check finds; npm keeps what it moves
\* aside until it commits.  A save between a check and the call after it is not
\* covered (check and call are one step), nor a file dropped in Terraform's
\* directory.
THEOREM SeenFilesStay == Spec => SeenFileKept
  <1> DEFINE Keeps == /\ kind = "cargo" => Cargo!KeepsSeenFile
                      /\ kind = "terraform" => Terraform!KeepsSeenFile
                      /\ kind = "npm" => Npm!KeepsSeenFile
                      /\ kind = "venv" => Venv!KeepsSeenFile
  <1>1. Inv /\ [Next]_vars => [Keeps]_vars
    <2> SUFFICES ASSUME Inv, Next PROVE Keeps
      OBVIOUS
    <2>1. kind = "cargo" => Cargo!KeepsSeenFile
      BY CargoKeeps DEF Inv, CargoInv, Next
    <2>2. kind = "terraform" => Terraform!KeepsSeenFile
      BY TerraformKeeps DEF Inv, TerraformInv, Next
    <2>3. kind = "npm" => Npm!KeepsSeenFile
      BY NpmKeeps DEF Inv, NpmInv, Next
    <2>4. kind = "venv" => Venv!KeepsSeenFile
      BY VenvKeeps DEF Inv, VenvJournaled, Next
    <2> QED BY <2>1, <2>2, <2>3, <2>4
  <1> QED BY <1>1, Invariance, PTL DEF Spec, SeenFileKept

\* An approval of a Cargo or a Terraform project is retained only for the
\* sources and the controls that were inspected.
THEOREM ApprovalsAreOfTheInspected == Spec => ApprovalCoversSource
  <1> DEFINE Approves == /\ kind = "cargo" => Cargo!ApprovesTheInspected
                         /\ kind = "terraform" => Terraform!ApprovesTheInspected
  <1>1. [Next]_vars => [Approves]_vars
    <2> SUFFICES ASSUME Next PROVE Approves
      OBVIOUS
    <2>1. kind = "cargo" => Cargo!ApprovesTheInspected
      BY CargoApproves DEF Next
    <2>2. kind = "terraform" => Terraform!ApprovesTheInspected
      BY TerraformApproves DEF Next
    <2> QED BY <2>1, <2>2
  <1> QED BY <1>1, PTL DEF Spec, ApprovalCoversSource

\* For whoever looks while no journal directory exists, the three project
\* transactions implement ApprovedProject: its initial states, and its steps.
THEOREM ProjectsMoveTogether == Spec => ImplementsApprovedProject
  <1> DEFINE Moves == /\ kind = "cargo" => Cargo!MovesTogether
                      /\ kind = "terraform" => Terraform!MovesTogether
                      /\ kind = "npm" => Npm!MovesTogether
             Starts == /\ kind = "cargo" => Cargo!Coherent
                       /\ kind = "terraform" => Terraform!Coherent
                       /\ kind = "npm" => Npm!Coherent
  <1>1. Init => Starts
    BY CargoStartsCoherent, TerraformStartsCoherent, NpmStartsCoherent DEF Init
  <1>2. Inv /\ Inv' /\ [Next]_vars => [Moves]_vars
    <2> SUFFICES ASSUME Inv, Inv', Next PROVE Moves
      OBVIOUS
    <2>0. kind' = kind
      BY DEF Next
    <2>1. kind = "cargo" => Cargo!MovesTogether
      BY <2>0, CargoMoves DEF Inv, Next
    <2>2. kind = "terraform" => Terraform!MovesTogether
      BY <2>0, TerraformMoves DEF Inv, Next
    <2>3. kind = "npm" => Npm!MovesTogether
      BY <2>0, NpmMoves DEF Inv, Next
    <2> QED BY <2>1, <2>2, <2>3
  <1> QED BY <1>1, <1>2, Invariance, PTL DEF Spec, ImplementsApprovedProject
=============================================================================
