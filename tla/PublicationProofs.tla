--------------------------- MODULE PublicationProofs ---------------------------
(***************************************************************************)
(* Machine-checked proofs about Publication: for any number of publishers  *)
(* of any kinds, failing calls, acts of the user, kills and power losses,  *)
(* what is visible or on disk is a whole verified tree unless a removal of *)
(* it has begun, a reported success is durable, nobody's tree is replaced, *)
(* one that is not the publisher's own is removed only where somebody put  *)
(* it in the place of a published one, and a reported failure leaves       *)
(* nothing.                                                                *)
(***************************************************************************)
EXTENDS Publication, TLAPS

-----------------------------------------------------------------------------
(* The inductive invariant                                                 *)

Labels == {"begin", "makeTemporary", "copy", "prepare", "install", "validate",
           "assemble", "approve", "write", "seal", "recheck", "rename",
           "syncParent", "takeBack", "cleanUp", "done", "delete", "syncRoot"}
Results == {"none", "published", "failed", "uncertain", "deleting", "deleted", "killed"}

\* The calls of a publisher that works on its destination or has ended.
Deleting == {"delete", "syncRoot"}
Last == {"syncParent", "takeBack", "done"} \cup Deleting

TypeOK ==
    /\ kind \in [Publishers -> AllKinds]
    /\ source \in [Publishers -> {"verified", "changed"}]
    /\ temp \in [Publishers -> Temporaries \cup {Nothing}]
    /\ visible \in [Destinations -> Trees \cup {Nothing}]
    /\ disk \in [Destinations -> Trees \cup {Nothing}]
    /\ pc \in [Publishers -> Labels]
    /\ result \in [Publishers -> Results]
    /\ removing \subseteq Publishers
    /\ replaced \subseteq Destinations

\* A publisher is at a call of its own.
OwnCalls ==
    \A p \in Publishers : pc[p] \in {"cleanUp", "done"} \cup Deleting \/ Makes(p, pc[p])

\* What a temporary tree holds when it is about to be judged, synced, renamed.
TempIsReady(p) ==
    /\ pc[p] = "validate" => temp[p].data \in {"whole"} \cup Oddities(p)
    /\ pc[p] = "approve" /\ kind[p] = "goCache" => temp[p].data = "whole"
    /\ pc[p] \in {"seal", "recheck", "rename"} => temp[p].data = "whole"
    /\ pc[p] \in {"recheck", "rename"} => temp[p].synced = "yes"
Ready == \A p \in Publishers : temp[p] # Nothing => TempIsReady(p)

\* Between the rename and the answer the destination holds the publisher's own
\* tree unless somebody else took it away, and before the rename it does not.
Owned ==
    \A p \in Publishers :
        /\ pc[p] \in {"syncParent", "takeBack"} =>
               temp[p] = Nothing /\ (Published(p) \/ Destination(p) \in replaced)
        /\ pc[p] = "syncParent" =>
               \/ visible[Destination(p)] = Tree(p, "whole")
               \/ Destination(p) \in replaced
        /\ pc[p] = "takeBack" /\ p \in removing /\ Published(p) =>
               visible[Destination(p)].data = "remnant"
        /\ pc[p] \notin Last => ~Published(p)

\* Only its own publisher writes to a destination nobody contends for, until
\* somebody else takes the tree away.
PrivateEntries ==
    \A p \in Publishers :
        \A tree \in {visible[p], disk[p]} \ {Nothing} : tree.by = p \/ p \in replaced

\* An answer is the last thing a publisher does; a deletion comes later.
Answered ==
    \A p \in Publishers :
        /\ pc[p] \notin {"done"} \cup Deleting => result[p] = "none"
        /\ pc[p] \in Deleting => result[p] = "deleting" /\ kind[p] = "evidence"

\* Who removes a published tree has not reported it as published.
Removals ==
    \A p \in removing : result[p] # "published" /\ pc[p] \in {"takeBack", "done"} \cup Deleting

IInv ==
    /\ TypeOK /\ OwnCalls /\ Ready /\ Owned /\ PrivateEntries /\ Answered /\ Removals
    /\ VisibleIsWhole /\ SuccessSurvives

-----------------------------------------------------------------------------
(* Operators                                                               *)

\* The call after each call, kind by kind.
LEMMA NextCall ==
    ASSUME NEW p \in Publishers, kind[p] \in AllKinds, NEW call, Makes(p, call),
           call \notin {"syncParent", "takeBack"}
    PROVE  /\ Makes(p, After(p, call))
           /\ After(p, call) \in Labels \ ({"begin", "takeBack", "cleanUp", "done"} \cup Deleting)
           /\ After(p, call) = "syncParent" <=> call = "rename"
           /\ After(p, call) = "rename" => call \in {"seal", "recheck"}
           /\ After(p, call) = "recheck" => call = "seal"
           /\ After(p, call) = "validate" => call = "install"
           /\ After(p, call) = "approve" => call = "assemble"
           /\ After(p, call) = "seal" =>
                  \/ call \in {"copy", "validate", "assemble", "write"}
                  \/ call = "approve" /\ kind[p] = "goCache"
  <1> DEFINE C == Calls[kind[p]]
             i == CHOOSE i \in DOMAIN C : C[i] = call
  <1> USE DEF Labels, Deleting
  <1>1. i \in DOMAIN C /\ C[i] = call /\ After(p, call) = C[i + 1]
    BY DEF Makes, After
  <1>2. Makes(p, C[i + 1]) <=> \E j \in DOMAIN C : C[j] = C[i + 1]
    BY DEF Makes
  <1> HIDE DEF i
  <1>3. CASE kind[p] = "staging"
    <2>1. C = LocalStaging
      BY <1>3 DEF Calls, AllKinds
    <2> QED BY <1>1, <1>2, <1>3, <2>1 DEF LocalStaging
  <1>4. CASE kind[p] = "npm"
    <2>1. C = NPMPromotion
      BY <1>4 DEF Calls, AllKinds
    <2> QED BY <1>1, <1>2, <1>4, <2>1 DEF NPMPromotion
  <1>5. CASE kind[p] = "pypi"
    <2>1. C = PyPIPromotion
      BY <1>5 DEF Calls, AllKinds
    <2> QED BY <1>1, <1>2, <1>5, <2>1 DEF PyPIPromotion
  <1>6. CASE kind[p] = "github"
    <2>1. C = GitHubReleasePromotion
      BY <1>6 DEF Calls, AllKinds
    <2> QED BY <1>1, <1>2, <1>6, <2>1 DEF GitHubReleasePromotion
  <1>7. CASE kind[p] = "goCache"
    <2>1. C = GoVerifiedCache
      BY <1>7 DEF Calls, AllKinds
    <2> QED BY <1>1, <1>2, <1>7, <2>1 DEF GoVerifiedCache
  <1>8. CASE kind[p] = "cargoCache"
    <2>1. C = CargoVerifiedCache
      BY <1>8 DEF Calls, AllKinds
    <2> QED BY <1>1, <1>2, <1>8, <2>1 DEF CargoVerifiedCache
  <1>9. CASE kind[p] = "terraformCache"
    <2>1. C = TerraformVerifiedCache
      BY <1>9 DEF Calls, AllKinds
    <2> QED BY <1>1, <1>2, <1>9, <2>1 DEF TerraformVerifiedCache
  <1>10. CASE kind[p] = "evidence"
    <2>1. C = EvidenceStore
      BY <1>10 DEF Calls, AllKinds
    <2> QED BY <1>1, <1>2, <1>10, <2>1 DEF EvidenceStore
  <1> QED
    BY <1>3, <1>4, <1>5, <1>6, <1>7, <1>8, <1>9, <1>10 DEF AllKinds

\* Two publishers share a destination only if both aim at the target or at
\* the staging entry.
LEMMA DestinationOf ==
    ASSUME NEW p \in Publishers
    PROVE  /\ Destination(p) \in Destinations
           /\ Destination(p) \in Publishers => Destination(p) = p
           /\ kind[p] = "evidence" => Destination(p) = p
  BY NamesAssumption DEF Destination, Destinations

\* Nothing is not a tree.
LEMMA TreeType ==
    ASSUME NEW p \in Publishers \cup {User}, NEW data \in Data
    PROVE  /\ Tree(p, data) \in Trees
           /\ Tree(p, data) # Nothing
           /\ Tree(p, data).by = p /\ Tree(p, data).data = data
  BY NamesAssumption DEF Tree, Trees

-----------------------------------------------------------------------------
(* Steps that touch only the temporary tree of one publisher               *)

LEMMA PrivateStep ==
    ASSUME IInv, NEW p \in Publishers, NEW l \in Labels,
           NEW t \in Temporaries \cup {Nothing},
           UNCHANGED <<kind, visible, disk, result, removing, replaced>>,
           source' \in [Publishers -> {"verified", "changed"}],
           pc[p] \notin Last,
           pc' = [pc EXCEPT ![p] = l],
           temp' = [temp EXCEPT ![p] = t],
           l \notin Last,
           l = "cleanUp" \/ Makes(p, l),
           t # Nothing => TempIsReady(p)'
    PROVE  IInv'
  <1> USE DEF IInv, Last, Deleting
  <1>1. TypeOK'
    BY DEF TypeOK
  <1>2. OwnCalls'
    BY DEF OwnCalls, TypeOK, Makes
  <1>3. Ready'
    BY DEF Ready, TypeOK, TempIsReady, Oddities
  <1>4. Owned'
    BY DEF Owned, TypeOK, Published, Destination
  <1>5. PrivateEntries' /\ VisibleIsWhole'
    BY DEF PrivateEntries, VisibleIsWhole, Removing, Destination
  <1>6. Answered' /\ Removals'
    BY DEF Answered, Removals, TypeOK
  <1>7. SuccessSurvives'
    BY DEF SuccessSurvives, Destination
  <1> QED BY <1>1, <1>2, <1>3, <1>4, <1>5, <1>6, <1>7

\* A refused or failing call leads to the clean-up.
LEMMA RefusalStep ==
    ASSUME IInv, NEW p \in Publishers,
           pc[p] \notin Last,
           Refuses(p, pc[p]),
           UNCHANGED <<kind, source, temp, visible, disk, result, removing, replaced>>
    PROVE  IInv'
  <1>1. temp' = [temp EXCEPT ![p] = temp[p]] /\ temp[p] \in Temporaries \cup {Nothing}
    BY DEF IInv, TypeOK
  <1>2. pc' = [pc EXCEPT ![p] = "cleanUp"]
    BY DEF Refuses, Goto
  <1>3. TempIsReady(p)'
    BY <1>2 DEF TempIsReady, IInv, TypeOK
  <1>4. source' \in [Publishers -> {"verified", "changed"}]
    BY DEF IInv, TypeOK
  <1> QED
    BY <1>1, <1>2, <1>3, <1>4, PrivateStep DEF Labels, Last, Deleting

\* What a call that succeeds may make of the temporary tree: t.
Suits(p, call, t) ==
    /\ call \in Labels \ ({"rename", "cleanUp"} \cup Last)
    /\ t \in Temporaries \cup {Nothing}
    /\ t # Nothing =>
          /\ call \in {"copy", "assemble", "write", "validate", "seal", "recheck"} =>
                 t.data = "whole"
          /\ call = "approve" /\ kind[p] = "goCache" => t.data = "whole"
          /\ call = "install" => t.data \in {"whole"} \cup Oddities(p)
          /\ call \in {"seal", "recheck"} => t.synced = "yes"

\* A call that succeeds and fills or syncs the temporary tree, or leaves it.
LEMMA CallStep ==
    ASSUME IInv, NEW p \in Publishers, NEW call, NEW t,
           Passes(p, call), Suits(p, call, t),
           temp' = [temp EXCEPT ![p] = t],
           UNCHANGED <<kind, source, visible, disk, result, removing, replaced>>
    PROVE  IInv'
  <1> DEFINE l == After(p, call)
  <1>1. kind[p] \in AllKinds /\ Makes(p, call)
    BY DEF IInv, TypeOK, OwnCalls, Passes, Suits, Labels, Last, Deleting
  <1>2. /\ Makes(p, l)
        /\ l \in Labels \ ({"begin", "cleanUp"} \cup Last)
        /\ l = "rename" => call \in {"seal", "recheck"}
        /\ l = "recheck" => call = "seal"
        /\ l = "validate" => call = "install"
        /\ l = "approve" => call = "assemble"
        /\ l = "seal" => \/ call \in {"copy", "validate", "assemble", "write"}
                         \/ call = "approve" /\ kind[p] = "goCache"
    BY <1>1, NextCall DEF Labels, Suits, Last, Deleting
  <1>3. pc' = [pc EXCEPT ![p] = l] /\ pc[p] = call
    BY DEF Passes
  <1> HIDE DEF l
  <1>4. pc'[p] = l /\ temp'[p] = t
    BY <1>3 DEF IInv, TypeOK
  <1>5. ASSUME t # Nothing PROVE TempIsReady(p)'
    BY <1>2, <1>4, <1>5 DEF TempIsReady, Oddities, Suits
  <1>6. source' \in [Publishers -> {"verified", "changed"}]
    BY DEF IInv, TypeOK
  <1>7. t \in Temporaries \cup {Nothing} /\ pc[p] \notin Last
    BY <1>3 DEF Suits
  <1> QED
    BY <1>2, <1>3, <1>5, <1>6, <1>7, PrivateStep DEF Labels

\* The calls before the rename, one by one.
LEMMA PrepareStep ==
    ASSUME IInv, NEW p \in Publishers,
           \/ Begin(p) \/ BeginRefused(p) \/ MakeTemporary(p) \/ CopyArtifacts(p)
           \/ PrepareProject(p) \/ PreparePyPIProject(p) \/ Assemble(p)
           \/ ApproveCache(p) \/ WriteRecords(p) \/ CopyRefused(p) \/ Install(p)
           \/ Validate(p) \/ ValidateRefused(p) \/ Seal(p) \/ Recheck(p)
           \/ RecheckRefused(p) \/ RenameRefused(p) \/ CallFails(p) \/ TemporaryGone(p)
    PROVE  IInv'
  <1>1. temp[p] \in Temporaries \cup {Nothing} /\ temp = [temp EXCEPT ![p] = temp[p]]
    BY DEF IInv, TypeOK
  <1>2. temp[p] # Nothing => TempIsReady(p)
    BY DEF IInv, Ready
  <1>3. ASSUME NEW call, Suits(p, call, temp[p]), Passes(p, call),
               UNCHANGED <<kind, source, temp, visible, disk, result, removing, replaced>>
        PROVE  IInv'
    <2>1. temp' = [temp EXCEPT ![p] = temp[p]]
      BY <1>1, <1>3
    <2> QED BY <1>3, <2>1, CallStep
  <1>4. ASSUME NEW call, NEW data \in Data, Passes(p, call), Fills(p, data),
               \A t \in Temporaries : t.data = data => Suits(p, call, t)
        PROVE  IInv'
    <2> DEFINE t == [temp[p] EXCEPT !.data = data]
    <2>1. t \in Temporaries /\ t.data = data /\ temp' = [temp EXCEPT ![p] = t]
      BY <1>1, <1>4 DEF Fills, Temporaries
    <2>2. UNCHANGED <<kind, source, visible, disk, result, removing, replaced>>
      BY <1>4 DEF Fills, Environment
    <2> HIDE DEF t
    <2>3. Suits(p, call, t)
      BY <1>4, <2>1
    <2> QED BY <1>4, <2>1, <2>2, <2>3, CallStep
  <1>5. CASE Begin(p)
    <2>1. Suits(p, "begin", temp[p])
      BY <1>1 DEF Suits, Labels, Last, Deleting
    <2> QED BY <1>3, <1>5, <2>1 DEF Begin, Environment
  <1>6. CASE MakeTemporary(p)
    <2> DEFINE t == [data |-> "part", synced |-> "no"]
    <2>1. t \in Temporaries
      BY DEF Temporaries, Data
    <2>2. /\ Passes(p, "makeTemporary") /\ temp' = [temp EXCEPT ![p] = t]
          /\ UNCHANGED <<kind, source, visible, disk, result, removing, replaced>>
      BY <1>6 DEF MakeTemporary, Environment
    <2> HIDE DEF t
    <2>3. Suits(p, "makeTemporary", t)
      BY <2>1 DEF Suits, Labels, Last, Deleting
    <2> QED BY <2>2, <2>3, CallStep
  <1>7. CASE CopyArtifacts(p)
    <2>1. \A t \in Temporaries : t.data = "whole" => Suits(p, "copy", t)
      BY DEF Suits, Labels, Last, Deleting
    <2>2. Passes(p, "copy") /\ Fills(p, "whole") /\ "whole" \in Data
      BY <1>7 DEF CopyArtifacts, Data
    <2> QED BY <1>4, <2>1, <2>2
  <1>8. CASE PrepareProject(p) \/ PreparePyPIProject(p)
    <2>1. \A t \in Temporaries : t.data = "inputs" => Suits(p, "prepare", t)
      BY DEF Suits, Labels, Last, Deleting
    <2>2. Passes(p, "prepare") /\ Fills(p, "inputs") /\ "inputs" \in Data
      BY <1>8 DEF PrepareProject, PreparePyPIProject, Data
    <2> QED BY <1>4, <2>1, <2>2
  <1>9. CASE Assemble(p)
    <2>1. \A t \in Temporaries : t.data = "whole" => Suits(p, "assemble", t)
      BY DEF Suits, Labels, Last, Deleting
    <2>2. Passes(p, "assemble") /\ Fills(p, "whole") /\ "whole" \in Data
      BY <1>9 DEF Assemble, Data
    <2> QED BY <1>4, <2>1, <2>2
  <1>10. CASE WriteRecords(p)
    <2>1. \A t \in Temporaries : t.data = "whole" => Suits(p, "write", t)
      BY DEF Suits, Labels, Last, Deleting
    <2>2. Passes(p, "write") /\ Fills(p, "whole") /\ "whole" \in Data
      BY <1>10 DEF WriteRecords, Data
    <2> QED BY <1>4, <2>1, <2>2
  <1>11. CASE Install(p)
    <2>1. PICK data \in {"whole"} \cup Oddities(p) : Fills(p, data)
      BY <1>11 DEF Install
    <2>2. data \in Data
      BY DEF Oddities, Data
    <2>3. \A t \in Temporaries : t.data = data => Suits(p, "install", t)
      BY DEF Suits, Labels, Last, Deleting
    <2>4. Passes(p, "install")
      BY <1>11 DEF Install
    <2> QED BY <1>4, <2>1, <2>2, <2>3, <2>4
  <1>12. CASE ApproveCache(p)
    <2>1. pc[p] = "approve"
      BY <1>12 DEF ApproveCache, Passes
    <2>2. Suits(p, "approve", temp[p])
      BY <1>1, <1>2, <2>1 DEF Suits, Labels, Last, Deleting, TempIsReady
    <2> QED BY <1>3, <1>12, <2>2 DEF ApproveCache, Environment
  <1>13. CASE Validate(p)
    <2>1. temp[p] # Nothing /\ pc[p] = "validate" /\ ValidOutput(kind[p], temp[p].data)
      BY <1>13 DEF Validate, Passes
    <2>2. temp[p].data \in {"whole"} \cup Oddities(p)
      BY <1>2, <2>1 DEF TempIsReady
    <2>3. temp[p].data = "whole"
      BY <2>1, <2>2
         DEF ValidOutput, Oddities, ValidNPMOutput, ArtifactsKept, NoLinks,
             ExpectedDistributions, NamedDistributions, AsRecorded, WithinScheme,
             NothingUnrecorded
    <2>4. Suits(p, "validate", temp[p])
      BY <1>1, <2>3 DEF Suits, Labels, Last, Deleting
    <2> QED BY <1>3, <1>13, <2>4 DEF Validate, Environment
  <1>14. CASE Seal(p)
    <2>1. temp[p].data = "whole" /\ temp[p] \in Temporaries
      BY <1>1, <1>2, <1>14 DEF Seal, Passes, TempIsReady
    <2>2. /\ SyncTree(temp[p]) \in Temporaries
          /\ SyncTree(temp[p]).data = "whole" /\ SyncTree(temp[p]).synced = "yes"
      BY <2>1 DEF SyncTree, Temporaries
    <2>3. Suits(p, "seal", SyncTree(temp[p]))
      BY <2>2 DEF Suits, Labels, Last, Deleting
    <2> QED BY <1>14, <2>3, CallStep DEF Seal, Environment
  <1>15. CASE Recheck(p)
    <2>1. pc[p] = "recheck"
      BY <1>15 DEF Recheck, Passes
    <2>2. Suits(p, "recheck", temp[p])
      BY <1>1, <1>2, <2>1 DEF Suits, Labels, Last, Deleting, TempIsReady
    <2> QED BY <1>3, <1>15, <2>2 DEF Recheck, Environment
  <1>16. CASE BeginRefused(p) \/ CopyRefused(p) \/ ValidateRefused(p)
    BY <1>16, RefusalStep
       DEF BeginRefused, CopyRefused, ValidateRefused, Refuses, Goto, Environment, Last, Deleting
  <1>17. CASE RecheckRefused(p) \/ RenameRefused(p) \/ CallFails(p) \/ TemporaryGone(p)
    BY <1>17, RefusalStep
       DEF RecheckRefused, RenameRefused, CallFails, TemporaryGone, Refuses, Goto, Environment, Last, Deleting
  <1> QED
    BY <1>5, <1>6, <1>7, <1>8, <1>9, <1>10, <1>11, <1>12, <1>13, <1>14, <1>15, <1>16, <1>17

-----------------------------------------------------------------------------
(* Steps that change a destination                                         *)

\* What a step on a destination leaves of the destinations themselves.
LEMMA SameDestinations ==
    ASSUME kind' = kind
    PROVE  \A q \in Publishers :
               Destination(q) \in Destinations /\ Destination(q)' = Destination(q)
  BY DestinationOf DEF Destination

\* Of two publishers at one destination only one has its tree there; the other
\* one lost it to somebody else, or has not put it there.
LEMMA NoTwoOwners ==
    ASSUME IInv, NEW p \in Publishers, NEW q \in Publishers, p # q,
           Published(q) \/ visible[Destination(q)] = Nothing,
           Destination(p) = Destination(q), Destination(p) \notin replaced
    PROVE  pc[p] \notin {"syncParent", "takeBack"} /\ result[p] # "published"
  BY TreeType DEF IInv, Owned, SuccessSurvives, Published, Data

LEMMA RenameStep ==
    ASSUME IInv, NEW p \in Publishers, Rename(p)
    PROVE  IInv'
  <1> DEFINE d == Destination(p)
             T == Tree(p, "whole")
  <1>1. pc[p] = "rename" /\ temp[p] # Nothing /\ visible[d] = Nothing
    BY DEF Rename, Passes
  <1>2. temp[p].data = "whole" /\ temp[p].synced = "yes"
    BY <1>1 DEF IInv, Ready, TempIsReady
  <1>3. After(p, "rename") = "syncParent" /\ Makes(p, "syncParent")
    <2>1. kind[p] \in AllKinds /\ Makes(p, "rename")
      BY <1>1 DEF IInv, TypeOK, OwnCalls, Deleting
    <2> QED BY <2>1, NextCall
  <1>4. /\ pc' = [pc EXCEPT ![p] = "syncParent"]
        /\ temp' = [temp EXCEPT ![p] = Nothing]
        /\ visible' = [visible EXCEPT ![d] = T]
        /\ disk' \in {disk, [disk EXCEPT ![d] = T]}
        /\ UNCHANGED <<kind, source, result, removing, replaced>>
    BY <1>2, <1>3 DEF Rename, Passes, Environment
  <1>5. T \in Trees /\ T # Nothing /\ T.by = p /\ T.data = "whole"
    BY TreeType DEF Data
  <1>6. d \in Destinations /\ (d \in Publishers => d = p)
    BY DestinationOf
  <1>7. \A q \in Publishers : Destination(q) \in Destinations /\ Destination(q)' = Destination(q)
    BY <1>4, SameDestinations
  <1>8. \A q \in Publishers : Destination(q) = d /\ d \notin replaced =>
            pc[q] \notin {"syncParent", "takeBack"} /\ result[q] # "published"
    BY <1>1, <1>5, TreeType DEF IInv, Owned, SuccessSurvives, Published, Data
  <1>9. p \notin removing
    BY <1>1 DEF IInv, Removals, Deleting
  <1>10. T = Tree(p, "whole") /\ Destination(p) = d
    OBVIOUS
  <1> HIDE DEF d, T
  <1> USE DEF IInv
  <1>11. TypeOK'
    BY <1>4, <1>5, <1>6 DEF TypeOK, Labels
  <1>12. OwnCalls'
    BY <1>3, <1>4 DEF OwnCalls, TypeOK, Makes
  <1>13. Ready'
    BY <1>4 DEF Ready, TypeOK, TempIsReady, Oddities
  <1>14. Owned'
    <2> SUFFICES ASSUME NEW q \in Publishers
                 PROVE  /\ pc'[q] \in {"syncParent", "takeBack"} =>
                               /\ temp'[q] = Nothing
                               /\ Published(q)' \/ Destination(q) \in replaced
                        /\ pc'[q] = "syncParent" =>
                               \/ visible'[Destination(q)] = Tree(q, "whole")
                               \/ Destination(q) \in replaced
                        /\ pc'[q] = "takeBack" /\ q \in removing /\ Published(q)' =>
                               visible'[Destination(q)].data = "remnant"
                        /\ pc'[q] \notin Last => ~Published(q)'
      BY <1>4, <1>7 DEF Owned
    <2>1. CASE q = p
      BY <1>4, <1>5, <1>6, <1>7, <1>10, <2>1 DEF TypeOK, Published, Last
    <2>2. CASE q # p
      BY <1>4, <1>5, <1>6, <1>7, <1>8, <2>2 DEF TypeOK, Owned, Published
    <2> QED BY <2>1, <2>2
  <1>15. PrivateEntries'
    BY <1>4, <1>5, <1>6 DEF PrivateEntries, TypeOK, Destinations
  <1>16. VisibleIsWhole'
    BY <1>4, <1>5, <1>7 DEF VisibleIsWhole, Removing, TypeOK
  <1>17. Answered' /\ Removals'
    BY <1>1, <1>4, <1>9 DEF Answered, Removals, TypeOK, Deleting
  <1>18. SuccessSurvives'
    BY <1>4, <1>7, <1>8 DEF SuccessSurvives, TypeOK
  <1> QED
    BY <1>11, <1>12, <1>13, <1>14, <1>15, <1>16, <1>17, <1>18

\* A sync of the directory above a destination brings to the disk what is
\* there, and is the last call: of a publication, or of a deletion.
LEMMA SyncStep ==
    ASSUME IInv, NEW p \in Publishers, SyncParent(p) \/ SyncRoot(p)
    PROVE  IInv'
  <1> DEFINE d == Destination(p)
  <1>1. /\ pc[p] \in {"syncParent", "syncRoot"}
        /\ pc' = [pc EXCEPT ![p] = "done"]
        /\ disk' = [disk EXCEPT ![d] = visible[d]]
        /\ result' = [result EXCEPT ![p] = IF pc[p] = "syncParent" THEN "published" ELSE "deleted"]
        /\ UNCHANGED <<kind, source, temp, visible, removing, replaced>>
    BY DEF SyncParent, SyncRoot, Goto, Answers, Environment
  <1>2. d \in Destinations /\ (d \in Publishers => d = p)
    BY DestinationOf
  <1>3. \A q \in Publishers : Destination(q) \in Destinations /\ Destination(q)' = Destination(q)
    BY <1>1, SameDestinations
  <1>4. \A q \in Publishers : q # p /\ Destination(q) = d /\ result[q] = "published" =>
            d \in replaced
    <2>1. CASE pc[p] = "syncParent"
      BY <2>1, NoTwoOwners DEF IInv, Owned
    <2>2. CASE pc[p] = "syncRoot"
      BY <2>2, DestinationOf DEF IInv, Answered, Deleting
    <2> QED BY <1>1, <2>1, <2>2
  <1>5. pc[p] = "syncParent" => visible[d] = Tree(p, "whole") \/ d \in replaced
    BY DEF IInv, Owned
  <1>6. pc[p] = "syncParent" => p \notin removing
    BY DEF IInv, Removals, Deleting
  <1>7. Destination(p) = d
    OBVIOUS
  <1> HIDE DEF d
  <1> USE DEF IInv
  <1>8. TypeOK'
    BY <1>1, <1>2 DEF TypeOK, Labels, Results
  <1>9. OwnCalls' /\ Ready'
    BY <1>1 DEF OwnCalls, TypeOK, Makes, Ready, TempIsReady, Oddities
  <1>10. Owned'
    BY <1>1, <1>3 DEF Owned, TypeOK, Published, Last
  <1>11. PrivateEntries'
    BY <1>1, <1>2 DEF PrivateEntries, TypeOK, Destinations
  <1>12. Removals'
    BY <1>1, <1>6 DEF Removals, TypeOK
  <1>13. \A e \in Destinations : Removing(e) => Removing(e)'
    BY <1>1, <1>3, <1>12 DEF Removing, Removals, TypeOK
  <1>14. VisibleIsWhole'
    BY <1>1, <1>2, <1>13 DEF VisibleIsWhole, TypeOK
  <1>15. Answered'
    BY <1>1 DEF Answered, TypeOK, Deleting
  <1>16. SuccessSurvives'
    BY <1>1, <1>2, <1>3, <1>4, <1>5, <1>7 DEF SuccessSurvives, TypeOK
  <1> QED
    BY <1>8, <1>9, <1>10, <1>11, <1>12, <1>14, <1>15, <1>16

\* What a removal may make of a destination: entries gone, or all of it.
Remains(d, t) ==
    \/ t = Nothing
    \/ visible[d] # Nothing /\ t = Tree(visible[d].by, "remnant")

\* A step of a removal, of a tree taken back or of a run deleted.
LEMMA RemovalStep ==
    ASSUME IInv, NEW p \in Publishers, NEW t, NEW l \in Labels, NEW r \in Results,
           pc[p] \in {"takeBack", "delete"},
           Remains(Destination(p), t), Puts(Destination(p), t),
           \/ /\ l = pc[p] /\ r = result[p]
              /\ t # Nothing /\ removing' = removing \cup {p}
           \/ l = "done" /\ r = "failed" /\ t = Nothing /\ removing' = removing
           \/ /\ pc[p] = "delete" /\ l = "syncRoot" /\ r = result[p]
              /\ t = Nothing /\ removing' = removing,
           pc' = [pc EXCEPT ![p] = l],
           result' = [result EXCEPT ![p] = r],
           UNCHANGED <<kind, source, temp, replaced>>
    PROVE  IInv'
  <1> DEFINE d == Destination(p)
  <1>1. /\ d \in Destinations /\ (d \in Publishers => d = p)
        /\ pc[p] = "delete" => d = p
    BY DestinationOf DEF IInv, Answered, Deleting
  <1>2. \A q \in Publishers : Destination(q) \in Destinations /\ Destination(q)' = Destination(q)
    BY SameDestinations
  <1>3. result[p] \in {"none", "deleting"} /\ r # "published"
    BY DEF IInv, Answered, Deleting
  <1>4. \A q \in Publishers : q # p /\ Destination(q) = d /\ d \notin replaced =>
            pc[q] \notin {"syncParent", "takeBack"} /\ result[q] # "published"
    <2>1. CASE pc[p] = "takeBack"
      BY <2>1, NoTwoOwners DEF IInv, Owned
    <2>2. CASE pc[p] = "delete"
      BY <1>1, <2>2, DestinationOf
    <2> QED BY <2>1, <2>2
  <1>5. /\ visible' = [visible EXCEPT ![d] = t] /\ disk' \in {disk, [disk EXCEPT ![d] = t]}
        /\ t \in Trees \cup {Nothing}
        /\ t # Nothing => visible[d] # Nothing /\ t.by = visible[d].by /\ t.data = "remnant"
    <2>1. visible[d] # Nothing => visible[d].by \in Publishers \cup {User}
      BY <1>1 DEF IInv, TypeOK, Trees
    <2> QED BY <2>1, TreeType DEF Puts, Remains, Data
  <1>6. t # Nothing => p \in removing' /\ pc'[p] = pc[p]
    BY <1>5 DEF Remains, IInv, TypeOK
  <1>7. Destination(p) = d
    OBVIOUS
  <1> HIDE DEF d
  <1> USE DEF IInv
  <1>8. TypeOK'
    BY <1>1, <1>5 DEF TypeOK
  <1>9. OwnCalls' /\ Ready'
    BY DEF OwnCalls, TypeOK, Makes, Ready, TempIsReady, Oddities, Deleting
  <1>10. Owned'
    <2> SUFFICES ASSUME NEW q \in Publishers
                 PROVE  /\ pc'[q] \in {"syncParent", "takeBack"} =>
                               /\ temp'[q] = Nothing
                               /\ Published(q)' \/ Destination(q) \in replaced
                        /\ pc'[q] = "syncParent" =>
                               \/ visible'[Destination(q)] = Tree(q, "whole")
                               \/ Destination(q) \in replaced
                        /\ pc'[q] = "takeBack" /\ q \in removing' /\ Published(q)' =>
                               visible'[Destination(q)].data = "remnant"
                        /\ pc'[q] \notin Last => ~Published(q)'
      BY <1>2 DEF Owned
    <2>1. CASE q = p
      <3>1. pc'[p] = l /\ temp'[p] = temp[p] /\ visible'[d] = t
        BY <1>1, <1>5 DEF TypeOK
      <3>2. l \in {"takeBack", "done"} \cup Deleting /\ (l = "takeBack" => pc[p] = "takeBack" /\ t # Nothing)
        BY DEF Deleting
      <3>3. Published(p)' => t # Nothing /\ t.data = "remnant"
        BY <1>2, <1>5, <1>7, <3>1 DEF Published
      <3> QED BY <1>2, <1>5, <1>7, <2>1, <3>1, <3>2, <3>3 DEF Owned, Published, Last, Deleting
    <2>2. CASE q # p
      <3>1. pc'[q] = pc[q] /\ temp'[q] = temp[q] /\ (q \in removing' => q \in removing)
        BY <2>2 DEF TypeOK
      <3>2. CASE Destination(q) = d
        BY <1>1, <1>2, <1>4, <1>5, <2>2, <3>1, <3>2 DEF TypeOK, Owned, Published
      <3>3. CASE Destination(q) # d
        BY <1>1, <1>2, <1>5, <2>2, <3>1, <3>3 DEF TypeOK, Owned, Published
      <3> QED BY <3>2, <3>3
    <2> QED BY <2>1, <2>2
  <1>11. PrivateEntries'
    BY <1>1, <1>5 DEF PrivateEntries, TypeOK, Destinations
  <1>12. Removals'
    BY <1>3 DEF Removals, TypeOK, Deleting
  <1>13. \A e \in Destinations : Removing(e) => Removing(e)'
    BY <1>2, <1>12 DEF Removing, Removals, TypeOK
  <1>14. \A e \in Destinations : e = d /\ t # Nothing => Removing(e)'
    BY <1>2, <1>6, <1>7, <1>12 DEF Removing, Removals
  <1>15. VisibleIsWhole'
    BY <1>1, <1>5, <1>13, <1>14 DEF VisibleIsWhole, TypeOK
  <1>16. Answered'
    BY <1>3 DEF Answered, TypeOK, Deleting
  <1>17. SuccessSurvives'
    BY <1>1, <1>2, <1>3, <1>4, <1>5 DEF SuccessSurvives, TypeOK
  <1> QED
    BY <1>8, <1>9, <1>10, <1>11, <1>12, <1>15, <1>16, <1>17

\* A publisher goes on to a last call or ends, without a change of a
\* destination.
LEMMA EndStep ==
    ASSUME IInv, NEW p \in Publishers, NEW t \in {temp[p], Nothing},
           NEW l \in {"takeBack", "delete", "done"}, NEW r \in Results \ {"published"},
           \/ l = "done" /\ pc[p] # "done"
           \/ l = "takeBack" /\ pc[p] = "syncParent" /\ Makes(p, "takeBack") /\ r = result[p]
           \/ l = "delete" /\ pc[p] = "done" /\ kind[p] = "evidence" /\ r = "deleting",
           pc' = [pc EXCEPT ![p] = l],
           temp' = [temp EXCEPT ![p] = t],
           result' = [result EXCEPT ![p] = r],
           UNCHANGED <<kind, source, visible, disk, removing, replaced>>
    PROVE  IInv'
  <1> USE DEF IInv
  <1>1. \A q \in Publishers : Destination(q)' = Destination(q)
    BY SameDestinations
  <1>2. TypeOK'
    BY DEF TypeOK, Labels
  <1>3. OwnCalls'
    BY DEF OwnCalls, TypeOK, Makes, Deleting
  <1>4. Ready'
    BY DEF Ready, TypeOK, TempIsReady, Oddities
  <1>5. Removals'
    BY DEF Removals, TypeOK, Deleting
  <1>6. Owned'
    <2>1. pc[p] = "syncParent" => p \notin removing
      BY DEF Removals, Deleting
    <2>2. l = "takeBack" => Published(p) \/ Destination(p) \in replaced
      BY DEF Owned
    <2>3. \A q \in Publishers : Published(q)' <=> Published(q)
      BY <1>1 DEF Published
    <2> QED BY <1>1, <2>1, <2>2, <2>3 DEF Owned, TypeOK, Last, Deleting
  <1>7. PrivateEntries'
    BY DEF PrivateEntries
  <1>8. VisibleIsWhole'
    BY <1>1, <1>5 DEF VisibleIsWhole, Removing, Removals, TypeOK
  <1>9. Answered' /\ SuccessSurvives'
    BY <1>1 DEF Answered, SuccessSurvives, TypeOK, Deleting
  <1> QED
    BY <1>2, <1>3, <1>4, <1>5, <1>6, <1>7, <1>8, <1>9

\* Somebody else puts a tree at a destination or takes one away.
LEMMA IntrusionStep ==
    ASSUME IInv, NEW d \in Destinations, NEW T \in {Nothing, Tree(User, "whole")},
           Puts(d, T), d \in Publishers => visible[d] # Nothing,
           replaced' = replaced \cup TakenAway(d),
           \A q \in Publishers : temp'[q] \in {temp[q], Nothing},
           temp' \in [Publishers -> Temporaries \cup {Nothing}],
           UNCHANGED <<kind, source, pc, result, removing>>
    PROVE  IInv'
  <1>1. /\ T \in Trees \cup {Nothing}
        /\ T # Nothing => T.by = User /\ T.data = "whole"
    BY TreeType DEF Data
  <1>2. visible' = [visible EXCEPT ![d] = T] /\ disk' \in {disk, [disk EXCEPT ![d] = T]}
    BY DEF Puts
  <1>3. \A q \in Publishers : Destination(q) \in Destinations /\ Destination(q)' = Destination(q)
    BY SameDestinations
  <1>4. replaced \subseteq replaced' /\ replaced' \subseteq Destinations
    BY DEF TakenAway, IInv, TypeOK
  <1>5. visible[d] # Nothing /\ visible[d].by \in Publishers => d \in replaced'
    BY NamesAssumption DEF TakenAway
  <1>6. \A q \in Publishers : Published(q) /\ Destination(q) = d => d \in replaced'
    BY <1>5 DEF Published
  <1> USE DEF IInv
  <1>7. TypeOK' /\ Answered' /\ Removals'
    BY <1>1, <1>2, <1>4 DEF TypeOK, Answered, Removals
  <1>8. OwnCalls' /\ Ready'
    BY DEF OwnCalls, Makes, Ready, TempIsReady, Oddities
  <1>9. Owned'
    <2> SUFFICES ASSUME NEW q \in Publishers
                 PROVE  /\ pc[q] \in {"syncParent", "takeBack"} =>
                               /\ temp'[q] = Nothing
                               /\ Published(q)' \/ Destination(q) \in replaced'
                        /\ pc[q] = "syncParent" =>
                               \/ visible'[Destination(q)] = Tree(q, "whole")
                               \/ Destination(q) \in replaced'
                        /\ pc[q] = "takeBack" /\ q \in removing /\ Published(q)' =>
                               visible'[Destination(q)].data = "remnant"
                        /\ pc[q] \notin Last => ~Published(q)'
      BY <1>3 DEF Owned
    <2>1. CASE Destination(q) = d
      <3>1. ~Published(q)'
        BY <1>1, <1>2, <1>3, <2>1, NamesAssumption DEF Published, TypeOK
      <3> QED BY <1>4, <1>6, <2>1, <3>1 DEF Owned
    <2>2. CASE Destination(q) # d
      BY <1>2, <1>3, <1>4, <2>2 DEF Owned, TypeOK, Published
    <2> QED BY <2>1, <2>2
  <1>10. PrivateEntries'
    <2>1. d \in Publishers => d \in replaced'
      BY <1>4, <1>5 DEF PrivateEntries
    <2> QED BY <1>1, <1>2, <1>4, <2>1 DEF PrivateEntries, TypeOK, Destinations
  <1>11. VisibleIsWhole'
    BY <1>1, <1>2, <1>3 DEF VisibleIsWhole, Removing, TypeOK
  <1>12. SuccessSurvives'
    <2>1. \A q \in Publishers : result[q] = "published" /\ Destination(q) = d => d \in replaced'
      BY <1>4, <1>5, TreeType DEF SuccessSurvives, Data
    <2> QED BY <1>2, <1>3, <1>4, <2>1 DEF SuccessSurvives, TypeOK
  <1> QED
    BY <1>7, <1>8, <1>9, <1>10, <1>11, <1>12

-----------------------------------------------------------------------------
(* The invariant                                                           *)

LEMMA PublishStep ==
    ASSUME IInv, NEW p \in Publishers, Publish(p)
    PROVE  IInv'
  <1>1. /\ temp = [temp EXCEPT ![p] = temp[p]] /\ result = [result EXCEPT ![p] = result[p]]
        /\ pc = [pc EXCEPT ![p] = pc[p]]
        /\ pc[p] \in Labels
    BY DEF IInv, TypeOK
  <1>2. result[p] \in Results /\ (pc[p] # "done" => result[p] # "published")
    BY DEF IInv, TypeOK, Answered, Deleting
  <1>3. CASE SyncFails(p)
    <2>1. CASE Makes(p, "takeBack")
      BY <1>1, <1>2, <1>3, <2>1, EndStep DEF SyncFails, Goto, Environment
    <2>2. CASE ~Makes(p, "takeBack")
      BY <1>1, <1>3, <2>2, EndStep DEF SyncFails, Goto, Answers, Environment, Results
    <2> QED BY <2>1, <2>2
  <1>4. CASE Unlink(p)
    <2> DEFINE t == Tree(visible[Destination(p)].by, "remnant")
    <2>1. t # Nothing
      <3>1. visible[Destination(p)] \in Trees
        BY <1>4, DestinationOf DEF Unlink, IInv, TypeOK
      <3> QED BY <3>1, TreeType DEF Trees, Data
    <2>2. /\ Remains(Destination(p), t) /\ Puts(Destination(p), t)
          /\ pc[p] \in {"takeBack", "delete"} /\ removing' = removing \cup {p}
          /\ UNCHANGED <<pc, result, kind, source, temp, replaced>>
      BY <1>4 DEF Unlink, Remains, Environment
    <2> HIDE DEF t
    <2> QED BY <1>1, <1>2, <2>1, <2>2, RemovalStep
  <1>5. CASE TakeBack(p)
    <2>1. Remains(Destination(p), Nothing)
      BY DEF Remains
    <2> QED
      BY <1>5, <2>1, RemovalStep DEF TakeBack, Goto, Answers, Environment, Results, Labels
  <1>6. CASE RemoveRun(p)
    <2>1. Remains(Destination(p), Nothing)
      BY DEF Remains
    <2> QED
      BY <1>1, <1>2, <1>6, <2>1, RemovalStep DEF RemoveRun, Goto, Environment, Labels
  <1>7. CASE TakeBackMissed(p) \/ TakeBackFails(p) \/ CleanUpFails(p) \/ DeleteFails(p)
    <2>1. PICK r \in {"failed", "uncertain"} : Answers(p, r)
      BY <1>7 DEF TakeBackMissed, TakeBackFails, CleanUpFails, DeleteFails
    <2>2. /\ pc[p] # "done" /\ pc' = [pc EXCEPT ![p] = "done"]
          /\ UNCHANGED <<kind, source, temp, visible, disk, removing, replaced>>
      BY <1>7 DEF TakeBackMissed, TakeBackFails, CleanUpFails, DeleteFails, Goto, Environment
    <2> QED BY <1>1, <2>1, <2>2, EndStep DEF Answers, Results
  <1>8. CASE CleanUp(p)
    BY <1>8, EndStep DEF CleanUp, Goto, Answers, Environment, Results
  <1>9. CASE DeleteRun(p)
    BY <1>1, <1>9, EndStep DEF DeleteRun, Goto, Answers, Environment, Results
  <1> QED
    BY <1>3, <1>4, <1>5, <1>6, <1>7, <1>8, <1>9, PrepareStep, RenameStep, SyncStep DEF Publish

\* The user, a kill, a power loss.
LEMMA EnvironmentStep ==
    ASSUME IInv,
           \/ \E p \in Publishers : ChangeSource(p) \/ Kill(p)
           \/ \E d \in Destinations : CreateTarget(d)
           \/ ReplaceParent \/ PowerLoss
    PROVE  IInv'
  <1>1. ASSUME NEW p \in Publishers, ChangeSource(p) PROVE IInv'
    BY <1>1
       DEF ChangeSource, IInv, TypeOK, OwnCalls, Makes, Ready, TempIsReady, Oddities, Owned,
           Published, Destination, PrivateEntries, Answered, Removals, VisibleIsWhole,
           Removing, SuccessSurvives
  <1>2. ASSUME NEW p \in Publishers, Kill(p) PROVE IInv'
    <2>1. temp = [temp EXCEPT ![p] = temp[p]]
      BY DEF IInv, TypeOK
    <2> QED BY <1>2, <2>1, EndStep DEF Kill, Answers, Results
  <1>3. ASSUME NEW d \in Destinations, CreateTarget(d) PROVE IInv'
    <2>1. PICK T \in {Nothing, Tree(User, "whole")} : Puts(d, T)
      BY <1>3 DEF CreateTarget
    <2>2. temp' = temp /\ temp \in [Publishers -> Temporaries \cup {Nothing}]
      BY <1>3 DEF CreateTarget, IInv, TypeOK
    <2> QED BY <1>3, <2>1, <2>2, IntrusionStep DEF CreateTarget
  <1>4. CASE ReplaceParent
    <2>1. /\ \A q \in Publishers : temp'[q] \in {temp[q], Nothing}
          /\ temp' \in [Publishers -> Temporaries \cup {Nothing}]
      BY <1>4 DEF ReplaceParent, IInv, TypeOK
    <2>2. Target \in Destinations /\ Target \notin Publishers
      BY NamesAssumption DEF Destinations
    <2> QED BY <1>4, <2>1, <2>2, IntrusionStep DEF ReplaceParent
  <1>5. CASE PowerLoss
    <2> USE DEF IInv
    <2>1. /\ visible' = disk /\ disk' = disk
          /\ pc' = [q \in Publishers |-> "done"]
          /\ result' \in [Publishers -> Results]
          /\ \A q \in Publishers : result'[q] \in {result[q], "killed"}
          /\ UNCHANGED <<kind, source, temp, removing, replaced>>
      BY <1>5 DEF PowerLoss, TypeOK, Results
    <2>2. \A q \in Publishers : Destination(q)' = Destination(q)
      BY <2>1, SameDestinations
    <2>3. TypeOK' /\ OwnCalls' /\ Ready' /\ Answered' /\ Removals'
      BY <2>1 DEF TypeOK, Labels, OwnCalls, Ready, TempIsReady, Answered, Removals, Deleting
    <2>4. Owned' /\ PrivateEntries'
      BY <2>1 DEF Owned, PrivateEntries, Last
    <2>5. \A e \in Destinations : Removing(e) => Removing(e)'
      BY <2>1, <2>2, <2>3 DEF Removing, Removals, TypeOK
    <2>6. VisibleIsWhole'
      BY <2>1, <2>5 DEF VisibleIsWhole
    <2>7. SuccessSurvives'
      BY <2>1, <2>2 DEF SuccessSurvives
    <2> QED BY <2>3, <2>4, <2>6, <2>7
  <1> QED
    BY <1>1, <1>2, <1>3, <1>4, <1>5

LEMMA InvInit == Init => IInv
  <1> SUFFICES ASSUME Init PROVE IInv
    OBVIOUS
  <1> USE DEF Init
  <1>1. \A k \in AllKinds : \E i \in DOMAIN Calls[k] :
            /\ Calls[k][i] = Head(Calls[k])
            /\ Head(Calls[k]) \in {"begin", "makeTemporary", "approve"}
    <2> SUFFICES ASSUME NEW k \in AllKinds
                 PROVE  /\ 1 \in DOMAIN Calls[k] /\ Calls[k][1] = Head(Calls[k])
                        /\ Head(Calls[k]) \in {"begin", "makeTemporary", "approve"}
      OBVIOUS
    <2>1. CASE k = "staging"
      <3>1. Calls[k] = LocalStaging
        BY <2>1 DEF Calls, AllKinds
      <3> QED BY <3>1 DEF LocalStaging
    <2>2. CASE k = "npm"
      <3>1. Calls[k] = NPMPromotion
        BY <2>2 DEF Calls, AllKinds
      <3> QED BY <3>1 DEF NPMPromotion
    <2>3. CASE k = "pypi"
      <3>1. Calls[k] = PyPIPromotion
        BY <2>3 DEF Calls, AllKinds
      <3> QED BY <3>1 DEF PyPIPromotion
    <2>4. CASE k = "github"
      <3>1. Calls[k] = GitHubReleasePromotion
        BY <2>4 DEF Calls, AllKinds
      <3> QED BY <3>1 DEF GitHubReleasePromotion
    <2>5. CASE k = "goCache"
      <3>1. Calls[k] = GoVerifiedCache
        BY <2>5 DEF Calls, AllKinds
      <3> QED BY <3>1 DEF GoVerifiedCache
    <2>6. CASE k = "cargoCache"
      <3>1. Calls[k] = CargoVerifiedCache
        BY <2>6 DEF Calls, AllKinds
      <3> QED BY <3>1 DEF CargoVerifiedCache
    <2>7. CASE k = "terraformCache"
      <3>1. Calls[k] = TerraformVerifiedCache
        BY <2>7 DEF Calls, AllKinds
      <3> QED BY <3>1 DEF TerraformVerifiedCache
    <2>8. CASE k = "evidence"
      <3>1. Calls[k] = EvidenceStore
        BY <2>8 DEF Calls, AllKinds
      <3> QED BY <3>1 DEF EvidenceStore
    <2> QED BY <2>1, <2>2, <2>3, <2>4, <2>5, <2>6, <2>7, <2>8 DEF AllKinds
  <1>2. kind \in [Publishers -> AllKinds]
    BY KindsAssumption
  <1>3. TypeOK /\ Removals
    BY <1>1, <1>2 DEF TypeOK, Labels, Results, Removals
  <1>4. OwnCalls
    BY <1>1, <1>2 DEF OwnCalls, Makes
  <1>5. Ready /\ Answered /\ SuccessSurvives
    BY <1>1, <1>2 DEF Ready, Answered, SuccessSurvives, Deleting
  <1>6. Owned
    BY <1>1, <1>2, DestinationOf DEF Owned, Published
  <1>7. PrivateEntries /\ VisibleIsWhole
    BY DEF PrivateEntries, VisibleIsWhole, Destinations
  <1> QED
    BY <1>3, <1>4, <1>5, <1>6, <1>7 DEF IInv

LEMMA InvStep == IInv /\ [Next]_vars => IInv'
  <1> SUFFICES ASSUME IInv, [Next]_vars PROVE IInv'
    OBVIOUS
  <1>1. CASE Next
    BY <1>1, PublishStep, EnvironmentStep DEF Next
  <1>2. CASE UNCHANGED vars
    BY <1>2
       DEF vars, IInv, TypeOK, OwnCalls, Makes, Ready, TempIsReady, Oddities, Owned,
           Published, Destination, PrivateEntries, Answered, Removals, VisibleIsWhole,
           Removing, SuccessSurvives
  <1> QED BY <1>1, <1>2

\* The invariant holds in every behaviour of the specification.
LEMMA Invariant == Spec => []IInv
  BY InvInit, InvStep, PTL DEF Spec

-----------------------------------------------------------------------------
(* The theorems                                                            *)

\* Whatever is killed, refused or lost, every tree under a published name, as
\* processes see it and as a power loss leaves it, is a whole verified one, or
\* what a take-back or a deletion has left so far (syncTree before
\* renameNoReplace, the checks of every publisher, os.RemoveAll of the path).
THEOREM PublishedIsWhole == Spec => []VisibleIsWhole
  <1>1. IInv => VisibleIsWhole
    BY DEF IInv
  <1> QED BY <1>1, Invariant, PTL

\* A publisher that told its caller of success has its tree on disk and
\* visible from then on, until somebody else takes it away or deletes the run
\* (the sync of the parent before the answer).
THEOREM SuccessIsDurable == Spec => []SuccessSurvives
  <1>1. IInv => SuccessSurvives
    BY DEF IInv
  <1> QED BY <1>1, Invariant, PTL

\* No step of a publisher replaces a tree of the user or of another publisher
\* (renameat2 with RENAME_NOREPLACE), and none removes one but a take-back or
\* a deletion by path where somebody took a published tree away (os.RemoveAll
\* of the destination has no identity check).
THEOREM ForeignTreesAreKept == Spec => ForeignTreeKept
  <1>1. ASSUME IInv, NEW p \in Publishers, Publish(p)
        PROVE  KeepsForeignTrees(p)
    <2> USE DEF KeepsForeignTrees
    <2> DEFINE d == Destination(p)
    <2>1. CASE visible' = visible
      BY <2>1
    <2>2. CASE Rename(p)
      BY <1>1, <2>2, DestinationOf DEF Rename, IInv, TypeOK
    <2>3. CASE Unlink(p) \/ TakeBack(p) \/ RemoveRun(p)
      <3>1. pc[p] \in {"takeBack", "delete"}
        BY <2>3 DEF Unlink, TakeBack, RemoveRun, Goto
      <3>2. visible[d] # Nothing /\ visible[d].by # p => d \in replaced
        <4>1. CASE pc[p] = "takeBack"
          BY <1>1, <4>1 DEF IInv, Owned, Published
        <4>2. CASE pc[p] = "delete"
          BY <1>1, <4>2, DestinationOf DEF IInv, Answered, PrivateEntries, Deleting
        <4> QED BY <3>1, <4>1, <4>2
      <3>3. \A e \in Destinations : e # d => visible'[e] = visible[e]
        BY <1>1, <2>3 DEF Unlink, TakeBack, RemoveRun, Puts, IInv, TypeOK
      <3> QED BY <3>1, <3>2, <3>3
    <2>4. visible' = visible \/ Rename(p) \/ Unlink(p) \/ TakeBack(p) \/ RemoveRun(p)
      BY <1>1
         DEF Publish, Begin, BeginRefused, MakeTemporary, CopyArtifacts, PrepareProject,
             PreparePyPIProject, Assemble, ApproveCache, WriteRecords, CopyRefused, Install,
             Fills, Validate, ValidateRefused, Seal, Recheck, RecheckRefused, RenameRefused,
             SyncParent, SyncFails, TakeBackMissed, TakeBackFails, CallFails, TemporaryGone,
             CleanUp, CleanUpFails, DeleteRun, SyncRoot, DeleteFails
    <2> QED BY <2>1, <2>2, <2>3, <2>4
  <1>2. IInv /\ [Next]_vars => [\A p \in Publishers : Publish(p) => KeepsForeignTrees(p)]_vars
    BY <1>1
  <1> QED BY <1>2, Invariant, PTL DEF Spec, ForeignTreeKept

\* When a publisher reports a plain failure its temporary path is empty, and
\* the tree it had renamed is gone from its place if it takes trees back (the
\* deferred RemoveAll of the temporary tree, the removal after a failed sync).
THEOREM FailuresLeaveNothing == Spec => FailureLeavesNothing
  <1> DEFINE Ends(q) == \/ CleanUp(q) \/ TakeBack(q) \/ TakeBackMissed(q)
                        \/ SyncFails(q) /\ ~Makes(q, "takeBack")
  <1>1. ASSUME IInv, Next, NEW p \in Publishers, Fails(p)
        PROVE  LeavesNothing(p)
    <2>1. Ends(p)
      <3>1. result'[p] = "failed" /\ result[p] # "failed"
        BY <1>1 DEF Fails
      <3>2. ASSUME NEW q \in Publishers, Publish(q)
            PROVE  \/ result' = result
                   \/ \E r \in {"published", "uncertain", "deleting", "deleted"} : Answers(q, r)
                   \/ Ends(q)
        <4>1. CASE SyncParent(q) \/ TakeBackFails(q) \/ CleanUpFails(q) \/ DeleteRun(q)
                   \/ SyncRoot(q) \/ DeleteFails(q)
          BY <4>1 DEF SyncParent, TakeBackFails, CleanUpFails, DeleteRun, SyncRoot, DeleteFails
        <4>2. CASE SyncFails(q)
          BY <4>2 DEF SyncFails
        <4>3. CASE CleanUp(q) \/ TakeBack(q) \/ TakeBackMissed(q)
          BY <4>3
        <4>4. CASE CopyArtifacts(q) \/ PrepareProject(q) \/ PreparePyPIProject(q)
                   \/ Assemble(q) \/ WriteRecords(q) \/ Install(q)
          BY <4>4
             DEF CopyArtifacts, PrepareProject, PreparePyPIProject, Assemble, WriteRecords,
                 Install, Fills
        <4>5. CASE Begin(q) \/ BeginRefused(q) \/ MakeTemporary(q) \/ ApproveCache(q)
                   \/ CopyRefused(q) \/ Validate(q) \/ ValidateRefused(q) \/ Seal(q)
                   \/ Recheck(q) \/ RecheckRefused(q) \/ Rename(q) \/ RenameRefused(q)
                   \/ CallFails(q) \/ TemporaryGone(q) \/ Unlink(q) \/ RemoveRun(q)
          BY <4>5
             DEF Begin, BeginRefused, MakeTemporary, ApproveCache, CopyRefused, Validate,
                 ValidateRefused, Seal, Recheck, RecheckRefused, Rename, RenameRefused,
                 CallFails, TemporaryGone, Unlink, RemoveRun
        <4> QED BY <3>2, <4>1, <4>2, <4>3, <4>4, <4>5 DEF Publish
      <3>3. ASSUME NEW q \in Publishers, q # p, Ends(q)
            PROVE  result'[p] = result[p]
        BY <1>1, <3>3 DEF CleanUp, TakeBack, TakeBackMissed, SyncFails, Answers, IInv, TypeOK
      <3> HIDE DEF Ends
      <3>4. CASE \E q \in Publishers : Publish(q)
        BY <1>1, <3>1, <3>2, <3>3, <3>4 DEF Answers, IInv, TypeOK
      <3>5. CASE ~ \E q \in Publishers : Publish(q)
        BY <1>1, <3>1, <3>5
           DEF Next, ChangeSource, Kill, CreateTarget, ReplaceParent, PowerLoss, Answers,
               IInv, TypeOK
      <3> QED BY <3>4, <3>5
    <2>2. Destination(p)' = Destination(p) /\ Destination(p) \in Destinations
      BY <2>1, DestinationOf
         DEF CleanUp, TakeBack, TakeBackMissed, SyncFails, Environment, Destination
    <2>3. CASE CleanUp(p)
      BY <1>1, <2>2, <2>3
         DEF LeavesNothing, CleanUp, Goto, Published, IInv, TypeOK, Owned, Last, Deleting
    <2>4. CASE TakeBack(p)
      BY <1>1, <2>2, <2>4
         DEF LeavesNothing, TakeBack, Goto, Puts, Published, IInv, TypeOK, Owned
    <2>5. CASE TakeBackMissed(p)
      <3>1. pc[p] = "takeBack" /\ p \in removing /\ ~Emptied(Destination(p))
        BY <2>5 DEF TakeBackMissed, Goto
      <3>2. temp[p] = Nothing /\ ~Published(p)
        BY <1>1, <3>1 DEF IInv, Owned, Emptied, Published
      <3>3. UNCHANGED <<temp, visible>>
        BY <2>5 DEF TakeBackMissed
      <3> QED BY <2>2, <3>2, <3>3 DEF LeavesNothing, Published
    <2>6. CASE SyncFails(p) /\ ~Makes(p, "takeBack")
      BY <1>1, <2>6 DEF LeavesNothing, SyncFails, Goto, IInv, Owned
    <2> QED BY <2>1, <2>3, <2>4, <2>5, <2>6
  <1> HIDE DEF Ends
  <1>2. IInv /\ [Next]_vars => [\A p \in Publishers : Fails(p) => LeavesNothing(p)]_vars
    BY <1>1
  <1> QED BY <1>2, Invariant, PTL DEF Spec, FailureLeavesNothing
=============================================================================
