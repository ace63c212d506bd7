---------------------------- MODULE VenvTransaction ----------------------------
(***************************************************************************)
(* Promotion into an existing Python virtual environment (internal/        *)
(* promotion: pypi_promotion, pypi_venv_transaction, pypi_venv_backup).    *)
(* Files are replaced one by one; an ownership ledger, pypi-transaction    *)
(* .json, says which distributions own which file.  Every move is preceded *)
(* by a synced intent record in the journal of the recovery directory.     *)
(* Rollback stops at its first error, and an uncertain end keeps both the  *)
(* directory and the lock.  A move and the record of it are one step whose *)
(* second half may be missing, which is also what a kill leaves.           *)
(***************************************************************************)
EXTENDS Naturals, Sequences, FiniteSets, SequencesExt

CONSTANTS
    Keys,           \* destinations (scheme and path) in the environment
    Updates,        \* outputs of a promotion: who owns which destination
    Before,         \* ledgers an environment may start with
    MaxCommands, MaxEdits

\* A file by its writer: 0 absent, 1 before the first command, then one number
\* per command, then one per edit of the user.
Absent == 0
Written(c) == c + 1
UserSaved(f) == f > MaxCommands + 1

\* A ledger: for each owned destination its owners and the file they own.
NoLedger == <<>>
Owned(l) == DOMAIN l

VARIABLES
    lock,       \* .heliopause-pypi-transaction.lock: "free", "held"
    files,      \* the destinations
    ledger,     \* .heliopause/pypi-transaction.json, or NoLedger
    dir,        \* the command whose .heliopause-pypi-commit-* exists, or 0
    aside,      \* its members file-0, file-1, ...
    aledger,    \* its member metadata
    nextLedger, \* its member next-metadata
    journal,    \* its member ledger.json: the intents, or <<>> before it exists
    strays,     \* foreign members of it
    cmd, pc, todo,
    tx,         \* pypiVenvTransaction
    edits

disk == <<files, ledger, dir, aside, aledger, nextLedger, journal>>
user == <<strays, edits>>
vars == <<disk, user, lock, cmd, pc, todo, tx>>

NoTx == [before |-> [k \in Keys |-> Absent], current |-> NoLedger, desired |-> NoLedger,
         update |-> <<>>, backed |-> <<>>, published |-> <<>>, ledgerAt |-> "unmoved",
         mode |-> "clean"]

\* Files of the user and files owned since before the first command.
Init ==
    /\ ledger \in Before
    /\ \E mine \in SUBSET (Keys \ Owned(ledger)) :
            files = [k \in Keys |-> IF k \in Owned(ledger) THEN ledger[k].file
                                    ELSE IF k \in mine THEN 1 ELSE Absent]
    /\ lock = "free" /\ dir = 0 /\ strays = 0
    /\ aside = <<>> /\ aledger = NoLedger /\ nextLedger = NoLedger /\ journal = <<>>
    /\ cmd = 0 /\ pc = "idle" /\ todo = <<>> /\ tx = NoTx /\ edits = 0

Go(from, to) == pc = from /\ pc' = to

-----------------------------------------------------------------------------
(* beginPyPIVenvTransaction, prepare                                       *)

\* verifyState: every owned file is the one the ledger records.
Holds(l) == \A k \in Owned(l) : files[k] = l[k].file

\* acquirePyPIVenvGuard: open(2) with O_CREAT and O_EXCL.
Acquire == lock = "free" /\ lock' = "held"

\* readState and the snapshots of the owned files.
Frozen == [k \in Keys |-> IF k \in Owned(ledger) THEN files[k] ELSE Absent]

Begin ==
    /\ Acquire
    /\ cmd < MaxCommands /\ cmd' = cmd + 1
    /\ \/ /\ dir = 0 /\ Holds(ledger)
          /\ Go("idle", "prepare")
          /\ tx' = [NoTx EXCEPT !.current = ledger, !.before = Frozen]
       \/ /\ Go("idle", "close")
          /\ tx' = [tx EXCEPT !.mode = "clean"]
    /\ UNCHANGED <<disk, user, todo>>

Replaced(u) == UNION {u[k] : k \in DOMAIN u}

\* The refusals of prepare: an update replaces all the owners of a file or
\* none of them, and takes no destination of another distribution.
Compatible(u) ==
    \A k \in Owned(tx.current) :
        LET own == tx.current[k].owners IN
        /\ own \subseteq Replaced(u) \/ own \cap Replaced(u) = {}
        /\ k \in DOMAIN u => own \subseteq Replaced(u)

Obsolete(u) == {k \in Owned(tx.current) \ DOMAIN u : tx.current[k].owners \subseteq Replaced(u)}

Desired(u) ==
    [k \in (Owned(tx.current) \ Obsolete(u)) \cup DOMAIN u |->
        IF k \in DOMAIN u THEN [owners |-> u[k], file |-> Written(cmd)] ELSE tx.current[k]]

\* checkBefore: owned files and the ledger are the frozen ones, the new
\* destinations of the update are free.
CheckBefore ==
    /\ Holds(tx.current) /\ ledger = tx.current
    /\ \A k \in DOMAIN tx'.update \ Owned(tx.current) : files[k] = Absent

\* The container run and validatedPyPIDestinations give the update; prepare
\* computes the new ledger, and the directory is made.  An error afterwards
\* leaves the recovery to the user.
Prepare ==
    /\ \/ \E u \in Updates :
            /\ Go("prepare", "ledger") \/ Go("prepare", "close")
            /\ Compatible(u)
            /\ tx' = [tx EXCEPT !.update = u, !.desired = Desired(u),
                                !.mode = IF pc' = "close" THEN "recovery" ELSE @]
            /\ CheckBefore
            /\ dir' = cmd
            /\ todo' = SetToSeq(DOMAIN u) \o SetToSeq(Obsolete(u))
       \/ Go("prepare", "close") /\ UNCHANGED <<dir, todo, tx>>
    /\ UNCHANGED <<files, ledger, aside, aledger, nextLedger, journal, user, lock, cmd>>

-----------------------------------------------------------------------------
(* commit                                                                  *)

Fails(from) == Go(from, "rbLedger") /\ UNCHANGED <<disk, user, lock, cmd, todo, tx>>

\* appendJournal; what is appended may be synced although an error is returned.
Append1(r) == journal' = Append(journal, r)

\* persistLedger: the first record, with the whole state before.  A failure
\* may leave the directory without it.
OpenJournal ==
    \/ /\ Append1(<<"begin", "">>)
       /\ Go("ledger", "backup") \/ Go("ledger", "rbLedger")
       /\ UNCHANGED <<files, ledger, dir, aside, aledger, nextLedger, user, lock, cmd, todo, tx>>
    \/ Fails("ledger")

\* Mutant: the file is moved aside before the intent is in the journal.
MoveFirst == pc = "backup" /\
    LET k == Head(todo) IN
    \/ /\ todo # <<>>
       /\ IF tx.before[k] = Absent THEN UNCHANGED <<files, aside, tx>>
          ELSE /\ aside' = Append(aside, files[k])
               /\ files' = [files EXCEPT ![k] = Absent]
               /\ tx' = [tx EXCEPT !.backed = Append(@, k)]
       /\ todo' = Tail(todo)
       /\ UNCHANGED <<ledger, dir, aledger, nextLedger, journal, user, lock, cmd, pc>>
    \/ /\ todo = <<>>
       /\ Go("backup", "publish")
       /\ todo' = SetToSeq(DOMAIN tx.update)
       /\ UNCHANGED <<disk, user, lock, cmd, tx>>

\* The loop over the destinations to move aside; one that was absent is
\* skipped.  First the intent ...
IntendBackup == pc = "backup" /\
    LET k == Head(todo) IN
    \/ /\ todo # <<>> /\ tx.before[k] = Absent
       /\ todo' = Tail(todo)
       /\ UNCHANGED <<disk, user, lock, cmd, pc, tx>>
    \/ /\ todo # <<>> /\ tx.before[k] # Absent
       /\ files[k] = tx.before[k]
       /\ Append1(<<"backup", k>>)
       /\ Go("backup", "move") \/ Go("backup", "rbLedger")
       /\ UNCHANGED <<files, ledger, dir, aside, aledger, nextLedger, user, lock, cmd, todo, tx>>
    \/ /\ todo = <<>>
       /\ Go("backup", "publish")
       /\ todo' = SetToSeq(DOMAIN tx.update)
       /\ UNCHANGED <<disk, user, lock, cmd, tx>>
    \/ Fails("backup")

\* rename: renameat2 of the file to the next file-<n>.
TakeAside(k) ==
    /\ files[k] # Absent
    /\ aside' = Append(aside, files[k])
    /\ files' = [files EXCEPT ![k] = Absent]

\* remove: unlink of a file that is still the published one.
RemoveFile(k) ==
    /\ files[k] = Written(cmd)
    /\ files' = [files EXCEPT ![k] = Absent]

\* ... then the move, of the file that is now there.
MoveAside == pc = "move" /\ LET k == Head(todo) IN
    \/ /\ Go("move", "backup") \/ Go("move", "rbLedger")
       /\ TakeAside(k)
       /\ tx' = [tx EXCEPT !.backed = Append(@, k)]
       /\ todo' = Tail(todo)
       /\ UNCHANGED <<ledger, dir, aledger, nextLedger, journal, user, lock, cmd>>
    \/ Fails("move")

IntendPublish ==
    \/ /\ pc = "publish" /\ todo # <<>>
       /\ Append1(<<"publish", Head(todo)>>)
       /\ Go("publish", "place") \/ Go("publish", "rbLedger")
       /\ UNCHANGED <<files, ledger, dir, aside, aledger, nextLedger, user, lock, cmd, todo, tx>>
    \/ /\ todo = <<>> /\ Go("publish", "ledgerAside")
       /\ UNCHANGED <<disk, user, lock, cmd, todo, tx>>
    \/ Fails("publish")

\* The private output is moved under the free name.  Its parent is there: the
\* directories createParents makes on the way are left out.
Place == pc = "place" /\ LET k == Head(todo) IN
    \/ /\ Go("place", "publish") \/ Go("place", "rbLedger")
       /\ files[k] = Absent
       /\ files' = [files EXCEPT ![k] = Written(cmd)]
       /\ tx' = [tx EXCEPT !.published = Append(@, k)]
       /\ todo' = Tail(todo)
       /\ UNCHANGED <<ledger, dir, aside, aledger, nextLedger, journal, user, lock, cmd>>
    \/ Fails("place")

\* The old ledger goes aside, after its intent.
LedgerAside ==
    \/ /\ Go("ledgerAside", "ledgerNext") \/ Go("ledgerAside", "rbLedger")
       /\ IF tx.current = NoLedger THEN UNCHANGED <<ledger, aledger, journal, tx>>
          ELSE /\ Append1(<<"backup-metadata", "">>)
               /\ \/ /\ aledger' = ledger /\ ledger' = NoLedger
                     /\ tx' = [tx EXCEPT !.ledgerAt = "aside"]
                  \/ pc' = "rbLedger" /\ UNCHANGED <<ledger, aledger, tx>>
       /\ UNCHANGED <<files, dir, aside, nextLedger, user, lock, cmd, todo>>
    \/ Fails("ledgerAside")

\* The new one is written as next-metadata and, after its intent, moved.
LedgerNext ==
    \/ /\ Go("ledgerNext", "ledgerPlace") \/ Go("ledgerNext", "rbLedger")
       /\ nextLedger' = tx.desired
       /\ IF pc' = "ledgerPlace" THEN Append1(<<"publish-metadata", "">>) ELSE UNCHANGED journal
       /\ UNCHANGED <<files, ledger, dir, aside, aledger, user, lock, cmd, todo, tx>>
    \/ Fails("ledgerNext")

LedgerPlace ==
    \/ /\ Go("ledgerPlace", "reconcile") \/ Go("ledgerPlace", "rbLedger")
       /\ ledger' = nextLedger /\ nextLedger' = NoLedger
       /\ tx' = [tx EXCEPT !.ledgerAt = "published"]
       /\ UNCHANGED <<files, dir, aside, aledger, journal, user, lock, cmd, todo>>
    \/ Fails("ledgerPlace")

\* The last look: the new ledger holds, obsolete files are gone.
Reconcile ==
    \/ /\ Go("reconcile", "inventory")
       /\ Holds(tx.desired) /\ ledger = tx.desired
       /\ \A k \in Obsolete(tx.update) : files[k] = Absent
       /\ tx' = [tx EXCEPT !.mode = "committed"]
       /\ UNCHANGED <<disk, user, lock, cmd, todo>>
    \/ Fails("reconcile")

-----------------------------------------------------------------------------
(* rollback: the first error ends it and keeps everything                  *)

GiveUp(from) ==
    /\ Go(from, "close")
    /\ tx' = [tx EXCEPT !.mode = "recovery"]
    /\ UNCHANGED <<disk, user, lock, cmd, todo>>

RollBackLedger ==
    \/ /\ Go("rbLedger", "rbPublished")
       /\ tx.ledgerAt = "published" => ledger = tx.desired
       /\ ledger' = IF tx.ledgerAt = "unmoved" THEN ledger ELSE aledger
       /\ aledger' = NoLedger
       /\ tx' = [tx EXCEPT !.ledgerAt = "unmoved"]
       /\ UNCHANGED <<files, dir, aside, nextLedger, journal, user, lock, cmd, todo>>
    \/ \* a kill or an error after the new ledger was removed
       /\ Go("rbLedger", "close")
       /\ tx.ledgerAt = "published" /\ ledger = tx.desired
       /\ ledger' = NoLedger
       /\ tx' = [tx EXCEPT !.mode = "recovery"]
       /\ UNCHANGED <<files, dir, aside, aledger, nextLedger, journal, user, lock, cmd, todo>>
    \/ GiveUp("rbLedger")

RemovePublished ==
    \/ /\ pc = "rbPublished" /\ tx.published # <<>>
       /\ RemoveFile(Last(tx.published))
       /\ tx' = [tx EXCEPT !.published = Front(@)]
       /\ UNCHANGED <<ledger, dir, aside, aledger, nextLedger, journal, user, lock, cmd, pc, todo>>
    \/ /\ tx.published = <<>> /\ Go("rbPublished", "rbBacked")
       /\ UNCHANGED <<disk, user, lock, cmd, todo, tx>>
    \/ GiveUp("rbPublished")

\* The file must be the frozen one in the directory; its name must be free.
RestoreBacked ==
    \/ /\ pc = "rbBacked" /\ tx.backed # <<>>
       /\ Last(aside) = tx.before[Last(tx.backed)] /\ files[Last(tx.backed)] = Absent
       /\ files' = [files EXCEPT ![Last(tx.backed)] = Last(aside)]
       /\ aside' = Front(aside)
       /\ tx' = [tx EXCEPT !.backed = Front(@)]
       /\ UNCHANGED <<ledger, dir, aledger, nextLedger, journal, user, lock, cmd, pc, todo>>
    \/ /\ tx.backed = <<>> /\ Go("rbBacked", "inventory")
       /\ Holds(tx.current) /\ ledger = tx.current
       /\ UNCHANGED <<disk, user, lock, cmd, todo, tx>>
    \/ GiveUp("rbBacked")

-----------------------------------------------------------------------------
(* removeBackup, close                                                     *)

\* The originals are disposable after a commit only; next-metadata only if
\* its snapshot was taken, which the journal's intent precedes.
Originals == tx.mode = "committed"
Snapped == journal # <<>> /\ Last(journal)[1] = "publish-metadata"

Inventory ==
    \/ /\ Go("inventory", "purge")
       /\ strays = 0
       /\ IF Originals THEN \A i \in 1..Len(aside) : aside[i] = tx.before[tx.backed[i]]
          ELSE aside = <<>>
       /\ nextLedger # NoLedger => Snapped
       /\ UNCHANGED <<disk, user, lock, cmd, todo, tx>>
    \/ GiveUp("inventory")

\* Originals in any order, then the journal, then the directory.  aside keeps
\* its indices: a removed file is Absent in it.
Purge ==
    \/ /\ Go("purge", "purge")
       /\ UNCHANGED <<files, ledger, user, lock, cmd, todo, tx>>
       /\ \/ /\ \E i \in 1..Len(aside) : aside[i] # Absent /\ aside' = [aside EXCEPT ![i] = Absent]
             /\ UNCHANGED <<dir, aledger, nextLedger, journal>>
          \/ /\ aledger # NoLedger \/ nextLedger # NoLedger
             /\ aledger' = NoLedger /\ nextLedger' = NoLedger
             /\ UNCHANGED <<dir, aside, journal>>
          \/ /\ \A i \in 1..Len(aside) : aside[i] = Absent
             /\ aledger = NoLedger /\ nextLedger = NoLedger /\ journal # <<>>
             /\ journal' = <<>> /\ aside' = <<>>
             /\ UNCHANGED <<dir, aledger, nextLedger>>
    \/ /\ Go("purge", "close")
       /\ journal = <<>> /\ strays = 0
       /\ dir' = 0
       /\ tx' \in {tx, [tx EXCEPT !.mode = "recovery"]}     \* the sync may fail
       /\ UNCHANGED <<files, ledger, aside, aledger, nextLedger, journal, user, lock, cmd, todo>>
    \/ GiveUp("purge")

\* close: an uncertain end keeps the lock.
Close ==
    /\ Go("close", "idle")
    /\ lock' \in (IF tx.mode = "recovery" THEN {lock} ELSE {"free", lock})
    /\ UNCHANGED <<disk, user, cmd, todo, tx>>

-----------------------------------------------------------------------------
(* The environment                                                         *)

Kill ==
    /\ pc # "idle" /\ pc' = "idle"
    /\ UNCHANGED <<disk, user, lock, cmd, todo, tx>>

ClearStaleLock ==
    /\ pc = "idle" /\ lock = "held" /\ lock' = "free"
    /\ UNCHANGED <<disk, user, cmd, pc, todo, tx>>

\* The user, or another tool, writes a destination or drops a file in the
\* directory.
Edit ==
    /\ edits < MaxEdits /\ edits' = edits + 1
    /\ \/ \E k \in Keys :
            /\ files' = [files EXCEPT ![k] = MaxCommands + 1 + edits']
            /\ UNCHANGED strays
       \/ dir # 0 /\ strays' = strays + 1 /\ UNCHANGED files
    /\ UNCHANGED <<ledger, dir, aside, aledger, nextLedger, journal, lock, cmd, pc, todo, tx>>

Next ==
    \/ Begin \/ Prepare \/ OpenJournal \/ IntendBackup \/ MoveAside \/ IntendPublish
    \/ Place \/ LedgerAside \/ LedgerNext \/ LedgerPlace \/ Reconcile
    \/ RollBackLedger \/ RemovePublished \/ RestoreBacked \/ Inventory \/ Purge
    \/ Close \/ Kill \/ ClearStaleLock \/ Edit

Spec == Init /\ [][Next]_vars

-----------------------------------------------------------------------------
(* Properties                                                              *)

\* Without a recovery directory the ledger holds, so the next Begin admits
\* the environment, until a user edits it.
OpenMeansAdmissible == edits = 0 /\ dir = 0 => Holds(ledger)

\* "Intent records precede mutation": whatever is killed when, as long as the
\* directory exists the environment is complete, as before or as updated, or
\* the journal names every file that differs and leads to its original: its
\* i-th intent to back up is the one of file-<i>.
Backups(j) == {h \in 1..j : journal[h][1] = "backup"}
Named(k)   == \E j \in 1..Len(journal) : journal[j][2] = k
Original(k, i) ==
    \E j \in 1..Len(journal) : journal[j] = <<"backup", k>> /\ Cardinality(Backups(j)) = i
Recoverable(k) ==
    \/ files[k] = tx.before[k]
    \/ /\ Named(k)
       /\ tx.before[k] # Absent =>
              \E i \in 1..Len(aside) : aside[i] = tx.before[k] /\ Original(k, i)
WholeAs(l) == ledger = l /\ Holds(l)
RecoverableFromJournal ==
    dir # 0 /\ edits = 0 =>
        \/ WholeAs(tx.current) \/ WholeAs(tx.desired)
        \/ /\ \A k \in DOMAIN tx.update \cup Owned(tx.current) : Recoverable(k)
           /\ tx.current \in {ledger, aledger}

\* An update drops nothing but the files of the distributions it replaces: a
\* file of another distribution, or of the user, stays where it is; a file the
\* user wrote over one being replaced survives, at worst in the directory, and
\* what a check finds there that is not the update's own stays.
Mine(k) == k \in Owned(tx.current) /\ tx.current[k].owners \subseteq Replaced(tx.update)
KeepsSeenFile ==
    /\ \A k \in Keys :
          files[k] \notin {Absent, Written(cmd)} /\ edits' = edits /\ files'[k] # files[k] =>
              /\ Mine(k)
              /\ UserSaved(files[k]) => Contains(aside', files[k])
    /\ \A f \in ToSet(aside) : UserSaved(f) => Contains(aside', f)
    /\ strays' = strays \/ edits' # edits
=============================================================================
