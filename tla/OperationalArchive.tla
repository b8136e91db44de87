------------------------- MODULE OperationalArchive -------------------------
(***************************************************************************)
(* The archive of a campaign's activity (app/operational_archive.py and    *)
(* scripts/archive_merchant_activity.py).  An operator approves a preview  *)
(* by its fingerprint; a later run takes the campaign's lock, locks and    *)
(* reads the rows again, refuses them if they changed or still owe         *)
(* something, writes a backup and marks them archived.  The store and the  *)
(* workers go on meanwhile, and a run may stop anywhere.  One campaign; a  *)
(* conversion stands for its clicks, events, payout and attempts.          *)
(***************************************************************************)
EXTENDS RequestLocks

CONSTANTS
    Conversions, \* conversions of the campaign, all before the cutoff
    Files        \* paths of backup files

VARIABLES
    sale,     \* conversions: their status, and whether Meerat charges a fee for them
    due,      \* their payouts: state, whether the fee is cancelled, whether sats are reserved
    archived, \* conversions with merchant_archived_at
    batch,    \* operational_archive_batches, with the rows each one marked as they were then
    file,     \* the manifest in each backup file
    run       \* what each worker's run of the script has approved, read and locked

activityVars == <<sale, due>>
archiveVars == <<activityVars, archived, batch, file, run, lockVars>>

NoSale == [status |-> "none", fee |-> FALSE]
NoDue == [state |-> "none", cancelled |-> FALSE, reserved |-> FALSE]
NoFile == [exists |-> FALSE, rows |-> {}]
NoRun == [step |-> "idle", approved |-> {}, sales |-> {}]

\* The rows a manifest lists; equal fingerprints mean equal rows.
Candidates == {c \in Conversions : sale[c].status # "none"} \ archived
Rows(S) == {[id |-> c, sale |-> sale[c], due |-> due[c]] : c \in S}

\* What blocks an archive: a payout that is not final, or a fee or a reservation whose fee
\* is neither settled nor cancelled.  No handler settles a fee.
Blocking(c) ==
    \/ due[c].state \notin {"SETTLED", "PUBLISHED", "CANCELLED"}
    \/ (sale[c].fee \/ due[c].reserved) /\ ~due[c].cancelled

ArchiveInit ==
    /\ LocksInit
    /\ sale = [c \in Conversions |-> NoSale]
    /\ due = [c \in Conversions |-> NoDue]
    /\ archived = {} /\ batch = {}
    /\ file = [f \in Files |-> NoFile]
    /\ run = [w \in Workers |-> NoRun]

-----------------------------------------------------------------------------
(* The rest of the server: each handler is one transaction, which waits    *)
(* for the campaign's lock if it takes it and for the rows it updates.     *)

CampaignLockIsFree == \A w \in Workers : CampaignState \notin held[w]

\* The rows of a run's payouts are locked from the time it reads them.
MReadsWithoutLocks(c) == FALSE
DueLocked(c) ==
    \E w \in Workers : run[w].step \in {"backup", "commit"} /\ c \in run[w].sales

Activity(c, s, d) ==
    /\ sale' = [sale EXCEPT ![c] = s]
    /\ due' = [due EXCEPT ![c] = d]
    /\ UNCHANGED <<archived, batch, file, run, lockVars>>

CreateSale(c, fee) ==
    /\ CampaignLockIsFree
    /\ sale[c].status = "none"
    /\ Activity(c, [status |-> "approved", fee |-> fee],
                [state |-> "PAYABLE", cancelled |-> FALSE, reserved |-> TRUE])

ClaimForPayment(c) ==
    /\ ~DueLocked(c)
    /\ due[c].state = "PAYABLE" /\ sale[c].status = "approved"
    /\ Activity(c, sale[c], [due[c] EXCEPT !.state = "PAYING"])

RecordSuccess(c) ==
    /\ ~DueLocked(c)
    /\ due[c].state \in {"PAYING", "CANCEL_PENDING"}
    /\ Activity(c, sale[c], [due[c] EXCEPT !.state = "SETTLED"])

Cancelled == [state |-> "CANCELLED", cancelled |-> TRUE, reserved |-> FALSE]

RecordFailure(c) ==
    /\ ~DueLocked(c)
    /\ \/ /\ due[c].state = "PAYING"
          /\ Activity(c, sale[c], [due[c] EXCEPT !.state = "PAYABLE"])
       \/ /\ due[c].state = "CANCEL_PENDING"
          /\ Activity(c, sale[c], Cancelled)

\* The proof settles the commission: what stays reserved is the fee.  It is published in
\* a second transaction.
FinalizePayout(c) ==
    /\ ~DueLocked(c)
    /\ due[c].state = "SETTLED"
    /\ \/ Activity(c, sale[c], [due[c] EXCEPT !.reserved = @ /\ sale[c].fee])
       \/ /\ due[c].reserved => sale[c].fee
          /\ Activity(c, sale[c], [due[c] EXCEPT !.state = "PUBLISHED"])

\* A reversal cancels what is not paid, and the fee of what is; repeated, it finishes what
\* the payment that was in flight left.
ReverseConversion(c) ==
    /\ CampaignLockIsFree
    /\ sale[c].status # "none"
    /\ Activity(c, [sale[c] EXCEPT !.status = "reversed"],
                CASE due[c].state = "PAYABLE" -> Cancelled
                  [] due[c].state = "PAYING" ->
                       [due[c] EXCEPT !.state = "CANCEL_PENDING", !.cancelled = TRUE]
                  [] due[c].state \in {"SETTLED", "PUBLISHED"} /\ due[c].reserved ->
                       [due[c] EXCEPT !.cancelled = TRUE, !.reserved = FALSE]
                  [] OTHER -> due[c])

-----------------------------------------------------------------------------
(* A run of the script. *)

Goes(w, step) == run' = [run EXCEPT ![w].step = step]

\* The operator has seen a preview and approves it, or repeats a run it approved before.
StartArchive(w) ==
    /\ run[w].step = "idle"
    /\ \E rows \in {Rows(Candidates)} \cup {b.approved : b \in batch} \cup {file[g].rows : g \in Files} :
         /\ rows # {}
         /\ run' = [run EXCEPT ![w] = [NoRun EXCEPT !.step = "check", !.approved = rows]]
    /\ UNCHANGED <<activityVars, archived, batch, file, lockVars>>

\* The script's own preview, and its look for a batch, come before the lock.
CheckPreview(w) ==
    /\ run[w].step = "check"
    /\ run[w].approved \in {Rows(Candidates)} \cup {b.approved : b \in batch}
    /\ Goes(w, "sales")
    /\ WillTake(w, <<CampaignState>>)
    /\ UNCHANGED <<activityVars, archived, batch, file>>

\* A batch with this fingerprint is answered, not applied again.
FindBatch(w) ==
    /\ run[w].step = "sales" /\ HasItsLocks(w)
    /\ \E b \in batch : b.approved = run[w].approved

EndRun(w) ==
    /\ run' = [run EXCEPT ![w] = NoRun]
    /\ GiveBack(w)

AnswerDuplicate(w) ==
    /\ FindBatch(w)
    /\ EndRun(w)
    /\ UNCHANGED <<activityVars, archived, batch, file>>

LockSales(w) ==
    /\ run[w].step = "sales" /\ HasItsLocks(w)
    /\ ~FindBatch(w)
    /\ run' = [run EXCEPT ![w].step = "dues", ![w].sales = Candidates]
    /\ UNCHANGED <<activityVars, archived, batch, file, lockVars>>

\* The payouts are read after their conversions; what was approved must be what is found,
\* and nothing of it may still be owed.
LockDues(w) ==
    /\ run[w].step = "dues"
    /\ Rows(run[w].sales) = run[w].approved
    /\ \A c \in run[w].sales : ~Blocking(c)
    /\ Goes(w, "backup")
    /\ UNCHANGED <<activityVars, archived, batch, file, lockVars>>

\* The file must be new; it is durable before the transaction commits.
WriteBackup(w, f) ==
    /\ run[w].step = "backup"
    /\ ~file[f].exists
    /\ file' = [file EXCEPT ![f] = [exists |-> TRUE, rows |-> Rows(run[w].sales)]]
    /\ Goes(w, "commit")
    /\ UNCHANGED <<activityVars, archived, batch, lockVars>>

CommitArchive(w) ==
    /\ run[w].step = "commit"
    /\ archived' = archived \cup run[w].sales
    /\ batch' = batch \cup {[approved |-> run[w].approved, marked |-> Rows(run[w].sales)]}
    /\ EndRun(w)
    /\ UNCHANGED <<activityVars, file>>

\* A refusal, an exception or a stopped process: the transaction is lost, the file is not,
\* however much of it was written.
StopRun(w) ==
    /\ run[w].step # "idle"
    /\ EndRun(w)
    /\ \/ UNCHANGED file
       \/ /\ run[w].step = "backup"
          /\ \E f \in Files :
               /\ ~file[f].exists
               /\ file' = [file EXCEPT ![f].exists = TRUE]
    /\ UNCHANGED <<activityVars, archived, batch>>

ArchiveNext ==
    \/ \E c \in Conversions :
         \/ \E fee \in BOOLEAN : CreateSale(c, fee)
         \/ ClaimForPayment(c) \/ RecordSuccess(c) \/ RecordFailure(c)
         \/ FinalizePayout(c) \/ ReverseConversion(c)
    \/ \E w \in Workers :
         \/ TakeLock(w) /\ UNCHANGED <<activityVars, archived, batch, file, run>>
         \/ StartArchive(w) \/ CheckPreview(w) \/ AnswerDuplicate(w) \/ LockSales(w) \/ LockDues(w)
         \/ \E f \in Files : WriteBackup(w, f)
         \/ CommitArchive(w) \/ StopRun(w)

ArchiveSpec == ArchiveInit /\ [][ArchiveNext]_archiveVars

-----------------------------------------------------------------------------
\* What an operator archived is what was approved: each batch marked the rows of the
\* approved preview as they still were, a backup file that no later run overwrites shows
\* them, and no archived conversion has a payout to make or a fee to collect, ever after.
ArchiveIsExact ==
    /\ \A b \in batch : b.marked = b.approved /\ \E f \in Files : file[f].rows = b.marked
    /\ \A c \in archived : ~Blocking(c)

=============================================================================
