---------------------------- MODULE EdgeInvariants ----------------------------
(***************************************************************************)
(* The inductive invariants of the edges: what their safety rests on.      *)
(* TLC checked them on the instances of MCEdges, EdgeProofs proves them.   *)
(***************************************************************************)
EXTENDS LightningRail, RateQuotes, InvoicePreparation, OperationalArchive

-----------------------------------------------------------------------------
OpenAnswers == {"ambiguous", "raised", "lost"}

\* A request to pay leaves only from the send step, for an invoice of exactly the payout's
\* amount, and no call that saw it leave answers FAILURE.
PaymentInv(a) ==
    /\ step[a] \in {"idle", "record", "send"} => request[a] = "none"
    /\ answer[a] = "none" <=> step[a] # "done"
    /\ step[a] \in {"record", "send", "await"} \/ request[a] # "none"
         => invoice[a] \in Invoices /\ invoice[a].sats = Amount
    /\ answer[a] = "FAILURE" => request[a] = "none"
    /\ answer[a] = "SUCCESS" => request[a] = "settled"

\* A result on its way to the refresh answers an open question, and what it says is final.
LookupInv(a) ==
    lookup[a] # "none" =>
        /\ answer[a] \in OpenAnswers /\ verdict[a] = "none"
        /\ request[a] = IF lookup[a] = "SUCCESS" THEN "settled" ELSE "failed"

RailInv == RailTypeOK /\ \A a \in Attempts : PaymentInv(a) /\ LookupInv(a)

-----------------------------------------------------------------------------
RateInv == RateTypeOK /\ ServedWithinBounds

PrepInv ==
    /\ PrepTypeOK
    /\ \A r \in Requests : prep[r].step # "idle" => RateKey(r) \in Keys
    /\ OnePreparationPerAccount

-----------------------------------------------------------------------------
Sale == [status : {"none", "approved", "reversed"}, fee : BOOLEAN]
Due == [state : {"none", "PAYABLE", "PAYING", "CANCEL_PENDING", "SETTLED", "PUBLISHED", "CANCELLED"},
        cancelled : BOOLEAN, reserved : BOOLEAN]
Row == [id : Conversions, sale : Sale, due : Due]

ArchiveTypeOK ==
    /\ sale \in [Conversions -> Sale]
    /\ due \in [Conversions -> Due]
    /\ archived \subseteq Conversions
    /\ batch \subseteq [approved : SUBSET Row, marked : SUBSET Row]
    /\ file \in [Files -> [exists : BOOLEAN, rows : SUBSET Row]]
    /\ run \in [Workers -> [step : {"idle", "check", "sales", "dues", "backup", "commit"},
                            approved : SUBSET Row, sales : SUBSET Conversions]]
    /\ todo \in [Workers -> Seq({CampaignState})]
    /\ held \in [Workers -> SUBSET {CampaignState}]

LockedSteps == {"dues", "backup", "commit"}
CheckedSteps == {"backup", "commit"}

\* A file with these rows that no later run can overwrite.
Backed(rows) == \E f \in Files : file[f].exists /\ file[f].rows = rows

\* From the time a run has read the conversions it holds the campaign's lock, and from the
\* time it has compared the rows with the approval they are as they were approved, final,
\* and, once the file is written, in it.
RunInv(w) ==
    /\ run[w].step \in LockedSteps => CampaignState \in held[w]
    /\ run[w].step = "sales" => todo[w] # <<>> \/ CampaignState \in held[w]
    /\ \A c \in run[w].sales : sale[c].status # "none"
    /\ run[w].step \in CheckedSteps =>
         /\ Rows(run[w].sales) = run[w].approved
         /\ \A c \in run[w].sales : ~Blocking(c)
    /\ run[w].step = "commit" => Backed(run[w].approved)

ArchiveInv ==
    /\ ArchiveTypeOK
    /\ \A w \in Workers : RunInv(w)
    /\ \A c \in archived : sale[c].status # "none" /\ ~Blocking(c)
    /\ \A b \in batch : b.marked = b.approved /\ Backed(b.marked)

=============================================================================
