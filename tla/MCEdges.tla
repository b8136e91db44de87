------------------------------- MODULE MCEdges -------------------------------
(***************************************************************************)
(* The server's three edges to slow machines it does not control (the NWC  *)
(* wallet, the rate providers, the LNURL servers of manual payments) and   *)
(* the archive script an operator runs beside it.  They share no state, so *)
(* a behaviour of the run exercises one of them.                           *)
(***************************************************************************)
EXTENDS LightningRail, RateQuotes, InvoicePreparation, OperationalArchive, FiniteSets

MCWallTimes == 0..2

VARIABLE edge \* which of the four this behaviour exercises

archivePart == <<activityVars, archived, batch, file, run, lockVars>>
allVars == <<railVars, rateVars, prepVars, archivePart, edge>>

MCInit ==
    /\ RailInit /\ RateInit /\ PrepInit /\ ArchiveInit
    /\ edge \in {"rail", "rates", "invoices", "archive"}
    /\ edge # "rates" => wall = 0
    /\ edge # "invoices" => seconds = 0

\* Two runs of the script with one conversion, or one run at a time with two, of which
\* Meerat charges a fee for one; whichever backup file is written first is the first.
ArchiveBound ==
    LET First(S) == CHOOSE x \in S : TRUE
        sold == {c \in Conversions : sale[c].status # "none"}
        written == {f \in Files : file[f].exists}
    IN  /\ Cardinality({w \in Workers : run[w].step # "idle"}) + Cardinality(sold) <= 3
        /\ \A c \in sold : sale[c].fee = (c = First(Conversions))
        /\ written # {} => First(Files) \in written

MCNext ==
    /\ UNCHANGED edge
    /\ \/ edge = "rail" /\ RailNext /\ UNCHANGED <<rateVars, prepVars, archivePart>>
       \/ edge = "rates" /\ RateNext /\ UNCHANGED <<railVars, prepVars, archivePart>>
       \/ edge = "invoices" /\ PrepNext /\ UNCHANGED <<railVars, rateVars, archivePart>>
       \/ /\ edge = "archive"
          /\ ArchiveNext /\ ArchiveBound' /\ UNCHANGED <<railVars, rateVars, prepVars>>

MCFairness ==
    \A c \in Callers :
        /\ WF_allVars(edge = "rates" /\ Fetch(c) /\ UNCHANGED <<railVars, prepVars, archivePart, edge>>)
        /\ SF_allVars(/\ edge = "rates"
                      /\ TakeCached(c) \/ StartFetch(c)
                      /\ UNCHANGED <<railVars, prepVars, archivePart, edge>>)

MCSpec == MCInit /\ [][MCNext]_allVars /\ MCFairness

=============================================================================
