------------------------------ MODULE Factoring ------------------------------
(***************************************************************************)
(* Submission of invoice batches to a factoring company (client/factoring):*)
(* SubmitBatch uploads one PDF per invoice over SFTP and then the CSV      *)
(* manifest, while the factor's poller watches the same folder.  RTS takes *)
(* a manifest the moment it appears and clears the folder, so its provider *)
(* writes the manifest under an inert name and renames it; Triumph's       *)
(* provider writes it in place.  The caller, backend-accounting, submits   *)
(* the batches of a company one after another and may retry a failed one.  *)
(***************************************************************************)
EXTENDS Naturals, Sequences, FiniteSets

CONSTANTS
  Batches,
  BatchesOf,   \* BOOLEAN -> the batches submitted when the factor is RTS, or not
  Invoices,
  InvoicesOf,  \* Batches -> sequences of invoices
  Number,      \* Invoices -> invoice numbers
  Unnumbered,  \* invoices whose number is empty
  Unmatched,   \* batches without one PDF per invoice, in order, of its number and not empty
  Blank,       \* invoices with an empty debtor, PO or number
  Unpaid,      \* invoices whose amount is not positive
  PdfName,     \* sanitizePDFName: invoice numbers -> file names, several to one
  CsvName,     \* Batches -> the name made from SubmittedAt, in seconds
  TempName,    \* Batches -> that name with ".uploading"
  MaxRecords,  \* ProviderRules.MaxRecords of RTS
  Quarantine,  \* the caller heeds ProviderRules.TriggerAndClear
  MaxFaults,   \* bound: dropped connections, crashes, cancelled contexts
  MaxRefused   \* bound: batches refused in one behaviour

\* ".csv", ".csv.uploading" and ".pdf".
ExtensionsDiffer ==
  /\ \A b, c \in Batches : CsvName[b] # TempName[c]
  /\ \A b \in Batches, i \in Invoices :
       PdfName[Number[i]] # CsvName[b] /\ PdfName[Number[i]] # TempName[b]

ASSUME FactoringAssumption ==
  /\ BatchesOf \in [BOOLEAN -> SUBSET Batches]
  /\ InvoicesOf \in [Batches -> Seq(Invoices)]
  /\ DOMAIN Number = Invoices
  /\ Quarantine \in BOOLEAN
  /\ MaxRecords \in Nat
  /\ MaxFaults \in Nat
  /\ ExtensionsDiffer

VARIABLES
  rts,       \* the factor of the company is RTS, else Triumph
  pc,        \* where SubmitBatch is with a batch
  sent,      \* PDFs of the batch that are uploaded
  reached,   \* an attempt may have reached the manifest
  folder,    \* the factor's folder: file name -> [of, whole]
  taken,     \* names Triumph's poller has dealt with
  ingested,  \* history: what the factor took, in order
  faults

vars == <<rts, pc, sent, reached, folder, taken, ingested, faults>>

Resting == {"idle", "rejected", "failed", "done"}

Init ==
  /\ rts \in BOOLEAN
  /\ pc = [b \in Batches |-> "idle"]
  /\ sent = [b \in Batches |-> 0]
  /\ reached = {}
  /\ folder = [n \in {} |-> 0]
  /\ taken = {}
  /\ ingested = <<>>
  /\ faults = MaxFaults

-----------------------------------------------------------------------------
(* Checks before a connection is opened.                                   *)

Rows(b) == {InvoicesOf[b][i] : i \in DOMAIN InvoicesOf[b]}

\* Batch.validate: there is something to send, every invoice has a number and the
\* PDF of that number.
Sendable(b) ==
  /\ Len(InvoicesOf[b]) > 0
  /\ b \notin Unmatched
  /\ Rows(b) \cap Unnumbered = {}

\* ValidateInvoicesForProvider: nothing is asked of a batch for Triumph.
Acceptable(b) ==
  rts =>
    /\ Len(InvoicesOf[b]) <= MaxRecords
    /\ \A i, j \in DOMAIN InvoicesOf[b] :
         Number[InvoicesOf[b][i]] = Number[InvoicesOf[b][j]] => i = j
    /\ Rows(b) \cap (Blank \cup Unpaid) = {}

\* The caller submits a batch again after a failure; if it heeds
\* TriggerAndClear, not once an attempt may have reached the manifest.
MayRetry(b) == pc[b] = "failed" /\ (rts /\ Quarantine => b \notin reached)

\* MinSubmissionGap: the caller waits until RTS has dealt with the last manifest.
Spaced == rts => \A c \in Batches : CsvName[c] \notin DOMAIN folder

-----------------------------------------------------------------------------
(* The folder.                                                             *)

\* Upload opens a file (created or truncated), writes it and closes it.
Truncated(n, x) ==
  folder' = [m \in DOMAIN folder \cup {n} |->
               IF m = n THEN [of |-> x, whole |-> FALSE] ELSE folder[m]]

Written(n) == folder' = [folder EXCEPT ![n].whole = TRUE]

\* A file that is opened may have been taken away before it is written: the
\* server keeps writing to a file without a name.
Close(n) == IF n \in DOMAIN folder THEN Written(n) ELSE UNCHANGED folder

-----------------------------------------------------------------------------
(* SubmitBatch.                                                            *)

\* A batch that does not pass is refused before anything is sent.
Reject(b) ==
  /\ pc[b] = "idle"
  /\ b \in BatchesOf[rts]
  /\ ~ (Sendable(b) /\ Acceptable(b))
  /\ Cardinality({c \in Batches : pc[c] = "rejected"}) < MaxRefused
  /\ pc' = [pc EXCEPT ![b] = "rejected"]
  /\ UNCHANGED <<sent, reached, folder, taken, ingested, faults>>

\* Dial, EnsureDir.
Connect(b) ==
  /\ b \in BatchesOf[rts]
  /\ pc[b] = "idle" \/ MayRetry(b)
  /\ Sendable(b) /\ Acceptable(b)
  /\ Spaced
  /\ \A c \in Batches : pc[c] \in Resting
  /\ pc' = [pc EXCEPT ![b] = "documents"]
  /\ sent' = [sent EXCEPT ![b] = 0]
  /\ UNCHANGED <<reached, folder, taken, ingested, faults>>

\* The next PDF is opened ...
OpenDocument(b) ==
  /\ pc[b] = "documents"
  /\ sent[b] < Len(InvoicesOf[b])
  /\ LET i == InvoicesOf[b][sent[b] + 1]
     IN  Truncated(PdfName[Number[i]], i)
  /\ pc' = [pc EXCEPT ![b] = "writing"]
  /\ UNCHANGED <<sent, reached, taken, ingested, faults>>

\* ... and written.
WriteDocument(b) ==
  /\ pc[b] = "writing"
  /\ Close(PdfName[Number[InvoicesOf[b][sent[b] + 1]]])
  /\ sent' = [sent EXCEPT ![b] = @ + 1]
  /\ pc' = [pc EXCEPT ![b] = "documents"]
  /\ UNCHANGED <<reached, taken, ingested, faults>>

\* (broken) RTS's manifest is written in place.
ManifestNameInPlace(b) == CsvName[b]

\* (broken) Every factor's manifest gets the inert name.
ManifestNameInert(b) == TempName[b]

\* The name under which the manifest is written.
ManifestName(b) == IF rts THEN TempName[b] ELSE CsvName[b]

\* (broken) The manifest goes before the last document.
OpenManifestEarly(b) ==
  /\ pc[b] = "documents"
  /\ sent[b] >= Len(InvoicesOf[b]) - 1
  /\ Truncated(ManifestName(b), b)
  /\ reached' = reached \cup {b}
  /\ pc' = [pc EXCEPT ![b] = "manifest"]
  /\ UNCHANGED <<sent, taken, ingested, faults>>

\* The manifest comes last.
OpenManifest(b) ==
  /\ pc[b] = "documents"
  /\ sent[b] = Len(InvoicesOf[b])
  /\ Truncated(ManifestName(b), b)
  /\ reached' = reached \cup {b}
  /\ pc' = [pc EXCEPT ![b] = "manifest"]
  /\ UNCHANGED <<sent, taken, ingested, faults>>

\* It is written; for RTS it still has to be renamed.
WriteManifest(b) ==
  /\ pc[b] = "manifest"
  /\ Close(ManifestName(b))
  /\ pc' = [pc EXCEPT ![b] = IF rts THEN "renaming" ELSE "done"]
  /\ UNCHANGED <<sent, reached, taken, ingested, faults>>

\* The manifest gets its final name in one step, replacing a file of that name.
Renamed(b) ==
  folder' = [m \in (DOMAIN folder \ {TempName[b]}) \cup {CsvName[b]} |->
               IF m = CsvName[b] THEN folder[TempName[b]] ELSE folder[m]]

\* (broken) SubmitBatch says it is done when the rename is still to come.
RenameForgotten(b) ==
  /\ pc[b] = "renaming"
  /\ pc' = [pc EXCEPT ![b] = "done"]
  /\ UNCHANGED <<sent, reached, folder, taken, ingested, faults>>

\* (broken) A rename whose reply is lost counts as not submitted.
RenameTwice(b) ==
  /\ pc[b] = "renaming"
  /\ Renamed(b)
  /\ \/ pc' = [pc EXCEPT ![b] = "done"] /\ UNCHANGED faults
     \/ /\ faults > 0
        /\ faults' = faults - 1
        /\ pc' = [pc EXCEPT ![b] = "idle"]
  /\ UNCHANGED <<sent, reached, taken, ingested>>

\* sftpClient.Rename; the reply may be lost after the server has renamed.
Rename(b) ==
  /\ pc[b] = "renaming"
  /\ Renamed(b)
  /\ \/ pc' = [pc EXCEPT ![b] = "done"] /\ UNCHANGED faults
     \/ /\ faults > 0
        /\ faults' = faults - 1
        /\ pc' = [pc EXCEPT ![b] = "failed"]
  /\ UNCHANGED <<sent, reached, taken, ingested>>

\* The connection drops, the context ends or the process dies: what is in the
\* folder stays there.
Fail(b) ==
  /\ pc[b] \notin Resting
  /\ faults > 0
  /\ faults' = faults - 1
  /\ pc' = [pc EXCEPT ![b] = "failed"]
  /\ UNCHANGED <<rts, sent, reached, folder, taken, ingested>>

-----------------------------------------------------------------------------
(* The factor.                                                             *)

\* The invoices of a batch whose document is in the folder, complete and under
\* its name.
Documents(b) ==
  {i \in Rows(b) : /\ PdfName[Number[i]] \in DOMAIN folder
                   /\ folder[PdfName[Number[i]]] = [of |-> i, whole |-> TRUE]}

\* Its poller takes a manifest at any time from its appearance on, complete or
\* not, with the documents that are there.
Poll(b) ==
  /\ CsvName[b] \in DOMAIN folder \ taken
  /\ folder[CsvName[b]].of = b
  /\ ingested' = Append(ingested, [batch |-> b, whole |-> folder[CsvName[b]].whole,
                                   documents |-> Documents(b)])
  /\ IF rts THEN folder' = [n \in {} |-> 0] /\ UNCHANGED taken
            ELSE taken' = taken \cup {CsvName[b]} /\ UNCHANGED folder
  /\ UNCHANGED <<rts, pc, sent, reached, faults>>

-----------------------------------------------------------------------------
Submit(b) ==
  /\ \/ Reject(b) \/ Connect(b) \/ OpenDocument(b) \/ WriteDocument(b)
     \/ OpenManifest(b) \/ WriteManifest(b) \/ Rename(b)
  /\ UNCHANGED rts

Next == \E b \in Batches : Submit(b) \/ Fail(b) \/ Poll(b)

Spec == Init /\ [][Next]_vars

(* The caller goes on while there is something to send, and an upload     *)
(* ends, with an error at the latest; the poller keeps looking.            *)
Fairness == WF_vars(\E b \in Batches : Submit(b)) /\ WF_vars(\E b \in Batches : Poll(b))

FairSpec == Spec /\ Fairness

-----------------------------------------------------------------------------
(* Properties.                                                             *)

\* Every variable keeps its type; at most one batch is being sent.
TypeOK ==
  /\ rts \in BOOLEAN
  /\ pc \in [Batches -> Resting \cup {"documents", "writing", "manifest", "renaming"}]
  /\ \A b, c \in Batches : {pc[b], pc[c]} \cap Resting = {} => b = c
  /\ sent \in [Batches -> Nat] /\ \A b \in Batches : sent[b] <= Len(InvoicesOf[b])
  /\ reached \subseteq Batches
  /\ \A n \in DOMAIN folder :
       folder[n].of \in Batches \cup Invoices /\ folder[n].whole \in BOOLEAN
  /\ faults \in 0 .. MaxFaults

\* The rows of a batch whose document keeps its file: sanitizePDFName may give two
\* numbers one name, and then the later document replaces the earlier one.
Kept(b) ==
  LET file(k) == PdfName[Number[InvoicesOf[b][k]]]
      last    == {k \in DOMAIN InvoicesOf[b] :
                    \A j \in DOMAIN InvoicesOf[b] : j > k => file(j) # file(k)}
  IN  {InvoicesOf[b][k] : k \in last}

\* Supporting files first: whatever RTS takes, truncated or not, comes with every
\* document of its batch that another of the batch has not replaced, complete and
\* its own, although batches before it may have used the same names.
DocumentsFirst ==
  rts => \A k \in DOMAIN ingested : Kept(ingested[k].batch) \subseteq ingested[k].documents

\* The same where manifests and documents stay in the folder, so that another attempt
\* or another batch may overwrite what is there: the documents are there, and are the
\* batch's, when its manifest appears.
AppearsLast ==
  [][\A b \in Batches :
       /\ CsvName[b] \in DOMAIN folder' \ DOMAIN folder
       /\ folder'[CsvName[b]].of = b
       => Kept(b) \subseteq Documents(b)]_vars

\* "The implementation MUST upload supporting files first and the manifest last"
\* (Provider), so a manifest should come with every document of its batch.  It does
\* not: two numbers may become one file name.
EveryDocument ==
  rts => \A k \in DOMAIN ingested : ingested[k].documents = Rows(ingested[k].batch)

\* RTS never takes a manifest half-written, wherever the connection drops.
NeverTruncated == rts => \A k \in DOMAIN ingested : ingested[k].whole

\* No factor does, Triumph neither: "many factors (Triumph in particular) poll the
\* inbound folder and will pick up a CSV the moment it appears, so a half-uploaded
\* batch fails" (factoring.go).
NoFactorTruncates == \A k \in DOMAIN ingested : ingested[k].whole

\* A batch is funded once.
IngestedOnce ==
  \A j, k \in DOMAIN ingested : ingested[j].batch = ingested[k].batch => j = k

\* No other batch of the company gets the manifest's name: no two uploads start within
\* a second.
OwnName(b) == \A c \in BatchesOf[rts] : CsvName[c] = CsvName[b] => c = b

\* What the caller is told to be done is there, or has been taken; for Triumph, where
\* manifests stay, if no later batch has taken the name.
DoneIsDelivered ==
  \A b \in Batches : pc[b] = "done" =>
    \/ \E k \in DOMAIN ingested : ingested[k].batch = b
    \/ /\ CsvName[b] \in DOMAIN folder
       /\ rts \/ OwnName(b) => folder[CsvName[b]] = [of |-> b, whole |-> TRUE]

\* A delivery to a factor (SubmitBatch): what is done has been delivered, and funded once.
DeliverySound == IngestedOnce /\ DoneIsDelivered

\* The rules of RTS, by which it refuses batches, hold of what it is given.
RulesKept ==
  rts => \A k \in DOMAIN ingested :
    LET b == ingested[k].batch
    IN  /\ Cardinality({Number[i] : i \in Rows(b)}) = Len(InvoicesOf[b])
        /\ Len(InvoicesOf[b]) \in 1 .. MaxRecords
        /\ \A i \in Rows(b) : i \notin Blank /\ i \notin Unpaid

\* What RTS may count on, and types: complete manifests, the documents of the batch
\* that have kept their names, and batches within its rules.
SubmissionsSound == TypeOK /\ DocumentsFirst /\ NeverTruncated /\ RulesKept

\* In the end every batch that could be sent has got to the factor, or its caller knows
\* that an attempt has reached the manifest and a person has to look; for Triumph, if
\* the manifest's name is its own.
EventuallyTaken ==
  <>[](\A b \in BatchesOf[rts] :
         Sendable(b) /\ Acceptable(b) /\ (rts \/ OwnName(b)) =>
           \/ \E k \in DOMAIN ingested : ingested[k].batch = b
           \/ pc[b] = "failed" /\ b \in reached)
=============================================================================
