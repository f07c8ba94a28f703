--------------------------- MODULE FactoringProofs ---------------------------
(***************************************************************************)
(* Theorems about Factoring, for any batches, invoices, rules and number   *)
(* of faults, and for any names: two invoice numbers may become one file   *)
(* name, and two batches may be submitted within a second.                 *)
(***************************************************************************)
EXTENDS Factoring, FiniteSetTheorems, TLAPS

Busy == {"documents", "writing", "manifest", "renaming"}

Row(b, k) == InvoicesOf[b][k]
DocumentName(b, k) == PdfName[Number[Row(b, k)]]

NumbersApart(b) ==
  \A i, j \in DOMAIN InvoicesOf[b] : Number[Row(b, i)] = Number[Row(b, j)] => i = j

\* None of the first m documents of a batch replaces the k-th.
Stands(b, k, m) == \A j \in 1..m : j > k => DocumentName(b, j) # DocumentName(b, k)

Filed(n, x) == n \in DOMAIN folder /\ folder[n] = [of |-> x, whole |-> TRUE]
Begun(n, x) == n \in DOMAIN folder /\ folder[n].of = x

\* The batches whose manifest is in the folder.
Manifest == {b \in Batches : Begun(CsvName[b], b)}

(***************************************************************************)
(* The inductive invariant.                                                *)
(***************************************************************************)
FolderTyped == folder \in [DOMAIN folder -> [of : Batches \cup Invoices, whole : BOOLEAN]]

\* The documents that are uploaded and that none of the first m replaces are there.
Left(b, m) ==
  \A k \in 1..sent[b] : Stands(b, k, m) => Filed(DocumentName(b, k), Row(b, k))

\* What a batch under way has in the folder.
Progress(b) ==
  /\ b \in BatchesOf[rts] /\ Sendable(b) /\ Acceptable(b)
  /\ pc[b] # "writing" => Left(b, sent[b])
  /\ pc[b] = "writing" =>
       /\ sent[b] < Len(InvoicesOf[b]) /\ Begun(DocumentName(b, sent[b] + 1), Row(b, sent[b] + 1))
       /\ Left(b, sent[b] + 1)
  /\ pc[b] \in {"manifest", "renaming"} =>
       sent[b] = Len(InvoicesOf[b]) /\ b \in reached /\ Begun(ManifestName(b), b)
  /\ pc[b] = "renaming" => rts /\ Filed(TempName[b], b)

Uploaded == \A b \in Batches : pc[b] \in Busy => Progress(b)

\* A manifest is that of a batch of its name; where RTS finds one, it is complete, the
\* documents its batch has kept are there, and nothing else is under way.
Standing ==
  /\ \A b \in Batches : CsvName[b] \in DOMAIN folder =>
       \E c \in Batches : CsvName[c] = CsvName[b] /\ folder[CsvName[b]].of = c
  /\ rts => \A b \in Batches : Begun(CsvName[b], b) =>
       /\ folder[CsvName[b]].whole /\ Kept(b) \subseteq Documents(b)
       /\ Sendable(b) /\ Acceptable(b)
       /\ b \in reached /\ pc[b] \in {"failed", "done"}
       /\ \A c \in Batches : pc[c] \in Resting
       /\ \A c \in Batches : CsvName[c] \in DOMAIN folder => CsvName[c] = CsvName[b]

\* What RTS has taken.
Well(take) ==
  /\ take.whole /\ Kept(take.batch) \subseteq take.documents
  /\ Sendable(take.batch) /\ Acceptable(take.batch)

Taken ==
  /\ ingested \in Seq([batch : Batches, whole : BOOLEAN, documents : SUBSET Invoices])
  /\ rts => \A k \in DOMAIN ingested : Well(ingested[k])

IInv == TypeOK /\ FolderTyped /\ Uploaded /\ Standing /\ Taken

\* With a caller that heeds TriggerAndClear: what was taken cannot come again.
NotAgain ==
  \A k \in DOMAIN ingested :
    LET b == ingested[k].batch
    IN IF rts THEN b \in reached /\ pc[b] \in {"failed", "done"} /\ b \notin Manifest
       ELSE CsvName[b] \in taken

OnceInv == NotAgain /\ IngestedOnce /\ DoneIsDelivered

-----------------------------------------------------------------------------
(* What the operations do to the folder.                                   *)

LEMMA TruncatedFolder ==
  ASSUME FolderTyped, NEW n, NEW x \in Batches \cup Invoices, Truncated(n, x)
  PROVE  /\ FolderTyped'
         /\ DOMAIN folder' = DOMAIN folder \cup {n}
         /\ folder'[n] = [of |-> x, whole |-> FALSE]
         /\ \A m \in DOMAIN folder : m # n => folder'[m] = folder[m]
<1>1. DOMAIN folder' = DOMAIN folder \cup {n}
  BY DEF Truncated
<1>2. folder'[n] = [of |-> x, whole |-> FALSE]
  BY DEF Truncated
<1>3. \A m \in DOMAIN folder : m # n => folder'[m] = folder[m]
  BY DEF Truncated
<1>4. FolderTyped'
  BY <1>1 DEF FolderTyped, Truncated
<1> QED BY <1>1, <1>2, <1>3, <1>4

LEMMA ClosedFolder ==
  ASSUME FolderTyped, NEW n, Close(n)
  PROVE  /\ FolderTyped'
         /\ DOMAIN folder' = DOMAIN folder
         /\ n \in DOMAIN folder => folder'[n] = [of |-> folder[n].of, whole |-> TRUE]
         /\ \A m \in DOMAIN folder : m # n => folder'[m] = folder[m]
<1>1. CASE n \notin DOMAIN folder
  BY <1>1 DEF FolderTyped, Close
<1>2. CASE n \in DOMAIN folder
  <2>1. folder' = [folder EXCEPT ![n].whole = TRUE]
    BY <1>2 DEF Close, Written
  <2>2. folder[n] \in [of : Batches \cup Invoices, whole : BOOLEAN]
    BY <1>2 DEF FolderTyped
  <2>3. folder'[n] = [of |-> folder[n].of, whole |-> TRUE]
    BY <1>2, <2>1, <2>2 DEF FolderTyped
  <2>4. DOMAIN folder' = DOMAIN folder /\ \A m \in DOMAIN folder : m # n => folder'[m] = folder[m]
    BY <2>1 DEF FolderTyped
  <2>5. FolderTyped'
    BY <2>1, <2>2, <2>3, <2>4 DEF FolderTyped
  <2> QED BY <2>3, <2>4, <2>5
<1> QED BY <1>1, <1>2

LEMMA RenamedFolder ==
  ASSUME FolderTyped, NEW b \in Batches, Filed(TempName[b], b), CsvName[b] # TempName[b],
         Renamed(b)
  PROVE  /\ FolderTyped'
         /\ DOMAIN folder' = (DOMAIN folder \ {TempName[b]}) \cup {CsvName[b]}
         /\ folder'[CsvName[b]] = [of |-> b, whole |-> TRUE]
         /\ \A m \in DOMAIN folder' : m # CsvName[b] => folder'[m] = folder[m]
<1>1. DOMAIN folder' = (DOMAIN folder \ {TempName[b]}) \cup {CsvName[b]}
  BY DEF Renamed
<1>2. folder'[CsvName[b]] = [of |-> b, whole |-> TRUE]
  BY DEF Renamed, Filed
<1>3. \A m \in DOMAIN folder' : m # CsvName[b] => folder'[m] = folder[m]
  BY DEF Renamed
<1>4. FolderTyped'
  BY <1>1 DEF FolderTyped, Renamed, Filed
<1> QED BY <1>1, <1>2, <1>3, <1>4

-----------------------------------------------------------------------------
(* Facts about the state.                                                  *)

LEMMA RowTyped ==
  ASSUME FactoringAssumption, NEW b \in Batches
  PROVE  /\ InvoicesOf[b] \in Seq(Invoices) /\ Len(InvoicesOf[b]) \in Nat
         /\ DOMAIN InvoicesOf[b] = 1..Len(InvoicesOf[b])
         /\ \A k \in 1..Len(InvoicesOf[b]) : Row(b, k) \in Invoices
         /\ Rows(b) \subseteq Invoices
<1>1. InvoicesOf[b] \in Seq(Invoices)
  BY DEF FactoringAssumption
<1> QED BY <1>1 DEF Row, Rows

LEMMA Alone ==
  ASSUME TypeOK, NEW b \in Batches, NEW c \in Batches, pc[b] \in Busy, pc[c] \in Busy
  PROVE  b = c
<1>1. {pc[b], pc[c]} \cap Resting = {}
  BY DEF Busy, Resting
<1> QED BY <1>1 DEF TypeOK

\* RTS has no manifest before it while a batch is under way.
LEMMA NoManifest ==
  ASSUME IInv, rts, NEW b \in Batches, pc[b] \in Busy
  PROVE  \A c \in Batches : CsvName[c] \notin DOMAIN folder
BY DEF IInv, Standing, Begun, Busy, Resting

\* The documents a batch has kept, in a folder that has each one that no other replaces.
LEMMA KeptDocuments ==
  ASSUME FactoringAssumption, NEW b \in Batches, NEW drop,
         \A k \in 1..Len(InvoicesOf[b]) : Stands(b, k, Len(InvoicesOf[b])) =>
           /\ DocumentName(b, k) \in DOMAIN drop
           /\ drop[DocumentName(b, k)] = [of |-> Row(b, k), whole |-> TRUE]
  PROVE  Kept(b) \subseteq {i \in Rows(b) : /\ PdfName[Number[i]] \in DOMAIN drop
                                         /\ drop[PdfName[Number[i]]] = [of |-> i, whole |-> TRUE]}
<1> SUFFICES ASSUME NEW x \in Kept(b)
             PROVE  /\ x \in Rows(b) /\ PdfName[Number[x]] \in DOMAIN drop
                    /\ drop[PdfName[Number[x]]] = [of |-> x, whole |-> TRUE]
  OBVIOUS
<1>1. DOMAIN InvoicesOf[b] = 1..Len(InvoicesOf[b])
  BY RowTyped
<1>2. PICK k \in DOMAIN InvoicesOf[b] :
        /\ x = InvoicesOf[b][k]
        /\ \A j \in DOMAIN InvoicesOf[b] :
             j > k => PdfName[Number[InvoicesOf[b][j]]] # PdfName[Number[InvoicesOf[b][k]]]
  BY DEF Kept
<1>3. Stands(b, k, Len(InvoicesOf[b]))
  BY <1>1, <1>2 DEF Stands, DocumentName, Row
<1> QED BY <1>1, <1>2, <1>3 DEF Rows, DocumentName, Row

\* Only the batch that moves may be under way.
LEMMA OthersRest ==
  ASSUME TypeOK, NEW b \in Batches, pc[b] \in Busy, NEW place, pc' = [pc EXCEPT ![b] = place],
         place \in Resting \cup Busy
  PROVE  /\ pc' \in [Batches -> Resting \cup Busy]
         /\ \A c \in Batches : pc'[c] \in Busy => c = b
         /\ \A c, d \in Batches : {pc'[c], pc'[d]} \cap Resting = {} => c = d
<1>1. pc \in [Batches -> Resting \cup Busy]
  BY DEF TypeOK, Busy
<1>2. \A c \in Batches : pc'[c] \in Busy => c = b
  BY <1>1, Alone
<1>3. pc' \in [Batches -> Resting \cup Busy]
  BY <1>1
<1>4. \A c, d \in Batches : {pc'[c], pc'[d]} \cap Resting = {} => c = d
  BY <1>2, <1>3
<1> QED BY <1>2, <1>3, <1>4

\* What a step that leaves the folder leaves as it is.
LEMMA RulesStay ==
  ASSUME UNCHANGED rts, NEW b \in Batches
  PROVE  /\ Rows(b)' = Rows(b) /\ Sendable(b)' = Sendable(b) /\ ManifestName(b)' = ManifestName(b)
         /\ Acceptable(b) => Acceptable(b)'
<1>1. Rows(b)' = Rows(b) /\ Sendable(b)' = Sendable(b)
  BY DEF Rows, Sendable
<1>2. ManifestName(b)' = ManifestName(b)
  BY DEF ManifestName
<1>3. Acceptable(b) => Acceptable(b)'
  BY DEF Acceptable, Rows
<1> QED BY <1>1, <1>2, <1>3

LEMMA FolderStays ==
  ASSUME UNCHANGED folder, NEW b \in Batches
  PROVE  /\ FolderTyped => FolderTyped'
         /\ Documents(b)' = Documents(b)
BY DEF FolderTyped, Documents, Rows

LEMMA StandingStays ==
  ASSUME Standing, UNCHANGED <<rts, reached, folder>>,
         \A c \in Batches : pc[c] \in Resting => pc'[c] \in Resting,
         \A c \in Batches : pc[c] \in {"failed", "done"} => pc'[c] \in {"failed", "done"}
  PROVE  Standing'
<1>1. \A b \in Batches : CsvName[b] \in DOMAIN folder' =>
        \E c \in Batches : CsvName[c] = CsvName[b] /\ folder'[CsvName[b]].of = c
  BY DEF Standing
<1>2. ASSUME rts, NEW b \in Batches, Begun(CsvName[b], b)'
      PROVE  /\ folder'[CsvName[b]].whole /\ Kept(b) \subseteq Documents(b)'
             /\ Sendable(b)' /\ Acceptable(b)'
             /\ b \in reached' /\ pc'[b] \in {"failed", "done"}
             /\ \A c \in Batches : pc'[c] \in Resting
             /\ \A c \in Batches : CsvName[c] \in DOMAIN folder' => CsvName[c] = CsvName[b]
  <2>1. Begun(CsvName[b], b)
    BY <1>2 DEF Begun
  <2>2. /\ folder[CsvName[b]].whole /\ Kept(b) \subseteq Documents(b)
        /\ Sendable(b) /\ Acceptable(b)
        /\ b \in reached /\ pc[b] \in {"failed", "done"}
        /\ \A c \in Batches : pc[c] \in Resting
        /\ \A c \in Batches : CsvName[c] \in DOMAIN folder => CsvName[c] = CsvName[b]
    BY <1>2, <2>1 DEF Standing
  <2> QED BY <2>2, RulesStay, FolderStays
<1> QED BY <1>1, <1>2 DEF Standing, Kept

LEMMA TakenStays ==
  ASSUME Taken, UNCHANGED <<rts, ingested>>
  PROVE  Taken'
<1>1. ingested' \in Seq([batch : Batches, whole : BOOLEAN, documents : SUBSET Invoices])
  BY DEF Taken
<1>2. ASSUME rts, NEW k \in DOMAIN ingested
      PROVE  Well(ingested[k])'
  <2>1. Well(ingested[k])
    BY <1>2 DEF Taken
  <2> QED BY <2>1 DEF Well, Kept, Rows, Sendable, Acceptable
<1> QED BY <1>1, <1>2 DEF Taken

\* A step of a batch under way that writes a file which is no manifest.
LEMMA StandingKept ==
  ASSUME IInv, NEW b \in Batches, pc[b] \in Busy, UNCHANGED rts,
         NEW n, \A c \in Batches : n # CsvName[c],
         DOMAIN folder' = DOMAIN folder \cup {n},
         \A m \in DOMAIN folder : m # n => folder'[m] = folder[m]
  PROVE  Standing'
<1>1. CASE rts
  BY <1>1, NoManifest DEF Standing, Begun
<1>2. CASE ~rts
  BY <1>2 DEF IInv, Standing
<1> QED BY <1>1, <1>2

\* One that writes Triumph's manifest.
LEMMA StandingOwn ==
  ASSUME Standing, NEW b \in Batches, ~rts, UNCHANGED rts,
         DOMAIN folder' = DOMAIN folder \cup {CsvName[b]}, folder'[CsvName[b]].of = b,
         \A m \in DOMAIN folder : m # CsvName[b] => folder'[m] = folder[m]
  PROVE  Standing'
<1>1. ASSUME NEW c \in Batches, CsvName[c] \in DOMAIN folder'
      PROVE  \E d \in Batches : CsvName[d] = CsvName[c] /\ folder'[CsvName[c]].of = d
  <2>1. CASE CsvName[c] = CsvName[b]
    BY <2>1
  <2>2. CASE CsvName[c] # CsvName[b]
    BY <1>1, <2>2 DEF Standing
  <2> QED BY <2>1, <2>2
<1> QED BY <1>1 DEF Standing

LEMMA DocumentIsNoManifest ==
  ASSUME FactoringAssumption, NEW b \in Batches, NEW c \in Batches,
         NEW k \in 1..Len(InvoicesOf[b])
  PROVE  DocumentName(b, k) # CsvName[c] /\ DocumentName(b, k) # TempName[c]
BY RowTyped DEF FactoringAssumption, ExtensionsDiffer, DocumentName

-----------------------------------------------------------------------------
(* Every step keeps the invariant.                                         *)

LEMMA Initially ==
  ASSUME FactoringAssumption, Init
  PROVE  IInv
<1> USE DEF Init
<1>1. TypeOK
  <2>1. sent \in [Batches -> Nat] /\ \A b \in Batches : sent[b] <= Len(InvoicesOf[b])
    BY RowTyped
  <2>2. pc \in [Batches -> Resting] /\ \A b, c \in Batches : {pc[b], pc[c]} \cap Resting # {}
    BY DEF Resting
  <2>3. faults \in 0..MaxFaults
    BY DEF FactoringAssumption
  <2>4. pc \in [Batches -> Resting \cup {"documents", "writing", "manifest", "renaming"}]
    BY <2>2
  <2> QED BY <2>1, <2>2, <2>3, <2>4 DEF TypeOK
<1>2. FolderTyped /\ Standing
  BY DEF FolderTyped, Standing, Begun
<1>3. Uploaded
  BY DEF Uploaded, Busy
<1>4. Taken
  BY DEF Taken
<1> QED BY <1>1, <1>2, <1>3, <1>4 DEF IInv

LEMMA RejectKeeps ==
  ASSUME IInv, NEW b \in Batches, Reject(b), UNCHANGED rts
  PROVE  IInv'
<1> USE DEF IInv, Reject
<1>1. TypeOK'
  BY DEF TypeOK, Resting
<1>2. FolderTyped'
  BY FolderStays
<1>3. Uploaded'
  <2> SUFFICES ASSUME NEW c \in Batches, pc'[c] \in Busy
               PROVE  Progress(c)'
    BY DEF Uploaded
  <2>1. pc[c] = pc'[c]
    BY DEF TypeOK, Busy, Resting
  <2>2. Progress(c)
    BY <2>1 DEF Uploaded
  <2> QED BY <2>1, <2>2, RulesStay DEF Progress, Left, Stands, Filed, Begun, Row, DocumentName
<1>4. Standing'
  <2>1. \A c \in Batches : pc[c] \in Resting => pc'[c] \in Resting
    BY DEF Resting, TypeOK
  <2>2. \A c \in Batches : pc[c] \in {"failed", "done"} => pc'[c] \in {"failed", "done"}
    BY DEF TypeOK
  <2> QED BY <2>1, <2>2, StandingStays
<1>5. Taken'
  BY TakenStays
<1> QED BY <1>1, <1>2, <1>3, <1>4, <1>5

LEMMA ConnectKeeps ==
  ASSUME FactoringAssumption, IInv, NEW b \in Batches, Connect(b), UNCHANGED rts
  PROVE  IInv'
<1> USE DEF IInv, Connect
<1>1. \A c \in Batches : pc'[c] \in Busy => c = b
  BY DEF TypeOK, Busy, Resting
<1>2. TypeOK'
  <2>1. pc' \in [Batches -> Resting \cup {"documents", "writing", "manifest", "renaming"}]
    BY DEF TypeOK
  <2>2. \A c, d \in Batches : {pc'[c], pc'[d]} \cap Resting = {} => c = d
    BY <1>1, <2>1 DEF Busy
  <2>3. sent' \in [Batches -> Nat] /\ \A c \in Batches : sent'[c] <= Len(InvoicesOf[c])
    BY RowTyped DEF TypeOK
  <2> QED BY <2>1, <2>2, <2>3 DEF TypeOK
<1>3. FolderTyped'
  BY FolderStays
<1>4. Uploaded'
  <2>1. pc'[b] = "documents"
    BY DEF TypeOK
  <2>2. sent'[b] = 0
    BY DEF TypeOK
  <2>3. Progress(b)'
    BY <2>1, <2>2, RulesStay DEF Progress, Left
  <2> QED BY <1>1, <2>3 DEF Uploaded
<1>5. Standing'
  <2>1. CASE rts
    BY <2>1 DEF Spaced, Standing, Begun
  <2>2. CASE ~rts
    BY <2>2 DEF Standing
  <2> QED BY <2>1, <2>2
<1>6. Taken'
  BY TakenStays
<1> QED BY <1>2, <1>3, <1>4, <1>5, <1>6

LEMMA FailKeeps ==
  ASSUME FactoringAssumption, IInv, NEW b \in Batches, Fail(b)
  PROVE  IInv'
<1> USE DEF IInv, Fail
<1>1. pc[b] \in Busy
  BY DEF TypeOK, Busy, Resting
<1>2. /\ pc' \in [Batches -> Resting \cup Busy]
      /\ \A c \in Batches : pc'[c] \in Busy => c = b
      /\ \A c, d \in Batches : {pc'[c], pc'[d]} \cap Resting = {} => c = d
  BY <1>1, OthersRest DEF Resting
<1>3. \A c \in Batches : pc'[c] \notin Busy
  <2>1. pc'[b] = "failed"
    BY DEF TypeOK
  <2> QED BY <1>2, <2>1 DEF Busy
<1>4. TypeOK'
  <2>1. faults' \in 0..MaxFaults
    BY DEF TypeOK, FactoringAssumption
  <2> QED BY <1>2, <2>1 DEF TypeOK, Busy
<1>5. FolderTyped'
  BY FolderStays
<1>6. Uploaded'
  BY <1>3 DEF Uploaded
<1>7. Standing'
  <2>1. CASE rts
    BY <1>1, <2>1, NoManifest DEF Standing, Begun
  <2>2. CASE ~rts
    BY <2>2 DEF Standing
  <2> QED BY <2>1, <2>2
<1>8. Taken'
  BY TakenStays
<1> QED BY <1>4, <1>5, <1>6, <1>7, <1>8

LEMMA OpenDocumentKeeps ==
  ASSUME FactoringAssumption, IInv, NEW b \in Batches, OpenDocument(b), UNCHANGED rts
  PROVE  IInv'
<1> DEFINE k == sent[b] + 1
           n == DocumentName(b, k)
<1> USE DEF IInv
<1>1. /\ pc[b] \in Busy /\ pc' = [pc EXCEPT ![b] = "writing"] /\ "writing" \in Resting \cup Busy
      /\ sent[b] < Len(InvoicesOf[b]) /\ UNCHANGED <<sent, reached, taken, ingested, faults>>
  BY DEF OpenDocument, Busy
<1>2. k \in 1..Len(InvoicesOf[b]) /\ sent[b] \in Nat /\ sent[b] <= Len(InvoicesOf[b])
  BY <1>1, RowTyped DEF TypeOK
<1>3. Row(b, k) \in Batches \cup Invoices /\ Truncated(n, Row(b, k))
  BY <1>2, RowTyped DEF OpenDocument, DocumentName, Row
<1> HIDE DEF n, k
<1>4. /\ FolderTyped' /\ DOMAIN folder' = DOMAIN folder \cup {n}
      /\ folder'[n] = [of |-> Row(b, k), whole |-> FALSE]
      /\ \A m \in DOMAIN folder : m # n => folder'[m] = folder[m]
  BY <1>3, TruncatedFolder
<1>5. /\ pc' \in [Batches -> Resting \cup Busy]
      /\ \A c \in Batches : pc'[c] \in Busy => c = b
      /\ \A c, d \in Batches : {pc'[c], pc'[d]} \cap Resting = {} => c = d
  BY <1>1, OthersRest
<1>6. TypeOK'
  BY <1>1, <1>4, <1>5 DEF TypeOK, Busy, FolderTyped
<1>7. Progress(b)'
  <2>1. Progress(b)
    BY <1>1 DEF Uploaded
  <2>2. pc'[b] = "writing"
    BY <1>1 DEF TypeOK
  <2>3. Begun(DocumentName(b, k), Row(b, k))'
    <3>1. sent'[b] = sent[b]
      BY <1>1
    <3>2. n \in DOMAIN folder' /\ folder'[n].of = Row(b, k)
      BY <1>4
    <3> QED BY <3>1, <3>2 DEF Begun, Row, DocumentName, k, n
  <2>4. ASSUME NEW j \in 1..sent[b], Stands(b, j, k)
        PROVE  Filed(DocumentName(b, j), Row(b, j))'
    <3>1. DocumentName(b, j) # n
      BY <1>2, <2>4 DEF Stands, k, n
    <3>2. Stands(b, j, sent[b])
      BY <1>2, <2>4 DEF Stands, k
    <3>3. Filed(DocumentName(b, j), Row(b, j))
      BY <2>1, <3>2 DEF Progress, Left, OpenDocument
    <3> QED BY <1>4, <3>1, <3>3 DEF Filed, DocumentName, Row
  <2>5. Left(b, sent[b] + 1)'
    BY <1>1, <2>4 DEF Left, Stands, Row, DocumentName, k
  <2> QED BY <1>1, <2>1, <2>2, <2>3, <2>5, RulesStay
          DEF Progress, Row, DocumentName, k, n
<1>8. Uploaded'
  BY <1>5, <1>7 DEF Uploaded
<1>9. Standing'
  <2>1. \A c \in Batches : n # CsvName[c]
    BY <1>2, DocumentIsNoManifest DEF n
  <2> QED BY <1>1, <1>4, <2>1, StandingKept
<1>10. Taken'
  BY <1>1, TakenStays
<1> QED BY <1>4, <1>6, <1>8, <1>9, <1>10

LEMMA WriteDocumentKeeps ==
  ASSUME FactoringAssumption, IInv, NEW b \in Batches, WriteDocument(b), UNCHANGED rts
  PROVE  IInv'
<1> DEFINE k == sent[b] + 1
           n == DocumentName(b, k)
<1> USE DEF IInv
<1>1. /\ pc[b] \in Busy /\ pc' = [pc EXCEPT ![b] = "documents"] /\ "documents" \in Resting \cup Busy
      /\ sent' = [sent EXCEPT ![b] = @ + 1] /\ UNCHANGED <<reached, taken, ingested, faults>>
  BY DEF WriteDocument, Busy
<1>2. Progress(b)
  BY <1>1 DEF Uploaded
<1>3. sent[b] < Len(InvoicesOf[b]) /\ Begun(DocumentName(b, sent[b] + 1), Row(b, sent[b] + 1))
  BY <1>2 DEF WriteDocument, Progress
<1>4. k \in 1..Len(InvoicesOf[b]) /\ sent[b] \in Nat
  BY <1>3, RowTyped DEF TypeOK
<1>5. Close(n) /\ n \in DOMAIN folder /\ folder[n].of = Row(b, k)
  BY <1>3 DEF WriteDocument, DocumentName, Row, Begun
<1>6. sent'[b] = k /\ sent' \in [Batches -> Nat] /\ \A c \in Batches : c # b => sent'[c] = sent[c]
  BY <1>1, <1>4 DEF TypeOK
<1> HIDE DEF n, k
<1>7. /\ FolderTyped' /\ DOMAIN folder' = DOMAIN folder \cup {n}
      /\ folder'[n] = [of |-> Row(b, k), whole |-> TRUE]
      /\ \A m \in DOMAIN folder : m # n => folder'[m] = folder[m]
  BY <1>5, ClosedFolder
<1>8. /\ pc' \in [Batches -> Resting \cup Busy]
      /\ \A c \in Batches : pc'[c] \in Busy => c = b
      /\ \A c, d \in Batches : {pc'[c], pc'[d]} \cap Resting = {} => c = d
  BY <1>1, OthersRest
<1>9. TypeOK'
  <2>1. sent'[b] <= Len(InvoicesOf[b])
    BY <1>3, <1>4, <1>6, RowTyped DEF k
  <2>2. \A c \in Batches : sent'[c] <= Len(InvoicesOf[c])
    BY <1>6, <2>1 DEF TypeOK
  <2> QED BY <1>1, <1>6, <1>7, <1>8, <2>2 DEF TypeOK, Busy, FolderTyped
<1>10. Progress(b)'
  <2>1. pc'[b] = "documents"
    BY <1>1 DEF TypeOK
  <2>2. ASSUME NEW j \in 1..k, Stands(b, j, k)
        PROVE  DocumentName(b, j) \in DOMAIN folder' /\
               folder'[DocumentName(b, j)] = [of |-> Row(b, j), whole |-> TRUE]
    <3>1. CASE j = k
      BY <1>7, <3>1 DEF n
    <3>2. CASE j # k
      <4>1. j \in 1..sent[b]
        BY <1>4, <3>2, RowTyped DEF k
      <4>2. DocumentName(b, j) # n
        BY <1>4, <2>2, <4>1 DEF Stands, k, n
      <4>3. Filed(DocumentName(b, j), Row(b, j))
        BY <1>2, <2>2, <4>1 DEF Progress, Left, WriteDocument, k
      <4> QED BY <1>7, <4>2, <4>3 DEF Filed
    <3> QED BY <3>1, <3>2
  <2>3. Left(b, sent[b])'
    BY <1>6, <2>2 DEF Left, Stands, Row, DocumentName, Filed
  <2> QED BY <1>2, <2>1, <2>3, RulesStay DEF Progress
<1>11. Uploaded'
  BY <1>8, <1>10 DEF Uploaded
<1>12. Standing'
  <2>1. \A c \in Batches : n # CsvName[c]
    BY <1>4, DocumentIsNoManifest DEF n
  <2> QED BY <1>1, <1>7, <2>1, StandingKept
<1>13. Taken'
  BY <1>1, TakenStays
<1> QED BY <1>7, <1>9, <1>11, <1>12, <1>13

LEMMA OpenManifestKeeps ==
  ASSUME FactoringAssumption, IInv, NEW b \in Batches, OpenManifest(b), UNCHANGED rts
  PROVE  IInv'
<1> DEFINE n == ManifestName(b)
<1> USE DEF IInv
<1>1. /\ pc[b] \in Busy /\ pc' = [pc EXCEPT ![b] = "manifest"] /\ "manifest" \in Resting \cup Busy
      /\ sent[b] = Len(InvoicesOf[b]) /\ reached' = reached \cup {b}
      /\ Truncated(n, b) /\ UNCHANGED <<sent, taken, ingested, faults>>
  BY DEF OpenManifest, Busy
<1>2. n' = n /\ (rts => n = TempName[b]) /\ (~rts => n = CsvName[b])
  BY DEF ManifestName
<1>3. Progress(b)
  BY <1>1 DEF Uploaded
<1> HIDE DEF n
<1>4. /\ FolderTyped' /\ DOMAIN folder' = DOMAIN folder \cup {n}
      /\ folder'[n] = [of |-> b, whole |-> FALSE]
      /\ \A m \in DOMAIN folder : m # n => folder'[m] = folder[m]
  BY <1>1, TruncatedFolder
<1>5. /\ pc' \in [Batches -> Resting \cup Busy]
      /\ \A c \in Batches : pc'[c] \in Busy => c = b
      /\ \A c, d \in Batches : {pc'[c], pc'[d]} \cap Resting = {} => c = d
  BY <1>1, OthersRest
<1>6. TypeOK'
  BY <1>1, <1>4, <1>5 DEF TypeOK, Busy, FolderTyped
<1>7. Progress(b)'
  <2>1. pc'[b] = "manifest"
    BY <1>1 DEF TypeOK
  <2>2. ASSUME NEW j \in 1..sent[b], Stands(b, j, sent[b])
        PROVE  Filed(DocumentName(b, j), Row(b, j))'
    <3>1. Filed(DocumentName(b, j), Row(b, j))
      BY <1>3, <2>2 DEF Progress, Left, OpenManifest
    <3>2. DocumentName(b, j) # n
      BY <1>1, <1>2, DocumentIsNoManifest
    <3> QED BY <1>4, <3>1, <3>2 DEF Filed, DocumentName, Row
  <2>3. Left(b, sent[b])'
    BY <1>1, <2>2 DEF Left, Stands, DocumentName, Row
  <2>4. Begun(ManifestName(b), b)'
    <3>1. n \in DOMAIN folder' /\ folder'[n].of = b
      BY <1>4
    <3> QED BY <1>2, <3>1 DEF Begun, n
  <2> QED BY <1>1, <1>3, <2>1, <2>3, <2>4, RulesStay DEF Progress
<1>8. Uploaded'
  BY <1>5, <1>7 DEF Uploaded
<1>9. Standing'
  <2>1. CASE rts
    <3>1. \A c \in Batches : n # CsvName[c]
      BY <1>2, <2>1 DEF FactoringAssumption, ExtensionsDiffer
    <3> QED BY <1>1, <1>4, <3>1, StandingKept
  <2>2. CASE ~rts
    BY <1>2, <1>4, <2>2, StandingOwn
  <2> QED BY <2>1, <2>2
<1>10. Taken'
  BY <1>1, TakenStays
<1> QED BY <1>4, <1>6, <1>8, <1>9, <1>10

LEMMA WriteManifestKeeps ==
  ASSUME FactoringAssumption, IInv, NEW b \in Batches, WriteManifest(b), UNCHANGED rts
  PROVE  IInv'
<1> DEFINE n == ManifestName(b)
           place == IF rts THEN "renaming" ELSE "done"
<1> USE DEF IInv
<1>1. /\ pc[b] \in Busy /\ pc[b] = "manifest" /\ pc' = [pc EXCEPT ![b] = place]
      /\ place \in Resting \cup Busy
      /\ Close(n) /\ UNCHANGED <<sent, reached, taken, ingested, faults>>
  BY DEF WriteManifest, Busy, Resting
<1>2. n' = n /\ (rts => n = TempName[b]) /\ (~rts => n = CsvName[b])
  BY DEF ManifestName
<1>3. Progress(b)
  BY <1>1 DEF Uploaded
<1>4. n \in DOMAIN folder /\ folder[n].of = b /\ sent[b] = Len(InvoicesOf[b]) /\ b \in reached
  BY <1>1, <1>3 DEF Progress, Begun
<1>5. pc'[b] = place
  BY <1>1 DEF TypeOK
<1> HIDE DEF n
<1>6. /\ FolderTyped' /\ DOMAIN folder' = DOMAIN folder \cup {n}
      /\ folder'[n] = [of |-> b, whole |-> TRUE]
      /\ \A m \in DOMAIN folder : m # n => folder'[m] = folder[m]
  BY <1>1, <1>4, ClosedFolder
<1>7. /\ pc' \in [Batches -> Resting \cup Busy]
      /\ \A c \in Batches : pc'[c] \in Busy => c = b
      /\ \A c, d \in Batches : {pc'[c], pc'[d]} \cap Resting = {} => c = d
  <2> HIDE DEF place
  <2> QED BY <1>1, OthersRest
<1>8. TypeOK'
  BY <1>1, <1>6, <1>7 DEF TypeOK, Busy, FolderTyped
<1>9. Uploaded'
  <2>1. CASE rts
    <3>1. ASSUME NEW j \in 1..sent[b], Stands(b, j, sent[b])
          PROVE  Filed(DocumentName(b, j), Row(b, j))'
      <4>1. Filed(DocumentName(b, j), Row(b, j))
        BY <1>1, <1>3, <3>1 DEF Progress, Left
      <4>2. DocumentName(b, j) # n
        BY <1>2, <1>4, DocumentIsNoManifest
      <4> QED BY <1>6, <4>1, <4>2 DEF Filed, DocumentName, Row
    <3>2. Left(b, sent[b])'
      BY <1>1, <3>1 DEF Left, Stands, DocumentName, Row
    <3>3. Filed(TempName[b], b)' /\ Begun(ManifestName(b), b)'
      <4>1. n \in DOMAIN folder' /\ folder'[n].of = b
        BY <1>6
      <4>2. TempName[b] \in DOMAIN folder' /\ folder'[TempName[b]] = [of |-> b, whole |-> TRUE]
        BY <1>2, <1>6, <2>1
      <4> QED BY <1>2, <4>1, <4>2 DEF Begun, Filed, n
    <3>4. pc'[b] = "renaming"
      BY <1>5, <2>1
    <3>5. Progress(b)'
      BY <1>1, <1>3, <1>4, <2>1, <3>2, <3>3, <3>4, RulesStay DEF Progress
    <3> QED BY <1>7, <3>5 DEF Uploaded
  <2>2. CASE ~rts
    <3>1. pc'[b] \notin Busy
      BY <1>5, <2>2 DEF Busy
    <3> QED BY <1>7, <3>1 DEF Uploaded
  <2> QED BY <2>1, <2>2
<1>10. Standing'
  <2>1. CASE rts
    <3>1. \A c \in Batches : n # CsvName[c]
      BY <1>2, <2>1 DEF FactoringAssumption, ExtensionsDiffer
    <3> QED BY <1>1, <1>6, <3>1, StandingKept
  <2>2. CASE ~rts
    BY <1>2, <1>6, <2>2, StandingOwn
  <2> QED BY <2>1, <2>2
<1>11. Taken'
  BY <1>1, TakenStays
<1> QED BY <1>6, <1>8, <1>9, <1>10, <1>11

LEMMA RenameKeeps ==
  ASSUME FactoringAssumption, IInv, NEW b \in Batches, Rename(b), UNCHANGED rts
  PROVE  IInv'
<1> USE DEF IInv
<1>1. /\ pc[b] \in Busy /\ pc[b] = "renaming" /\ Renamed(b)
      /\ UNCHANGED <<sent, reached, taken, ingested>>
  BY DEF Rename, Busy
<1>2. Progress(b)
  BY <1>1 DEF Uploaded
<1>3. /\ rts /\ Filed(TempName[b], b) /\ sent[b] = Len(InvoicesOf[b]) /\ b \in reached
      /\ Sendable(b) /\ Acceptable(b)
  BY <1>1, <1>2 DEF Progress
<1>4. PICK place \in {"done", "failed"} : pc' = [pc EXCEPT ![b] = place]
  BY DEF Rename
<1>5. pc'[b] \in {"failed", "done"}
  BY <1>4 DEF TypeOK
<1>6. /\ FolderTyped' /\ DOMAIN folder' = (DOMAIN folder \ {TempName[b]}) \cup {CsvName[b]}
      /\ folder'[CsvName[b]] = [of |-> b, whole |-> TRUE]
      /\ \A m \in DOMAIN folder' : m # CsvName[b] => folder'[m] = folder[m]
  <2>1. CsvName[b] # TempName[b]
    BY DEF FactoringAssumption, ExtensionsDiffer
  <2> QED BY <1>1, <1>3, <2>1, RenamedFolder
<1>7. /\ pc' \in [Batches -> Resting \cup Busy]
      /\ \A c \in Batches : pc'[c] \in Busy => c = b
      /\ \A c, d \in Batches : {pc'[c], pc'[d]} \cap Resting = {} => c = d
  <2>1. place \in Resting \cup Busy
    BY <1>4 DEF Resting
  <2> QED BY <1>1, <1>4, <2>1, OthersRest
<1>8. \A c \in Batches : pc'[c] \notin Busy
  BY <1>5, <1>7 DEF Busy
<1>9. TypeOK'
  <2>1. faults' \in 0..MaxFaults
    BY DEF Rename, TypeOK, FactoringAssumption
  <2> QED BY <1>1, <1>6, <1>7, <2>1 DEF TypeOK, Busy, FolderTyped
<1>10. Uploaded'
  BY <1>8 DEF Uploaded
<1>11. Standing'
  <2>1. \A c \in Batches : CsvName[c] \in DOMAIN folder' => CsvName[c] = CsvName[b]
    BY <1>1, <1>3, <1>6, NoManifest
  <2>2. \A c \in Batches : pc'[c] \in Resting
    BY <1>7, <1>8
  <2>3. ASSUME NEW k \in 1..Len(InvoicesOf[b]), Stands(b, k, Len(InvoicesOf[b]))
        PROVE  DocumentName(b, k) \in DOMAIN folder' /\
               folder'[DocumentName(b, k)] = [of |-> Row(b, k), whole |-> TRUE]
    <3>1. Filed(DocumentName(b, k), Row(b, k))
      BY <1>1, <1>2, <1>3, <2>3 DEF Progress, Left
    <3>2. DocumentName(b, k) # CsvName[b] /\ DocumentName(b, k) # TempName[b]
      BY DocumentIsNoManifest
    <3> QED BY <1>6, <3>1, <3>2 DEF Filed
  <2>4. Kept(b) \subseteq Documents(b)'
    BY <2>3, KeptDocuments DEF Documents, Rows
  <2>5. Sendable(b)' /\ Acceptable(b)'
    BY <1>3, RulesStay
  <2>6. \A c \in Batches : Begun(CsvName[c], c)' => c = b
    BY <1>6, <2>1 DEF Begun
  <2> QED BY <1>1, <1>3, <1>5, <1>6, <2>1, <2>2, <2>4, <2>5, <2>6 DEF Standing
<1>12. Taken'
  BY <1>1, TakenStays
<1> QED BY <1>6, <1>9, <1>10, <1>11, <1>12

LEMMA DocumentsTyped ==
  ASSUME FactoringAssumption, NEW b \in Batches
  PROVE  Documents(b) \in SUBSET Invoices
BY RowTyped DEF Documents

LEMMA PollKeeps ==
  ASSUME FactoringAssumption, IInv, NEW b \in Batches, Poll(b)
  PROVE  IInv'
<1> DEFINE take == [batch |-> b, whole |-> folder[CsvName[b]].whole, documents |-> Documents(b)]
<1> USE DEF IInv
<1>1. /\ Begun(CsvName[b], b) /\ ingested' = Append(ingested, take)
      /\ UNCHANGED <<rts, pc, sent, reached, faults>>
      /\ rts => folder' = [n \in {} |-> 0]
      /\ ~rts => UNCHANGED folder
  BY DEF Poll, Begun
<1>2. FolderTyped'
  <2>1. CASE rts
    BY <1>1, <2>1 DEF FolderTyped
  <2>2. CASE ~rts
    BY <1>1, <2>2, FolderStays
  <2> QED BY <2>1, <2>2
<1>3. TypeOK'
  BY <1>1, <1>2 DEF TypeOK, FolderTyped
<1>4. Uploaded'
  <2>1. CASE rts
    BY <1>1, <2>1, NoManifest DEF Uploaded, Begun
  <2>2. CASE ~rts
    <3> SUFFICES ASSUME NEW c \in Batches, pc'[c] \in Busy
                 PROVE  Progress(c)'
      BY DEF Uploaded
    <3>1. Progress(c)
      BY <1>1 DEF Uploaded
    <3> QED BY <1>1, <2>2, <3>1, RulesStay
            DEF Progress, Left, Stands, Filed, Begun, Row, DocumentName
  <2> QED BY <2>1, <2>2
<1>5. Standing'
  <2>1. CASE rts
    BY <1>1, <2>1 DEF Standing, Begun
  <2>2. CASE ~rts
    BY <1>1, <2>2 DEF Standing
  <2> QED BY <2>1, <2>2
<1>6. Taken'
  <2> DEFINE Takes == [batch : Batches, whole : BOOLEAN, documents : SUBSET Invoices]
  <2>1. take \in Takes
    BY <1>1, DocumentsTyped DEF FolderTyped, Begun
  <2>2. ingested \in Seq(Takes)
    BY DEF Taken
  <2> HIDE DEF Takes, take
  <2>3. /\ ingested' \in Seq(Takes) /\ Len(ingested') = Len(ingested) + 1
        /\ \A k \in DOMAIN ingested : ingested'[k] = ingested[k]
        /\ ingested'[Len(ingested) + 1] = take
        /\ DOMAIN ingested' = DOMAIN ingested \cup {Len(ingested) + 1}
    BY <1>1, <2>1, <2>2
  <2>4. ASSUME rts, NEW k \in DOMAIN ingested'
        PROVE  Well(ingested[k])'
    <3>1. CASE k \in DOMAIN ingested
      <4>1. Well(ingested[k]) /\ ingested'[k] = ingested[k]
        BY <2>3, <2>4, <3>1 DEF Taken
      <4> QED BY <1>1, <4>1 DEF Well, Rows, Sendable, Acceptable
    <3>2. CASE k = Len(ingested) + 1
      <4>1. /\ folder[CsvName[b]].whole /\ Kept(b) \subseteq Documents(b)
            /\ Sendable(b) /\ Acceptable(b)
        BY <1>1, <2>4 DEF Standing
      <4>2. Well(take) /\ ingested'[k] = take
        BY <2>3, <3>2, <4>1 DEF Well, take
      <4> QED BY <1>1, <4>2 DEF Well, Rows, Sendable, Acceptable
    <3> QED BY <2>3, <2>4, <3>1, <3>2
  <2>5. rts => \A k \in DOMAIN ingested' : Well(ingested[k])'
    BY <2>4
  <2>6. ingested' \in Seq([batch : Batches, whole : BOOLEAN, documents : SUBSET Invoices])
    BY <2>3 DEF Takes
  <2> QED BY <1>1, <2>5, <2>6 DEF Taken
<1> QED BY <1>2, <1>3, <1>4, <1>5, <1>6

LEMMA StutterKeeps ==
  ASSUME IInv, UNCHANGED vars
  PROVE  IInv'
<1> USE DEF IInv, vars
<1>1. TypeOK'
  BY DEF TypeOK
<1>2. FolderTyped'
  BY DEF FolderTyped
<1>3. Uploaded'
  <2> SUFFICES ASSUME NEW c \in Batches, pc'[c] \in Busy
               PROVE  Progress(c)'
    BY DEF Uploaded
  <2>1. Progress(c)
    BY DEF Uploaded
  <2> QED BY <2>1, RulesStay DEF Progress, Left, Stands, Filed, Begun, Row, DocumentName
<1>4. Standing'
  BY StandingStays
<1>5. Taken'
  BY TakenStays
<1> QED BY <1>1, <1>2, <1>3, <1>4, <1>5

LEMMA NextKeeps ==
  ASSUME FactoringAssumption, IInv, [Next]_vars
  PROVE  IInv'
<1>1. ASSUME NEW b \in Batches, Submit(b)
      PROVE  IInv'
  <2> USE <1>1 DEF Submit
  <2>1. CASE Reject(b)
    BY <2>1, RejectKeeps
  <2>2. CASE Connect(b)
    BY <2>2, ConnectKeeps
  <2>3. CASE OpenDocument(b)
    BY <2>3, OpenDocumentKeeps
  <2>4. CASE WriteDocument(b)
    BY <2>4, WriteDocumentKeeps
  <2>5. CASE OpenManifest(b)
    BY <2>5, OpenManifestKeeps
  <2>6. CASE WriteManifest(b)
    BY <2>6, WriteManifestKeeps
  <2>7. CASE Rename(b)
    BY <2>7, RenameKeeps
  <2> QED BY <2>1, <2>2, <2>3, <2>4, <2>5, <2>6, <2>7
<1>2. CASE UNCHANGED vars
  BY <1>2, StutterKeeps
<1> QED BY <1>1, <1>2, FailKeeps, PollKeeps DEF Next

\* The invariant of submissions.
THEOREM Invariant ==
  ASSUME FactoringAssumption
  PROVE  Spec => []IInv
<1>1. Init => IInv
  BY Initially
<1>2. IInv /\ [Next]_vars => IInv'
  BY NextKeeps
<1> QED BY <1>1, <1>2, PTL DEF Spec

-----------------------------------------------------------------------------
(* What RTS may count on.                                                  *)

\* Numbers that are apart are as many as the rows.
LEMMA AsManyNumbers ==
  ASSUME FactoringAssumption, NEW b \in Batches, NumbersApart(b)
  PROVE  Cardinality({Number[i] : i \in Rows(b)}) = Len(InvoicesOf[b])
<1> DEFINE n == Len(InvoicesOf[b])
           numbers == {Number[i] : i \in Rows(b)}
           f == [k \in 1..n |-> Number[Row(b, k)]]
<1>1. n \in Nat /\ DOMAIN InvoicesOf[b] = 1..n
  BY RowTyped
<1>2. f \in Bijection(1..n, numbers)
  <2>1. f \in [1..n -> numbers]
    BY <1>1 DEF Rows, Row
  <2>2. \A j, k \in 1..n : f[j] = f[k] => j = k
    BY <1>1 DEF NumbersApart
  <2>3. \A x \in numbers : \E k \in 1..n : f[k] = x
    BY <1>1 DEF Rows, Row
  <2> QED BY <2>1, <2>2, <2>3 DEF Bijection, Injection, Surjection, IsInjective
<1> HIDE DEF n, numbers, f
<1>3. IsFiniteSet(1..n) /\ Cardinality(1..n) = n
  BY <1>1, FS_Interval
<1>4. Cardinality(numbers) = n
  BY <1>2, <1>3, FS_Bijection DEF ExistsBijection
<1> QED BY <1>4 DEF n, numbers

LEMMA Sound ==
  ASSUME FactoringAssumption, IInv
  PROVE  SubmissionsSound
<1>1. ASSUME rts, NEW k \in DOMAIN ingested
      PROVE  /\ ingested[k].batch \in Batches /\ Well(ingested[k])
             /\ NumbersApart(ingested[k].batch)
  <2> DEFINE Takes == [batch : Batches, whole : BOOLEAN, documents : SUBSET Invoices]
  <2>1. ingested[k].batch \in Batches
    <3>1. ingested \in Seq(Takes)
      BY DEF IInv, Taken
    <3> HIDE DEF Takes
    <3>2. ingested[k] \in Takes
      BY <1>1, <3>1
    <3> QED BY <3>2 DEF Takes
  <2>2. Well(ingested[k])
    BY <1>1 DEF IInv, Taken
  <2> QED BY <1>1, <2>1, <2>2 DEF Well, Acceptable, NumbersApart, Row
<1>2. DocumentsFirst /\ NeverTruncated
  BY <1>1 DEF DocumentsFirst, NeverTruncated, Well
<1>3. RulesKept
  <2> SUFFICES ASSUME rts, NEW k \in DOMAIN ingested
               PROVE  LET b == ingested[k].batch
                      IN  /\ Cardinality({Number[i] : i \in Rows(b)}) = Len(InvoicesOf[b])
                          /\ Len(InvoicesOf[b]) \in 1 .. MaxRecords
                          /\ \A i \in Rows(b) : i \notin Blank /\ i \notin Unpaid
    BY DEF RulesKept
  <2> DEFINE b == ingested[k].batch
  <2>1. b \in Batches /\ NumbersApart(b) /\ Sendable(b) /\ Acceptable(b)
    BY <1>1 DEF Well
  <2> HIDE DEF b
  <2>2. Cardinality({Number[i] : i \in Rows(b)}) = Len(InvoicesOf[b])
    BY <2>1, AsManyNumbers
  <2>3. Len(InvoicesOf[b]) \in 1..MaxRecords
    BY <2>1, RowTyped DEF Sendable, Acceptable, FactoringAssumption
  <2>4. \A i \in Rows(b) : i \notin Blank /\ i \notin Unpaid
    BY <2>1 DEF Acceptable
  <2> QED BY <2>2, <2>3, <2>4 DEF b
<1> QED BY <1>2, <1>3 DEF SubmissionsSound, IInv

\* Whatever RTS takes is complete, with the documents its batch has kept, and within
\* its rules.
THEOREM Submissions ==
  ASSUME FactoringAssumption
  PROVE  Spec => []SubmissionsSound
BY Invariant, Sound, PTL

-----------------------------------------------------------------------------
(* A batch is funded once, when the caller heeds TriggerAndClear.          *)

\* What a caller whose batch is done can count on.
Delivered(b) ==
  CsvName[b] \in DOMAIN folder /\ (rts \/ OwnName(b) => Filed(CsvName[b], b))

\* What an upload and its end do to the manifests in the folder.
LEMMA Manifests ==
  ASSUME FactoringAssumption, IInv, NEW b \in Batches, Submit(b) \/ Fail(b)
  PROVE  /\ \A c \in Batches : Begun(CsvName[c], c)' =>
              Begun(CsvName[c], c) \/ (c = b /\ pc[b] \in Busy)
         /\ \A c \in Batches : pc[c] \notin Busy /\ Delivered(c) => Delivered(c)'
         /\ pc'[b] = "done" => Filed(CsvName[b], b)'
<1> USE DEF IInv
<1>0. UNCHANGED rts /\ \A c \in Batches : OwnName(c)' = OwnName(c)
  BY DEF Submit, Fail, OwnName
<1>1. ASSUME UNCHANGED folder
      PROVE  \A c \in Batches : /\ Begun(CsvName[c], c) <=> Begun(CsvName[c], c)'
                                /\ Delivered(c) => Delivered(c)'
  BY <1>0, <1>1 DEF Filed, Begun, Delivered
<1>2. ASSUME NEW n, \A c \in Batches : n # CsvName[c],
             DOMAIN folder' = DOMAIN folder \cup {n},
             \A m \in DOMAIN folder : m # n => folder'[m] = folder[m]
      PROVE  \A c \in Batches : /\ Begun(CsvName[c], c)' => Begun(CsvName[c], c)
                                /\ Delivered(c) => Delivered(c)'
  BY <1>0, <1>2 DEF Filed, Begun, Delivered
<1>3. CASE Reject(b) \/ Connect(b) \/ Fail(b)
  <2>1. UNCHANGED folder /\ pc'[b] # "done"
    BY <1>3 DEF Reject, Connect, Fail, TypeOK
  <2> QED BY <1>1, <2>1
<1>4. CASE OpenDocument(b) \/ WriteDocument(b)
  <2> DEFINE k == sent[b] + 1
             n == DocumentName(b, k)
  <2>1. pc[b] \in Busy /\ pc'[b] # "done"
    BY <1>4 DEF OpenDocument, WriteDocument, TypeOK, Busy
  <2>2. Progress(b)
    BY <2>1 DEF Uploaded
  <2>3. k \in 1..Len(InvoicesOf[b])
    BY <1>4, <2>2, RowTyped DEF OpenDocument, WriteDocument, Progress, TypeOK
  <2>4. \A c \in Batches : n # CsvName[c]
    BY <2>3, DocumentIsNoManifest
  <2>5. /\ DOMAIN folder' = DOMAIN folder \cup {n}
        /\ \A m \in DOMAIN folder : m # n => folder'[m] = folder[m]
    <3>1. CASE OpenDocument(b)
      <4>1. Row(b, k) \in Batches \cup Invoices /\ Truncated(n, Row(b, k))
        BY <2>3, <3>1, RowTyped DEF OpenDocument, DocumentName, Row
      <4> QED BY <4>1, TruncatedFolder
    <3>2. CASE WriteDocument(b)
      <4>1. Close(n) /\ n \in DOMAIN folder
        BY <2>2, <3>2 DEF WriteDocument, DocumentName, Row, Progress, Begun
      <4> QED BY <4>1, ClosedFolder
    <3> QED BY <1>4, <3>1, <3>2
  <2> HIDE DEF n
  <2> QED BY <1>2, <2>1, <2>4, <2>5
<1>5. CASE OpenManifest(b) \/ WriteManifest(b)
  <2> DEFINE n == ManifestName(b)
  <2>1. pc[b] \in Busy
    BY <1>5 DEF OpenManifest, WriteManifest, Busy
  <2>2. Progress(b) /\ UNCHANGED rts
    BY <1>5, <2>1 DEF Uploaded, Submit, Fail
  <2>3. /\ DOMAIN folder' = DOMAIN folder \cup {n}
        /\ \A m \in DOMAIN folder : m # n => folder'[m] = folder[m]
    <3>1. CASE OpenManifest(b)
      BY <3>1, TruncatedFolder DEF OpenManifest
    <3>2. CASE WriteManifest(b)
      <4>1. Close(n) /\ n \in DOMAIN folder
        BY <2>2, <3>2 DEF WriteManifest, Progress, Begun
      <4> QED BY <4>1, ClosedFolder
    <3> QED BY <1>5, <3>1, <3>2
  <2>4. (rts => n = TempName[b]) /\ (~rts => n = CsvName[b])
    BY DEF ManifestName
  <2>5. pc'[b] = "done" => ~rts /\ Filed(CsvName[b], b)'
    <3> SUFFICES ASSUME pc'[b] = "done"
                 PROVE  ~rts /\ Filed(CsvName[b], b)'
      OBVIOUS
    <3>1. WriteManifest(b) /\ ~rts
      BY <1>5 DEF OpenManifest, WriteManifest, TypeOK
    <3>2. Close(n) /\ n \in DOMAIN folder /\ folder[n].of = b
      BY <2>2, <3>1 DEF WriteManifest, Progress, Begun
    <3>3. n \in DOMAIN folder' /\ folder'[n] = [of |-> b, whole |-> TRUE]
      BY <3>2, ClosedFolder
    <3> QED BY <2>4, <3>1, <3>3 DEF Filed
  <2> HIDE DEF n
  <2>6. CASE rts
    <3>1. \A c \in Batches : n # CsvName[c]
      BY <2>4, <2>6 DEF FactoringAssumption, ExtensionsDiffer
    <3> QED BY <1>2, <2>3, <2>5, <2>6, <3>1
  <2>7. CASE ~rts
    <3>1. \A c \in Batches : c # b => (Begun(CsvName[c], c)' => Begun(CsvName[c], c))
      <4>1. CsvName[b] \in DOMAIN folder' /\ folder'[CsvName[b]].of = b
        <5>1. CASE OpenManifest(b)
          <6>1. Truncated(n, b)
            BY <5>1 DEF OpenManifest, n
          <6>2. n \in DOMAIN folder' /\ folder'[n] = [of |-> b, whole |-> FALSE]
            BY <6>1, TruncatedFolder
          <6> QED BY <2>4, <2>7, <6>2
        <5>2. CASE WriteManifest(b)
          <6>1. Close(n) /\ n \in DOMAIN folder /\ folder[n].of = b
            BY <2>2, <5>2 DEF WriteManifest, Progress, Begun, n
          <6>2. n \in DOMAIN folder' /\ folder'[n] = [of |-> folder[n].of, whole |-> TRUE]
            BY <6>1, ClosedFolder
          <6> QED BY <2>4, <2>7, <6>1, <6>2
        <5> QED BY <1>5, <5>1, <5>2
      <4> QED BY <2>3, <2>4, <2>7, <4>1 DEF Begun
    <3>2. ASSUME NEW c \in Batches, c # b, Delivered(c)
          PROVE  Delivered(c)'
      <4>1. CsvName[c] \in DOMAIN folder'
        BY <2>3, <3>2 DEF Delivered
      <4>2. ASSUME OwnName(c)
            PROVE  Filed(CsvName[c], c)'
        <5>1. CsvName[c] # n
          BY <2>2, <2>4, <2>7, <3>2, <4>2 DEF Progress, OwnName
        <5>2. Filed(CsvName[c], c)
          BY <3>2, <4>2 DEF Delivered
        <5> QED BY <2>3, <5>1, <5>2 DEF Filed
      <4> QED BY <1>0, <2>7, <4>1, <4>2 DEF Delivered
    <3> QED BY <2>1, <2>5, <3>1, <3>2
  <2> QED BY <2>6, <2>7
<1>6. CASE Rename(b)
  <2>1. pc[b] \in Busy /\ pc[b] = "renaming" /\ Renamed(b)
    BY <1>6 DEF Rename, Busy
  <2>2. Progress(b)
    BY <2>1 DEF Uploaded
  <2>3. rts /\ Filed(TempName[b], b) /\ CsvName[b] # TempName[b]
    BY <2>1, <2>2 DEF Progress, FactoringAssumption, ExtensionsDiffer
  <2>4. /\ DOMAIN folder' = (DOMAIN folder \ {TempName[b]}) \cup {CsvName[b]}
        /\ folder'[CsvName[b]] = [of |-> b, whole |-> TRUE]
    BY <2>1, <2>3, RenamedFolder
  <2>5. \A c \in Batches : CsvName[c] \notin DOMAIN folder
    BY <2>1, <2>3, NoManifest
  <2>6. \A c \in Batches : Begun(CsvName[c], c)' => c = b
    BY <2>4, <2>5 DEF Begun
  <2>7. \A c \in Batches : ~ Delivered(c)
    BY <2>5 DEF Delivered
  <2>8. Filed(CsvName[b], b)'
    BY <2>4 DEF Filed
  <2> QED BY <2>1, <2>6, <2>7, <2>8
<1> QED BY <1>3, <1>4, <1>5, <1>6 DEF Submit

\* Only the batch that moves changes its place, and what is settled stays settled.
LEMMA Places ==
  ASSUME FactoringAssumption, IInv, Quarantine, NEW b \in Batches, Submit(b) \/ Fail(b)
  PROVE  /\ UNCHANGED <<rts, taken, ingested>> /\ reached \subseteq reached'
         /\ \A c \in Batches : c # b => pc'[c] = pc[c]
         /\ pc'[b] = "done" => pc[b] \in Busy
         /\ rts /\ b \in reached /\ pc[b] \in {"failed", "done"} => pc'[b] \in {"failed", "done"}
<1> USE DEF IInv, TypeOK, Busy
<1>1. CASE Reject(b) \/ Fail(b)
  BY <1>1 DEF Reject, Fail, Submit, Resting
<1>2. CASE Connect(b)
  BY <1>2 DEF Connect, Submit, MayRetry, Fail
<1>3. CASE OpenDocument(b) \/ WriteDocument(b)
  BY <1>3 DEF OpenDocument, WriteDocument, Submit, Fail
<1>4. CASE OpenManifest(b) \/ WriteManifest(b)
  BY <1>4 DEF OpenManifest, WriteManifest, Submit, Fail
<1>5. CASE Rename(b)
  BY <1>5 DEF Rename, Submit, Fail
<1> QED BY <1>1, <1>2, <1>3, <1>4, <1>5 DEF Submit

LEMMA UploadOnce ==
  ASSUME FactoringAssumption, Quarantine, IInv, OnceInv,
         NEW b \in Batches, Submit(b) \/ Fail(b)
  PROVE  OnceInv'
<1> USE DEF OnceInv
<1>1. /\ UNCHANGED <<rts, taken, ingested>> /\ reached \subseteq reached'
      /\ \A c \in Batches : c # b => pc'[c] = pc[c]
      /\ pc'[b] = "done" => pc[b] \in Busy
      /\ rts /\ b \in reached /\ pc[b] \in {"failed", "done"} => pc'[b] \in {"failed", "done"}
  BY Places
<1>2. /\ \A c \in Manifest' : c \in Manifest \/ (c = b /\ pc[b] \in Busy)
      /\ \A c \in Batches : pc[c] \notin Busy /\ Delivered(c) => Delivered(c)'
      /\ pc'[b] = "done" => Filed(CsvName[b], b)'
  BY Manifests DEF Manifest
<1>3. NotAgain'
  <2> SUFFICES ASSUME NEW k \in DOMAIN ingested
               PROVE  LET c == ingested[k].batch
                      IN IF rts THEN c \in reached' /\ pc'[c] \in {"failed", "done"} /\
                                     c \notin Manifest'
                         ELSE CsvName[c] \in taken
    BY <1>1 DEF NotAgain
  <2> DEFINE c == ingested[k].batch
  <2>1. c \in Batches
    <3> DEFINE Takes == [batch : Batches, whole : BOOLEAN, documents : SUBSET Invoices]
    <3>1. ingested \in Seq(Takes)
      BY DEF IInv, Taken
    <3> HIDE DEF Takes
    <3>2. ingested[k] \in Takes
      BY <3>1
    <3> QED BY <3>2 DEF Takes
  <2>2. IF rts THEN c \in reached /\ pc[c] \in {"failed", "done"} /\ c \notin Manifest
        ELSE CsvName[c] \in taken
    BY DEF NotAgain
  <2> HIDE DEF c
  <2>3. IF rts THEN c \in reached' /\ pc'[c] \in {"failed", "done"} /\
                    c \notin Manifest'
        ELSE CsvName[c] \in taken
    BY <1>1, <1>2, <2>1, <2>2 DEF Busy
  <2> QED BY <2>3 DEF c
<1>4. IngestedOnce'
  BY <1>1 DEF IngestedOnce
<1>5. DoneIsDelivered'
  <2> SUFFICES ASSUME NEW c \in Batches, pc'[c] = "done",
                      \A k \in DOMAIN ingested : ingested[k].batch # c
               PROVE  Delivered(c)'
    BY <1>1 DEF DoneIsDelivered, Delivered, Filed, OwnName
  <2>1. CASE c = b
    BY <1>2, <2>1 DEF Delivered, Filed
  <2>2. CASE c # b
    <3>1. pc[c] = "done" /\ pc[c] \notin Busy
      BY <1>1, <2>2 DEF Busy
    <3>2. Delivered(c)
      BY <3>1 DEF DoneIsDelivered, Delivered, Filed
    <3> QED BY <1>2, <3>1, <3>2
  <2> QED BY <2>1, <2>2
<1> QED BY <1>3, <1>4, <1>5

LEMMA PollOnce ==
  ASSUME FactoringAssumption, IInv, OnceInv, NEW b \in Batches, Poll(b)
  PROVE  OnceInv'
<1> DEFINE take == [batch |-> b, whole |-> folder[CsvName[b]].whole, documents |-> Documents(b)]
           Takes == [batch : Batches, whole : BOOLEAN, documents : SUBSET Invoices]
<1> USE DEF OnceInv
<1>1. /\ Begun(CsvName[b], b) /\ CsvName[b] \notin taken /\ ingested' = Append(ingested, take)
      /\ UNCHANGED <<rts, pc, sent, reached, faults>>
      /\ rts => folder' = [n \in {} |-> 0]
      /\ ~rts => taken' = taken \cup {CsvName[b]} /\ UNCHANGED folder
  BY DEF Poll, Begun
<1>2. take \in Takes
  BY <1>1, DocumentsTyped DEF IInv, FolderTyped, Begun
<1>3. ingested \in Seq(Takes) /\ take.batch = b
  BY DEF IInv, Taken
<1> HIDE DEF take, Takes
<1>4. /\ \A k \in DOMAIN ingested : ingested'[k] = ingested[k]
      /\ ingested'[Len(ingested) + 1] = take
      /\ DOMAIN ingested' = DOMAIN ingested \cup {Len(ingested) + 1}
  BY <1>1, <1>2, <1>3
<1>5. (rts => Manifest' = {}) /\ b \in Manifest
  BY <1>1 DEF Manifest, Begun
<1>6. NotAgain'
  <2> SUFFICES ASSUME NEW k \in DOMAIN ingested'
               PROVE  LET c == ingested'[k].batch
                      IN IF rts THEN c \in reached /\ pc[c] \in {"failed", "done"} /\
                                     c \notin Manifest'
                         ELSE CsvName[c] \in taken'
    BY <1>1 DEF NotAgain
  <2>1. CASE k \in DOMAIN ingested
    BY <1>1, <1>4, <2>1, <1>5 DEF NotAgain
  <2>2. CASE k = Len(ingested) + 1
    BY <1>1, <1>3, <1>4, <2>2, <1>5 DEF IInv, Standing
  <2> QED BY <1>4, <2>1, <2>2
<1>7. IngestedOnce'
  <2>1. \A k \in DOMAIN ingested : ingested[k].batch # b
    BY <1>1, <1>5 DEF NotAgain
  <2> QED BY <1>3, <1>4, <2>1 DEF IngestedOnce
<1>8. DoneIsDelivered'
  <2> SUFFICES ASSUME NEW c \in Batches, pc[c] = "done",
                      \A k \in DOMAIN ingested' : ingested'[k].batch # c
               PROVE  Delivered(c)'
    BY <1>1 DEF DoneIsDelivered, Delivered, Filed, OwnName
  <2>1. c # b
    BY <1>3, <1>4
  <2>2. Delivered(c)
    BY <1>4 DEF DoneIsDelivered, Delivered, Filed
  <2>3. ~rts
    <3> SUFFICES ASSUME rts
                 PROVE  FALSE
      OBVIOUS
    <3>1. Filed(CsvName[c], c)
      BY <2>2 DEF Delivered
    <3>2. CsvName[c] = CsvName[b]
      BY <1>1, <3>1 DEF IInv, Standing, Filed
    <3> QED BY <1>1, <2>1, <3>1, <3>2 DEF Filed, Begun
  <2> QED BY <1>1, <2>2, <2>3 DEF Delivered, Filed, OwnName
<1> QED BY <1>6, <1>7, <1>8

\* To a caller that heeds TriggerAndClear: what it was told to be done has been or can be
\* taken, for Triumph if the name of its manifest is its own, and nothing is taken twice.
THEOREM Deliveries ==
  ASSUME FactoringAssumption, Quarantine
  PROVE  Spec => []DeliverySound
<1>1. Init => OnceInv
  BY DEF Init, OnceInv, NotAgain, IngestedOnce, DoneIsDelivered
<1>2. IInv /\ OnceInv /\ [Next]_vars => OnceInv'
  <2> SUFFICES ASSUME IInv, OnceInv, [Next]_vars
               PROVE  OnceInv'
    OBVIOUS
  <2>1. CASE UNCHANGED vars
    BY <2>1 DEF vars, OnceInv, NotAgain, Manifest, Begun, IngestedOnce, DoneIsDelivered, OwnName
  <2> QED BY <2>1, UploadOnce, PollOnce DEF Next
<1>3. OnceInv => DeliverySound
  BY DEF OnceInv, DeliverySound
<1> QED BY <1>1, <1>2, <1>3, Invariant, PTL DEF Spec

-----------------------------------------------------------------------------
(* Documents first, also where manifests stay in the folder.               *)

\* When a manifest appears under its final name, every document of its batch that no
\* other of the batch has replaced is there, RTS's or Triumph's.
THEOREM ManifestLast ==
  ASSUME FactoringAssumption
  PROVE  Spec => AppearsLast
<1> DEFINE Appears == \A b \in Batches :
             /\ CsvName[b] \in DOMAIN folder' \ DOMAIN folder
             /\ folder'[CsvName[b]].of = b
             => Kept(b) \subseteq Documents(b)
<1>1. IInv /\ [Next]_vars => [Appears]_vars
  <2> SUFFICES ASSUME IInv, Next, NEW c \in Batches,
                      CsvName[c] \in DOMAIN folder' \ DOMAIN folder, folder'[CsvName[c]].of = c
               PROVE  Kept(c) \subseteq Documents(c)
    OBVIOUS
  <2> USE DEF IInv
  <2>1. PICK b \in Batches : Submit(b) \/ Fail(b) \/ Poll(b)
    BY DEF Next
  <2>2. ~ Poll(b)
    BY DEF Poll
  <2>3. c = b /\ pc[b] \in Busy
    BY <2>1, <2>2, Manifests DEF Begun
  <2>4. Progress(b)
    BY <2>3 DEF Uploaded
  <2>5. OpenManifest(b) \/ Rename(b)
    <3>1. CASE Reject(b) \/ Connect(b) \/ Fail(b)
      BY <2>3, <3>1 DEF Reject, Connect, Fail
    <3>2. CASE OpenDocument(b)
      <4> DEFINE k == sent[b] + 1
                 n == DocumentName(b, k)
      <4>1. k \in 1..Len(InvoicesOf[b])
        BY <3>2, RowTyped DEF OpenDocument, TypeOK
      <4>2. Row(b, k) \in Batches \cup Invoices /\ Truncated(n, Row(b, k))
        BY <3>2, <4>1, RowTyped DEF OpenDocument, DocumentName, Row
      <4>3. DOMAIN folder' = DOMAIN folder \cup {n}
        BY <4>2, TruncatedFolder
      <4> QED BY <2>3, <4>1, <4>3, DocumentIsNoManifest
    <3>3. CASE WriteDocument(b) \/ WriteManifest(b)
      <4>1. PICK n : Close(n)
        BY <3>3 DEF WriteDocument, WriteManifest
      <4> QED BY <2>3, <4>1, ClosedFolder
    <3> QED BY <2>1, <2>2, <3>1, <3>2, <3>3 DEF Submit
  <2>6. sent[b] = Len(InvoicesOf[b]) /\ Left(b, sent[b])
    BY <2>4, <2>5 DEF OpenManifest, Rename, Progress
  <2>7. Kept(b) \subseteq Documents(b)
    BY <2>6, KeptDocuments DEF Left, Filed, Documents
  <2> QED BY <2>3, <2>7
<1>2. Spec => []IInv
  BY Invariant
<1> QED BY <1>1, <1>2, PTL DEF Spec, AppearsLast
=============================================================================
