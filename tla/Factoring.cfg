SPECIFICATION FairSpec
CONSTANTS
  i1 = i1
  i2 = i2
  i3 = i3
  dup = dup
  blank = blank
  free = free
  mute = mute
  Batches = {"one", "two", "both", "twice", "blank", "free", "long",
             "none", "mute", "bare"}
  BatchesOf <- MCBatchesOf
  Invoices <- MCInvoices
  InvoicesOf <- MCInvoicesOf
  Number <- MCNumber
  Unnumbered = {mute}
  Unmatched = {"bare"}
  Blank = {blank}
  Unpaid = {free}
  PdfName <- MCPdfName
  CsvName <- MCCsvName
  TempName <- MCTempName
  MaxRecords = 2
  Quarantine = TRUE
  MaxFaults = 2
  MaxRefused = 1
CHECK_DEADLOCK FALSE
INVARIANTS
  SubmissionsSound
  DeliverySound
PROPERTIES
  AppearsLast
  EventuallyTaken
