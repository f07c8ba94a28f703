----------------------------- MODULE MCFactoring -----------------------------
(* Small instances of Factoring.  The numbers of i1 and i3 become one file    *)
(* name: "both" has them together, "two" has i3 alone and is submitted in    *)
(* the same second as "both".  Each of the other batches breaks one rule;    *)
(* Triumph, which has none of RTS's rules, gets none of them.                *)
EXTENDS Factoring, TLC

CONSTANTS i1, i2, i3, dup, blank, free, mute

\* "dup" has the number of i1, "mute" has none.
MCBatchesOf == [r \in BOOLEAN |-> IF r THEN Batches
                                  ELSE Batches \cap {"one", "two", "both"}]
MCInvoices == {i1, i2, i3, dup, blank, free, mute}
MCInvoicesOf ==
  [b \in Batches |-> CASE b = "one" -> <<i1, i2>>
                       [] b = "two" -> <<i3>>
                       [] b = "both" -> <<i1, i3>>
                       [] b = "twice" -> <<i1, dup>>
                       [] b = "blank" -> <<blank, i2>>
                       [] b = "free" -> <<i2, free>>
                       [] b = "long" -> <<i1, i2, i3>>
                       [] b = "none" -> <<>>
                       [] b = "mute" -> <<i2, mute>>
                       [] b = "bare" -> <<i2>>]
MCNumber == [i \in Invoices |-> IF i = dup THEN i1 ELSE i]
MCPdfName == [n \in Invoices |-> <<"pdf", IF n = i3 THEN i1 ELSE n>>]
MCCsvName == [b \in Batches |-> <<"csv", IF b = "two" THEN "both" ELSE b>>]
MCTempName == [b \in Batches |-> <<"tmp", MCCsvName[b]>>]
=============================================================================
