-------------------------------- MODULE Mail ---------------------------------
(***************************************************************************)
(* E-mails and notifications that are sent through the outbox (mail,       *)
(* notify).  A caller sends a list of messages, one Send each or in one    *)
(* SendBatch, inside its transaction or outside any.  Publish swallows an  *)
(* INSERT that fails inside a transaction (tmsdb/gorm_tm.go), so a         *)
(* guaranteed Send reads the row again.  Meanwhile the relay ships the     *)
(* committed rows and removes them, but for a row that the writer refuses. *)
(*                                                                         *)
(* backend-mail is external: it takes a message of an ID once.  So is the  *)
(* Verifier, which reads with the caller's transaction, and the writer of  *)
(* kafka-go, which takes no message beyond its BatchBytes.                 *)
(***************************************************************************)
EXTENDS Naturals, Sequences

CONSTANTS
  MaxMessages, \* bound: messages of a list
  MaxAgain,    \* bound: how often the caller calls again after an error
  MaxStumbles  \* bound: failures of the database and of the process

MailAssumption ==
  MaxMessages \in Nat \ {0} /\ MaxAgain \in Nat /\ MaxStumbles \in Nat

VARIABLES
  medium,     \* "mail" or "notification"
  messages,   \* what is sent, by its Kind
  within,     \* the caller runs inside WithTransaction
  guaranteed, \* SendOptions.Guaranteed, with a Verifier
  ownIDs,     \* the caller sets Message.ID, and keeps it when it calls again
  sending,    \* index of the message that is sent
  again,      \* how often the caller has called again
  step,       \* "publishing", "verifying", "returned", "crashed"
  result,     \* what was returned: "ok", "refused", "failed", "unverified", "dropped"
  sent,       \* the IDs that were returned, in order
  tx,         \* "open", "aborted", "committed" or "rolled back"
  written,    \* rows of the transaction
  pending,    \* rows of the outbox
  mailed,     \* the IDs that reached backend-mail
  skipped,    \* history: the IDs whose INSERT failed and was swallowed
  stumbles    \* failures that may still happen

mailVars == <<medium, messages, within, guaranteed, ownIDs, sending, again, step, result, sent,
  tx, written, pending, mailed, skipped, stumbles>>

-----------------------------------------------------------------------------
(* What a mail says: a text is there or empty, contents are measured in    *)
(* quarters of the limit.                                                  *)

MaxInlineAttachmentBytes == 4

\* The writer's limit, which NewWriter leaves at 1 MiB, as the attachments' is.
BatchBytes == 4

Text == {"", "text"}
Link == [entityType : Text, entityID : BOOLEAN]
Attachment == [filename : Text, fileID : BOOLEAN, content : {0, 2, 4, 5}]
Message ==
  [to : {<<>>, <<"text">>, <<"text", "">>}, subject : Text, html : Text, text : Text,
   templateKey : Text, links : {<<>>} \cup {<<l>> : l \in Link},
   attachments : {<<>>} \cup {<<a>> : a \in Attachment}
     \cup {<<a, a>> : a \in [filename : {"text"}, fileID : {FALSE}, content : {2}]},
   companyID : {"", "own", "other"}]
Actors == {"", "own"}

validate(m) ==
  /\ m.to # <<>> /\ \A i \in DOMAIN m.to : m.to[i] # ""
  /\ m.subject # "" /\ (m.html # "" \/ m.text # "")
  /\ \A i \in DOMAIN m.links : m.links[i].entityType # "" /\ m.links[i].entityID
  /\ \A i \in DOMAIN m.attachments : LET a == m.attachments[i] IN
       /\ a.filename # "" /\ (a.fileID \/ a.content > 0)
       /\ a.content <= MaxInlineAttachmentBytes

\* SendWithOptions: the company that the message names, or else the actor's.
CompanyID(m, actor) == IF m.companyID # "" THEN m.companyID ELSE actor

\* Contents are written in base64, beside the rest; a mail has two attachments at most (a
\* bound).
Weight(a) == (4 * a.content + 2) \div 3
WeightAt(m, i) == IF i \in DOMAIN m.attachments THEN Weight(m.attachments[i]) ELSE 0
Size(m) == 1 + WeightAt(m, 1) + WeightAt(m, 2)

Kind(m, actor) ==
  IF ~validate(m) \/ CompanyID(m, actor) = "" THEN "bad"
  ELSE IF Size(m) > BatchBytes THEN "heavy" ELSE "good"

Kinds == {"good", "bad", "heavy"}

(* What a notification says.                                               *)

Notification ==
  [type : {"", "WARNING"}, priority : {"", "HIGH"}, metadata : {"none", "shared"},
   action : {"none", "redirect", "open_chat"}]

\* notify's Send writes the action into the caller's metadata: what is in it afterwards.
MetadataAfter(n, action) ==
  IF n.metadata = "shared" /\ n.action # "none" THEN n.action ELSE action

Payload(n, action, actor) ==
  [type |-> IF n.type = "" THEN "INFO" ELSE n.type,
   priority |-> IF n.priority = "" THEN "NORMAL" ELSE n.priority,
   company_id |-> actor,
   action |-> IF n.metadata = "shared" THEN MetadataAfter(n, action) ELSE n.action]

\* What two notifications say that were built over one map of metadata.
Payloads(n, next, actor) ==
  <<Payload(n, "none", actor), Payload(next, MetadataAfter(n, "none"), actor)>>

-----------------------------------------------------------------------------
MailInit ==
  /\ medium \in {"mail", "notification"}
  /\ messages \in UNION {[1..n -> Kinds] : n \in 1..MaxMessages}
  /\ within \in BOOLEAN /\ guaranteed \in BOOLEAN /\ ownIDs \in BOOLEAN
  /\ medium = "notification" =>
       ~guaranteed /\ ~ownIDs /\ \A i \in DOMAIN messages : messages[i] # "heavy"
  /\ sending = 1 /\ again = 0 /\ step = "publishing" /\ result = "" /\ sent = <<>>
  /\ tx = "open" /\ written = {} /\ pending = {} /\ mailed = {} /\ skipped = {}
  /\ stumbles = MaxStumbles

setting == <<medium, messages, within, guaranteed, ownIDs>>

\* An ID is new with each call, unless the caller set it (uuid.New).
IDOf(i, attempt) == <<i, IF ownIDs THEN 0 ELSE attempt>>
ID == IDOf(sending, again)

Stumble == stumbles > 0 /\ stumbles' = stumbles - 1

-----------------------------------------------------------------------------
(* Send, SendWithOptions, SendBatch.                                       *)

Return(outcome) ==
  /\ step' = "returned" /\ result' = outcome
  /\ UNCHANGED <<sending, sent>>

\* A message is sent, and the next one's turn.
Sent ==
  /\ sent' = Append(sent, ID)
  /\ IF sending = Len(messages)
     THEN step' = "returned" /\ result' = "ok" /\ UNCHANGED sending
     ELSE step' = "publishing" /\ sending' = sending + 1 /\ UNCHANGED result

Published ==
  IF guaranteed THEN step' = "verifying" /\ UNCHANGED <<sending, sent, result>> ELSE Sent

\* validate, and a mail needs a company; a notification goes as it is.
Refuse ==
  /\ step = "publishing" /\ medium = "mail" /\ messages[sending] = "bad"
  /\ Return("refused")
  /\ UNCHANGED <<setting, again, tx, written, pending, mailed, skipped, stumbles>>

Accepted == step = "publishing" /\ (medium = "mail" => messages[sending] # "bad")

\* Publish inside a transaction: the row is the transaction's.
Insert ==
  /\ Accepted /\ within /\ tx = "open"
  /\ written' = written \cup {ID} /\ Published
  /\ UNCHANGED <<setting, again, tx, pending, mailed, skipped, stumbles>>

\* The INSERT fails and is rolled back to the savepoint: Publish returns nil.
Swallow ==
  /\ Accepted /\ within /\ tx = "open" /\ Stumble
  /\ skipped' = skipped \cup {ID} /\ Published
  /\ UNCHANGED <<setting, again, tx, written, pending, mailed>>

\* The savepoint cannot be set or rolled back to.
Abort ==
  /\ Accepted /\ within
  /\ IF tx = "open" THEN Stumble /\ tx' = "aborted" ELSE UNCHANGED <<tx, stumbles>>
  /\ Return("failed")
  /\ UNCHANGED <<setting, again, written, pending, mailed, skipped>>

\* Publish outside a transaction: the row is committed by itself.
InsertAlone ==
  /\ Accepted /\ ~within
  /\ pending' = pending \cup {ID} /\ Published
  /\ UNCHANGED <<setting, again, tx, written, mailed, skipped, stumbles>>

\* It fails, or its answer is lost after the commit.
FailAlone ==
  /\ Accepted /\ ~within /\ Stumble
  /\ \E rows \in {{}, {ID}} : pending' = pending \cup rows
  /\ Return("failed")
  /\ UNCHANGED <<setting, again, tx, written, mailed, skipped>>

\* OutboxEventExists: the transaction sees its own rows and the committed ones.
Verify ==
  /\ step = "verifying"
  /\ IF ID \in written \cup pending THEN Sent ELSE Return("dropped")
  /\ UNCHANGED <<setting, again, tx, written, pending, mailed, skipped, stumbles>>

VerifyFails ==
  /\ step = "verifying" /\ Stumble
  /\ tx' = IF within THEN "aborted" ELSE tx
  /\ Return("unverified")
  /\ UNCHANGED <<setting, again, written, pending, mailed, skipped>>

-----------------------------------------------------------------------------
(* The caller.                                                             *)

\* It calls again from the message that failed, SendBatch's ids tell which.
CallAgain ==
  /\ step = "returned" /\ result \in {"failed", "unverified", "dropped"} /\ again < MaxAgain
  /\ within => tx \in {"open", "aborted"}
  /\ again' = again + 1 /\ step' = "publishing" /\ result' = ""
  /\ UNCHANGED <<setting, sending, sent, tx, written, pending, mailed, skipped, stumbles>>

\* WithTransaction: the function returned nil, whatever Send returned to it.
Commit ==
  /\ step = "returned" /\ within /\ tx = "open"
  /\ tx' = "committed" /\ pending' = pending \cup written /\ written' = {}
  /\ UNCHANGED <<setting, sending, again, step, result, sent, mailed, skipped, stumbles>>

\* It returned an error, the transaction is aborted, or the COMMIT fails.
RollBack ==
  /\ step = "returned" /\ within /\ tx \in {"open", "aborted"}
  /\ tx' = "rolled back" /\ written' = {}
  /\ UNCHANGED <<setting, sending, again, step, result, sent, pending, mailed, skipped, stumbles>>

Crash ==
  /\ step \in {"publishing", "verifying"} /\ Stumble
  /\ step' = "crashed" /\ written' = {} /\ tx' = IF within THEN "rolled back" ELSE tx
  /\ UNCHANGED <<setting, sending, again, result, sent, pending, mailed, skipped>>

-----------------------------------------------------------------------------
(* The relay (eventlog/outbox), which may ship a row twice.  A batch with  *)
(* a row that the writer refuses is refused as a whole, and fetched again. *)

Ship ==
  /\ \E id \in pending \ mailed : messages[id[1]] # "heavy" /\ mailed' = mailed \cup {id}
  /\ UNCHANGED <<setting, sending, again, step, result, sent, tx, written, pending, skipped,
       stumbles>>

DeleteBatch ==
  /\ \E id \in pending \cap mailed : pending' = pending \ {id}
  /\ UNCHANGED <<setting, sending, again, step, result, sent, tx, written, mailed, skipped,
       stumbles>>

MailNext ==
  \/ Refuse \/ Insert \/ Swallow \/ Abort \/ InsertAlone \/ FailAlone \/ Verify \/ VerifyFails
  \/ CallAgain \/ Commit \/ RollBack \/ Crash \/ Ship \/ DeleteBatch

MailSpec == MailInit /\ [][MailNext]_mailVars

-----------------------------------------------------------------------------
(* Properties.                                                             *)

IDs == (1..MaxMessages) \X (0..MaxAgain)

MailTypeOK ==
  /\ medium \in {"mail", "notification"}
  /\ within \in BOOLEAN /\ guaranteed \in BOOLEAN /\ ownIDs \in BOOLEAN
  /\ sending \in DOMAIN messages /\ again \in 0..MaxAgain
  /\ step \in {"publishing", "verifying", "returned", "crashed"}
  /\ result \in {"", "ok", "refused", "failed", "unverified", "dropped"}
  /\ sent \in Seq(IDs)
  /\ tx \in {"open", "aborted", "committed", "rolled back"}
  /\ written \subseteq IDs /\ pending \subseteq IDs /\ mailed \subseteq IDs /\ skipped \subseteq IDs
  /\ stumbles \in 0..MaxStumbles

Kept == pending \cup mailed
Told == {sent[k] : k \in DOMAIN sent}

\* "A rollback un-sends the email" (mail.go:10): nothing of a transaction is mailed
\* unless it commits (writeEvent).
Unsent == within /\ tx # "committed" => Kept = {}

\* What a committed transaction, or a call outside any, was told to be sent is mailed or
\* will be; but for a swallowed INSERT, when the call was not guaranteed (SendWithOptions).
Delivered ==
  (within => tx = "committed") => Told \ Kept \subseteq (IF guaranteed THEN {} ELSE skipped)

\* Nothing is mailed of which the caller was not told, but the messages a call failed at
\* (SendBatch): in a transaction not even those.
OnlyTheFailed ==
  \A id \in Kept \ Told :
    step = "returned" => ~within /\ (again > 0 \/ result \in {"failed", "unverified", "dropped"})

\* An error "was dropped" is true inside a transaction.  Outside one nothing is ever
\* dropped: the relay has shipped and removed the row already (SendWithOptions).
DroppedOrShipped ==
  result = "dropped" => IF within THEN ID \in skipped /\ ID \notin Kept ELSE ID \in mailed

\* A message is mailed twice only to a caller that calls again, outside a transaction,
\* under a new ID (Message.ID).
TwiceOwed ==
  \A p, q \in mailed : p # q /\ p[1] = q[1] => ~within /\ ~ownIDs /\ again > 0

\* Every kind of mail exists.  A row is heavy only for what is attached inline, never for
\* files by ID; a template key changes nothing; and a mail that goes out has a company,
\* the actor's as well as one it names (validate, SendWithOptions).
KindsSound ==
  /\ \A k \in Kinds : \E m \in Message, actor \in Actors : Kind(m, actor) = k
  /\ \A m \in Message, actor \in Actors :
       /\ Kind(m, actor) = Kind([m EXCEPT !.templateKey = ""], actor)
       /\ Kind([m EXCEPT !.companyID = ""], "own") = Kind([m EXCEPT !.companyID = "own"], actor)
       /\ Kind(m, actor) = "heavy" => \E i \in DOMAIN m.attachments : m.attachments[i].content > 0
       /\ Kind(m, actor) # "bad" => CompanyID(m, actor) \in {"own", "other"}

\* A notification has its own action, or that of an earlier one which was built over the
\* same metadata and is not its own (notify's Send).
ActionsLeftBehind == \A n, next \in Notification, actor \in Actors :
  LET said == Payloads(n, next, actor) IN
  /\ said[1].action = n.action
  /\ said[2].action # next.action <=>
       n.metadata = "shared" /\ next.metadata = "shared" /\ n.action # "none" /\ next.action = "none"

\* "Bounds bytes carried inline through the Kafka payload" (mail.go:121).  It does not: a
\* mail may pass validate and be a row that the writer refuses for ever.
InlineFits == \A id \in pending : messages[id[1]] # "heavy"

PayloadsSound ==
  (medium = "notification" /\ messages = <<"good">> /\ ~within /\ stumbles = MaxStumbles
     /\ step = "publishing") => KindsSound /\ ActionsLeftBehind

MailSound ==
  PayloadsSound /\ MailTypeOK /\ Unsent /\ Delivered /\ OnlyTheFailed /\ DroppedOrShipped /\ TwiceOwed
=============================================================================
