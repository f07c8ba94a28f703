-------------------------------- MODULE Orders --------------------------------
(***************************************************************************)
(* What is asked of another service in one call that is not repeated: a    *)
(* task opened or resolved (tasks), a rate confirmation read (client/      *)
(* rcproc), a mail sent by SMTP or Resend (mailer).                        *)
(*                                                                         *)
(* A call ends by its deadline at the latest; what it asked may have been  *)
(* done by then, or be done later, or never.  The services are external:   *)
(* of a key the service of tasks has one open task at most; the others do  *)
(* what they are asked as often as they are.                               *)
(***************************************************************************)
EXTENDS Integers, Sequences, FiniteSets

CONSTANTS
  Keys,        \* validations a task may be about
  Documents,   \* files to read
  Files,       \* attachments: name and content, "" if there is none
  MaxOrders    \* bound: calls

OrdersAssumption == MaxOrders \in Nat /\ "" \notin Keys

VARIABLES
  user,      \* the client in use, as it was configured
  orders,    \* the calls, in the order they were made
  effects    \* what the service did, in order: the call it was for, and whether it still is

orderVars == <<user, orders, effects>>

-----------------------------------------------------------------------------
(* The clients as they are built.                                          *)

Configs == [provider : {"", "smtp", "resend", "other"}, port : {"", "587", "word", "0"},
            apiKey : BOOLEAN, from : BOOLEAN]

\* NewEmailDialer.
DialerBuilt(c) == c.port \in {"", "587"}

\* NewSender, NewSMTPSender, NewResendSender: the kind built, or none.
SenderOf(c) ==
  CASE c.provider = "resend" /\ c.apiKey /\ c.from -> "resend"
    [] c.provider \in {"", "smtp"} /\ DialerBuilt(c) -> "smtp"
    [] OTHER -> "none"

-----------------------------------------------------------------------------
(* What may be asked, and what is refused before it is sent.               *)

Creates == [op : {"create"}, key : Keys \cup {""}, title : BOOLEAN,
            assignee : {"", "all", "user"}, id : {"uuid", "word", ""}]
Resolves == [op : {"resolve"}, key : Keys \cup {""}]
Processes == [op : {"process", "sync"}, file : Documents, token : BOOLEAN]
Mailings == [op : {"mail"}, template : BOOLEAN, files : {{f} : f \in Files} \cup {{}},
             tag : {"none", "tag", ""}]

CreateAll(key) == [op |-> "create", key |-> key, title |-> TRUE, assignee |-> "all", id |-> ""]

\* Bad requests leave nothing behind and files do not touch each other, so what follows the
\* first call is the first again, a question how far it is, or after a plain one about a
\* task another plain one, and nothing after an odd one (a bound).
Plain == UNION {{CreateAll(k), [op |-> "resolve", key |-> k]} : k \in Keys}
Requests ==
  CASE orders # <<>> /\ orders[1].asked \notin Plain ->
         ({orders[1].asked} \ Creates) \cup
         {[op |-> "status", handle |-> orders[i].told.id] :
            i \in {i \in DOMAIN orders : orders[i].asked.op = "process" /\ orders[i].told.kind = "done"}}
    [] orders # <<>> /\ orders[1].asked \in Plain ->
         LET k == CHOOSE k \in Keys : TRUE IN {p \in Plain : p.key = k}
    [] orders = <<>> /\ user.client = "tasks" -> Creates \cup Resolves
    [] orders = <<>> /\ user.client = "rcproc" -> Processes
    [] OTHER -> {m \in Mailings : m.files = {} \/ (m.template /\ m.tag = "none")}

\* Key.validate, and the assignee.
KeyComplete(r) == r.key # ""
AssigneeGiven(r) == r.assignee \in {"", "all"} \/ r.id = "uuid"

\* The actor of the context has a token.
SetAuthToken(r) == r.token

\* CreateForValidation; SetAuthToken; renderTemplate, and gomail's reading of the sender's
\* address.
Accepted(r) ==
  CASE r.op = "create" -> KeyComplete(r) /\ r.title /\ AssigneeGiven(r)
    [] r.op = "resolve" -> KeyComplete(r)
    [] r.op \in {"process", "sync"} -> SetAuthToken(r)
    [] r.op = "status" -> TRUE
    [] r.op = "mail" -> r.template /\ (SenderOf(user.config) = "smtp" => user.config.from)

\* SendEmailWithAttachments, send: attachments without a name or without content stay.
Attached(files) == {f \in files : f.name # "" /\ f.content # ""}
Tags(tag) == IF SenderOf(user.config) = "resend" /\ tag = "tag" THEN {"tag"} ELSE {}

-----------------------------------------------------------------------------
(* The services (external).                                                *)

OpenOf(key) == {e \in DOMAIN effects : effects[e].open /\ orders[effects[e].by].asked.key = key}

\* What a call may come back with: an HTTP status or gRPC's, and a body.
Reply(status, body, id, fresh) == [status |-> status, body |-> body, id |-> id, fresh |-> fresh]
NoReply == Reply(0, "none", 0, FALSE)

Effect(i, open, files, tags) == [by |-> i, open |-> open, files |-> files, tags |-> tags]

\* The service of tasks: CreateTask, ResolveTask.
TasksDo(i, r) ==
  LET new == Len(effects) + 1
      open == OpenOf(r.key)
      refused == r.op = "create" /\ r.assignee # "all" /\ r.id # "uuid"
  IN CASE refused -> <<effects, Reply(400, "whole", 0, FALSE)>>
       [] r.op = "create" /\ ~refused /\ open # {} ->
            <<effects, Reply(200, "whole", CHOOSE e \in open : TRUE, FALSE)>>
       [] r.op = "resolve" /\ open # {} ->
            LET e == CHOOSE e \in open : TRUE
            IN <<[effects EXCEPT ![e].open = FALSE], Reply(200, "whole", e, TRUE)>>
       [] r.op = "resolve" /\ open = {} -> <<effects, Reply(200, "whole", 0, FALSE)>>
       [] OTHER -> <<Append(effects, Effect(i, TRUE, {}, {})), Reply(200, "whole", new, TRUE)>>

\* The reader of rate confirmations: how far a file is, with what was read if it is done.
StatusOf(handle) ==
  {<<effects, reply>> : reply \in {Reply(200, "whole", handle, ~effects[handle].open),
                                   Reply(200, "garbled", 0, FALSE), Reply(404, "whole", 0, FALSE)}}

\* The others: done, and told so in one of the ways their clients read; or turned down.
OthersDo(i, r) ==
  LET new == Len(effects) + 1
      done == Append(effects, IF r.op = "mail" THEN Effect(i, TRUE, Attached(r.files), Tags(r.tag))
                              ELSE Effect(i, TRUE, {}, {}))
      smtp == r.op = "mail" /\ SenderOf(user.config) = "smtp"
  IN {<<done, Reply(200, "whole", IF smtp THEN 0 ELSE new, TRUE)>>} \cup
     (IF smtp THEN {} ELSE {<<done, Reply(200, "garbled", 0, TRUE)>>,
                            <<effects, Reply(300, "garbled", 0, FALSE)>>,
                            <<effects, Reply(422, "whole", 0, FALSE)>>}) \cup
     {<<effects, Reply(503, "garbled", 0, FALSE)>>}

-----------------------------------------------------------------------------
(* The clients' reading.                                                   *)

\* What a caller is told: whether an error, the handle, whether anything was done for it.
Told(kind, id, fresh) == [kind |-> kind, id |-> id, fresh |-> fresh]
Failed == Told("failed", 0, FALSE)
Unanswered == Told("none", 0, FALSE)

\* CreateForValidation, ResolveForValidation: gRPC's status.
ReadTask(reply) == IF reply.status = 200 THEN Told("done", reply.id, reply.fresh) ELSE Failed

\* Process and GetStatus need a body they can read, and so does ProcessSync, which gives
\* what was read of the file and no handle; 300 passes for success.
Decoded(reply) == reply.status <= 300 /\ reply.body = "whole"
ReadProcess(reply) == IF Decoded(reply) THEN Told("done", reply.id, reply.fresh) ELSE Failed
ReadSync(reply) == IF Decoded(reply) THEN Told("done", 0, reply.fresh) ELSE Failed

\* SendEmailWithTags, whose handle is lost with a body it cannot read; SMTP has none.
ReadMail(reply) == IF reply.status < 300 THEN Told("done", reply.id, TRUE) ELSE Failed

Read(r, reply) ==
  CASE user.client = "tasks" -> ReadTask(reply)
    [] user.client = "rcproc" -> IF r.op = "sync" THEN ReadSync(reply) ELSE ReadProcess(reply)
    [] user.client = "mailer" -> ReadMail(reply)

HasFailed(i) == orders[i].told.kind = "failed"

-----------------------------------------------------------------------------
(* Steps.                                                                  *)

\* What a kind of client does not read is not set (a bound).
Blank == [provider |-> "", port |-> "", apiKey |-> FALSE, from |-> FALSE]
MailConfigs ==
  {c \in Configs : /\ SenderOf(c) # "none"
                   /\ IF c.provider = "resend" THEN c.port = Blank.port ELSE c.apiKey = Blank.apiKey}

OrdersInit ==
  /\ user \in [client : {"tasks", "rcproc"}, config : {Blank}]
               \cup [client : {"mailer"}, config : MailConfigs]
  /\ orders = <<>> /\ effects = <<>>

\* A caller repeats the reading of a file or a mail only after an error.
MayRepeat(r) ==
  r.op \in {"process", "sync", "mail"} =>
    \A i \in DOMAIN orders : orders[i].asked = r => orders[i].told.kind = "failed"

Call ==
  /\ Len(orders) < MaxOrders
  /\ \E r \in Requests :
       /\ MayRepeat(r)
       /\ orders' = Append(orders,
            [asked |-> r, sent |-> Accepted(r), landed |-> FALSE, reply |-> NoReply,
             after |-> {i \in DOMAIN orders : orders[i].told.kind # "none"},
             told |-> IF Accepted(r) THEN Unanswered ELSE Failed])
  /\ UNCHANGED <<user, effects>>

\* The service does what it was asked, be it after its caller gave up; nobody reads what it
\* answers then.
Land(i) ==
  /\ orders[i].sent /\ ~orders[i].landed
  /\ \E done \in CASE user.client = "tasks" -> {TasksDo(i, orders[i].asked)}
                     [] orders[i].asked.op = "status" -> StatusOf(orders[i].asked.handle)
                     [] OTHER -> OthersDo(i, orders[i].asked) :
       /\ effects' = done[1]
       /\ orders' = [orders EXCEPT ![i].landed = TRUE,
                        ![i].reply = IF HasFailed(i) THEN NoReply ELSE done[2]]
  /\ UNCHANGED user

Answer(i) ==
  /\ orders[i].told.kind = "none" /\ orders[i].landed
  /\ orders' = [orders EXCEPT ![i].told = Read(orders[i].asked, orders[i].reply)]
  /\ UNCHANGED <<user, effects>>

\* withTimeout, the clients' time-outs, a lost connection.
Fail(i) ==
  /\ orders[i].told.kind = "none"
  /\ orders' = [orders EXCEPT ![i].told = Failed]
  /\ UNCHANGED <<user, effects>>

\* The reader is done with a file.
Finish(e) ==
  /\ user.client = "rcproc" /\ effects[e].open
  /\ effects' = [effects EXCEPT ![e].open = FALSE]
  /\ UNCHANGED <<user, orders>>

OrdersNext ==
  \/ Call
  \/ \E i \in DOMAIN orders : Land(i) \/ Answer(i) \/ Fail(i)
  \/ \E e \in DOMAIN effects : Finish(e)

OrdersSpec == OrdersInit /\ [][OrdersNext]_orderVars

-----------------------------------------------------------------------------
(* Properties.                                                             *)

TypeOK ==
  /\ Len(orders) <= MaxOrders /\ Len(effects) <= Len(orders)
  /\ \A e \in DOMAIN effects : effects[e].by \in DOMAIN orders /\ effects[e].open \in BOOLEAN

IsDone(i) == orders[i].told.kind = "done"
DoneFor(i) == {e \in DOMAIN effects : effects[e].by = i}

\* Who is told that a thing is done has it done, and what was refused here is never done;
\* of what is done without its caller knowing, its caller had an error or is waiting
\* (CreateForValidation, Process, send).
Answered ==
  \A i \in DOMAIN orders :
    /\ IsDone(i) /\ orders[i].told.fresh =>
         orders[i].asked.op \in {"resolve", "status"} \/ DoneFor(i) # {}
    /\ ~orders[i].sent => DoneFor(i) = {} /\ HasFailed(i)

\* "Result.Created tells which happened": of a task's callers one at most is told that it
\* is new, and all are told of a task of their own key; none is told it is new only when the
\* call that opened it failed (CreateForValidation).
CreatedOnce ==
  user.client = "tasks" =>
    \A e \in DOMAIN effects :
      LET told == {i \in DOMAIN orders : IsDone(i) /\ orders[i].told.id = e}
          fresh == {i \in told : orders[i].asked.op = "create" /\ orders[i].told.fresh}
      IN /\ Cardinality(fresh) <= 1 /\ fresh \subseteq {effects[e].by}
         /\ \A i \in told : orders[i].asked.key = orders[effects[e].by].asked.key
         /\ fresh = {} => ~IsDone(effects[e].by)

\* A task that is open although its resolution was answered, with every call that opens it
\* made and returned before, was opened by a call that had failed: a late effect of a call
\* its caller had given up (withTimeout, ResolveForValidation).
LeftOpen ==
  user.client = "tasks" =>
    \A k \in Keys : OpenOf(k) # {} =>
      LET creates == {i \in DOMAIN orders : orders[i].asked.op = "create" /\ orders[i].asked.key = k}
          settled == \E r \in DOMAIN orders : /\ orders[r].asked = [op |-> "resolve", key |-> k]
                                               /\ IsDone(r) /\ creates \subseteq orders[r].after
      IN settled => \A e \in OpenOf(k) : HasFailed(effects[e].by)

\* An assignee is asked for unless the task is for all: but where nothing is said of
\* assignees, which the service refuses and the client does not (CreateForValidation).
Assigned ==
  \A i \in DOMAIN orders :
    orders[i].asked.op = "create" /\ orders[i].landed /\ orders[i].reply.status = 400
      => orders[i].asked.assignee = ""

\* A file is read, and a mail sent, once and once more for every error its caller had: an
\* error is no word that nothing was done (Process, ProcessSync, send).
RepeatsOwed ==
  user.client # "tasks" =>
    \A i \in DOMAIN orders :
      LET same == {j \in DOMAIN orders : orders[j].asked = orders[i].asked}
      IN Cardinality(UNION {DoneFor(j) : j \in same})
           <= Cardinality({j \in same : HasFailed(j)})
                + (IF \E j \in same : ~HasFailed(j) THEN 1 ELSE 0)

\* "An empty id with nil error means sent, but no id was returned"; a caller without an
\* error knows its file by its handle, and is given what was read of that very file once it
\* is done (send, Process, GetStatus).
Handles ==
  \A i \in DOMAIN orders :
    /\ IsDone(i) /\ orders[i].asked.op = "process" => orders[i].told.id \in DoneFor(i)
    /\ IsDone(i) /\ orders[i].asked.op = "status" =>
         /\ orders[i].told.id = orders[i].asked.handle
         /\ orders[i].told.fresh => ~effects[orders[i].told.id].open
    /\ IsDone(i) /\ orders[i].asked.op = "mail" =>
         /\ orders[i].told.id \in DoneFor(i) \cup {0}
         /\ SenderOf(user.config) = "smtp" => orders[i].told.id = 0
         /\ orders[i].told.id = 0 =>
              SenderOf(user.config) = "smtp" \/ orders[i].reply.body = "garbled"

\* A mail goes with every attachment that has a name and content, and without an error
\* lacks the others, whoever sends it (both SendEmailWithAttachments).
AttachmentsSound ==
  user.client = "mailer" =>
    \A e \in DOMAIN effects :
      LET r == orders[effects[e].by].asked
      IN \A f \in Files : f \in effects[e].files <=> f.name # "" /\ f.content # "" /\ f \in r.files

OrdersSound ==
  /\ TypeOK /\ Answered /\ CreatedOnce /\ LeftOpen /\ Assigned /\ RepeatsOwed /\ Handles
  /\ AttachmentsSound
=============================================================================
