----------------------------- MODULE TollFiles ------------------------------
(***************************************************************************)
(* Toll spreadsheets (client/toll): the aggregator keeps putting files in  *)
(* the carrier's folder, the same week again and again, with columns that  *)
(* move or are missing, dates written in one cell or in two, rows in       *)
(* another order, miles revised, rows that cannot be read.  Parse reads a  *)
(* file, assignHashes numbers equal rows, and the caller keeps one row per *)
(* hash.  The files are never deleted, so any may be read again.           *)
(*                                                                         *)
(* A workbook is a sequence of sheets, a sheet a sequence of rows, a row a *)
(* sequence of cells.  A cell is text, a date with a clock (0: none), a    *)
(* clock, or money.  SHA-256 is taken to be injective.                     *)
(*                                                                         *)
(* Apart from that, what happens once: a credential becomes a connection,  *)
(* a folder a list of files, and the plate or number that a file prints    *)
(* becomes what is compared with the fleet's.                              *)
(***************************************************************************)
EXTENDS Naturals, FiniteSets, SequencesExt, TLC

CONSTANTS
  Crossings,        \* what may happen at a plaza: [day, clock, cents]
  Layouts,          \* sequences of column names, "" for a spacer column
  headerScanDepth,  \* rows searched for the header
  MaxTruth,         \* bound: crossings of the week
  MaxText           \* bound: characters of a plate or a number

VARIABLES
  truth,    \* the week's crossings, in the order in which they happened
  file,     \* the one to be read next: the book, the rows it is meant to have, the
            \* one damaged
  pool,     \* the hashes the caller has kept
  most      \* history: of each base key, the most that one ingested file had
tollVars == <<truth, file, pool, most>>

Required == {"Post Date", "Toll $"}

TollAssumption ==
  /\ \A c \in Crossings : c.day \in Nat \ {0} /\ c.clock \in Nat /\ c.cents \in Nat
  /\ \A l \in Layouts : Required \subseteq Range(l)
  /\ \A k, l \in Layouts, n \in {"Exit Date", "Exit Time"} : n \in Range(k) <=> n \in Range(l)
  /\ headerScanDepth \in Nat /\ MaxTruth \in Nat /\ MaxText \in Nat

Text(s) == <<"text", s>>
Date(d, clock) == <<"date", d, clock>>
Time(clock) == <<"time", clock>>
Money(cents) == <<"money", cents>>
Blank == Text("")

-----------------------------------------------------------------------------
(* Reading a file.                                                         *)

\* tableAt, cell: a column is addressed by its name, in the first place it has it;
\* a missing column and a short row both read as blank.
Column(header, name) == CHOOSE c \in DOMAIN header :
  header[c] = Text(name) /\ \A b \in 1..(c - 1) : header[b] # Text(name)

\* (broken) Columns by position, as in the first file of the aggregator.
CellByPosition(header, row, name) ==
  LET c == CASE name = "Post Date" -> 1 [] name = "Exit Date" -> 2
             [] name = "Exit Time" -> 3 [] name = "Toll $" -> 4 [] OTHER -> 5
  IN IF c \in DOMAIN row THEN row[c] ELSE Blank

Cell(header, row, name) ==
  IF Text(name) \notin Range(header) THEN Blank
  ELSE LET c == Column(header, name) IN IF c \in DOMAIN row THEN row[c] ELSE Blank

\* findTable, hasAll: the first row of the first sheet that names every required
\* column; a cover sheet is passed over.
IsHeader(row) == \A n \in Required : Text(n) \in Range(row)
HeaderRows(sheet) == {i \in DOMAIN sheet : i <= headerScanDepth /\ IsHeader(sheet[i])}
DataSheet(book) == CHOOSE s \in DOMAIN book :
  HeaderRows(book[s]) # {} /\ \A r \in 1..(s - 1) : HeaderRows(book[r]) = {}
HeaderRow(sheet) == CHOOSE i \in HeaderRows(sheet) : \A j \in HeaderRows(sheet) : i <= j

HasData(book) == \E s \in DOMAIN book : HeaderRows(book[s]) # {}

IsBlank(row) == \A c \in DOMAIN row : row[c] = Blank

\* ParseFileTime, ParseMoney: an empty money cell is zero.
IsDate(cell) == cell[1] = "date"
IsMoney(cell) == cell = Blank \/ cell[1] = "money"
Cents(cell) == IF cell = Blank THEN 0 ELSE cell[2]

\* combineDateTime, parseTimeOfDay: the time column counts only where the date has
\* no clock of its own.
Combine(date, time) ==
  IF ~IsDate(date) THEN <<>>
  ELSE IF date[3] # 0 THEN <<date[2], date[3]>>
  ELSE IF IsDate(time) THEN <<date[2], time[3]>>
  ELSE IF time[1] = "time" THEN <<date[2], time[2]>>
  ELSE <<date[2], 0>>

\* parsePrePassRow: only the post date and the amount are required.
Readable(header, row) ==
  IsDate(Cell(header, row, "Post Date")) /\ IsMoney(Cell(header, row, "Toll $"))

ParseRow(header, row, number) ==
  [number |-> number,
   post |-> Cell(header, row, "Post Date")[2],
   exit |-> Combine(Cell(header, row, "Exit Date"), Cell(header, row, "Exit Time")),
   cents |-> Cents(Cell(header, row, "Toll $")),
   miles |-> Cell(header, row, "Mi")]

\* Parse: blank rows are skipped, unreadable ones collected, the others kept.
Parse(book) ==
  LET sheet == book[DataSheet(book)]
      h == HeaderRow(sheet)
      data == [i \in 1..(Len(sheet) - h) |-> h + i]
      good(n) == ~IsBlank(sheet[n]) /\ Readable(sheet[h], sheet[n])
      kept == SelectSeq(data, good)
  IN [rows |-> [i \in DOMAIN kept |-> ParseRow(sheet[h], sheet[kept[i]], kept[i])],
      errors |-> {n \in Range(data) : ~IsBlank(sheet[n]) /\ ~Readable(sheet[h], sheet[n])},
      skipped |-> Cardinality({n \in Range(data) : IsBlank(sheet[n])})]

\* findAccount: beside the first label that has something to its right, but on the data
\* sheet; "" for none.
ValueBeside(row, c) ==
  {v \in (c + 1)..Len(row) : row[v] # Blank /\ \A b \in (c + 1)..(v - 1) : row[b] = Blank}

findAccount(book) ==
  LET rows == FlattenSeq([s \in DOMAIN book |-> IF s = DataSheet(book) THEN <<>> ELSE book[s]])
      labels(row) == {c \in DOMAIN row : row[c] = Text("Account") /\ ValueBeside(row, c) # {}}
      labelled == SelectSeq(rows, LAMBDA row : labels(row) # {})
  IN IF labelled = <<>> THEN ""
     ELSE LET row == Head(labelled)
          IN row[CHOOSE v \in ValueBeside(row, Min(labels(row))) : TRUE][2]

\* HashRow: what cannot change between a file and its re-send; not the miles.
Base(row) == <<row.post, row.exit, row.cents>>

\* (broken) Rows are numbered by their place in the file.
HashesByPlace(rows) == {<<Base(rows[i]), rows[i].number>> : i \in DOMAIN rows}

\* assignHashes: a row's number is how many equal rows precede it.
Hashes(rows) ==
  {<<Base(rows[i]), Cardinality({j \in 1..(i - 1) : Base(rows[j]) = Base(rows[i])})>> :
     i \in DOMAIN rows}

-----------------------------------------------------------------------------
(* The vehicle, as a file prints it.                                       *)

Letters == {"A"}
Digits == {"0", "8"}
Texts == BoundedSeq(Letters \cup Digits \cup {"-", " "}, MaxText)

TrimSpace(s) ==
  LET ink == {i \in DOMAIN s : s[i] # " "}
  IN IF ink = {} THEN <<>> ELSE SubSeq(s, Min(ink), Max(ink))

\* Two letters before a separator are a state, if anything follows.
HasState(s) == Len(s) > 3 /\ {s[1], s[2]} \subseteq Letters /\ s[3] \in {"-", " "}

NormalizePlate(s) ==
  LET t == TrimSpace(s)
      plate == IF HasState(t) THEN SubSeq(t, 4, Len(t)) ELSE t
  IN SelectSeq(plate, LAMBDA c : c \in Letters \cup Digits)

\* The placeholders of an unknown unit are blank, leading zeros go if all are digits.
NormalizeTruckRef(s) ==
  LET t == TrimSpace(s)
      ink == {i \in DOMAIN t : t[i] # "0"}
  IN CASE t \in {<<"-">>, <<"-", "-">>} -> <<>>
       [] t = <<>> \/ ~(Range(t) \subseteq Digits) -> t
       [] OTHER -> IF ink = {} THEN <<"0">> ELSE SubSeq(t, Min(ink), Len(t))

NormalizeDeviceID(s) == TrimSpace(s)

parseReadType(s) ==
  CASE s \in {"transponder", "tag", "toll tag"} -> "transponder"
    [] s \in {"plate", "licence plate", "license plate", "image", "video"} -> "plate"
    [] OTHER -> ""

\* parsePrePassRow: one column holds the agency's tag or the plate, as the read type says.
PlateOf(readType, ref) == IF parseReadType(readType) = "plate" THEN NormalizePlate(ref) ELSE <<>>

-----------------------------------------------------------------------------
(* From a credential to a connection, and from a folder to its files.      *)

AllProviderTypes == {"prepass_sftp"}
IsValid(pt) == pt \in AllProviderTypes

RulesFor(pt) ==
  LET known == IsValid(pt)
  IN [username |-> known, secret |-> known, host |-> known, baseURL |-> FALSE,
      exts |-> IF known THEN {"xlsx", "xls", "csv"} ELSE {}]

\* A credential; " " stands for a field of spaces, a port 0 for none.
Credential == [type : {"prepass_sftp", "?"}, username : {"", " ", "u"}, secret : {"", "s"},
               host : {"", " ", "carrier"}, port : {0, 2022}, dir : {"", "own"},
               hostKey : {"", "key", "?"}]

\* The deployment: APP_ENV and the TEST_* variables, a port 0 for one that is no number.
Deployment == [APP_ENV : {"stage", "prod", ""}, host : {"", "catcher"}, port : {0, 2222},
               dir : {"", "drop"}]

Trimmed(s) == IF s = " " THEN "" ELSE s
Redacted(c) == IF c.secret = "" THEN c ELSE [c EXCEPT !.secret = "[REDACTED]"]

isNonProdAppEnv(env) == env.APP_ENV \in {"dev", "stage", "staging", "local"}

Validate(c, env) ==
  LET r == RulesFor(c.type)
  IN /\ IsValid(c.type)
     /\ r.username => Trimmed(c.username) # ""
     /\ r.secret => c.secret # ""
     /\ ~r.baseURL
     /\ r.host => Trimmed(c.host) # "" \/ isNonProdAppEnv(env)

\* Each override stands for itself; user, password and host key stay the carrier's.
NewPrePassSFTP(c, env) ==
  LET given(test, none, own) == IF isNonProdAppEnv(env) /\ test # none THEN test ELSE own
      port == given(env.port, 0, c.port)
  IN [host |-> given(env.host, "", Trimmed(c.host)), port |-> IF port = 0 THEN 22 ELSE port,
      dir |-> given(env.dir, "", c.dir), username |-> c.username, password |-> c.secret,
      hostKey |-> c.hostKey]

\* A server: whether it is reached, its key, what it answers to the login, and
\* whether it has the subsystem.
Server == [up : BOOLEAN, key : {"key", "another"}, login : {"ok", "denied", "broken"},
           sftp : BOOLEAN]

hostKeyCallback(hostKey) ==
  CASE hostKey = "" -> {"key", "another"}   \* any
    [] hostKey = "?" -> {}                  \* unreadable
    [] OTHER -> {hostKey}

isSSHAuthFailure(server) == server.login = "denied"

dialSFTP(d, server) ==
  CASE d.host = "" \/ d.username = "" \/ d.password = "" \/ hostKeyCallback(d.hostKey) = {} ->
         "not dialled"
    [] ~server.up -> "unreachable"
    [] server.key \notin hostKeyCallback(d.hostKey) -> "handshake"
    [] isSSHAuthFailure(server) -> "AuthError"
    [] server.login = "broken" -> "handshake"
    [] ~server.sftp -> "no subsystem"
    [] OTHER -> "open"

\* A set, empty for an error.
NewProviderFromCredential(c, env) == IF Validate(c, env) THEN {NewPrePassSFTP(c, env)} ELSE {}
TestConnection(provider, server) == dialSFTP(provider, server)
IsAuthError(result) == result = "AuthError"

\* Names: a space before the stem, the stem, the extension as it is spelled.
FileName(pad, stem, ext) == [pad |-> pad, stem |-> stem, ext |-> ext]
hasAcceptedExt(name, exts) ==
  exts = {} \/ (IF name.ext = "XLSX" THEN "xlsx" ELSE name.ext) \in exts

\* A folder: of each name in it, whether it is a regular file, its size and its time.
ListFiles(folder, exts) ==
  SetToSortSeq({n \in DOMAIN folder : folder[n].regular /\ hasAcceptedExt(n, exts)},
               LAMBDA m, n : folder[m].modTime > folder[n].modTime)

\* One byte past the limit is read, so that a longer file is refused and not cut off.
maxRemoteFileSize == 1
Fetch(folder, name) ==
  LET base == [name EXCEPT !.pad = FALSE]
  IN [file |-> base,
      result |-> IF base.stem \in {"", ".", "/", ".."} THEN "invalid name"
                 ELSE IF base \notin DOMAIN folder THEN "not opened"
                 ELSE IF ~folder[base].regular THEN "not read"
                 ELSE IF folder[base].size > maxRemoteFileSize THEN "exceeds"
                 ELSE "read"]

-----------------------------------------------------------------------------
(* The aggregator and the caller.                                          *)

\* What the aggregator is free in: whether the exit's clock stands beside its date
\* only, whether a zero amount is left out, whether there is a cover sheet, how
\* many blank lines stand above the header and below the rows, the miles.
Styles == [split : BOOLEAN, omitZero : BOOLEAN, cover : BOOLEAN,
           blanks : {0, 1, headerScanDepth}, miles : {"", "9"}]

Written(name, c, style) ==
  CASE name = "Post Date" -> Date(c.day, 0)
    [] name = "Toll $" -> IF c.cents = 0 /\ style.omitZero THEN Blank ELSE Money(c.cents)
    [] name = "Exit Date" -> Date(c.day, IF style.split THEN 0 ELSE c.clock)
    [] name = "Exit Time" -> IF style.split THEN Time(c.clock) ELSE Date(c.day, c.clock)
    [] name = "Mi" -> Text(style.miles)
    [] OTHER -> Blank

Book(rows, layout, style, damaged) ==
  LET lead == [i \in 1..style.blanks |-> <<Blank>>]
      cells(i) == [c \in DOMAIN layout |->
                     IF damaged = i /\ layout[c] = "Post Date" THEN Text("?")
                     ELSE Written(layout[c], rows[i], style)]
      header == [c \in DOMAIN layout |-> Text(layout[c])]
      cover == IF style.cover THEN << << <<Text("Account")>>, <<Text("Account"), Blank, Text("acc")>> >> >> ELSE <<>>
  IN Append(cover, lead \o <<header>> \o [i \in DOMAIN rows |-> cells(i)] \o lead)

BaseOf(c) == <<c.day, <<c.day, c.clock>>, c.cents>>

\* The rows of a file that are meant with base key b, and can be read.
Meant(f, b) == {i \in DOMAIN f.rows : i # f.damaged /\ BaseOf(f.rows[i]) = b}

NoFile == [book |-> <<>>, rows |-> <<>>, damaged |-> 0]

TollInit ==
  /\ truth = <<>> /\ file = NoFile /\ pool = {}
  /\ most = [b \in {BaseOf(c) : c \in Crossings} |-> 0]

Cross(c) ==
  /\ Len(truth) < MaxTruth
  /\ truth' = Append(truth, c)
  /\ UNCHANGED <<file, pool, most>>

\* A file of the week up to its n-th crossing, in any order, one row perhaps
\* damaged: a new file, a correction, or an old one again.
Drop(n, order, layout, style, damaged) ==
  LET rows == [i \in 1..n |-> truth[order[i]]]
  IN /\ file = NoFile
     /\ file' = [book |-> Book(rows, layout, style, damaged), rows |-> rows,
                 damaged |-> damaged]
     /\ UNCHANGED <<truth, pool, most>>

\* Fetch, Parse, and the caller's INSERT ... ON CONFLICT (hash) DO NOTHING; a file
\* without a data sheet is refused as a whole.  The file stays where it is; to read
\* it again is to have it sent again.
Ingest ==
  /\ HasData(file.book)
  /\ file' = NoFile
  /\ pool' = pool \cup Hashes(Parse(file.book).rows)
  /\ most' = [b \in DOMAIN most |->
                LET n == Cardinality(Meant(file, b)) IN IF n > most[b] THEN n ELSE most[b]]
  /\ UNCHANGED truth

Refuse ==
  /\ file # NoFile /\ ~HasData(file.book)
  /\ file' = NoFile
  /\ UNCHANGED <<truth, pool, most>>

TollNext ==
  \/ \E c \in Crossings : Cross(c)
  \/ \E n \in 0..Len(truth) : \E order \in Permutations(1..n), layout \in Layouts,
        style \in Styles, damaged \in 0..n : Drop(n, order, layout, style, damaged)
  \/ Ingest
  \/ Refuse

TollSpec == TollInit /\ [][TollNext]_tollVars

-----------------------------------------------------------------------------
(* Properties.                                                             *)

\* Whatever its layout and style, a file is read as it was meant (Parse): every
\* crossing is a row or an error, once, and an error carries the row number of the
\* damaged row.
ReadAsMeant == HasData(file.book) =>
  LET r == Parse(file.book)
      sheet == file.book[DataSheet(file.book)]
      base(j) == Base(r.rows[j])
  IN /\ \A b \in {base(j) : j \in DOMAIN r.rows} \cup DOMAIN most :
          Cardinality({j \in DOMAIN r.rows : base(j) = b}) = Cardinality(Meant(file, b))
     /\ Len(r.rows) + Cardinality(r.errors) = Len(file.rows)
     /\ \A n \in r.errors : Text("?") \in Range(sheet[n])
     /\ findAccount(file.book) = IF Len(file.book) = 2 THEN "acc" ELSE ""

\* However often the week is sent, the caller keeps of each base key as many rows as
\* the fullest file it has read (assignHashes, HashRow): no crossing is charged
\* twice because it is sent twice, and none is taken for another's copy.
ChargedOnce == \A b \in DOMAIN most \cup {h[1] : h \in pool} :
  b \in DOMAIN most /\ Cardinality({h \in pool : h[1] = b}) = most[b]

\* A plate is found with and without its state, but for one that looks as if it had a
\* second; two truck numbers are one if they are the same number, or the same text, or
\* both unknown; a device id keeps its zeros, and is never taken for a plate
\* (NormalizePlate, NormalizeTruckRef, NormalizeDeviceID, parsePrePassRow).
VehiclesMatch ==
  LET numeric(s) == s # <<>> /\ Range(s) \subseteq Digits
      number(s) == FoldLeft(LAMBDA n, c : 10 * n + IF c = "8" THEN 8 ELSE 0, 0, s)
      unknown(s) == s \in {<<>>, <<"-">>, <<"-", "-">>}
      same(r, s) == \/ r = s \/ (unknown(r) /\ unknown(s))
                    \/ (numeric(r) /\ numeric(s) /\ number(r) = number(s))
  IN /\ \A p \in Texts :
          /\ NormalizePlate(NormalizePlate(p)) = NormalizePlate(p)
          /\ LET t == TrimSpace(p)
             IN NormalizePlate(<<"A", "A", "-">> \o p) = NormalizePlate(p) <=> t # <<>> /\ ~HasState(t)
          /\ \A type \in {"toll tag", "Video?", "image"} :
               PlateOf(type, p) # <<>> => type = "image"
     /\ \A r, s \in BoundedSeq(Letters \cup Digits \cup {"-", " "}, MaxText - 1) :
          /\ NormalizeTruckRef(r) = NormalizeTruckRef(s) <=> same(TrimSpace(r), TrimSpace(s))
          /\ NormalizeDeviceID(r) = NormalizeDeviceID(s) => NormalizeTruckRef(r) = NormalizeTruckRef(s)

\* Outside of development a carrier's own host is dialled and never the catcher; in it
\* the catcher wherever one is configured, with the carrier's key, so that a pinned
\* credential opens it with that key only.  A credential that passes Validate is not
\* dialled only for a key that cannot be read, or in development for want of any host;
\* it is blamed (AuthError) only by the server it was meant for (NewPrePassSFTP, dialSFTP).
CarriersSpared == \A c \in Credential, env \in Deployment :
  LET dev == isNonProdAppEnv(env)
  IN \A provider \in NewProviderFromCredential(c, env) :
       /\ provider.host = "catcher" <=> dev /\ env.host # ""
       /\ provider.host = "carrier" => c.host = "carrier"
       /\ provider.port # 0 /\ Redacted(c).secret # provider.password
       /\ \A server \in Server :
            LET result == TestConnection(provider, server)
            IN /\ result = "not dialled" <=>
                    c.hostKey = "?" \/ (dev /\ env.host = "" /\ Trimmed(c.host) = "")
               /\ IsAuthError(result) \/ result = "open" =>
                    server.up /\ (c.hostKey # "" => server.key = c.hostKey)
               /\ IsAuthError(result) => server.login = "denied"

\* Every spreadsheet of the folder is listed once, the newest first, and fetched as it
\* is listed, whole or not at all; only one whose name begins with a space is missed,
\* or its namesake is taken for it (List, Fetch).
FilesFetched ==
  LET names == {FileName(FALSE, "a", "xlsx"), FileName(TRUE, "a", "xlsx"),
                FileName(FALSE, "b", "XLSX"), FileName(FALSE, "b", "pdf")}
      entry(n, mode) == [regular |-> mode # "directory", size |-> IF mode = "huge" THEN 2 ELSE 1,
                        modTime |-> (IF n.pad THEN 1 ELSE 0) + (IF n.ext = "pdf" THEN 3 ELSE 0)
                                    + IF n.ext = "XLSX" THEN 2 ELSE 0]
  IN \A present \in SUBSET names : \A mode \in [present -> {"file", "directory", "huge"}] :
       LET folder == [n \in present |-> entry(n, mode[n])]
           listed == ListFiles(folder, RulesFor("prepass_sftp").exts)
       IN /\ Range(listed) = {n \in present : mode[n] # "directory" /\ n.ext # "pdf"}
          /\ \A i, j \in DOMAIN listed : i < j => folder[listed[i]].modTime > folder[listed[j]].modTime
          /\ \A n \in Range(listed) :
               \/ Fetch(folder, n) = [file |-> n, result |-> IF mode[n] = "huge" THEN "exceeds" ELSE "read"]
               \/ n.pad
          /\ Fetch(folder, FileName(FALSE, "..", "")).result = "invalid name"

TollSound ==
  /\ ReadAsMeant /\ ChargedOnce
  /\ truth = <<>> /\ file = NoFile => VehiclesMatch /\ CarriersSpared /\ FilesFetched
=============================================================================
