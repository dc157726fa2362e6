------------------------------- MODULE Files -------------------------------
(***************************************************************************)
(* Files: rows in PostgreSQL, bytes in the object store, and the requests   *)
(* that upload, publish, unpublish and read them (FilesController,          *)
(* PublicFilesController, FilesService, PrismaFileRepository, the drivers). *)
(*                                                                         *)
(* A file is named by the UUID drawn for it, which is also in its storage   *)
(* key.  A public token is named by the file and the request that drew it.  *)
(* Every await is a step of its own: between the steps of one request the   *)
(* others move.  The permission guard has already let the request pass.     *)
(***************************************************************************)
EXTENDS Sequences, FiniteSets

CONSTANTS
  Users,
  Admins,        \* the users whose session says admin
  Files,
  Stored,        \* the files that are there at the start
  Requests,
  Asks(_),       \* Asks(r): what request r may ask for
  Leaving,       \* the users who may be removed
  Local,         \* the local driver is configured, not an S3-compatible one
  Nobody,        \* owner of the files whose uploader was removed
  NoRow, NoFile, NoToken, NoAsk,
  Earlier        \* the drawer of the tokens that are there at the start

VARIABLES
  users,   \* the users that exist
  rows,    \* the rows of the table files
  bytes,   \* what the object store holds for a file: none, a part of an upload
           \*   that broke off, the part of the body up to the size limit, the whole
  pc,      \* pc[r]: what request r does next, or how it ended
  ask,     \* ask[r]: what it asks for
  form,    \* form[r]: the parts of its multipart body still to be read
  flag,    \* flag[r]: the isPublic field read last
  file,    \* file[r]: the file it works on
  read,    \* read[r]: the row setVisibility has read
  made,    \* made[r]: the files whose rows it has created
  after,   \* observer: the requests over when the setVisibility r began
  writer,  \* observer: writer[f]: the request that wrote the row of f last
  shown    \* observer: the files public at some time since r began to look

vars == <<users, rows, bytes, pc, ask, form, flag, file, read, made, after,
          writer, shown>>

UploadAsk(u, many, parts) ==
  [op |-> "upload", user |-> u, many |-> many, form |-> parts]
ReadAsk(op, u, f) == [op |-> op, user |-> u, file |-> f]
VisibilityAsk(u, f, want) ==
  [op |-> "setVisibility", user |-> u, file |-> f, isPublic |-> want]
PublicAsk(op, t) == [op |-> op, token |-> t]

ReadOps == {"getMeta", "getDownloadUrl", "stream"}
PublicOps == {"getPublicAccess", "streamPublic"}

Parts == {"isPublic=true", "isPublic=false", "file"}

TokensOf(f) == {<<f, q>> : q \in Requests \cup {Earlier}}
Tokens == UNION {TokensOf(f) : f \in Files}

AskType ==
  [op : {"upload"}, user : Users, many : BOOLEAN, form : Seq(Parts)]
    \cup [op : ReadOps, user : Users, file : Files]
    \cup [op : {"setVisibility"}, user : Users, file : Files, isPublic : BOOLEAN]
    \cup [op : PublicOps, token : Tokens]

ASSUME FilesAssumption ==
  /\ Leaving \subseteq Users
  /\ Local \in BOOLEAN
  /\ Nobody \notin Users
  /\ NoFile \notin Files
  /\ Earlier \notin Requests
  /\ NoToken \notin Tokens
  /\ \A r \in Requests : Asks(r) \subseteq AskType

\* A row names its public link whenever it is public.
Row(f) == {x \in [owner : Users \cup {Nobody}, isPublic : BOOLEAN,
                  token : TokensOf(f) \cup {NoToken}] :
             x.isPublic => x.token # NoToken}

Rows == UNION {Row(f) : f \in Files}

ASSUME NoRowAssumption == NoRow \notin Rows

Steps == {"parts", "store", "create", "find", "serve", "update"}
Outcomes == {"ok", "failed"}

InFlight(r) == pc[r] \in Steps
Over(r) == pc[r] \in Outcomes

IsPublic(f) == rows[f] # NoRow /\ rows[f].isPublic

Init ==
  /\ users = Users
  /\ rows \in [Files -> Rows \cup {NoRow}]
  /\ \A f \in Stored :
       /\ rows[f] \in Row(f) /\ rows[f].owner \in Users
       /\ rows[f].token \in {NoToken, <<f, Earlier>>}
  /\ \A f \in Files \ Stored : rows[f] = NoRow
  /\ bytes = [f \in Files |-> IF f \in Stored THEN "whole" ELSE "none"]
  /\ pc = [r \in Requests |-> "idle"]
  /\ ask = [r \in Requests |-> NoAsk]
  /\ form = [r \in Requests |-> <<>>]
  /\ flag = [r \in Requests |-> FALSE]
  /\ file = [r \in Requests |-> NoFile]
  /\ read = [r \in Requests |-> NoRow]
  /\ made = [r \in Requests |-> {}]
  /\ after = [r \in Requests |-> {}]
  /\ writer = [f \in Files |-> Earlier]
  /\ shown = [r \in Requests |-> {}]

Locals == <<form, flag, read>>

Goes(r, where) == pc' = [pc EXCEPT ![r] = where] /\ UNCHANGED Locals

\* The request is answered, with success or an error; its locals are gone.
Ends(r, how) ==
  /\ pc' = [pc EXCEPT ![r] = how]
  /\ form' = [form EXCEPT ![r] = <<>>]
  /\ flag' = [flag EXCEPT ![r] = FALSE]
  /\ read' = [read EXCEPT ![r] = NoRow]

-----------------------------------------------------------------------------
(* A request arrives; a user without account has no session to send it in. *)

Begin(r, a) ==
  /\ pc[r] = "idle"
  /\ a.op \notin PublicOps => a.user \in users
  /\ ask' = [ask EXCEPT ![r] = a]
  /\ pc' = [pc EXCEPT ![r] = IF a.op = "upload" THEN "parts" ELSE "find"]
  /\ form' = [form EXCEPT ![r] = IF a.op = "upload" THEN a.form ELSE <<>>]
  /\ after' = [after EXCEPT ![r] =
                IF a.op = "setVisibility" THEN {q \in Requests : Over(q)} ELSE {}]
  /\ UNCHANGED <<users, rows, bytes, flag, file, read, made, writer>>

-----------------------------------------------------------------------------
(* upload and upload/multiple: for each file part, validate, store, create. *)

ReadField(r) ==
  /\ pc[r] = "parts"
  /\ form[r] # <<>> /\ Head(form[r]) # "file"
  /\ flag' = [flag EXCEPT ![r] = Head(form[r]) = "isPublic=true"]
  /\ form' = [form EXCEPT ![r] = Tail(@)]
  /\ UNCHANGED <<users, rows, bytes, pc, ask, file, read, made, after, writer>>

\* A UUID nobody has drawn.
Unused(f) ==
  rows[f] = NoRow /\ bytes[f] = "none" /\ \A q \in Requests : file[q] # f

ReadFile(r, f) ==
  /\ pc[r] = "parts"
  /\ form[r] # <<>> /\ Head(form[r]) = "file"
  /\ Unused(f)
  /\ pc' = [pc EXCEPT ![r] = "store"]
  /\ form' = [form EXCEPT ![r] = Tail(@)]
  /\ file' = [file EXCEPT ![r] = f]
  /\ UNCHANGED <<users, rows, bytes, ask, flag, read, made, after, writer>>

\* A part over the parser's fileSize ends there like any other: its stream is
\* marked as truncated, which nobody reads, and is stored "cut".
Drains == {"whole", "cut"}

UploadStream(r) ==
  /\ pc[r] = "store"
  /\ \E drained \in Drains : bytes' = [bytes EXCEPT ![file[r]] = drained]
  /\ Goes(r, "create")
  /\ UNCHANGED <<users, rows, ask, file, made, after, writer>>

\* What a failed upload leaves behind: the local driver keeps what it wrote,
\* S3 drops an upload that breaks off; asking for the size comes after the bytes.
Leftovers == IF Local THEN Drains \cup {"part"} ELSE Drains

\* Variant of UploadStreamFails: the error is lost and the row is created.
UploadStreamErrorLost(r) ==
  /\ pc[r] = "store"
  /\ \E left \in Leftovers : bytes' = [bytes EXCEPT ![file[r]] = left]
  /\ Goes(r, "create")
  /\ UNCHANGED <<users, rows, ask, file, made, after, writer>>

UploadStreamFails(r) ==
  /\ pc[r] = "store"
  /\ \E left \in Leftovers : bytes' = [bytes EXCEPT ![file[r]] = left]
  /\ Ends(r, "failed")
  /\ UNCHANGED <<users, rows, ask, file, made, after, writer>>

NewRow(r) ==
  [owner |-> ask[r].user, isPublic |-> flag[r],
   token |-> IF flag[r] THEN <<file[r], r>> ELSE NoToken]

\* The row is created with its uploader, who must exist.  The commit may be
\* followed by a lost answer, which the service takes for a failure.
CreateRow(r) ==
  /\ pc[r] = "create"
  /\ ask[r].user \in users
  /\ rows' = [rows EXCEPT ![file[r]] = NewRow(r)]
  /\ \/ /\ made' = [made EXCEPT ![r] = @ \cup {file[r]}]
        /\ IF ask[r].many THEN Goes(r, "parts") ELSE Ends(r, "ok")
     \/ /\ made' = made
        /\ Ends(r, "failed")
  /\ writer' = [writer EXCEPT ![file[r]] = r]
  /\ UNCHANGED <<users, bytes, ask, file, after>>

\* Variant of EndOfForm that does not look whether there was a file.
EndOfFormUnchecked(r) ==
  /\ pc[r] = "parts"
  /\ form[r] = <<>>
  /\ Ends(r, "ok")
  /\ UNCHANGED <<users, rows, bytes, ask, file, made, after, writer>>

\* The parser's error for a part over the limit reaches whoever asks for the
\* next part, at the end of the form at the latest: the rows are created by then.
EndOfForm(r) ==
  /\ pc[r] = "parts"
  /\ form[r] = <<>>
  /\ Ends(r, IF made[r] = {} \/ \E f \in made[r] : bytes[f] = "cut"
             THEN "failed" ELSE "ok")
  /\ UNCHANGED <<users, rows, bytes, ask, file, made, after, writer>>

-----------------------------------------------------------------------------
(* Routes by id: findAccessibleById, then the service acts on what it read. *)

Accessible(u, f) ==
  /\ rows[f] # NoRow
  /\ u \in Admins \/ rows[f].isPublic \/ rows[f].owner = u

FindToServe(r) ==
  /\ pc[r] = "find"
  /\ ask[r].op \in ReadOps
  /\ IF Accessible(ask[r].user, ask[r].file)
     THEN file' = [file EXCEPT ![r] = ask[r].file] /\ Goes(r, "serve")
     ELSE file' = file /\ Ends(r, "failed")
  /\ UNCHANGED <<users, rows, bytes, ask, made, after, writer>>

\* Variant of MayChange: who may see a file may publish it.
MayChangeIfVisible(u, f) == Accessible(u, f)

\* Only the owner or an admin may change visibility.
MayChange(u, f) ==
  Accessible(u, f) /\ (u \in Admins \/ rows[f].owner = u)

FindToUpdate(r) ==
  /\ pc[r] = "find"
  /\ ask[r].op = "setVisibility"
  /\ IF MayChange(ask[r].user, ask[r].file)
     THEN /\ pc' = [pc EXCEPT ![r] = "update"]
          /\ file' = [file EXCEPT ![r] = ask[r].file]
          /\ read' = [read EXCEPT ![r] = rows[ask[r].file]]
          /\ UNCHANGED <<form, flag>>
     ELSE file' = file /\ Ends(r, "failed")
  /\ UNCHANGED <<users, rows, bytes, ask, made, after, writer>>

\* Variants of TokenToWrite: one draws at every publication, one never draws.
TokenAlwaysDrawn(r) == IF ask[r].isPublic THEN <<file[r], r>> ELSE NoToken
TokenNeverDrawn(r) == read[r].token

\* The token the row had when it was read; the first publication draws one.
TokenToWrite(r) ==
  IF ask[r].isPublic /\ read[r].token = NoToken
  THEN <<file[r], r>> ELSE read[r].token

UpdateRow(r) ==
  /\ pc[r] = "update"
  /\ rows[file[r]] # NoRow
  /\ rows' = [rows EXCEPT ![file[r]].isPublic = ask[r].isPublic,
                          ![file[r]].token = TokenToWrite(r)]
  /\ Ends(r, "ok") \/ Ends(r, "failed")   \* failed: committed, the answer lost
  /\ writer' = [writer EXCEPT ![file[r]] = r]
  /\ UNCHANGED <<users, bytes, ask, file, made, after>>

\* getReadStream answers notFound for a key that nothing is stored under.
GetReadStream(f) == IF bytes[f] = "none" THEN "failed" ELSE "ok"

\* The link is signed, or the bytes opened, for the row read before.
Serve(r) ==
  /\ pc[r] = "serve"
  /\ Ends(r, IF ask[r].op \in {"stream", "streamPublic"}
             THEN GetReadStream(file[r]) ELSE "ok")
  /\ UNCHANGED <<users, rows, bytes, ask, file, made, after, writer>>

-----------------------------------------------------------------------------
(* Routes by token.                                                        *)

Holders(t) == {f \in Files : rows[f] # NoRow /\ rows[f].token = t}

\* Variant of Published: the token alone opens the file.
PublishedByToken(t) == Holders(t)

\* The file a token opens: a token outlives the end of publication.
Published(t) == {f \in Holders(t) : rows[f].isPublic}

FindByPublicToken(r) ==
  /\ pc[r] = "find"
  /\ ask[r].op \in PublicOps
  /\ \/ \E f \in Published(ask[r].token) :
          file' = [file EXCEPT ![r] = f] /\ Goes(r, "serve")
     \/ Published(ask[r].token) = {} /\ file' = file /\ Ends(r, "failed")
  /\ UNCHANGED <<users, rows, bytes, ask, made, after, writer>>

-----------------------------------------------------------------------------
(* Failures and the removal of users.                                      *)

\* Variant of Fails: upload/multiple goes on with the next part.
FailsAndGoesOn(r) ==
  /\ InFlight(r)
  /\ IF pc[r] = "create" /\ ask[r].many THEN Goes(r, "parts") ELSE Ends(r, "failed")
  /\ UNCHANGED <<users, rows, bytes, ask, file, made, after, writer>>

\* An await rejects, the validator refuses the part, or the process dies.
Fails(r) ==
  /\ InFlight(r)
  /\ Ends(r, "failed")
  /\ UNCHANGED <<users, rows, bytes, ask, file, made, after, writer>>

\* Better Auth deletes a user: ON DELETE SET NULL on the uploader.
RemoveUser(u) ==
  /\ u \in users \cap Leaving
  /\ users' = users \ {u}
  /\ rows' = [f \in Files |->
               IF rows[f] # NoRow /\ rows[f].owner = u
               THEN [rows[f] EXCEPT !.owner = Nobody] ELSE rows[f]]
  /\ UNCHANGED <<bytes, pc, ask, form, flag, file, read, made, after, writer>>

-----------------------------------------------------------------------------
\* Observes what has been public since a request that looks a file up began.
Observe ==
  shown' = [r \in Requests |->
             IF pc'[r] \in {"find", "serve"}
             THEN shown[r] \cup {f \in Files : IsPublic(f)'} ELSE {}]

RequestStep(r) ==
  \/ (\E a \in Asks(r) : Begin(r, a)) \/ ReadField(r) \/ (\E f \in Files : ReadFile(r, f))
  \/ UploadStream(r) \/ UploadStreamFails(r) \/ CreateRow(r) \/ EndOfForm(r)
  \/ FindToServe(r) \/ FindToUpdate(r) \/ UpdateRow(r) \/ Serve(r)
  \/ FindByPublicToken(r) \/ Fails(r)

Next ==
  /\ \/ \E r \in Requests : RequestStep(r)
     \/ \E u \in Users : RemoveUser(u)
  /\ Observe

Spec == Init /\ [][Next]_vars

-----------------------------------------------------------------------------
(* Properties.                                                             *)

\* Types; a row that is public names its link (upload, setVisibility).
TypeOK ==
  /\ users \subseteq Users
  /\ rows \in [Files -> Rows \cup {NoRow}]
  /\ \A f \in Files : rows[f] \in Row(f) \cup {NoRow}
  /\ bytes \in [Files -> {"none", "part"} \cup Drains]
  /\ pc \in [Requests -> {"idle"} \cup Steps \cup Outcomes]
  /\ ask \in [Requests -> AskType \cup {NoAsk}]
  /\ form \in [Requests -> Seq(Parts)]
  /\ flag \in [Requests -> BOOLEAN]
  /\ file \in [Requests -> Files \cup {NoFile}]
  /\ read \in [Requests -> Rows \cup {NoRow}]
  /\ made \in [Requests -> SUBSET Files]
  /\ after \in [Requests -> SUBSET Requests]
  /\ writer \in [Files -> Requests \cup {Earlier}]
  /\ shown \in [Requests -> SUBSET Files]

\* A row names bytes that were stored to the end of their stream, whatever fails
\* or dies in between (FilesService.upload creates the row last).  The stream may
\* have ended at the size limit.
RowsHaveBytes == \A f \in Files : rows[f] # NoRow => bytes[f] \in Drains

\* Bytes without a row are those of an upload under way or told to have
\* failed, one file at most of each: an upload answered with success leaves
\* none (the loop of uploadMultiple ends with the first failure).
OrphansAreFailures ==
  \A f \in Files : rows[f] = NoRow /\ bytes[f] # "none" =>
    \E r \in Requests : file[r] = f /\ pc[r] \in {"create", "failed"}

\* An upload answered with success made at least one file, and each is still
\* there and its uploader's, unless the account is gone; one of several parts
\* (upload/multiple) stored all of them whole.
AnsweredIsKept ==
  \A r \in Requests : pc[r] = "ok" /\ ask[r].op = "upload" =>
    /\ made[r] # {}
    /\ \A f \in made[r] :
         /\ rows[f] # NoRow
         /\ ask[r].many => bytes[f] = "whole"
         /\ \/ rows[f].owner = ask[r].user
            \/ rows[f].owner = Nobody /\ ask[r].user \notin users

\* What files.dto.ts:83-86 documents of upload, an error for a file that is too
\* large: an upload answered with success stored its file whole.  The code stores
\* the file up to the limit and answers with success.
TooLargeIsRefused ==
  \A r \in Requests : pc[r] = "ok" /\ ask[r].op = "upload" =>
    \A f \in made[r] : bytes[f] = "whole"

\* A request that is given a file not its own was given one that was public
\* while the request ran; in particular an old token opens nothing after the
\* end of publication (getPublicOrThrow, findAccessibleById).
StrangersSeeWhatIsPublished ==
  [][\A r \in Requests : pc[r] = "serve" /\ pc'[r] = "ok" =>
       \/ file[r] \in shown[r]
       \/ /\ ask[r].op \in ReadOps
          /\ \/ ask[r].user \in Admins
             \/ rows[file[r]].owner = ask[r].user
             \/ ask[r].user \notin users]_vars

Rewritten(f) ==
  /\ rows[f] # NoRow
  /\ rows'[f].isPublic # rows[f].isPublic \/ rows'[f].token # rows[f].token

\* Whoever publishes, unpublishes or renews the link of a file is its owner or
\* an admin, although anybody may reach a public file by its id (setVisibility).
OnlyOwnersPublish ==
  [][\A f \in Files : Rewritten(f) =>
       \E r \in Requests :
         /\ pc[r] = "update" /\ pc'[r] # "update" /\ file[r] = f
         /\ \/ ask[r].user \in Admins
            \/ rows[f].owner = ask[r].user
            \/ ask[r].user \notin users]_vars

\* Only a request that was already running when the row was last written may
\* change the link of a file or drop it; requests one after the other never do,
\* also while the file is private (setVisibility writes back the token it read).
LinksStay ==
  [][\A f \in Files :
       rows[f] # NoRow /\ rows[f].token # NoToken /\ rows'[f].token # rows[f].token =>
         \E r \in Requests :
           /\ pc[r] = "update" /\ pc'[r] # "update" /\ file[r] = f
           /\ writer[f] \notin after[r] \cup {Earlier}]_vars
=============================================================================
