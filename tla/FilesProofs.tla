---------------------------- MODULE FilesProofs ----------------------------
(* Proofs about Files, for any users, files, requests and either driver.   *)
EXTENDS Files, SequenceTheorems, TLAPS

-----------------------------------------------------------------------------
(* The inductive invariant.                                                *)

Uploading(r) == pc[r] \in {"store", "create"}

\* The file an upload works on is new, and stored before its row is created.
UploadInv ==
  \A r \in Requests :
    /\ pc[r] \in {"parts", "store", "create"} =>
         ask[r] \in AskType /\ ask[r].op = "upload"
    /\ Uploading(r) => file[r] \in Files /\ rows[file[r]] = NoRow
    /\ pc[r] = "create" => bytes[file[r]] \in Drains

\* No two uploads work on the same file.
DistinctInv ==
  \A r, q \in Requests : Uploading(r) /\ Uploading(q) /\ file[r] = file[q] => r = q

\* A request about to write visibility belongs to someone who may, and if the
\* row was last written before it began, it has read the token of now.
UpdateInv ==
  \A r \in Requests : pc[r] = "update" =>
    /\ ask[r] \in AskType /\ ask[r].op = "setVisibility"
    /\ file[r] \in Files /\ rows[file[r]] # NoRow
    /\ read[r] \in Row(file[r])
    /\ \/ ask[r].user \in Admins
       \/ rows[file[r]].owner = ask[r].user
       \/ ask[r].user \notin users
    /\ writer[file[r]] \in after[r] \cup {Earlier} =>
         read[r].token = rows[file[r]].token

FindInv == \A r \in Requests : pc[r] = "find" => ask[r] \in AskType

\* What was over stays over.
AfterInv == \A r \in Requests : \A q \in after[r] : Over(q)

IInv == TypeOK /\ RowsHaveBytes /\ UploadInv /\ DistinctInv /\ UpdateInv
          /\ FindInv /\ AfterInv

\* All of TypeOK but the observer that every step moves.
TypeButShown ==
  /\ users \subseteq Users
  /\ rows \in [Files -> Rows \cup {NoRow}]
  /\ \A f \in Files : rows[f] \in Row(f) \cup {NoRow}
  /\ bytes \in [Files -> {"none", "part"} \cup Drains]
  /\ pc \in [Requests -> {"idle"} \cup Steps \cup Outcomes]
  /\ ask \in [Requests -> AskType \cup {NoAsk}]
  /\ form \in [Requests -> Seq(Parts)]
  /\ flag \in [Requests -> BOOLEAN]
  /\ file \in [Requests -> Files \cup {NoFile}]
  /\ read \in [Requests -> Rows \cup {NoRow}]
  /\ made \in [Requests -> SUBSET Files]
  /\ after \in [Requests -> SUBSET Requests]
  /\ writer \in [Files -> Requests \cup {Earlier}]

Rest == TypeButShown /\ RowsHaveBytes /\ UploadInv /\ DistinctInv /\ UpdateInv
          /\ FindInv /\ AfterInv

-----------------------------------------------------------------------------
(* Lemmas about data.                                                      *)

\* The fields of what a request may ask for.
LEMMA AskFields ==
  ASSUME NEW a \in AskType
  PROVE  /\ a.op = "upload" => a.user \in Users /\ a.many \in BOOLEAN /\ a.form \in Seq(Parts)
         /\ a.op \in ReadOps => a.user \in Users /\ a.file \in Files
         /\ a.op = "setVisibility" =>
              a.user \in Users /\ a.file \in Files /\ a.isPublic \in BOOLEAN
BY DEF AskType, ReadOps, PublicOps

\* Reading one part of a form leaves a form.
LEMMA TailOfForm ==
  ASSUME NEW s \in Seq(Parts), s # <<>>
  PROVE  Tail(s) \in Seq(Parts)
BY HeadTailProperties

\* Rows of a file are rows, and none is NoRow.
LEMMA RowFacts ==
  ASSUME NEW f \in Files
  PROVE  Row(f) \subseteq Rows /\ NoRow \notin Row(f)
BY NoRowAssumption DEF Rows

LEMMA EndsMoves ==
  ASSUME TypeOK, NEW r \in Requests, NEW how \in Outcomes, Ends(r, how)
  PROVE  /\ pc' \in [Requests -> {"idle"} \cup Steps \cup Outcomes]
         /\ pc'[r] = how /\ \A q \in Requests \ {r} : pc'[q] = pc[q]
         /\ form' \in [Requests -> Seq(Parts)]
         /\ flag' \in [Requests -> BOOLEAN]
         /\ read' \in [Requests -> Rows \cup {NoRow}]
         /\ \A q \in Requests \ {r} : read'[q] = read[q]
BY DEF TypeOK, Ends, Outcomes

LEMMA GoesMoves ==
  ASSUME TypeOK, NEW r \in Requests, NEW where \in Steps, Goes(r, where)
  PROVE  /\ pc' \in [Requests -> {"idle"} \cup Steps \cup Outcomes]
         /\ pc'[r] = where /\ \A q \in Requests \ {r} : pc'[q] = pc[q]
         /\ form' \in [Requests -> Seq(Parts)]
         /\ flag' \in [Requests -> BOOLEAN]
         /\ read' \in [Requests -> Rows \cup {NoRow}]
         /\ \A q \in Requests \ {r} : read'[q] = read[q]
BY DEF TypeOK, Goes, Locals, Steps

-----------------------------------------------------------------------------
LEMMA BeginKeeps ==
  ASSUME IInv, NEW r \in Requests, NEW a \in Asks(r), Begin(r, a)
  PROVE  Rest'
<1>1. a \in AskType
  BY FilesAssumption
<1>2. a.op = "upload" => a.form \in Seq(Parts)
  BY <1>1, AskFields
<1>3. TypeButShown'
  BY <1>1, <1>2 DEF IInv, TypeOK, TypeButShown, Begin, Steps, Outcomes
<1>4. RowsHaveBytes' /\ DistinctInv' /\ FindInv' /\ UploadInv'
  BY <1>1 DEF IInv, TypeOK, RowsHaveBytes, DistinctInv, FindInv, UploadInv, Uploading, Begin
<1>5. UpdateInv' /\ AfterInv'
  BY <1>1 DEF IInv, TypeOK, UpdateInv, AfterInv, Over, Outcomes, Begin
<1> QED BY <1>3, <1>4, <1>5 DEF Rest

LEMMA CreateRowKeeps ==
  ASSUME IInv, NEW r \in Requests, CreateRow(r)
  PROVE  Rest'
<1> DEFINE f == file[r]
<1>1. ask[r] \in AskType /\ ask[r].op = "upload" /\ f \in Files /\ rows[f] = NoRow
      /\ bytes[f] \in Drains /\ pc[r] = "create"
  BY DEF IInv, UploadInv, Uploading, CreateRow
<1>2. ask[r].user \in Users
  BY <1>1, AskFields
<1>3. NewRow(r) \in Row(f)
  BY <1>1, <1>2, FilesAssumption DEF NewRow, Row, TokensOf, Tokens, IInv, TypeOK
<1>4. NewRow(r) \in Rows /\ NewRow(r) # NoRow
  BY <1>1, <1>3, RowFacts
<1>5. TypeOK
  BY DEF IInv
<1>6. \/ Ends(r, "ok") \/ Ends(r, "failed") \/ Goes(r, "parts")
  BY DEF CreateRow
<1>7. /\ pc' \in [Requests -> {"idle"} \cup Steps \cup Outcomes]
      /\ pc'[r] \in {"ok", "failed", "parts"}
      /\ \A q \in Requests \ {r} : pc'[q] = pc[q]
      /\ form' \in [Requests -> Seq(Parts)]
      /\ flag' \in [Requests -> BOOLEAN]
      /\ read' \in [Requests -> Rows \cup {NoRow}]
      /\ \A q \in Requests \ {r} : read'[q] = read[q]
  BY <1>5, <1>6, EndsMoves, GoesMoves DEF Steps, Outcomes
<1>8. made' \in [Requests -> SUBSET Files]
  <2>1. made' = made \/ made' = [made EXCEPT ![r] = made[r] \cup {f}]
    BY DEF CreateRow
  <2>2. made \in [Requests -> SUBSET Files] /\ made[r] \cup {f} \in SUBSET Files
    BY <1>1, <1>5 DEF TypeOK
  <2> QED BY <2>1, <2>2
<1>9. /\ rows' \in [Files -> Rows \cup {NoRow}]
      /\ rows'[f] = NewRow(r) /\ \A g \in Files \ {f} : rows'[g] = rows[g]
      /\ writer' \in [Files -> Requests \cup {Earlier}]
      /\ writer'[f] = r /\ \A g \in Files \ {f} : writer'[g] = writer[g]
  BY <1>1, <1>4, <1>5 DEF CreateRow, TypeOK
<1>10. UNCHANGED <<users, bytes, ask, file, after>>
  BY DEF CreateRow
<1>11. TypeButShown'
  BY <1>3, <1>5, <1>7, <1>8, <1>9, <1>10 DEF TypeOK, TypeButShown
<1>12. RowsHaveBytes'
  BY <1>1, <1>9, <1>10 DEF IInv, RowsHaveBytes
<1>13. UploadInv'
  <2> SUFFICES ASSUME NEW q \in Requests PROVE UploadInv!(q)'
    BY DEF UploadInv
  <2>1. CASE q = r
    BY <2>1, <1>1, <1>7, <1>10 DEF Uploading
  <2>2. CASE q # r
    <3>1. Uploading(q) => file[q] # f
      BY <2>2, <1>1 DEF IInv, DistinctInv, Uploading
    <3>2. Uploading(q) => rows'[file[q]] = rows[file[q]]
      BY <3>1, <1>9 DEF IInv, UploadInv
    <3> QED BY <2>2, <3>2, <1>7, <1>10 DEF IInv, UploadInv, Uploading
  <2> QED BY <2>1, <2>2
<1>14. DistinctInv'
  <2>1. \A q \in Requests : Uploading(q)' => Uploading(q)
    BY <1>7 DEF Uploading
  <2> QED BY <2>1, <1>10 DEF IInv, DistinctInv
<1>15. UpdateInv'
  <2> SUFFICES ASSUME NEW q \in Requests, pc'[q] = "update" PROVE UpdateInv!(q)!2'
    BY DEF UpdateInv
  <2>1. q # r /\ pc[q] = "update"
    BY <1>7
  <2>2. file[q] # f
    BY <1>1, <2>1 DEF IInv, UpdateInv
  <2> QED BY <2>1, <2>2, <1>7, <1>9, <1>10 DEF IInv, UpdateInv
<1>16. FindInv' /\ AfterInv'
  BY <1>1, <1>5, <1>7, <1>10 DEF IInv, TypeOK, FindInv, AfterInv, Over, Outcomes
<1> QED BY <1>11, <1>12, <1>13, <1>14, <1>15, <1>16 DEF Rest

\* What UpdateRow does to the row: a row of the same owner.
LEMMA UpdatedRow ==
  ASSUME IInv, NEW r \in Requests, UpdateRow(r)
  PROVE  /\ file[r] \in Files /\ rows[file[r]] # NoRow
         /\ rows'[file[r]] \in Row(file[r]) /\ rows'[file[r]] \in Rows
         /\ rows'[file[r]] # NoRow
         /\ rows'[file[r]].owner = rows[file[r]].owner
         /\ \A g \in Files \ {file[r]} : rows'[g] = rows[g]
         /\ rows' \in [Files -> Rows \cup {NoRow}]
<1> DEFINE f == file[r]
           new == [rows[f] EXCEPT !.isPublic = ask[r].isPublic, !.token = TokenToWrite(r)]
<1>1. ask[r] \in AskType /\ ask[r].op = "setVisibility" /\ f \in Files
      /\ rows[f] # NoRow /\ read[r] \in Row(f)
  BY DEF IInv, UpdateInv, UpdateRow
<1>2. ask[r].isPublic \in BOOLEAN
  BY <1>1, AskFields
<1>3. TypeOK /\ rows[f] \in Row(f)
  BY <1>1 DEF IInv, TypeOK
<1>4. TokenToWrite(r) \in TokensOf(f) \cup {NoToken}
      /\ (ask[r].isPublic => TokenToWrite(r) # NoToken)
  BY <1>1, <1>2, FilesAssumption DEF TokenToWrite, Row, TokensOf, Tokens
<1>5. new \in Row(f) /\ new.owner = rows[f].owner
  BY <1>2, <1>3, <1>4 DEF Row
<1>6. new \in Rows /\ new # NoRow
  BY <1>1, <1>5, RowFacts
<1>7. rows' = [rows EXCEPT ![f] = new]
  BY <1>1, <1>3 DEF UpdateRow, TypeOK
<1> QED BY <1>1, <1>3, <1>5, <1>6, <1>7 DEF TypeOK

LEMMA UpdateRowKeeps ==
  ASSUME IInv, NEW r \in Requests, UpdateRow(r)
  PROVE  Rest'
<1> DEFINE f == file[r]
<1>1. TypeOK /\ f \in Files /\ rows[f] # NoRow /\ pc[r] = "update"
  BY UpdatedRow DEF IInv, UpdateRow
<1>2. /\ rows' \in [Files -> Rows \cup {NoRow}]
      /\ rows'[f] \in Row(f) /\ rows'[f] # NoRow /\ rows'[f].owner = rows[f].owner
      /\ \A g \in Files \ {f} : rows'[g] = rows[g]
  BY UpdatedRow
<1>3. /\ writer' \in [Files -> Requests \cup {Earlier}]
      /\ writer'[f] = r /\ \A g \in Files \ {f} : writer'[g] = writer[g]
  BY <1>1 DEF UpdateRow, TypeOK
<1>4. Ends(r, "ok") \/ Ends(r, "failed")
  BY DEF UpdateRow
<1>5. /\ pc' \in [Requests -> {"idle"} \cup Steps \cup Outcomes]
      /\ pc'[r] \in {"ok", "failed"}
      /\ \A q \in Requests \ {r} : pc'[q] = pc[q]
      /\ form' \in [Requests -> Seq(Parts)]
      /\ flag' \in [Requests -> BOOLEAN]
      /\ read' \in [Requests -> Rows \cup {NoRow}]
      /\ \A q \in Requests \ {r} : read'[q] = read[q]
  BY <1>1, <1>4, EndsMoves DEF Outcomes
<1>6. UNCHANGED <<users, bytes, ask, file, made, after>>
  BY DEF UpdateRow
<1>7. TypeButShown'
  <2>1. \A g \in Files : rows'[g] \in Row(g) \cup {NoRow}
    BY <1>1, <1>2 DEF TypeOK
  <2> QED BY <2>1, <1>1, <1>2, <1>3, <1>5, <1>6 DEF TypeOK, TypeButShown
<1>8. RowsHaveBytes'
  BY <1>1, <1>2, <1>6 DEF IInv, RowsHaveBytes
<1>9. UploadInv'
  <2> SUFFICES ASSUME NEW q \in Requests PROVE UploadInv!(q)'
    BY DEF UploadInv
  <2>1. CASE q = r
    BY <2>1, <1>5 DEF Uploading
  <2>2. CASE q # r
    BY <2>2, <1>1, <1>2, <1>5, <1>6 DEF IInv, UploadInv, Uploading
  <2> QED BY <2>1, <2>2
<1>10. DistinctInv'
  <2>1. \A q \in Requests : Uploading(q)' => Uploading(q)
    BY <1>5 DEF Uploading
  <2> QED BY <2>1, <1>6 DEF IInv, DistinctInv
<1>11. UpdateInv'
  <2> SUFFICES ASSUME NEW q \in Requests, pc'[q] = "update" PROVE UpdateInv!(q)!2'
    BY DEF UpdateInv
  <2>1. q # r /\ pc[q] = "update" /\ read'[q] = read[q]
    BY <1>5
  <2>2. r \notin after[q] \cup {Earlier}
    BY <1>1, FilesAssumption DEF IInv, AfterInv, Over, Outcomes
  <2> QED BY <2>1, <2>2, <1>3, <1>2, <1>6 DEF IInv, UpdateInv
<1>12. FindInv' /\ AfterInv'
  BY <1>1, <1>5, <1>6 DEF IInv, TypeOK, FindInv, AfterInv, Over, Outcomes
<1> QED BY <1>7, <1>8, <1>9, <1>10, <1>11, <1>12 DEF Rest

\* The steps that touch nothing shared and leave r without a file to write to.
LEMMA QuietKeeps ==
  ASSUME IInv, NEW r \in Requests, InFlight(r),
         UNCHANGED <<users, rows, bytes, ask, made, after, writer>>,
         pc' \in [Requests -> {"idle"} \cup Steps \cup Outcomes],
         pc'[r] \in {"serve"} \cup Outcomes \/ (pc[r] = "parts" /\ pc'[r] = "parts"),
         form' \in [Requests -> Seq(Parts)],
         flag' \in [Requests -> BOOLEAN],
         read' \in [Requests -> Rows \cup {NoRow}],
         file' \in [Requests -> Files \cup {NoFile}],
         \A q \in Requests \ {r} : pc'[q] = pc[q] /\ read'[q] = read[q] /\ file'[q] = file[q]
  PROVE  Rest'
<1>1. TypeButShown'
  BY DEF IInv, TypeOK, TypeButShown
<1>2. RowsHaveBytes'
  BY DEF IInv, RowsHaveBytes
<1>3. UploadInv'
  <2> SUFFICES ASSUME NEW q \in Requests PROVE UploadInv!(q)'
    BY DEF UploadInv
  <2>1. CASE q = r
    BY <2>1 DEF IInv, UploadInv, Uploading, Outcomes
  <2>2. CASE q # r
    BY <2>2 DEF IInv, UploadInv, Uploading
  <2> QED BY <2>1, <2>2
<1>4. DistinctInv'
  BY DEF IInv, DistinctInv, Uploading, Outcomes
<1>5. UpdateInv'
  <2> SUFFICES ASSUME NEW q \in Requests, pc'[q] = "update" PROVE UpdateInv!(q)!2'
    BY DEF UpdateInv
  <2>1. q # r
    BY DEF Outcomes
  <2> QED BY <2>1 DEF IInv, UpdateInv
<1>6. FindInv' /\ AfterInv'
  BY DEF IInv, TypeOK, FindInv, AfterInv, Over, InFlight, Steps, Outcomes
<1> QED BY <1>1, <1>2, <1>3, <1>4, <1>5, <1>6 DEF Rest

LEMMA ReadFieldKeeps ==
  ASSUME IInv, NEW r \in Requests, ReadField(r)
  PROVE  Rest'
<1>1. TypeOK
  BY DEF IInv
<1>2. Tail(form[r]) \in Seq(Parts)
  BY <1>1, TailOfForm DEF ReadField, TypeOK
<1>3. form' \in [Requests -> Seq(Parts)] /\ flag' \in [Requests -> BOOLEAN]
  BY <1>1, <1>2 DEF ReadField, TypeOK
<1> QED BY <1>1, <1>3, QuietKeeps DEF ReadField, InFlight, Steps, TypeOK

LEMMA EndingKeeps ==
  ASSUME IInv, NEW r \in Requests, InFlight(r), NEW how \in Outcomes, Ends(r, how),
         UNCHANGED <<users, rows, bytes, ask, file, made, after, writer>>
  PROVE  Rest'
<1>1. TypeOK
  BY DEF IInv
<1> QED BY <1>1, EndsMoves, QuietKeeps DEF TypeOK

LEMMA ServingKeeps ==
  ASSUME IInv, NEW r \in Requests, InFlight(r), NEW f \in Files, Goes(r, "serve"),
         file' = [file EXCEPT ![r] = f],
         UNCHANGED <<users, rows, bytes, ask, made, after, writer>>
  PROVE  Rest'
<1>1. TypeOK
  BY DEF IInv
<1>2. file' \in [Requests -> Files \cup {NoFile}]
      /\ \A q \in Requests \ {r} : file'[q] = file[q]
  BY <1>1 DEF TypeOK
<1>3. "serve" \in Steps
  BY DEF Steps
<1> QED BY <1>1, <1>2, <1>3, GoesMoves, QuietKeeps

LEMMA ReadFileKeeps ==
  ASSUME IInv, NEW r \in Requests, NEW f \in Files, ReadFile(r, f)
  PROVE  Rest'
<1>1. TypeOK /\ pc[r] = "parts" /\ rows[f] = NoRow
      /\ \A q \in Requests : file[q] # f
  BY DEF IInv, ReadFile, Unused
<1>2. Tail(form[r]) \in Seq(Parts)
  BY <1>1, TailOfForm DEF ReadFile, TypeOK
<1>3. TypeButShown'
  BY <1>1, <1>2 DEF TypeOK, TypeButShown, ReadFile, Steps
<1>4. /\ pc'[r] = "store" /\ \A q \in Requests \ {r} : pc'[q] = pc[q]
      /\ file'[r] = f /\ \A q \in Requests \ {r} : file'[q] = file[q]
      /\ UNCHANGED <<users, rows, bytes, ask, read, after, writer>>
  BY <1>1 DEF TypeOK, ReadFile
<1>5. RowsHaveBytes'
  BY <1>4 DEF IInv, RowsHaveBytes
<1>6. UploadInv'
  BY <1>1, <1>4 DEF IInv, UploadInv, Uploading
<1>7. DistinctInv'
  BY <1>1, <1>4 DEF IInv, DistinctInv, Uploading
<1>8. UpdateInv'
  BY <1>4 DEF IInv, UpdateInv
<1>9. FindInv' /\ AfterInv'
  BY <1>1, <1>4 DEF IInv, TypeOK, FindInv, AfterInv, Over, Outcomes
<1> QED BY <1>3, <1>5, <1>6, <1>7, <1>8, <1>9 DEF Rest

LEMMA UploadStreamKeeps ==
  ASSUME IInv, NEW r \in Requests, UploadStream(r) \/ UploadStreamFails(r)
  PROVE  Rest'
<1>1. TypeOK /\ pc[r] = "store" /\ file[r] \in Files /\ rows[file[r]] = NoRow
      /\ ask[r] \in AskType /\ ask[r].op = "upload"
  BY DEF IInv, UploadInv, Uploading, UploadStream, UploadStreamFails
<1>2. \/ Goes(r, "create") /\ \E left \in Drains :
                                 bytes' = [bytes EXCEPT ![file[r]] = left]
      \/ Ends(r, "failed") /\ \E left \in Drains \cup {"part"} :
                                 bytes' = [bytes EXCEPT ![file[r]] = left]
  BY DEF UploadStream, UploadStreamFails, Leftovers
<1>3. /\ pc' \in [Requests -> {"idle"} \cup Steps \cup Outcomes]
      /\ pc'[r] \in {"create", "failed"}
      /\ \A q \in Requests \ {r} : pc'[q] = pc[q]
      /\ form' \in [Requests -> Seq(Parts)]
      /\ flag' \in [Requests -> BOOLEAN]
      /\ read' \in [Requests -> Rows \cup {NoRow}]
      /\ \A q \in Requests \ {r} : read'[q] = read[q]
  BY <1>1, <1>2, EndsMoves, GoesMoves DEF Steps, Outcomes
<1>4. /\ bytes' \in [Files -> {"none", "part"} \cup Drains]
      /\ \A g \in Files \ {file[r]} : bytes'[g] = bytes[g]
      /\ pc'[r] = "create" => bytes'[file[r]] \in Drains
  <2>1. CASE Goes(r, "create") /\ \E left \in Drains :
                                   bytes' = [bytes EXCEPT ![file[r]] = left]
    BY <2>1, <1>1 DEF TypeOK
  <2>2. CASE Ends(r, "failed") /\ \E left \in Drains \cup {"part"} :
                                   bytes' = [bytes EXCEPT ![file[r]] = left]
    BY <2>2, <1>1 DEF TypeOK, Ends
  <2> QED BY <1>2, <2>1, <2>2
<1>5. UNCHANGED <<users, rows, ask, file, made, after, writer>>
  BY DEF UploadStream, UploadStreamFails
<1>6. TypeButShown'
  BY <1>1, <1>3, <1>4, <1>5 DEF TypeOK, TypeButShown
<1>7. RowsHaveBytes'
  BY <1>1, <1>4, <1>5 DEF IInv, RowsHaveBytes
<1>8. UploadInv'
  <2> SUFFICES ASSUME NEW q \in Requests PROVE UploadInv!(q)'
    BY DEF UploadInv
  <2>1. CASE q = r
    BY <2>1, <1>1, <1>3, <1>4, <1>5 DEF Uploading
  <2>2. CASE q # r
    <3>1. Uploading(q) => file[q] # file[r]
      BY <2>2, <1>1 DEF IInv, DistinctInv, Uploading
    <3> QED BY <2>2, <3>1, <1>3, <1>4, <1>5 DEF IInv, UploadInv, Uploading
  <2> QED BY <2>1, <2>2
<1>9. DistinctInv'
  <2>1. \A q \in Requests : Uploading(q)' => Uploading(q)
    BY <1>1, <1>3 DEF Uploading
  <2> QED BY <2>1, <1>5 DEF IInv, DistinctInv
<1>10. UpdateInv'
  <2> SUFFICES ASSUME NEW q \in Requests, pc'[q] = "update" PROVE UpdateInv!(q)!2'
    BY DEF UpdateInv
  <2>1. q # r /\ pc[q] = "update" /\ read'[q] = read[q]
    BY <1>3
  <2> QED BY <2>1, <1>5 DEF IInv, UpdateInv
<1>11. FindInv' /\ AfterInv'
  BY <1>1, <1>3, <1>5 DEF IInv, TypeOK, FindInv, AfterInv, Over, Outcomes
<1> QED BY <1>6, <1>7, <1>8, <1>9, <1>10, <1>11 DEF Rest

LEMMA FindToUpdateKeeps ==
  ASSUME IInv, NEW r \in Requests, FindToUpdate(r)
  PROVE  Rest'
<1>1. TypeOK /\ pc[r] = "find" /\ ask[r] \in AskType /\ ask[r].op = "setVisibility"
  BY DEF IInv, FindInv, FindToUpdate
<1>2. ask[r].file \in Files
  BY <1>1, AskFields
<1>3. CASE ~MayChange(ask[r].user, ask[r].file)
  BY <1>1, <1>3, EndingKeeps DEF FindToUpdate, InFlight, Steps, Outcomes
<1>4. CASE MayChange(ask[r].user, ask[r].file)
  <2> DEFINE f == ask[r].file
  <2>1. /\ rows[f] # NoRow /\ rows[f] \in Row(f) /\ rows[f] \in Rows
        /\ ask[r].user \in Admins \/ rows[f].owner = ask[r].user
    BY <1>1, <1>2, <1>4, RowFacts DEF MayChange, Accessible, TypeOK
  <2>2. /\ pc' = [pc EXCEPT ![r] = "update"]
        /\ file' = [file EXCEPT ![r] = f]
        /\ read' = [read EXCEPT ![r] = rows[f]]
        /\ UNCHANGED <<users, rows, bytes, ask, form, flag, made, after, writer>>
    BY <1>4 DEF FindToUpdate
  <2>3. TypeButShown'
    BY <1>1, <1>2, <2>1, <2>2 DEF TypeOK, TypeButShown, Steps
  <2>4. RowsHaveBytes'
    BY <2>2 DEF IInv, RowsHaveBytes
  <2>5. /\ pc'[r] = "update" /\ file'[r] = f /\ read'[r] = rows[f]
        /\ \A q \in Requests \ {r} :
             pc'[q] = pc[q] /\ file'[q] = file[q] /\ read'[q] = read[q]
    BY <1>1, <2>2 DEF TypeOK
  <2>6. UploadInv' /\ DistinctInv'
    BY <2>2, <2>5 DEF IInv, UploadInv, DistinctInv, Uploading
  <2>7. UpdateInv'
    <3> SUFFICES ASSUME NEW q \in Requests, pc'[q] = "update" PROVE UpdateInv!(q)!2'
      BY DEF UpdateInv
    <3>1. CASE q = r
      BY <3>1, <1>1, <1>2, <2>1, <2>2, <2>5
    <3>2. CASE q # r
      BY <3>2, <2>2, <2>5 DEF IInv, UpdateInv
    <3> QED BY <3>1, <3>2
  <2>8. FindInv' /\ AfterInv'
    BY <1>1, <2>2, <2>5 DEF IInv, TypeOK, FindInv, AfterInv, Over, Outcomes
  <2> QED BY <2>3, <2>4, <2>6, <2>7, <2>8 DEF Rest
<1> QED BY <1>3, <1>4

LEMMA RemoveUserKeeps ==
  ASSUME IInv, NEW u \in Users, RemoveUser(u)
  PROVE  Rest'
<1>1. TypeOK /\ users' \subseteq Users /\ users' = users \ {u}
      /\ UNCHANGED <<bytes, pc, ask, form, flag, file, read, made, after, writer>>
  BY DEF IInv, TypeOK, RemoveUser
<1>2. ASSUME NEW f \in Files
      PROVE  /\ rows[f] = NoRow => rows'[f] = NoRow
             /\ rows[f] # NoRow =>
                  /\ rows'[f] \in Row(f) /\ rows'[f] \in Rows /\ rows'[f] # NoRow
                  /\ rows'[f].token = rows[f].token
                  /\ rows'[f].owner = IF rows[f].owner = u THEN Nobody ELSE rows[f].owner
  <2>1. rows'[f] = IF rows[f] # NoRow /\ rows[f].owner = u
                   THEN [rows[f] EXCEPT !.owner = Nobody] ELSE rows[f]
    BY DEF RemoveUser
  <2>2. rows[f] # NoRow => rows[f] \in Row(f)
    BY <1>1 DEF TypeOK
  <2>3. ASSUME rows[f] # NoRow
        PROVE  /\ rows'[f] \in Row(f) /\ rows'[f].token = rows[f].token
               /\ rows'[f].owner = IF rows[f].owner = u THEN Nobody ELSE rows[f].owner
    BY <2>1, <2>2, <2>3 DEF Row
  <2> QED BY <2>1, <2>3, RowFacts
<1>3. TypeButShown'
  BY <1>1, <1>2 DEF TypeOK, TypeButShown, RemoveUser
<1>4. RowsHaveBytes'
  BY <1>1, <1>2 DEF IInv, RowsHaveBytes
<1>5. UploadInv' /\ DistinctInv'
  BY <1>1, <1>2 DEF IInv, UploadInv, DistinctInv, Uploading
<1>6. UpdateInv'
  <2> SUFFICES ASSUME NEW q \in Requests, pc'[q] = "update" PROVE UpdateInv!(q)!2'
    BY DEF UpdateInv
  <2> QED BY <1>1, <1>2 DEF IInv, UpdateInv
<1>7. FindInv' /\ AfterInv'
  BY <1>1 DEF IInv, FindInv, AfterInv, Over
<1> QED BY <1>3, <1>4, <1>5, <1>6, <1>7 DEF Rest

-----------------------------------------------------------------------------
(* Every step, and the specification.                                      *)

LEMMA RequestStepKeeps ==
  ASSUME IInv, NEW r \in Requests, RequestStep(r)
  PROVE  Rest'
<1>1. CASE \E a \in Asks(r) : Begin(r, a)
  BY <1>1, BeginKeeps
<1>2. CASE ReadField(r)
  BY <1>2, ReadFieldKeeps
<1>3. CASE \E f \in Files : ReadFile(r, f)
  BY <1>3, ReadFileKeeps
<1>4. CASE UploadStream(r) \/ UploadStreamFails(r)
  BY <1>4, UploadStreamKeeps
<1>5. CASE CreateRow(r)
  BY <1>5, CreateRowKeeps
<1>6. CASE EndOfForm(r)
  BY <1>6, EndingKeeps DEF EndOfForm, InFlight, Steps, Outcomes
<1>7. CASE FindToServe(r)
  <2>1. InFlight(r) /\ ask[r] \in AskType /\ ask[r].op \in ReadOps
    BY <1>7 DEF FindToServe, InFlight, Steps, IInv, FindInv
  <2>2. ask[r].file \in Files
    BY <2>1, AskFields
  <2> QED BY <1>7, <2>1, <2>2, ServingKeeps, EndingKeeps DEF FindToServe, Outcomes
<1>8. CASE FindToUpdate(r)
  BY <1>8, FindToUpdateKeeps
<1>9. CASE UpdateRow(r)
  BY <1>9, UpdateRowKeeps
<1>10. CASE Serve(r)
  BY <1>10, EndingKeeps DEF Serve, GetReadStream, InFlight, Steps, Outcomes
<1>11. CASE FindByPublicToken(r)
  <2>1. InFlight(r) /\ \A t : Published(t) \subseteq Files
    BY <1>11 DEF FindByPublicToken, InFlight, Steps, Published, Holders
  <2> QED BY <1>11, <2>1, ServingKeeps, EndingKeeps DEF FindByPublicToken, Outcomes
<1>12. CASE Fails(r)
  BY <1>12, EndingKeeps DEF Fails, Outcomes
<1> QED BY <1>1, <1>2, <1>3, <1>4, <1>5, <1>6, <1>7, <1>8, <1>9, <1>10, <1>11, <1>12
        DEF RequestStep

LEMMA InitEstablishes == Init => IInv
<1> SUFFICES ASSUME Init PROVE IInv
  OBVIOUS
<1>1. TypeOK
  <2>1. \A f \in Files : rows[f] \in Row(f) \cup {NoRow}
    BY DEF Init
  <2>2. <<>> \in Seq(Parts)
    OBVIOUS
  <2> QED BY <2>1, <2>2 DEF Init, TypeOK, Steps, Outcomes, Drains
<1>2. RowsHaveBytes
  BY DEF Init, RowsHaveBytes, Drains
<1>3. UploadInv /\ DistinctInv /\ UpdateInv /\ FindInv /\ AfterInv
  BY DEF Init, UploadInv, DistinctInv, UpdateInv, FindInv, AfterInv, Uploading
<1> QED BY <1>1, <1>2, <1>3 DEF IInv

LEMMA NextKeeps == IInv /\ [Next]_vars => IInv'
<1> SUFFICES ASSUME IInv, [Next]_vars PROVE IInv'
  OBVIOUS
<1>1. CASE Next
  <2>1. Rest'
    BY <1>1, RequestStepKeeps, RemoveUserKeeps DEF Next
  <2>2. shown' \in [Requests -> SUBSET Files]
    BY <1>1 DEF Next, Observe, IInv, TypeOK
  <2> QED BY <2>1, <2>2 DEF Rest, TypeButShown, IInv, TypeOK
<1>2. CASE UNCHANGED vars
  BY <1>2 DEF vars, IInv, TypeOK, RowsHaveBytes, UploadInv, DistinctInv, UpdateInv,
     FindInv, AfterInv, Uploading, Over
<1> QED BY <1>1, <1>2

LEMMA Inductive == Spec => []IInv
BY InitEstablishes, NextKeeps, PTL DEF Spec

\* Files keeps its types, for any instance: in particular a public row always
\* names its link.
THEOREM TypeCorrect == Spec => []TypeOK
<1>1. IInv => TypeOK
  BY DEF IInv
<1> QED BY <1>1, Inductive, PTL

\* No row without its bytes, whatever fails or dies and in whatever order
\* uploads overtake each other.
THEOREM RowsAreBacked == Spec => []RowsHaveBytes
<1>1. IInv => RowsHaveBytes
  BY DEF IInv
<1> QED BY <1>1, Inductive, PTL

-----------------------------------------------------------------------------
(* Who writes rows, and what a write can displace.                         *)

\* Only UpdateRow rewrites an existing row, apart from its owner.
LEMMA OnlyUpdatesRewrite ==
  ASSUME IInv, Next, NEW f \in Files, Rewritten(f)
  PROVE  \E r \in Requests : UpdateRow(r) /\ file[r] = f
<1>1. rows[f] # NoRow /\ rows[f] \in Row(f)
  BY DEF Rewritten, IInv, TypeOK
<1>2. rows' # rows
  BY DEF Rewritten
<1>3. CASE \E u \in Users : RemoveUser(u)
  BY <1>1, <1>3 DEF RemoveUser, Rewritten, Row
<1>4. ASSUME NEW r \in Requests, RequestStep(r)
      PROVE  UpdateRow(r) /\ file[r] = f
  <2>1. CreateRow(r) \/ UpdateRow(r)
    BY <1>2, <1>4 DEF RequestStep, Begin, ReadField, ReadFile, UploadStream,
       UploadStreamFails, EndOfForm, FindToServe, FindToUpdate, Serve,
       FindByPublicToken, Fails
  <2>2. CASE CreateRow(r)
    <3>1. file[r] \in Files /\ rows[file[r]] = NoRow
      BY <2>2 DEF CreateRow, IInv, UploadInv, Uploading
    <3>2. rows'[f] = rows[f]
      BY <1>1, <2>2, <3>1 DEF CreateRow, IInv, TypeOK
    <3> QED BY <3>2 DEF Rewritten
  <2>3. CASE UpdateRow(r)
    <3>1. file[r] # f => rows'[f] = rows[f]
      BY <2>3 DEF UpdateRow, IInv, TypeOK
    <3> QED BY <2>3, <3>1 DEF Rewritten
  <2> QED BY <2>1, <2>2, <2>3
<1> QED BY <1>3, <1>4 DEF Next

\* A request that rewrites a row leaves the state "update".
LEMMA UpdateLeaves ==
  ASSUME IInv, NEW r \in Requests, UpdateRow(r)
  PROVE  pc[r] = "update" /\ pc'[r] # "update"
BY DEF UpdateRow, Ends, IInv, TypeOK

\* Only the owner or an admin changes whether a file is public and under which
\* link, whoever may see it (setVisibility).
THEOREM OwnersPublish == Spec => OnlyOwnersPublish
<1>1. ASSUME IInv, Next, NEW f \in Files, Rewritten(f)
      PROVE  \E r \in Requests :
               /\ pc[r] = "update" /\ pc'[r] # "update" /\ file[r] = f
               /\ \/ ask[r].user \in Admins
                  \/ rows[f].owner = ask[r].user
                  \/ ask[r].user \notin users
  <2>1. PICK r \in Requests : UpdateRow(r) /\ file[r] = f
    BY <1>1, OnlyUpdatesRewrite
  <2>2. pc[r] = "update" /\ pc'[r] # "update"
    BY <1>1, <2>1, UpdateLeaves
  <2> QED BY <1>1, <2>1, <2>2 DEF IInv, UpdateInv
<1>2. ASSUME UNCHANGED vars, NEW f \in Files
      PROVE  ~Rewritten(f)
  BY <1>2 DEF vars, Rewritten
<1>3. IInv /\ [Next]_vars =>
        [\A f \in Files : Rewritten(f) =>
           \E r \in Requests :
             /\ pc[r] = "update" /\ pc'[r] # "update" /\ file[r] = f
             /\ \/ ask[r].user \in Admins
                \/ rows[f].owner = ask[r].user
                \/ ask[r].user \notin users]_vars
  BY <1>1, <1>2
<1> QED BY <1>3, Inductive, PTL DEF Spec, OnlyOwnersPublish

\* Requests that follow one another never change the link of a file: one that
\* does was running when the row was last written (setVisibility).
THEOREM LinksAreKept == Spec => LinksStay
<1>1. ASSUME IInv, Next, NEW f \in Files,
             rows[f] # NoRow, rows[f].token # NoToken, rows'[f].token # rows[f].token
      PROVE  \E r \in Requests :
               /\ pc[r] = "update" /\ pc'[r] # "update" /\ file[r] = f
               /\ writer[f] \notin after[r] \cup {Earlier}
  <2>1. PICK r \in Requests : UpdateRow(r) /\ file[r] = f
    BY <1>1, OnlyUpdatesRewrite DEF Rewritten
  <2>2. pc[r] = "update" /\ pc'[r] # "update"
    BY <1>1, <2>1, UpdateLeaves
  <2>3. rows[f] \in Row(f)
    BY <1>1 DEF IInv, TypeOK
  <2>4. rows'[f].token = TokenToWrite(r)
    BY <1>1, <2>1, <2>3 DEF UpdateRow, IInv, TypeOK, Row
  <2>5. CASE writer[f] \in after[r] \cup {Earlier}
    <3>1. read[r].token = rows[f].token
      BY <1>1, <2>1, <2>2, <2>5 DEF IInv, UpdateInv
    <3>2. TokenToWrite(r) = rows[f].token
      BY <1>1, <3>1 DEF TokenToWrite
    <3> QED BY <1>1, <2>4, <3>2
  <2> QED BY <2>1, <2>2, <2>5
<1>2. IInv /\ [Next]_vars =>
        [\A f \in Files :
           rows[f] # NoRow /\ rows[f].token # NoToken /\ rows'[f].token # rows[f].token =>
             \E r \in Requests :
               /\ pc[r] = "update" /\ pc'[r] # "update" /\ file[r] = f
               /\ writer[f] \notin after[r] \cup {Earlier}]_vars
  BY <1>1
<1> QED BY <1>2, Inductive, PTL DEF Spec, LinksStay

-----------------------------------------------------------------------------
(* Who is served.                                                          *)

\* A request about to be served may see its file by itself, or the file has
\* been public since the request began to look for it.
ServeInv ==
  \A r \in Requests : pc[r] = "serve" =>
    /\ file[r] \in Files /\ rows[file[r]] # NoRow
    /\ \/ file[r] \in shown[r]
       \/ /\ ask[r].op \in ReadOps
          /\ \/ ask[r].user \in Admins
             \/ rows[file[r]].owner = ask[r].user
             \/ ask[r].user \notin users

\* A row stays, and with it its owner while the owner has an account.
LEMMA RowsStay ==
  ASSUME IInv, Next, NEW f \in Files, rows[f] # NoRow
  PROVE  /\ rows'[f] # NoRow
         /\ rows'[f].owner = rows[f].owner \/ rows[f].owner \notin users'
         /\ users' \subseteq users
<1>1. TypeOK /\ rows[f] \in Row(f)
  BY DEF IInv, TypeOK
<1>2. CASE \E u \in Users : RemoveUser(u)
  <2>1. PICK u \in Users : RemoveUser(u)
    BY <1>2
  <2>2. /\ users' = users \ {u}
        /\ rows'[f] = IF rows[f].owner = u THEN [rows[f] EXCEPT !.owner = Nobody]
                      ELSE rows[f]
    BY <2>1 DEF RemoveUser
  <2>3. [rows[f] EXCEPT !.owner = Nobody] \in Row(f)
    BY <1>1 DEF Row
  <2> QED BY <2>2, <2>3, RowFacts
<1>3. ASSUME NEW r \in Requests, RequestStep(r)
      PROVE  users' = users /\ rows'[f] # NoRow /\ rows'[f].owner = rows[f].owner
  <2>1. CASE CreateRow(r)
    <3>1. file[r] \in Files /\ rows[file[r]] = NoRow
      BY <2>1 DEF CreateRow, IInv, UploadInv, Uploading
    <3> QED BY <2>1, <3>1, <1>1 DEF CreateRow, TypeOK
  <2>2. CASE UpdateRow(r)
    BY <2>2, UpdatedRow DEF UpdateRow
  <2>3. CASE ~CreateRow(r) /\ ~UpdateRow(r)
    BY <1>3, <2>3 DEF RequestStep, Begin, ReadField, ReadFile, UploadStream,
       UploadStreamFails, EndOfForm, FindToServe, FindToUpdate, Serve,
       FindByPublicToken, Fails
  <2> QED BY <2>1, <2>2, <2>3
<1> QED BY <1>2, <1>3 DEF Next

\* A request that is being served works on the file it worked on before, unless
\* it has just found the file.
LEMMA ServedStays ==
  ASSUME IInv, Next, NEW r \in Requests, pc'[r] = "serve"
  PROVE  \/ pc[r] = "serve" /\ file'[r] = file[r] /\ ask'[r] = ask[r]
         \/ FindToServe(r) /\ Goes(r, "serve")
         \/ FindByPublicToken(r) /\ Goes(r, "serve")
<1>1. TypeOK
  BY DEF IInv
<1>2. CASE \E u \in Users : RemoveUser(u)
  BY <1>2 DEF RemoveUser
<1>3. ASSUME NEW q \in Requests, RequestStep(q), q # r
      PROVE  pc[r] = "serve" /\ file'[r] = file[r] /\ ask'[r] = ask[r]
  BY <1>1, <1>3 DEF TypeOK, RequestStep, Begin, ReadField, ReadFile, UploadStream,
     UploadStreamFails, CreateRow, EndOfForm, FindToServe, FindToUpdate, UpdateRow,
     Serve, FindByPublicToken, Fails, Goes, Ends, Locals
<1>4. CASE RequestStep(r)
  BY <1>1, <1>4 DEF TypeOK, RequestStep, Begin, ReadField, ReadFile, UploadStream,
     UploadStreamFails, CreateRow, EndOfForm, FindToServe, FindToUpdate, UpdateRow,
     Serve, FindByPublicToken, Fails, Goes, Ends, Locals
<1> QED BY <1>2, <1>3, <1>4 DEF Next

LEMMA ServeKeeps == IInv /\ ServeInv /\ [Next]_vars => ServeInv'
<1> SUFFICES ASSUME IInv, ServeInv, Next, NEW r \in Requests, pc'[r] = "serve"
             PROVE  ServeInv!(r)!2'
  BY DEF ServeInv, vars
<1>1. TypeOK
  BY DEF IInv
<1>2. shown'[r] = shown[r] \cup {f \in Files : IsPublic(f)'}
  BY DEF Next, Observe
<1>3. CASE pc[r] = "serve" /\ file'[r] = file[r] /\ ask'[r] = ask[r]
  BY <1>2, <1>3, RowsStay DEF ServeInv
<1>4. CASE FindToServe(r) /\ Goes(r, "serve")
  <2>1. ask[r] \in AskType /\ ask[r].op \in ReadOps /\ Accessible(ask[r].user, ask[r].file)
    BY <1>1, <1>4 DEF FindToServe, Ends, Goes, TypeOK, IInv, FindInv
  <2>2. ask[r].file \in Files
    BY <2>1, AskFields
  <2>3. file'[r] = ask[r].file /\ UNCHANGED <<users, rows, ask>>
    BY <1>1, <1>4, <2>1 DEF FindToServe, TypeOK
  <2> QED BY <1>2, <2>1, <2>2, <2>3 DEF Accessible, IsPublic
<1>5. CASE FindByPublicToken(r) /\ Goes(r, "serve")
  <2>1. PICK f \in Published(ask[r].token) : file' = [file EXCEPT ![r] = f]
    BY <1>1, <1>5 DEF FindByPublicToken, Ends, Goes, TypeOK
  <2>2. f \in Files /\ rows[f] # NoRow /\ rows[f].isPublic
    BY DEF Published, Holders
  <2>3. file'[r] = f /\ UNCHANGED <<users, rows, ask>>
    BY <1>1, <1>5, <2>1 DEF FindByPublicToken, TypeOK
  <2> QED BY <1>2, <2>2, <2>3 DEF IsPublic
<1> QED BY <1>3, <1>4, <1>5, ServedStays

\* Whoever is given a file owns it, is an admin, or was given one that was
\* public while the request ran (findAccessibleById, getPublicOrThrow).
THEOREM StrangersSeePublished == Spec => StrangersSeeWhatIsPublished
<1>1. Init => ServeInv
  BY DEF Init, ServeInv
<1>2. ServeInv =>
        [\A r \in Requests : pc[r] = "serve" /\ pc'[r] = "ok" =>
           \/ file[r] \in shown[r]
           \/ /\ ask[r].op \in ReadOps
              /\ \/ ask[r].user \in Admins
                 \/ rows[file[r]].owner = ask[r].user
                 \/ ask[r].user \notin users]_vars
  BY DEF ServeInv
<1> QED BY <1>1, <1>2, ServeKeeps, Inductive, PTL DEF Spec, StrangersSeeWhatIsPublished

-----------------------------------------------------------------------------
(* What uploads leave: bytes without rows, and rows they answered for.     *)

\* A step of one request leaves the others where they are.
LEMMA OthersStay ==
  ASSUME IInv, NEW q \in Requests, RequestStep(q), NEW r \in Requests, r # q
  PROVE  pc'[r] = pc[r] /\ ask'[r] = ask[r] /\ made'[r] = made[r] /\ file'[r] = file[r]
<1>1. TypeOK
  BY DEF IInv
<1>2. CASE CreateRow(q) \/ UpdateRow(q) \/ Serve(q) \/ EndOfForm(q) \/ Fails(q)
  BY <1>1, <1>2 DEF TypeOK, CreateRow, UpdateRow, Serve, EndOfForm, Fails, Ends, Goes
<1>3. CASE ~(CreateRow(q) \/ UpdateRow(q) \/ Serve(q) \/ EndOfForm(q) \/ Fails(q))
  BY <1>1, <1>3 DEF TypeOK, RequestStep, Begin, ReadField, ReadFile, UploadStream,
     UploadStreamFails, FindToServe, FindToUpdate, FindByPublicToken, Goes, Ends
<1> QED BY <1>2, <1>3

\* Bytes are written by the two outcomes of an upload's store step alone.
LEMMA BytesWritten ==
  ASSUME IInv, Next, NEW f \in Files, bytes'[f] # bytes[f]
  PROVE  \E r \in Requests : /\ UploadStream(r) \/ UploadStreamFails(r)
                            /\ file'[r] = f /\ pc'[r] \in {"create", "failed"}
<1>1. TypeOK
  BY DEF IInv
<1>2. PICK r \in Requests : UploadStream(r) \/ UploadStreamFails(r)
  BY DEF Next, RemoveUser, RequestStep, Begin, ReadField, ReadFile, CreateRow,
     EndOfForm, FindToServe, FindToUpdate, UpdateRow, Serve, FindByPublicToken, Fails
<1>3. file'[r] = file[r] /\ file[r] = f
  BY <1>1, <1>2 DEF TypeOK, UploadStream, UploadStreamFails
<1>4. pc'[r] \in {"create", "failed"}
  BY <1>1, <1>2 DEF TypeOK, UploadStream, UploadStreamFails, Goes, Ends
<1> QED BY <1>2, <1>3, <1>4

\* The row an upload creates is one of its file, and its user's.
LEMMA NewRowFacts ==
  ASSUME IInv, NEW r \in Requests, CreateRow(r)
  PROVE  /\ pc[r] = "create" /\ file[r] \in Files
         /\ ask[r] \in AskType /\ ask[r].op = "upload" /\ ask' = ask
         /\ rows'[file[r]] = NewRow(r)
         /\ NewRow(r) # NoRow /\ NewRow(r).owner = ask[r].user
<1>1. /\ pc[r] = "create" /\ file[r] \in Files
      /\ ask[r] \in AskType /\ ask[r].op = "upload" /\ ask' = ask
  BY DEF CreateRow, IInv, UploadInv, Uploading
<1>2. ask[r].user \in Users
  BY <1>1, AskFields
<1>3. NewRow(r) \in Row(file[r])
  BY <1>1, <1>2, FilesAssumption DEF NewRow, Row, TokensOf, Tokens, IInv, TypeOK
<1>4. rows'[file[r]] = NewRow(r)
  BY <1>1 DEF CreateRow, IInv, TypeOK
<1>5. NewRow(r).owner = ask[r].user
  BY DEF NewRow
<1> QED BY <1>1, <1>3, <1>4, <1>5, RowFacts

LEMMA OrphansKeep == IInv /\ OrphansAreFailures /\ [Next]_vars => OrphansAreFailures'
<1> SUFFICES ASSUME IInv, OrphansAreFailures, Next,
                    NEW f \in Files, rows'[f] = NoRow, bytes'[f] # "none"
             PROVE  \E r \in Requests : file'[r] = f /\ pc'[r] \in {"create", "failed"}
  BY DEF OrphansAreFailures, vars
<1>1. TypeOK /\ rows[f] = NoRow
  BY RowsStay DEF IInv
<1>2. CASE bytes'[f] # bytes[f]
  BY <1>2, BytesWritten
<1>3. CASE bytes'[f] = bytes[f]
  <2>1. PICK r \in Requests : file[r] = f /\ pc[r] \in {"create", "failed"}
    BY <1>1, <1>3 DEF OrphansAreFailures
  <2>2. CASE \E u \in Users : RemoveUser(u)
    BY <2>1, <2>2 DEF RemoveUser
  <2>3. ASSUME NEW q \in Requests, RequestStep(q), q # r
        PROVE  file'[r] = f /\ pc'[r] \in {"create", "failed"}
    BY <2>1, <2>3, OthersStay
  <2>4. CASE RequestStep(r)
    <3>1. CreateRow(r) \/ Fails(r)
      BY <2>1, <2>4 DEF RequestStep, Begin, ReadField, ReadFile, UploadStream,
         UploadStreamFails, EndOfForm, FindToServe, FindToUpdate, UpdateRow, Serve,
         FindByPublicToken, Fails, InFlight, Steps
    <3>2. ~CreateRow(r)
      <4> SUFFICES ASSUME CreateRow(r) PROVE FALSE
        OBVIOUS
      <4> QED BY <2>1, NewRowFacts
    <3>3. file'[r] = f /\ pc'[r] = "failed"
      BY <1>1, <2>1, <3>1, <3>2 DEF Fails, Ends, TypeOK
    <3> QED BY <3>3
  <2> QED BY <2>2, <2>3, <2>4 DEF Next
<1> QED BY <1>2, <1>3

\* Bytes that no row names are those of an upload under way or reported as
\* failed, for any number of uploads (upload stores first and creates last).
THEOREM Orphans == Spec => []OrphansAreFailures
<1>1. Init => OrphansAreFailures
  <2> SUFFICES ASSUME Init, NEW f \in Files, rows[f] = NoRow PROVE bytes[f] = "none"
    BY DEF OrphansAreFailures
  <2>1. f \notin Stored
    BY RowFacts DEF Init
  <2> QED BY <2>1 DEF Init
<1> QED BY <1>1, OrphansKeep, Inductive, PTL DEF Spec

\* The files an upload answers for, and nothing but uploads has any.
MadeInv ==
  \A r \in Requests :
    /\ pc[r] = "idle" => made[r] = {}
    /\ pc[r] \in {"find", "serve", "update"} => ask[r].op # "upload"
    /\ pc[r] = "ok" /\ ask[r].op = "upload" => made[r] # {}
    /\ \A f \in made[r] :
         /\ f \in Files /\ rows[f] # NoRow
         /\ \/ rows[f].owner = ask[r].user
            \/ rows[f].owner = Nobody /\ ask[r].user \notin users

\* The owner of a row is who created it, until the account is gone.
LEMMA OwnersStay ==
  ASSUME IInv, Next, NEW f \in Files, rows[f] # NoRow
  PROVE  /\ rows'[f] # NoRow /\ users' \subseteq users
         /\ \/ rows'[f].owner = rows[f].owner
            \/ rows'[f].owner = Nobody /\ rows[f].owner \notin users'
<1>1. TypeOK /\ rows[f] \in Row(f)
  BY DEF IInv, TypeOK
<1>2. CASE \E u \in Users : RemoveUser(u)
  <2>1. PICK u \in Users : RemoveUser(u)
    BY <1>2
  <2>2. /\ users' = users \ {u}
        /\ rows'[f] = IF rows[f].owner = u THEN [rows[f] EXCEPT !.owner = Nobody]
                      ELSE rows[f]
    BY <2>1 DEF RemoveUser
  <2>3. [rows[f] EXCEPT !.owner = Nobody] \in Row(f)
    BY <1>1 DEF Row
  <2>4. [rows[f] EXCEPT !.owner = Nobody].owner = Nobody
    BY <1>1 DEF Row
  <2> QED BY <2>2, <2>3, <2>4, RowFacts
<1>3. ASSUME NEW r \in Requests, RequestStep(r)
      PROVE  users' = users /\ rows'[f] # NoRow /\ rows'[f].owner = rows[f].owner
  <2>1. CASE CreateRow(r)
    <3>1. file[r] \in Files /\ rows[file[r]] = NoRow
      BY <2>1 DEF CreateRow, IInv, UploadInv, Uploading
    <3> QED BY <2>1, <3>1, <1>1 DEF CreateRow, TypeOK
  <2>2. CASE UpdateRow(r)
    BY <2>2, UpdatedRow DEF UpdateRow
  <2>3. CASE ~CreateRow(r) /\ ~UpdateRow(r)
    BY <1>3, <2>3 DEF RequestStep, Begin, ReadField, ReadFile, UploadStream,
       UploadStreamFails, EndOfForm, FindToServe, FindToUpdate, Serve,
       FindByPublicToken, Fails
  <2> QED BY <2>1, <2>2, <2>3
<1> QED BY <1>2, <1>3 DEF Next

\* What a request's own step does to the files it answers for.
LEMMA MadeMoves ==
  ASSUME IInv, NEW r \in Requests, RequestStep(r)
  PROVE  \/ CreateRow(r)
         \/ made'[r] = made[r]
<1> QED BY DEF IInv, TypeOK, RequestStep, Begin, ReadField, ReadFile, UploadStream,
           UploadStreamFails, EndOfForm, FindToServe, FindToUpdate, UpdateRow, Serve,
           FindByPublicToken, Fails

\* The files r answered for before the step are still as MadeInv says.
LEMMA MadeStays ==
  ASSUME IInv, MadeInv, Next, NEW r \in Requests, ask'[r] = ask[r], NEW f \in made[r]
  PROVE  /\ f \in Files /\ rows'[f] # NoRow
         /\ \/ rows'[f].owner = ask'[r].user
            \/ rows'[f].owner = Nobody /\ ask'[r].user \notin users'
<1>1. /\ f \in Files /\ rows[f] # NoRow
      /\ \/ rows[f].owner = ask[r].user
         \/ rows[f].owner = Nobody /\ ask[r].user \notin users
  BY DEF MadeInv
<1> QED BY <1>1, OwnersStay

LEMMA MadeKeeps == IInv /\ MadeInv /\ [Next]_vars => MadeInv'
<1> SUFFICES ASSUME IInv, MadeInv, Next, NEW r \in Requests
             PROVE  MadeInv!(r)'
  BY DEF MadeInv, vars
<1>1. TypeOK
  BY DEF IInv
<1>2. CASE \/ \E u \in Users : RemoveUser(u)
           \/ \E q \in Requests \ {r} : RequestStep(q)
  <2>1. pc'[r] = pc[r] /\ ask'[r] = ask[r] /\ made'[r] = made[r]
    BY <1>2, OthersStay DEF RemoveUser
  <2> QED BY <2>1, MadeStays DEF MadeInv
<1>3. CASE RequestStep(r)
  <2>1. CASE \E a \in Asks(r) : Begin(r, a)
    <3>1. PICK a \in Asks(r) : Begin(r, a)
      BY <2>1
    <3>2. made'[r] = {} /\ ask'[r] = a
      BY <1>1, <3>1 DEF Begin, MadeInv, TypeOK
    <3>3. pc'[r] = IF a.op = "upload" THEN "parts" ELSE "find"
      BY <1>1, <3>1 DEF Begin, TypeOK
    <3> QED BY <3>2, <3>3
  <2>2. CASE CreateRow(r)
    <3> DEFINE f == file[r]
    <3>1. /\ ask'[r].op = "upload" /\ ask'[r] = ask[r] /\ f \in Files
          /\ rows'[f] # NoRow /\ rows'[f].owner = ask'[r].user
      BY <2>2, NewRowFacts
    <3>2. \/ made'[r] = made[r] \cup {f} /\ pc'[r] \in {"parts", "ok"}
          \/ made'[r] = made[r] /\ pc'[r] = "failed"
      BY <1>1, <2>2 DEF CreateRow, TypeOK, Goes, Ends
    <3> QED BY <3>1, <3>2, MadeStays
  <2>3. CASE ~CreateRow(r) /\ ~(\E a \in Asks(r) : Begin(r, a))
    <3>1. made'[r] = made[r] /\ ask'[r] = ask[r]
      BY <1>3, <2>3, MadeMoves DEF RequestStep, ReadField, ReadFile, UploadStream,
         UploadStreamFails, EndOfForm, FindToServe, FindToUpdate, UpdateRow, Serve,
         FindByPublicToken, Fails
    <3>2. pc'[r] # "idle"
      <4>1. pc[r] \in Steps
        BY <1>3, <2>3 DEF RequestStep, ReadField, ReadFile, UploadStream,
           UploadStreamFails, EndOfForm, FindToServe, FindToUpdate, UpdateRow, Serve,
           FindByPublicToken, Fails, InFlight, Steps
      <4>2. pc'[r] \in Steps \cup Outcomes
        BY <1>1, <1>3, <2>3, <4>1 DEF TypeOK, RequestStep, ReadField, ReadFile, UploadStream,
           UploadStreamFails, EndOfForm, FindToServe, FindToUpdate, UpdateRow, Serve,
           GetReadStream, FindByPublicToken, Fails, Goes, Ends, Steps, Outcomes
      <4> QED BY <4>2 DEF Steps, Outcomes
    <3>3. pc'[r] \in {"find", "serve", "update"} => pc[r] \in {"find", "serve", "update"}
      BY <1>1, <1>3, <2>3 DEF TypeOK, RequestStep, ReadField, ReadFile, UploadStream,
         UploadStreamFails, EndOfForm, FindToServe, FindToUpdate, UpdateRow, Serve,
         FindByPublicToken, Fails, Goes, Ends
    <3>4. pc'[r] = "ok" => \/ pc[r] \in {"find", "serve", "update"}
                           \/ pc[r] = "parts" /\ made[r] # {}
      BY <1>1, <1>3, <2>3 DEF TypeOK, RequestStep, ReadField, ReadFile, UploadStream,
         UploadStreamFails, EndOfForm, FindToServe, FindToUpdate, UpdateRow, Serve,
         FindByPublicToken, Fails, Goes, Ends
    <3> QED BY <3>1, <3>2, <3>3, <3>4, MadeStays DEF MadeInv
  <2> QED BY <2>1, <2>2, <2>3
<1> QED BY <1>2, <1>3 DEF Next

\* An upload of several parts that was answered with success stored them whole.
WholeInv ==
  \A r \in Requests : pc[r] = "ok" /\ ask[r].op = "upload" /\ ask[r].many =>
    \A f \in made[r] : bytes[f] = "whole"

\* The bytes of a file that has its row are not written again.
LEMMA BytesStay ==
  ASSUME IInv, Next, NEW f \in Files, rows[f] # NoRow
  PROVE  bytes'[f] = bytes[f]
<1> SUFFICES ASSUME bytes'[f] # bytes[f] PROVE FALSE
  OBVIOUS
<1>1. PICK r \in Requests : (UploadStream(r) \/ UploadStreamFails(r)) /\ file'[r] = f
  BY BytesWritten
<1>2. pc[r] = "store" /\ file[r] = f
  BY <1>1 DEF UploadStream, UploadStreamFails
<1> QED BY <1>2 DEF IInv, UploadInv, Uploading

\* Only the end of the form answers an upload of several parts, and not when one
\* of them was cut.
LEMMA WholeAtTheEnd ==
  ASSUME IInv, MadeInv, NEW r \in Requests, RequestStep(r), pc'[r] = "ok",
         ask'[r].op = "upload", ask'[r].many, NEW f \in made'[r]
  PROVE  f \in made[r] /\ bytes[f] = "whole"
<1>1. TypeOK
  BY DEF IInv
<1>2. CASE EndOfForm(r)
  <2>1. f \in made[r] /\ bytes[f] # "cut" /\ ask[r].op = "upload"
    BY <1>1, <1>2 DEF EndOfForm, Ends, TypeOK
  <2>2. f \in Files /\ rows[f] # NoRow
    BY <1>2, <2>1 DEF MadeInv, EndOfForm
  <2> QED BY <2>1, <2>2 DEF IInv, RowsHaveBytes, Drains
<1>3. CASE \E a \in Asks(r) : Begin(r, a)
  BY <1>1, <1>3 DEF Begin, TypeOK
<1>4. CASE CreateRow(r)
  BY <1>1, <1>4 DEF CreateRow, Goes, Ends, TypeOK
<1>5. CASE FindToServe(r) \/ FindToUpdate(r) \/ UpdateRow(r) \/ Serve(r) \/ FindByPublicToken(r)
  <2>1. ask[r].op # "upload"
    BY <1>5 DEF FindToServe, FindToUpdate, UpdateRow, Serve, FindByPublicToken, MadeInv
  <2> QED BY <1>5, <2>1 DEF FindToServe, FindToUpdate, UpdateRow, Serve, FindByPublicToken
<1>6. CASE ReadField(r) \/ (\E g \in Files : ReadFile(r, g)) \/ UploadStream(r)
            \/ UploadStreamFails(r) \/ Fails(r)
  BY <1>1, <1>6 DEF ReadField, ReadFile, UploadStream, UploadStreamFails, Fails,
     Goes, Ends, TypeOK
<1> QED BY <1>2, <1>3, <1>4, <1>5, <1>6 DEF RequestStep

LEMMA WholeKeeps == IInv /\ MadeInv /\ WholeInv /\ [Next]_vars => WholeInv'
<1> SUFFICES ASSUME IInv, MadeInv, WholeInv, Next, NEW r \in Requests, NEW f \in made'[r],
                    pc'[r] = "ok" /\ ask'[r].op = "upload" /\ ask'[r].many
             PROVE  bytes'[f] = "whole"
  BY DEF WholeInv, vars
<1>1. f \in made[r] /\ bytes[f] = "whole"
  <2>1. CASE RequestStep(r)
    BY <2>1, WholeAtTheEnd
  <2>2. CASE \/ \E u \in Users : RemoveUser(u)
             \/ \E q \in Requests \ {r} : RequestStep(q)
    <3>1. pc'[r] = pc[r] /\ ask'[r] = ask[r] /\ made'[r] = made[r]
      BY <2>2, OthersStay DEF RemoveUser
    <3> QED BY <3>1 DEF WholeInv
  <2> QED BY <2>1, <2>2 DEF Next
<1>2. f \in Files /\ rows[f] # NoRow
  BY <1>1 DEF IInv, TypeOK, MadeInv
<1> QED BY <1>1, <1>2, BytesStay

\* What is answered for, in every state.
LEMMA MadeAlways == Spec => [](IInv /\ MadeInv /\ WholeInv)
<1>1. Init => MadeInv /\ WholeInv
  BY DEF Init, MadeInv, WholeInv
<1> QED BY <1>1, MadeKeeps, WholeKeeps, Inductive, PTL DEF Spec

\* An upload answered with success made a file, all it made are still there and
\* its uploader's, unless the account is gone, and several of them are whole.
THEOREM AnswersAreKept == Spec => []AnsweredIsKept
<1>1. MadeInv /\ WholeInv => AnsweredIsKept
  BY DEF MadeInv, WholeInv, AnsweredIsKept
<1> QED BY <1>1, MadeAlways, PTL
=============================================================================
