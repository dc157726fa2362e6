------------------------------ MODULE Uploads ------------------------------
(***************************************************************************)
(* The bytes of a part on their way through one upload (Files): the          *)
(* multipart parser pushes them into a stream, which it ends at the size     *)
(* limit, FileSignatureValidator takes the first eight, looks at them and    *)
(* puts them back, and the driver drains the stream into the object store.   *)
(* The stream's events come in between.                                      *)
(*                                                                         *)
(* Streams are Node's: read(n) answers n bytes, fewer only once the stream   *)
(* has ended, and 'end' is emitted some time after a read has found the end, *)
(* unless there are bytes again by then; afterwards the stream is destroyed  *)
(* and takes nothing back.  A byte is its number in the part.               *)
(***************************************************************************)
EXTENDS Files, Naturals

CONSTANTS
  Sends(_),      \* Sends(r): the parts, [allowed, signed, matches, size], of r
  Peek,          \* the bytes the validator asks for
  Magic,         \* the bytes of a signature
  Limit,         \* fileSize: the bytes of a part that the parser passes on
  NoPart

ASSUME UploadsAssumption ==
  /\ Limit \in Nat /\ Peek \in 0 .. Limit /\ Magic \in 1 .. Peek
  /\ \A r \in Requests :
       Sends(r) \subseteq [allowed : BOOLEAN, signed : BOOLEAN,
                           matches : BOOLEAN, size : Nat]

VARIABLE part    \* part[r]: the stream of the part that r validates and stores

uploadVars == <<vars, part>>

\* The name and the declared type as the tables of the validator class them:
\* allowed together, with signatures to look for or without.
NewPart(sent) ==
  [sent |-> sent, at |-> "validate", arrived |-> 0, buffer |-> <<>>, chunk |-> <<>>,
   ended |-> FALSE, endDue |-> FALSE, endEmitted |-> FALSE, stored |-> <<>>]

Following(r, at) == part[r] # NoPart /\ part[r].at = at

Becomes(r, p) == part' = [part EXCEPT ![r] = p] /\ UNCHANGED vars

-----------------------------------------------------------------------------
(* The parser *)

\* What the stream of a part carries before it ends: no more than the limit.
Reach(sent) == IF sent.size > Limit THEN Limit ELSE sent.size

Arrive(r) ==
  LET stream == part[r] IN
  /\ stream # NoPart
  /\ \E n \in 1 .. Reach(stream.sent) - stream.arrived :
       Becomes(r, [stream EXCEPT
                    !.arrived = @ + n,
                    !.buffer = @ \o [i \in 1 .. n |-> stream.arrived + i]])

PartEnds(r) ==
  /\ part[r] # NoPart /\ ~part[r].ended
  /\ part[r].arrived = Reach(part[r].sent)
  /\ Becomes(r, [part[r] EXCEPT !.ended = TRUE])

-----------------------------------------------------------------------------
(* FileSignatureValidator *)

\* readBytes, one try: what stream.read(8) answers settles the promise, no
\* answer leaves it waiting.
ReadBytes(p) ==
  CASE Len(p.buffer) >= Peek ->
         [p EXCEPT !.at = "read", !.chunk = SubSeq(p.buffer, 1, Peek),
                   !.buffer = SubSeq(p.buffer, Peek + 1, Len(p.buffer))]
    [] Len(p.buffer) < Peek /\ p.ended /\ p.buffer # <<>> ->
         [p EXCEPT !.at = "read", !.chunk = p.buffer, !.buffer = <<>>, !.endDue = TRUE]
    [] OTHER -> [p EXCEPT !.at = "waiting", !.endDue = p.ended]

Validate(r) ==
  /\ Following(r, "validate")
  /\ Becomes(r, CASE ~part[r].sent.allowed -> [part[r] EXCEPT !.at = "refused"]
                  [] part[r].sent.allowed /\ ~part[r].sent.signed ->
                       [part[r] EXCEPT !.at = "passed"]
                  [] OTHER -> ReadBytes(part[r]))

OnReadable(r) ==
  /\ Following(r, "waiting")
  /\ part[r].ended \/ Len(part[r].buffer) >= Peek
  /\ Becomes(r, ReadBytes(part[r]))

\* 'end': the promise that still waits settles without bytes.
OnEnd(r) ==
  LET stream == part[r] IN
  /\ stream # NoPart
  /\ stream.endDue /\ ~stream.endEmitted /\ stream.buffer = <<>>
  /\ Becomes(r, [stream EXCEPT !.endEmitted = TRUE,
                               !.at = IF @ = "waiting" THEN "read" ELSE @])

\* Variant of PutBack: the bytes go to the end of the stream.
PutBackLast(p) == IF p.endEmitted THEN p.buffer ELSE p.buffer \o p.chunk

\* stream.unshift
PutBack(p) == IF p.endEmitted THEN p.buffer ELSE p.chunk \o p.buffer

SignatureFits(p) == Len(p.chunk) >= Magic /\ p.sent.matches

CheckSignature(r) ==
  /\ Following(r, "read")
  /\ Becomes(r,
       [part[r] EXCEPT !.at = IF SignatureFits(part[r]) THEN "passed" ELSE "refused",
                       !.buffer = PutBack(part[r]), !.chunk = <<>>])

-----------------------------------------------------------------------------
(* The driver *)

Drain(r) ==
  /\ Following(r, "passed")
  /\ part[r].buffer # <<>>
  /\ Becomes(r, [part[r] EXCEPT !.stored = @ \o part[r].buffer, !.buffer = <<>>])

Drained(r) ==
  /\ Following(r, "passed")
  /\ part[r].endEmitted \/ (part[r].ended /\ part[r].buffer = <<>>)

StreamStep(r) ==
  \/ Arrive(r) \/ PartEnds(r)
  \/ Validate(r) \/ OnReadable(r) \/ OnEnd(r) \/ CheckSignature(r)
  \/ Drain(r)

-----------------------------------------------------------------------------
\* The steps of Files: a part comes with its stream, a refused one can only
\* fail, and the driver has what it has drained: the whole or what the limit left.
FilesStep ==
  /\ Next
  /\ \A r \in {q \in Requests : pc[q] = "store"} :
       /\ Following(r, "refused") => pc'[r] \in {"store", "failed"}
       /\ bytes'[file[r]] # "none" => Following(r, "passed")
       /\ bytes'[file[r]] \in Drains => Drained(r)
       /\ bytes'[file[r]] = "whole" => part[r].sent.size <= Limit
       /\ bytes'[file[r]] = "cut" => part[r].sent.size > Limit
  /\ LET kept == [r \in Requests |-> IF pc'[r] = "store" THEN part[r] ELSE NoPart]
         begun == {r \in Requests : pc[r] # "store" /\ pc'[r] = "store"}
     IN  \/ begun = {} /\ part' = kept
         \/ \E r \in begun : \E sent \in Sends(r) :
              part' = [kept EXCEPT ![r] = NewPart(sent)]

UploadNext ==
  FilesStep \/ \E r \in Requests : StreamStep(r)

UploadInit == Init /\ part = [r \in Requests |-> NoPart]

UploadSpec == UploadInit /\ [][UploadNext]_uploadVars

-----------------------------------------------------------------------------
\* What the validator read must reach the store: however the bytes arrive and
\* whenever the end is noticed, a stored file is the part that was sent, up to the
\* size limit, every byte once and in order.  Not so for a part that ends before
\* the eighth byte: when 'end' is emitted before its bytes are put back they are
\* lost, and an empty file is stored.
StoredIsSent ==
  [][\A r \in Requests : pc[r] = "store" /\ pc'[r] = "create" =>
       LET stream == part[r] IN
       \/ stream.stored = [i \in 1 .. Reach(stream.sent) |-> i]
       \/ stream.sent.signed /\ stream.sent.size < Peek /\ stream.stored = <<>>]_uploadVars
=============================================================================
