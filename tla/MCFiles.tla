------------------------------ MODULE MCFiles ------------------------------
(* Small instances of Files and Uploads for TLC. *)
EXTENDS Uploads

CONSTANTS ann, eve, root, f0, f1, f2, p, q, g

Forms ==
  {UploadAsk(ann, FALSE, <<"isPublic=true", "file">>),
   UploadAsk(ann, TRUE, <<"isPublic=true", "file", "isPublic=false", "file">>),
   UploadAsk(ann, TRUE, <<"isPublic=true">>)}

Visibility(us, fs) ==
  {VisibilityAsk(u, f, want) : u \in us, f \in fs, want \in BOOLEAN}

Gets ==
  {ReadAsk("stream", eve, f) : f \in {f0, f1}}
    \cup {PublicAsk("getPublicAccess", t) : t \in {<<f0, Earlier>>, <<f0, p>>, <<f1, p>>}}

\* p uploads or publishes, q changes the visibility, g does that or reads.
MCAsks(r) ==
  CASE r = p -> Forms \cup Visibility({ann}, {f0})
    [] r = q -> Visibility({ann, eve, root}, {f0}) \cup Visibility({ann, eve}, {f1})
    [] r = g -> Visibility({ann}, {f0}) \cup Gets

\* f0 belongs to ann: with another owner she would be the stranger eve is.
MCInit == UploadInit /\ rows[f0].owner = ann

Sent(allowed, signed, matches, size) ==
  [allowed |-> allowed, signed |-> signed, matches |-> matches, size |-> size]

Plain == Sent(TRUE, FALSE, FALSE, 0)

MCSends(r) ==
  {Plain, Sent(TRUE, FALSE, FALSE, 3), Sent(FALSE, TRUE, TRUE, 1), Sent(TRUE, TRUE, FALSE, 9)}
    \cup {Sent(TRUE, TRUE, TRUE, n) : n \in {0, 3, 5, 8, 9, 10}}

\* Bound: the stream of a part is its request's own; all but the empty one are
\* followed while the other requests have not begun.
Quiet ==
  \A r \in Requests : part'[r] # NoPart /\ part'[r].sent # Plain =>
    \A s \in Requests \ {r} : pc'[s] = "idle"

FileAsked(a) ==
  CASE a = NoAsk -> NoFile
    [] a # NoAsk /\ a.op \in PublicOps -> a.token[1]
    [] OTHER -> a.file

\* Bound: beside an upload the other requests are about what is uploaded.
Related ==
  ask'[p] # NoAsk /\ ask'[p].op = "upload" =>
    \A r \in {q, g} : FileAsked(ask'[r]) # f0

MCNext == UploadNext /\ Quiet /\ Related

MCSpec == MCInit /\ [][MCNext]_uploadVars
=============================================================================
