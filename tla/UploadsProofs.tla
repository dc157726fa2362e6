--------------------------- MODULE UploadsProofs ---------------------------
(* Proofs about Uploads, for any parts, any size limit, any length of the   *)
(* look at their first bytes and any signatures.                           *)
EXTENDS Uploads, FilesProofs

-----------------------------------------------------------------------------
(* The inductive invariant.                                                *)

\* The n bytes after byte a.
IsRun(s, a, n) ==
  s \in Seq(Nat) /\ Len(s) = n /\ \A i \in 1 .. n : s[i] = a + i

PartType ==
  [sent : [allowed : BOOLEAN, signed : BOOLEAN, matches : BOOLEAN, size : Nat],
   at : {"validate", "waiting", "read", "passed", "refused"},
   arrived : Nat, buffer : Seq(Nat), chunk : Seq(Nat),
   ended : BOOLEAN, endDue : BOOLEAN, endEmitted : BOOLEAN, stored : Seq(Nat)]

\* Stored, in the validator's hands and in the stream: all that has arrived.
InOrder(p) ==
  /\ IsRun(p.stored, 0, Len(p.stored))
  /\ IsRun(p.chunk, Len(p.stored), Len(p.chunk))
  /\ IsRun(p.buffer, Len(p.stored) + Len(p.chunk), Len(p.buffer))
  /\ Len(p.stored) + Len(p.chunk) + Len(p.buffer) = p.arrived

\* A part that was over before the look and whose end came before the bytes
\* were put back.
Lost(p) ==
  p.sent.signed /\ p.sent.size < Peek /\ p.ended /\ p.stored = <<>> /\ p.buffer = <<>>

EndOK(p) ==
  /\ p.arrived <= Reach(p.sent)
  /\ p.ended => p.arrived = Reach(p.sent)
  /\ p.endDue => p.ended
  /\ p.endEmitted => p.endDue /\ p.buffer = <<>>

ValidatorOK(p) ==
  /\ p.at \in {"validate", "waiting", "read"} => p.stored = <<>>
  /\ p.at \in {"validate", "waiting", "passed"} => p.chunk = <<>>
  /\ p.at = "validate" => ~p.endDue
  /\ p.at \in {"waiting", "read"} => p.sent.signed
  /\ p.at = "waiting" => ~p.endEmitted /\ (p.endDue => p.sent.size = 0)
  /\ p.at = "read" /\ p.endDue => p.sent.size < Peek

PartOK(p) ==
  /\ p \in PartType
  /\ EndOK(p)
  /\ ValidatorOK(p)
  /\ p.at # "refused" => InOrder(p) \/ (p.at = "passed" /\ Lost(p))

PartInv ==
  /\ DOMAIN part = Requests
  /\ \A r \in Requests : part[r] # NoPart => PartOK(part[r])

-----------------------------------------------------------------------------
(* Lemmas about bytes in a row.                                            *)

\* A stream carries at most its part, and all of a part that the validator takes
\* for a short or an empty one.
LEMMA ReachFacts ==
  ASSUME NEW sent, sent.size \in Nat
  PROVE  /\ Reach(sent) \in Nat /\ Reach(sent) <= sent.size
         /\ Reach(sent) < Peek => sent.size = Reach(sent)
         /\ sent.size <= Limit => Reach(sent) = sent.size
         /\ Peek >= 1 /\ Peek \in Nat
BY UploadsAssumption DEF Reach

LEMMA EmptyRun ==
  ASSUME NEW a \in Nat
  PROVE  IsRun(<<>>, a, 0) /\ Len(<<>>) = 0 /\ <<>> \in Seq(Nat)
BY EmptySeq DEF IsRun

\* A row of bytes with nothing in it is empty.
LEMMA NoBytes ==
  ASSUME NEW s \in Seq(Nat)
  PROVE  s = <<>> <=> Len(s) = 0
BY EmptySeq

\* Two rows, the second going on where the first ends, are one.
LEMMA RunsJoin ==
  ASSUME NEW a \in Nat, NEW n \in Nat, NEW k \in Nat,
         NEW s, NEW t, IsRun(s, a, n), IsRun(t, a + n, k)
  PROVE  IsRun(s \o t, a, n + k)
<1>1. s \in Seq(Nat) /\ t \in Seq(Nat) /\ Len(s) = n /\ Len(t) = k
  BY DEF IsRun
<1>2. s \o t \in Seq(Nat) /\ Len(s \o t) = n + k
  BY <1>1, ConcatProperties
<1>3. ASSUME NEW i \in 1 .. n + k PROVE (s \o t)[i] = a + i
  <2>1. (s \o t)[i] = IF i <= n THEN s[i] ELSE t[i - n]
    BY <1>1, ConcatProperties
  <2>2. CASE i <= n
    BY <2>1, <2>2 DEF IsRun
  <2>3. CASE i > n
    <3>1. i - n \in 1 .. k
      BY <2>3
    <3>2. t[i - n] = a + n + (i - n)
      BY <3>1 DEF IsRun
    <3> QED BY <2>1, <2>3, <3>2
  <2>4. i <= n \/ i > n
    OBVIOUS
  <2> QED BY <2>2, <2>3, <2>4, Zenon
<1> QED BY <1>2, <1>3 DEF IsRun

\* A part of a row of bytes is one.
LEMMA RunSplits ==
  ASSUME NEW a \in Nat, NEW n \in Nat, NEW k \in 1 .. n, NEW s, IsRun(s, a, n)
  PROVE  /\ IsRun(SubSeq(s, 1, k), a, k)
         /\ IsRun(SubSeq(s, k + 1, n), a + k, n - k)
<1>1. s \in Seq(Nat) /\ Len(s) = n /\ \A i \in 1 .. n : s[i] \in Nat /\ s[i] = a + i
  BY ElementOfSeq DEF IsRun
<1>2. /\ SubSeq(s, 1, k) \in Seq(Nat) /\ Len(SubSeq(s, 1, k)) = k
      /\ \A i \in 1 .. k : SubSeq(s, 1, k)[i] = s[i]
  BY <1>1, SubSeqProperties
<1>3. /\ SubSeq(s, k + 1, n) \in Seq(Nat) /\ Len(SubSeq(s, k + 1, n)) = n - k
      /\ \A i \in 1 .. n - k : SubSeq(s, k + 1, n)[i] = s[k + i]
  <2>1. \A i \in k + 1 .. n : s[i] \in Nat
    BY <1>1
  <2>2. k + 1 \in Int /\ n \in Int
    OBVIOUS
  <2>3. /\ SubSeq(s, k + 1, n) \in Seq(Nat)
        /\ Len(SubSeq(s, k + 1, n)) = IF k + 1 <= n THEN n - (k + 1) + 1 ELSE 0
        /\ \A i \in 1 .. n - (k + 1) + 1 : SubSeq(s, k + 1, n)[i] = s[k + 1 + i - 1]
    BY <2>1, <2>2, SubSeqProperties
  <2> QED BY <2>3
<1> QED BY <1>1, <1>2, <1>3 DEF IsRun

-----------------------------------------------------------------------------
(* The steps of a stream.                                                  *)

LEMMA NewPartOK ==
  ASSUME NEW r \in Requests, NEW sent \in Sends(r)
  PROVE  PartOK(NewPart(sent))
<1> DEFINE p == NewPart(sent)
<1>1. sent \in [allowed : BOOLEAN, signed : BOOLEAN, matches : BOOLEAN, size : Nat]
  BY UploadsAssumption
<1>2. /\ p.sent = sent /\ p.at = "validate" /\ p.arrived = 0 /\ p.buffer = <<>>
      /\ p.chunk = <<>> /\ p.ended = FALSE /\ p.endDue = FALSE /\ p.endEmitted = FALSE
      /\ p.stored = <<>>
  BY DEF NewPart
<1>3. <<>> \in Seq(Nat) /\ Len(<<>>) = 0 /\ IsRun(<<>>, 0, 0)
  BY EmptyRun
<1>4. p \in PartType
  BY <1>1, <1>3 DEF NewPart, PartType
<1>5. InOrder(p)
  BY <1>2, <1>3 DEF InOrder
<1>6. EndOK(p) /\ ValidatorOK(p)
  <2>1. Reach(sent) \in Nat
    BY <1>1, ReachFacts
  <2> QED BY <1>2, <2>1 DEF EndOK, ValidatorOK
<1> QED BY <1>2, <1>4, <1>5, <1>6 DEF PartOK

\* The bytes of a stream that is being looked at are all that has arrived.
LEMMA LookedAt ==
  ASSUME NEW p, PartOK(p), p.at \in {"validate", "waiting"}
  PROVE  /\ p.stored = <<>> /\ p.chunk = <<>> /\ ~p.endEmitted
         /\ IsRun(p.buffer, 0, Len(p.buffer)) /\ Len(p.buffer) = p.arrived
<1>1. p.stored = <<>> /\ p.chunk = <<>> /\ ~p.endEmitted
  BY DEF PartOK, EndOK, ValidatorOK
<1>2. InOrder(p) /\ p.buffer \in Seq(Nat) /\ p.arrived \in Nat
  BY DEF PartOK, PartType
<1>3. Len(p.buffer) \in Nat
  BY <1>2, LenProperties
<1> QED BY <1>1, <1>2, <1>3, EmptyRun DEF InOrder

LEMMA ReadBytesOK ==
  ASSUME NEW p, PartOK(p), p.at \in {"validate", "waiting"}, p.sent.signed
  PROVE  PartOK(ReadBytes(p))
<1> DEFINE n == Len(p.buffer)
           q == ReadBytes(p)
<1>1. /\ p.stored = <<>> /\ p.chunk = <<>> /\ ~p.endEmitted
      /\ IsRun(p.buffer, 0, n) /\ n = p.arrived
  BY LookedAt
<1>2. p \in PartType /\ EndOK(p) /\ ValidatorOK(p) /\ InOrder(p)
  BY DEF PartOK
<1>3. /\ p.buffer \in Seq(Nat) /\ n \in Nat /\ p.sent.size \in Nat
      /\ Peek \in Nat /\ Peek >= 1 /\ Reach(p.sent) \in Nat
      /\ Reach(p.sent) <= p.sent.size
      /\ Reach(p.sent) < Peek => p.sent.size = Reach(p.sent)
  BY <1>2, LenProperties, ReachFacts DEF PartType
<1>4. CASE n >= Peek
  <2> DEFINE head == SubSeq(p.buffer, 1, Peek)
             tail == SubSeq(p.buffer, Peek + 1, n)
  <2>1. q = [p EXCEPT !.at = "read", !.chunk = head, !.buffer = tail]
    BY <1>3, <1>4 DEF ReadBytes
  <2>2. IsRun(head, 0, Peek) /\ IsRun(tail, 0 + Peek, n - Peek)
    <3>1. Peek \in 1 .. n /\ 0 \in Nat
      BY <1>3, <1>4
    <3> QED BY <1>1, <1>3, <3>1, RunSplits
  <2>3. /\ q.sent = p.sent /\ q.at = "read" /\ q.arrived = p.arrived /\ q.buffer = tail
        /\ q.chunk = head /\ q.ended = p.ended /\ q.endDue = p.endDue
        /\ q.endEmitted = p.endEmitted /\ q.stored = p.stored
    BY <1>2, <2>1 DEF PartType
  <2>4. q \in PartType
    <3>1. head \in Seq(Nat) /\ tail \in Seq(Nat)
      BY <2>2 DEF IsRun
    <3> HIDE DEF head, tail, q
    <3> QED BY <1>2, <2>1, <3>1 DEF PartType
  <2>5. InOrder(q)
    <3>1. Len(head) = Peek /\ Len(tail) = n - Peek
      BY <2>2 DEF IsRun
    <3> HIDE DEF head, tail, q, n
    <3>2. IsRun(q.stored, 0, Len(q.stored)) /\ Len(q.stored) = 0
      BY <1>1, <2>3, EmptyRun
    <3>3. IsRun(q.chunk, Len(q.stored), Len(q.chunk))
      BY <2>2, <2>3, <3>1, <3>2
    <3>4. IsRun(q.buffer, Len(q.stored) + Len(q.chunk), Len(q.buffer))
      BY <1>3, <2>2, <2>3, <3>1, <3>2
    <3> QED BY <1>1, <1>3, <2>3, <3>1, <3>2, <3>3, <3>4 DEF InOrder
  <2>6. ~p.endDue
    BY <1>1, <1>2, <1>3, <1>4 DEF EndOK, ValidatorOK
  <2> HIDE DEF head, tail, q, n
  <2>7. EndOK(q) /\ ValidatorOK(q)
    BY <1>1, <1>2, <2>3, <2>6 DEF EndOK, ValidatorOK
  <2> QED BY <2>3, <2>4, <2>5, <2>7 DEF PartOK, q
<1>5. CASE n < Peek /\ p.ended /\ p.buffer # <<>>
  <2>1. q = [p EXCEPT !.at = "read", !.chunk = p.buffer, !.buffer = <<>>, !.endDue = TRUE]
    BY <1>3, <1>5 DEF ReadBytes
  <2>2. /\ q.sent = p.sent /\ q.at = "read" /\ q.arrived = p.arrived /\ q.buffer = <<>>
        /\ q.chunk = p.buffer /\ q.ended = p.ended /\ q.endDue = TRUE
        /\ q.endEmitted = p.endEmitted /\ q.stored = p.stored
    BY <1>2, <2>1 DEF PartType
  <2>3. q \in PartType
    <3> HIDE DEF q
    <3> QED BY <1>2, <1>3, <2>1, EmptyRun DEF PartType
  <2> HIDE DEF q, n
  <2>4. InOrder(q)
    <3>1. Len(q.stored) = 0 /\ Len(q.buffer) = 0 /\ Len(q.chunk) = n
      BY <1>1, <2>2, EmptyRun DEF n
    <3>2. IsRun(q.stored, 0, 0) /\ IsRun(q.buffer, n, 0) /\ IsRun(q.chunk, 0, n)
      BY <1>1, <1>3, <2>2, EmptyRun
    <3>3. 0 + n = n /\ n + 0 = n
      BY <1>3
    <3> QED BY <1>1, <2>2, <3>1, <3>2, <3>3 DEF InOrder
  <2>5. EndOK(q) /\ ValidatorOK(q)
    BY <1>1, <1>2, <1>3, <1>5, <2>2 DEF EndOK, ValidatorOK
  <2> QED BY <2>2, <2>3, <2>4, <2>5 DEF PartOK, q
<1>6. CASE n < Peek /\ ~(p.ended /\ p.buffer # <<>>)
  <2>1. q = [p EXCEPT !.at = "waiting", !.endDue = p.ended]
    BY <1>3, <1>6 DEF ReadBytes
  <2>2. /\ q.sent = p.sent /\ q.at = "waiting" /\ q.arrived = p.arrived
        /\ q.buffer = p.buffer /\ q.chunk = p.chunk /\ q.ended = p.ended
        /\ q.endDue = p.ended /\ q.endEmitted = p.endEmitted /\ q.stored = p.stored
    BY <1>2, <2>1 DEF PartType
  <2>3. q \in PartType
    <3> HIDE DEF q
    <3> QED BY <1>2, <2>1 DEF PartType
  <2>4. p.ended => p.sent.size = 0
    <3>1. p.ended => n = 0
      BY <1>6, NoBytes, <1>3
    <3> QED BY <1>1, <1>2, <1>3, <3>1 DEF EndOK
  <2> HIDE DEF q, n
  <2>5. InOrder(q)
    BY <1>2, <2>2 DEF InOrder
  <2>6. EndOK(q) /\ ValidatorOK(q)
    BY <1>1, <1>2, <2>2, <2>4 DEF EndOK, ValidatorOK
  <2> QED BY <2>2, <2>3, <2>5, <2>6 DEF PartOK, q
<1> QED BY <1>3, <1>4, <1>5, <1>6

LEMMA ArriveOK ==
  ASSUME NEW p, PartOK(p), NEW n \in 1 .. Reach(p.sent) - p.arrived
  PROVE  PartOK([p EXCEPT !.arrived = @ + n,
                          !.buffer = @ \o [i \in 1 .. n |-> p.arrived + i]])
<1> DEFINE new == [i \in 1 .. n |-> p.arrived + i]
           buf == p.buffer \o new
           q == [p EXCEPT !.arrived = @ + n, !.buffer = @ \o new]
<1>1. p \in PartType /\ EndOK(p) /\ ValidatorOK(p) /\ p.sent.size \in Nat /\ p.arrived \in Nat
      /\ p.buffer \in Seq(Nat) /\ p.stored \in Seq(Nat) /\ p.chunk \in Seq(Nat)
  BY DEF PartOK, PartType
<1>2. n \in Nat /\ n >= 1 /\ p.arrived + n <= Reach(p.sent) /\ ~p.ended
  BY <1>1, ReachFacts DEF EndOK
<1>3. IsRun(new, p.arrived, n)
  <2>1. new \in Seq(Nat) /\ Len(new) = n
    BY <1>1, <1>2
  <2>2. \A i \in 1 .. n : new[i] = p.arrived + i
    OBVIOUS
  <2> QED BY <2>1, <2>2 DEF IsRun
<1>4. /\ q.sent = p.sent /\ q.at = p.at /\ q.arrived = p.arrived + n /\ q.buffer = buf
      /\ q.chunk = p.chunk /\ q.ended = p.ended /\ q.endDue = p.endDue
      /\ q.endEmitted = p.endEmitted /\ q.stored = p.stored
  BY <1>1 DEF PartType
<1>5. buf \in Seq(Nat)
  BY <1>1, <1>3, ConcatProperties DEF IsRun
<1>6. q \in PartType
  <2> HIDE DEF new
  <2>1. p.buffer \o new \in Seq(Nat) /\ p.arrived + n \in Nat
    BY <1>1, <1>2, <1>5
  <2> QED BY <1>1, <2>1 DEF PartType
<1> HIDE DEF new, q
<1>7. InOrder(p) => InOrder(q)
  <2> SUFFICES ASSUME InOrder(p) PROVE InOrder(q)
    OBVIOUS
  <2> DEFINE s == Len(p.stored)
             c == Len(p.chunk)
             b == Len(p.buffer)
  <2>1. s \in Nat /\ c \in Nat /\ b \in Nat /\ s + c + b = p.arrived
    BY <1>1, LenProperties DEF InOrder
  <2>2. IsRun(p.buffer, s + c, b) /\ IsRun(new, s + c + b, n)
    BY <1>3, <2>1 DEF InOrder
  <2>3. IsRun(buf, s + c, b + n)
    <3> HIDE DEF s, c, b
    <3>1. s + c \in Nat
      BY <2>1
    <3> QED BY <1>2, <2>1, <2>2, <3>1, RunsJoin
  <2> HIDE DEF s, c, b, buf
  <2>4. Len(buf) = b + n
    BY <2>3 DEF IsRun
  <2>5. s + c + (b + n) = p.arrived + n
    BY <1>1, <1>2, <2>1
  <2> QED BY <1>4, <2>3, <2>4, <2>5 DEF InOrder, s, c, b
<1>8. ~Lost(p)
  BY <1>2 DEF Lost
<1>9. EndOK(q) /\ ValidatorOK(q)
  BY <1>1, <1>2, <1>4 DEF EndOK, ValidatorOK
<1> QED BY <1>4, <1>6, <1>7, <1>8, <1>9 DEF PartOK, q, new

LEMMA PartEndsOK ==
  ASSUME NEW p, PartOK(p), ~p.ended, p.arrived = Reach(p.sent)
  PROVE  PartOK([p EXCEPT !.ended = TRUE])
<1> DEFINE q == [p EXCEPT !.ended = TRUE]
<1>1. p \in PartType /\ EndOK(p) /\ ValidatorOK(p)
  BY DEF PartOK
<1>2. /\ q.sent = p.sent /\ q.at = p.at /\ q.arrived = p.arrived /\ q.buffer = p.buffer
      /\ q.chunk = p.chunk /\ q.ended = TRUE /\ q.endDue = p.endDue
      /\ q.endEmitted = p.endEmitted /\ q.stored = p.stored /\ q \in PartType
  BY <1>1 DEF PartType
<1> HIDE DEF q
<1>3. InOrder(p) => InOrder(q)
  BY <1>2 DEF InOrder
<1>4. Lost(p) => Lost(q)
  BY <1>2 DEF Lost
<1>5. EndOK(q) /\ ValidatorOK(q)
  BY <1>1, <1>2 DEF EndOK, ValidatorOK
<1> QED BY <1>2, <1>3, <1>4, <1>5 DEF PartOK, q

\* A part that needs no look, or whose name is refused.
LEMMA DecidedOK ==
  ASSUME NEW p, PartOK(p), p.at = "validate", NEW at \in {"passed", "refused"}
  PROVE  PartOK([p EXCEPT !.at = at])
<1> DEFINE q == [p EXCEPT !.at = at]
<1>1. p \in PartType /\ EndOK(p) /\ ValidatorOK(p) /\ InOrder(p)
  BY DEF PartOK
<1>2. /\ q.sent = p.sent /\ q.at = at /\ q.arrived = p.arrived /\ q.buffer = p.buffer
      /\ q.chunk = p.chunk /\ q.ended = p.ended /\ q.endDue = p.endDue
      /\ q.endEmitted = p.endEmitted /\ q.stored = p.stored /\ q \in PartType
  BY <1>1 DEF PartType
<1> HIDE DEF q
<1>3. InOrder(q)
  BY <1>1, <1>2 DEF InOrder
<1>4. EndOK(q) /\ ValidatorOK(q)
  BY <1>1, <1>2 DEF EndOK, ValidatorOK
<1> QED BY <1>2, <1>3, <1>4 DEF PartOK, q

LEMMA OnEndOK ==
  ASSUME NEW p, PartOK(p), p.endDue, ~p.endEmitted, p.buffer = <<>>
  PROVE  PartOK([p EXCEPT !.endEmitted = TRUE,
                          !.at = IF p.at = "waiting" THEN "read" ELSE @])
<1> DEFINE q == [p EXCEPT !.endEmitted = TRUE,
                          !.at = IF p.at = "waiting" THEN "read" ELSE @]
<1>1. p \in PartType /\ EndOK(p) /\ ValidatorOK(p) /\ Peek \in Nat /\ Peek >= 1
  BY UploadsAssumption DEF PartOK
<1>2. /\ q.sent = p.sent /\ q.at = (IF p.at = "waiting" THEN "read" ELSE p.at)
      /\ q.arrived = p.arrived /\ q.buffer = p.buffer
      /\ q.chunk = p.chunk /\ q.ended = p.ended /\ q.endDue = p.endDue
      /\ q.endEmitted = TRUE /\ q.stored = p.stored /\ q \in PartType
  BY <1>1 DEF PartType
<1> HIDE DEF q
<1>3. InOrder(p) => InOrder(q)
  BY <1>2 DEF InOrder
<1>4. Lost(p) => Lost(q)
  BY <1>2 DEF Lost
<1>5. EndOK(q) /\ ValidatorOK(q)
  BY <1>1, <1>2 DEF EndOK, ValidatorOK
<1> QED BY <1>2, <1>3, <1>4, <1>5 DEF PartOK, q

\* What was looked at is back in front of the rest, or the part was too short.
LEMMA CheckSignatureOK ==
  ASSUME NEW p, PartOK(p), p.at = "read", NEW at \in {"passed", "refused"}
  PROVE  PartOK([p EXCEPT !.at = at, !.buffer = PutBack(p), !.chunk = <<>>])
<1> DEFINE q == [p EXCEPT !.at = at, !.buffer = PutBack(p), !.chunk = <<>>]
           c == Len(p.chunk)
           b == Len(p.buffer)
<1>1. /\ p \in PartType /\ EndOK(p) /\ ValidatorOK(p) /\ InOrder(p)
      /\ p.stored = <<>> /\ p.sent.signed
      /\ p.buffer \in Seq(Nat) /\ p.chunk \in Seq(Nat) /\ p.arrived \in Nat
  BY DEF PartOK, PartType, ValidatorOK
<1>2. c \in Nat /\ b \in Nat
  BY <1>1, LenProperties
<1>3. Len(p.stored) = 0
  BY <1>1, EmptyRun
<1>4. IsRun(p.chunk, 0, c) /\ IsRun(p.buffer, c, b) /\ c + b = p.arrived
  <2>1. IsRun(p.chunk, 0, c) /\ IsRun(p.buffer, 0 + c, b) /\ 0 + c + b = p.arrived
    BY <1>1, <1>3 DEF InOrder
  <2> HIDE DEF c, b
  <2>2. 0 + c = c
    BY <1>2
  <2> QED BY <2>1, <2>2
<1>5. PutBack(p) \in Seq(Nat)
  BY <1>1, ConcatProperties DEF PutBack
<1>6. /\ q.sent = p.sent /\ q.at = at /\ q.arrived = p.arrived /\ q.buffer = PutBack(p)
      /\ q.chunk = <<>> /\ q.ended = p.ended /\ q.endDue = p.endDue
      /\ q.endEmitted = p.endEmitted /\ q.stored = <<>> /\ q \in PartType
  BY <1>1, <1>5, EmptyRun DEF PartType
<1> HIDE DEF q, c, b
<1>7. CASE p.endEmitted
  <2>1. PutBack(p) = <<>>
    BY <1>1, <1>7 DEF PutBack, EndOK
  <2>2. Lost(q)
    BY <1>1, <1>6, <1>7, <2>1 DEF Lost, EndOK, ValidatorOK
  <2>3. EndOK(q) /\ ValidatorOK(q)
    BY <1>1, <1>6, <2>1 DEF EndOK, ValidatorOK
  <2> QED BY <1>6, <2>2, <2>3 DEF PartOK, q
<1>8. CASE ~p.endEmitted
  <2>1. PutBack(p) = p.chunk \o p.buffer
    BY <1>8 DEF PutBack
  <2>2. IsRun(PutBack(p), 0, c + b)
    <3>1. IsRun(p.buffer, 0 + c, b) /\ 0 \in Nat
      BY <1>2, <1>4
    <3> QED BY <1>2, <1>4, <2>1, <3>1, RunsJoin
  <2>3. Len(PutBack(p)) = p.arrived
    BY <1>4, <2>2 DEF IsRun
  <2>4. InOrder(q)
    <3>1. IsRun(q.stored, 0, 0) /\ IsRun(q.chunk, 0, 0) /\ Len(q.stored) = 0 /\ Len(q.chunk) = 0
      BY <1>6, EmptyRun
    <3>2. IsRun(q.buffer, 0 + 0, p.arrived) /\ 0 + 0 + p.arrived = p.arrived
      BY <1>1, <1>4, <1>6, <2>2
    <3> QED BY <1>6, <2>3, <3>1, <3>2 DEF InOrder
  <2>5. EndOK(q) /\ ValidatorOK(q)
    BY <1>1, <1>6, <1>8 DEF EndOK, ValidatorOK
  <2> QED BY <1>6, <2>4, <2>5 DEF PartOK, q
<1> QED BY <1>7, <1>8

LEMMA DrainOK ==
  ASSUME NEW p, PartOK(p), p.at = "passed", p.buffer # <<>>
  PROVE  PartOK([p EXCEPT !.stored = @ \o p.buffer, !.buffer = <<>>])
<1> DEFINE q == [p EXCEPT !.stored = @ \o p.buffer, !.buffer = <<>>]
           s == Len(p.stored)
           b == Len(p.buffer)
           all == p.stored \o p.buffer
<1>1. /\ p \in PartType /\ EndOK(p) /\ ValidatorOK(p) /\ InOrder(p) /\ p.chunk = <<>>
      /\ p.buffer \in Seq(Nat) /\ p.stored \in Seq(Nat) /\ p.arrived \in Nat
  BY DEF PartOK, PartType, ValidatorOK, Lost
<1>2. s \in Nat /\ b \in Nat
  BY <1>1, LenProperties
<1>3. IsRun(p.stored, 0, s) /\ IsRun(p.buffer, s, b) /\ s + b = p.arrived
  <2>1. /\ Len(p.chunk) = 0
    BY <1>1, EmptyRun
  <2>2. IsRun(p.stored, 0, s) /\ IsRun(p.buffer, s + 0, b) /\ s + 0 + b = p.arrived
    BY <1>1, <2>1 DEF InOrder
  <2>3. s + 0 = s
    BY <1>2
  <2> QED BY <2>2, <2>3
<1>4. IsRun(all, 0, p.arrived)
  <2> HIDE DEF s, b
  <2>1. IsRun(p.buffer, 0 + s, b) /\ 0 \in Nat
    BY <1>2, <1>3
  <2> QED BY <1>2, <1>3, <2>1, RunsJoin
<1>5. all \in Seq(Nat) /\ Len(all) = p.arrived
  BY <1>4 DEF IsRun
<1>6. /\ q.sent = p.sent /\ q.at = p.at /\ q.arrived = p.arrived /\ q.buffer = <<>>
      /\ q.chunk = <<>> /\ q.ended = p.ended /\ q.endDue = p.endDue
      /\ q.endEmitted = p.endEmitted /\ q.stored = all
  BY <1>1 DEF PartType
<1>7. q \in PartType
  BY <1>1, <1>5, EmptyRun DEF PartType
<1> HIDE DEF q, all
<1>8. InOrder(q)
  <2>1. IsRun(q.chunk, p.arrived, 0) /\ IsRun(q.buffer, p.arrived + 0, 0)
        /\ Len(q.chunk) = 0 /\ Len(q.buffer) = 0
    BY <1>1, <1>6, EmptyRun
  <2>2. p.arrived + 0 + 0 = p.arrived
    BY <1>1
  <2> QED BY <1>4, <1>5, <1>6, <2>1, <2>2 DEF InOrder
<1>9. EndOK(q) /\ ValidatorOK(q)
  BY <1>1, <1>6 DEF EndOK, ValidatorOK
<1> QED BY <1>7, <1>8, <1>9 DEF PartOK, q, all

-----------------------------------------------------------------------------
LEMMA StreamStepKeeps ==
  ASSUME PartInv, NEW r \in Requests, StreamStep(r)
  PROVE  PartInv' /\ UNCHANGED vars
<1> DEFINE p == part[r]
<1>1. SUFFICES \E q : PartOK(q) /\ Becomes(r, q)
  BY DEF PartInv, Becomes
<1>2. CASE Arrive(r)
  <2>1. PICK n \in 1 .. Reach(p.sent) - p.arrived :
          Becomes(r, [p EXCEPT !.arrived = @ + n,
                               !.buffer = @ \o [i \in 1 .. n |-> p.arrived + i]])
    BY <1>2 DEF Arrive
  <2>2. PartOK(p)
    BY <1>2 DEF Arrive, PartInv
  <2> HIDE DEF p
  <2> QED BY <2>1, <2>2, ArriveOK
<1>3. CASE PartEnds(r)
  BY <1>3, PartEndsOK DEF PartEnds, PartInv
<1>4. CASE Validate(r)
  <2>1. PartOK(p) /\ p.at = "validate" /\ p.sent.allowed \in BOOLEAN /\ p.sent.signed \in BOOLEAN
    BY <1>4 DEF Validate, Following, PartInv, PartOK, PartType
  <2>2. CASE ~p.sent.allowed
    BY <1>4, <2>1, <2>2, DecidedOK DEF Validate
  <2>3. CASE p.sent.allowed /\ ~p.sent.signed
    BY <1>4, <2>1, <2>3, DecidedOK DEF Validate
  <2>4. CASE p.sent.allowed /\ p.sent.signed
    BY <1>4, <2>1, <2>4, ReadBytesOK DEF Validate
  <2> QED BY <2>1, <2>2, <2>3, <2>4
<1>5. CASE OnReadable(r)
  <2>1. PartOK(p) /\ p.at = "waiting" /\ p.sent.signed
    BY <1>5 DEF OnReadable, Following, PartInv, PartOK, ValidatorOK
  <2> QED BY <1>5, <2>1, ReadBytesOK DEF OnReadable
<1>6. CASE OnEnd(r)
  BY <1>6, OnEndOK DEF OnEnd, PartInv
<1>7. CASE CheckSignature(r)
  <2>1. PartOK(p) /\ p.at = "read"
    BY <1>7 DEF CheckSignature, Following, PartInv
  <2> DEFINE at == IF SignatureFits(p) THEN "passed" ELSE "refused"
  <2>2. at \in {"passed", "refused"}
    OBVIOUS
  <2>3. Becomes(r, [p EXCEPT !.at = at, !.buffer = PutBack(p), !.chunk = <<>>])
    BY <1>7 DEF CheckSignature
  <2> HIDE DEF at, p
  <2> QED BY <2>1, <2>2, <2>3, CheckSignatureOK
<1>8. CASE Drain(r)
  BY <1>8, DrainOK DEF Drain, Following, PartInv
<1> QED BY <1>2, <1>3, <1>4, <1>5, <1>6, <1>7, <1>8 DEF StreamStep

LEMMA FilesStepKeeps ==
  ASSUME PartInv, FilesStep
  PROVE  PartInv'
<1> DEFINE kept == [r \in Requests |-> IF pc'[r] = "store" THEN part[r] ELSE NoPart]
<1>1. \/ part' = kept
      \/ \E r \in Requests : \E sent \in Sends(r) : part' = [kept EXCEPT ![r] = NewPart(sent)]
  BY DEF FilesStep
<1>2. CASE part' = kept
  BY <1>2 DEF PartInv
<1>3. ASSUME NEW r \in Requests, NEW sent \in Sends(r), part' = [kept EXCEPT ![r] = NewPart(sent)]
      PROVE  PartInv'
  BY <1>3, NewPartOK DEF PartInv
<1> QED BY <1>1, <1>2, <1>3

LEMMA UploadStepKeeps == PartInv /\ [UploadNext]_uploadVars => PartInv'
BY StreamStepKeeps, FilesStepKeeps DEF UploadNext, uploadVars, PartInv

\* Uploads refines Files: the bytes on their way through a stream are steps
\* between the awaits of an upload, and add none of their own to what it does.
THEOREM UploadsImplementFiles == UploadSpec => Spec
<1>1. UploadInit => Init
  BY DEF UploadInit
<1>2. PartInv /\ [UploadNext]_uploadVars => [Next]_vars
  BY StreamStepKeeps DEF UploadNext, FilesStep, uploadVars
<1>3. UploadInit => PartInv
  BY DEF UploadInit, PartInv
<1> QED BY <1>1, <1>2, <1>3, UploadStepKeeps, PTL DEF UploadSpec, Spec

\* What is proved of Files is so of the uploads with their streams too, which
\* is the specification that the run checks.
THEOREM FilesHoldOfUploads ==
  UploadSpec => /\ [](TypeOK /\ RowsHaveBytes /\ OrphansAreFailures /\ AnsweredIsKept)
                /\ StrangersSeeWhatIsPublished
                /\ OnlyOwnersPublish
                /\ LinksStay
<1>1. Spec => [](TypeOK /\ RowsHaveBytes /\ OrphansAreFailures /\ AnsweredIsKept)
  BY TypeCorrect, RowsAreBacked, Orphans, AnswersAreKept, PTL
<1> QED BY <1>1, UploadsImplementFiles, StrangersSeePublished, OwnersPublish, LinksAreKept, PTL

\* What reaches "create" has been drained.
LEMMA StoredIsDrained ==
  ASSUME IInv, UploadNext, PartInv, NEW r \in Requests, pc[r] = "store", pc'[r] = "create"
  PROVE  PartOK(part[r]) /\ Drained(r)
<1>1. TypeOK
  BY DEF IInv
<1>2. FilesStep
  BY StreamStepKeeps DEF UploadNext, vars
<1>3. UploadStream(r)
  <2>1. Next
    BY <1>2 DEF FilesStep
  <2>2. PICK q \in Requests : RequestStep(q)
    BY <2>1 DEF Next, RemoveUser
  <2>3. q = r
    BY <2>2, OthersStay
  <2>4. CASE UploadStream(r) \/ UploadStreamFails(r) \/ Fails(r)
    BY <1>1, <2>4 DEF TypeOK, UploadStreamFails, Fails, Ends
  <2> QED BY <2>2, <2>3, <2>4 DEF RequestStep, Begin, ReadField, ReadFile, CreateRow,
             EndOfForm, FindToServe, FindToUpdate, UpdateRow, Serve, FindByPublicToken
<1>4. bytes'[file[r]] \in Drains
  <2>1. file[r] \in Files
    BY DEF IInv, UploadInv, Uploading
  <2> QED BY <1>1, <1>3, <2>1 DEF UploadStream, TypeOK
<1>5. Drained(r)
  BY <1>2, <1>4 DEF FilesStep
<1> QED BY <1>5 DEF Drained, Following, PartInv

\* A stored file is the part that was sent, up to the size limit, however its bytes
\* arrive and whenever the end is noticed, or an empty one for a part shorter than the look.
THEOREM StoredAsSent == UploadSpec => StoredIsSent
<1>1. ASSUME IInv, PartInv, UploadNext, NEW r \in Requests, pc[r] = "store", pc'[r] = "create"
      PROVE  LET p == part[r] IN
             \/ p.stored = [i \in 1 .. Reach(p.sent) |-> i]
             \/ p.sent.signed /\ p.sent.size < Peek /\ p.stored = <<>>
  <2> DEFINE p == part[r]
             n == Len(p.stored)
  <2>1. PartOK(p) /\ p.at = "passed" /\ (p.endEmitted \/ (p.ended /\ p.buffer = <<>>))
    BY <1>1, StoredIsDrained DEF Drained, Following
  <2>2. /\ p.buffer = <<>> /\ p.chunk = <<>> /\ p.arrived = Reach(p.sent)
        /\ p.stored \in Seq(Nat) /\ Reach(p.sent) \in Nat
    BY <2>1, ReachFacts DEF PartOK, EndOK, ValidatorOK, PartType
  <2> HIDE DEF p
  <2>3. CASE InOrder(p)
    <3>1. IsRun(p.stored, 0, n) /\ n + 0 + 0 = Reach(p.sent)
      BY <2>2, <2>3, EmptyRun DEF InOrder
    <3>2. n \in Nat
      BY <2>2, LenProperties
    <3>3. n = Reach(p.sent)
      BY <3>1, <3>2
    <3>4. DOMAIN p.stored = 1 .. Reach(p.sent) /\ p.stored = [i \in DOMAIN p.stored |-> p.stored[i]]
      BY <2>2, <3>3, LenProperties
    <3>5. \A i \in 1 .. Reach(p.sent) : p.stored[i] = i
      BY <3>1, <3>3 DEF IsRun
    <3>6. p.stored = [i \in 1 .. Reach(p.sent) |-> i]
      BY <3>4, <3>5
    <3> QED BY <3>6 DEF p
  <2>4. CASE Lost(p)
    BY <2>4 DEF Lost, p
  <2> QED BY <2>1, <2>3, <2>4 DEF PartOK
<1>2. IInv /\ PartInv /\ [UploadNext]_uploadVars =>
        [\A r \in Requests : pc[r] = "store" /\ pc'[r] = "create" =>
           LET p == part[r] IN
           \/ p.stored = [i \in 1 .. Reach(p.sent) |-> i]
           \/ p.sent.signed /\ p.sent.size < Peek /\ p.stored = <<>>]_uploadVars
  BY <1>1
<1>3. UploadInit => PartInv
  BY DEF UploadInit, PartInv
<1> QED BY <1>2, <1>3, UploadsImplementFiles, Inductive, UploadStepKeeps, PTL
        DEF UploadSpec, StoredIsSent

-----------------------------------------------------------------------------
(* Where the missing look at "truncated" does not matter.                  *)

\* While no part is over the limit nothing is stored cut.
UncutInv ==
  /\ \A r \in Requests : part[r] # NoPart => part[r].sent \in Sends(r)
  /\ \A f \in Files : bytes[f] # "cut"

LEMMA UncutKeeps ==
  ASSUME \A r \in Requests : \A sent \in Sends(r) : sent.size <= Limit
  PROVE  IInv /\ PartInv /\ UncutInv /\ [UploadNext]_uploadVars => UncutInv'
<1> SUFFICES ASSUME IInv, PartInv, UncutInv, [UploadNext]_uploadVars PROVE UncutInv'
  OBVIOUS
<1>1. CASE UNCHANGED uploadVars
  BY <1>1 DEF UncutInv, uploadVars, vars
<1>2. ASSUME NEW r \in Requests, StreamStep(r) PROVE UncutInv'
  <2>1. UNCHANGED vars
    BY <1>2, StreamStepKeeps
  <2>2. part[r] # NoPart
    BY <1>2 DEF StreamStep, Arrive, PartEnds, Validate, OnReadable, OnEnd, CheckSignature,
       Drain, Following
  <2>3. PICK q : part' = [part EXCEPT ![r] = q] /\ q.sent = part[r].sent
    <3>1. part[r] \in PartType
      BY <2>2 DEF PartInv, PartOK
    <3>2. CASE Arrive(r) \/ PartEnds(r)
      BY <3>1, <3>2 DEF Arrive, PartEnds, Becomes, PartType
    <3>3. CASE Validate(r)
      <4>1. PICK q : Becomes(r, q) /\ (q = ReadBytes(part[r]) \/ \E at \in {"passed", "refused"} :
                                        q = [part[r] EXCEPT !.at = at])
        BY <3>3, <3>1 DEF Validate, PartType
      <4> QED BY <3>1, <4>1 DEF ReadBytes, Becomes, PartType
    <3>4. CASE OnReadable(r)
      <4>1. ReadBytes(part[r]).sent = part[r].sent
        BY <3>1 DEF ReadBytes, PartType
      <4> QED BY <3>4, <4>1 DEF OnReadable, Becomes
    <3>5. CASE OnEnd(r)
      <4> DEFINE q == [part[r] EXCEPT !.endEmitted = TRUE,
                         !.at = IF part[r].at = "waiting" THEN "read" ELSE @]
      <4>1. Becomes(r, q)
        BY <3>5 DEF OnEnd
      <4>2. q.sent = part[r].sent
        BY <3>1 DEF PartType
      <4> QED BY <4>1, <4>2 DEF Becomes
    <3>6. CASE CheckSignature(r)
      <4> DEFINE q == [part[r] EXCEPT
                         !.at = IF SignatureFits(part[r]) THEN "passed" ELSE "refused",
                         !.buffer = PutBack(part[r]), !.chunk = <<>>]
      <4>1. Becomes(r, q)
        BY <3>6 DEF CheckSignature
      <4>2. q.sent = part[r].sent
        BY <3>1 DEF PartType
      <4> QED BY <4>1, <4>2 DEF Becomes
    <3>7. CASE Drain(r)
      <4> DEFINE q == [part[r] EXCEPT !.stored = @ \o part[r].buffer, !.buffer = <<>>]
      <4>1. Becomes(r, q)
        BY <3>7 DEF Drain
      <4>2. q.sent = part[r].sent
        BY <3>1 DEF PartType
      <4> QED BY <4>1, <4>2 DEF Becomes
    <3> QED BY <1>2, <3>2, <3>3, <3>4, <3>5, <3>6, <3>7 DEF StreamStep
  <2> QED BY <2>1, <2>2, <2>3 DEF UncutInv, vars, PartInv
<1>3. CASE FilesStep
  <2>1. \A r \in Requests : part'[r] # NoPart => part'[r].sent \in Sends(r)
    <3> DEFINE kept == [r \in Requests |-> IF pc'[r] = "store" THEN part[r] ELSE NoPart]
    <3>1. \/ part' = kept
          \/ \E r \in Requests : \E sent \in Sends(r) :
               part' = [kept EXCEPT ![r] = NewPart(sent)]
      BY <1>3 DEF FilesStep
    <3>2. CASE part' = kept
      BY <3>2 DEF UncutInv
    <3>3. ASSUME NEW r \in Requests, NEW sent \in Sends(r),
                 part' = [kept EXCEPT ![r] = NewPart(sent)]
          PROVE  \A q \in Requests : part'[q] # NoPart => part'[q].sent \in Sends(q)
      <4>1. part'[r].sent = sent
        BY <3>3 DEF NewPart
      <4>2. \A q \in Requests \ {r} : part'[q] \in {part[q], NoPart}
        BY <3>3
      <4> QED BY <4>1, <4>2 DEF UncutInv
    <3> QED BY <3>1, <3>2, <3>3
  <2>2. ASSUME NEW f \in Files, bytes'[f] = "cut" PROVE FALSE
    <3>1. bytes'[f] # bytes[f]
      BY <2>2 DEF UncutInv
    <3>2. PICK r \in Requests : (UploadStream(r) \/ UploadStreamFails(r)) /\ file'[r] = f
      BY <1>3, <3>1, BytesWritten DEF FilesStep
    <3>3. pc[r] = "store" /\ file[r] = f
      BY <3>2 DEF UploadStream, UploadStreamFails
    <3>4. part[r] # NoPart /\ part[r].sent.size > Limit
      BY <1>3, <2>2, <3>3 DEF FilesStep, Following
    <3>5. part[r].sent.size <= Limit /\ part[r].sent.size \in Nat /\ Limit \in Nat
      BY <3>4, UploadsAssumption DEF UncutInv
    <3> QED BY <3>4, <3>5
  <2> QED BY <2>1, <2>2 DEF UncutInv
<1> QED BY <1>1, <1>2, <1>3 DEF UploadNext

\* No upload whose parts keep to the limit is answered with success for a file
\* that is not whole: the parts over the limit are all that TooLargeIsRefused lacks.
THEOREM WholeUnderLimit ==
  ASSUME \A r \in Requests : \A sent \in Sends(r) : sent.size <= Limit
  PROVE  UploadSpec => []TooLargeIsRefused
<1>1. UploadInit => PartInv /\ UncutInv
  BY DEF UploadInit, PartInv, UncutInv, Init
<1>2. IInv /\ MadeInv /\ UncutInv => TooLargeIsRefused
  BY DEF IInv, RowsHaveBytes, Drains, MadeInv, UncutInv, TooLargeIsRefused
<1>3. IInv /\ PartInv /\ UncutInv /\ [UploadNext]_uploadVars => UncutInv'
  BY UncutKeeps
<1> QED BY <1>1, <1>2, <1>3, UploadsImplementFiles, MadeAlways, UploadStepKeeps, PTL
        DEF UploadSpec
=============================================================================
