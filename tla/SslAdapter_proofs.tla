--------------------------- MODULE SslAdapter_proofs ---------------------------
(***************************************************************************)
(* Proofs about SslAdapter, for any threads, replies, ETags, descriptors   *)
(* and limits.                                                             *)
(*                                                                         *)
(* The argument has two parts that do not need each other.  Who owns which *)
(* descriptor (Owned) gives that a call closes what it has opened and no   *)
(* more, with any number of threads.  What has been parsed is a function   *)
(* of how many units have been read (Parsed), and no unit is read that has *)
(* not been sent (Ordered), and none is given up that has arrived on a     *)
(* connection then closed (ReadAll); with one thread, whose result no      *)
(* other thread overwrites (Judged), the caller gets the whole reply.      *)
(***************************************************************************)
EXTENDS SslAdapter, TLAPS

\* A program that calls the SDK in one thread only.
OneThread == \A s, t \in Thread : s = t

-----------------------------------------------------------------------------
(* The inductive invariants.                                                *)

\* Where a call can hold a socket.
Connected == {"handshake", "status", "fields", "body", "cleanup"}

\* A descriptor a thread owns is its "sock"; the one of the program is not in
\* use, except for the zero of a call that could not use its URL.
Owned ==
    /\ \A t \in Thread, f \in Fd : owner[f] = t => sock[t] = f /\ pc[t] \in Connected
    /\ \A t \in Thread : ssl[t] => pc[t] \in Connected \ {"handshake"}
    /\ \A f \in Fd : owner[f] = "program" =>
          /\ f = 0
          /\ \A t \in Thread : sock[t] = f /\ pc[t] \in Connected =>
                pc[t] = "cleanup" /\ retval[t] = "ERROR_URLSYNTAX"

\* No unit is read before its record is decrypted, none is decrypted before it
\* is sent, and the records are in the order of the wire.  Nothing but the reply
\* is sent.
InOrder(c) ==
    /\ c.read <= c.decrypted /\ c.decrypted <= c.sent
    /\ \A i \in 1 .. Len(c.records) : c.decrypted < c.records[i] /\ c.records[i] <= c.sent
    /\ \A i, j \in 1 .. Len(c.records) : i < j => c.records[i] < c.records[j]

Ordered(t) ==
    /\ InOrder(conn[t])
    /\ served[t] \in Served => conn[t].sent <= Len(Wire(t))

\* No reply has begun.
Fresh(t) ==
    /\ served[t] = NoReply /\ conn[t] = NewConn
    /\ count[t] = 0 /\ bodylen[t] = -1 /\ got[t] = Nothing

\* How many units are before the status line.
Prologue(t) == IF served[t].interim THEN 2 ELSE 0

\* What the first n header lines say.
HasLength(lines, n) == \E i \in 1 .. n : lines[i].kind = "length"
ETagTexts(lines, n) ==
    LET at == {i \in 1 .. n : lines[i].kind = "etag"}
    IN  IF at = {} THEN {0} ELSE TextsOf(lines[CHOOSE i \in at : \A j \in at : j <= i])

\* The status line and "count" header lines are parsed.
HeadTaken(t) ==
    /\ served[t] \in Served
    /\ count[t] <= Len(served[t].lines)
    /\ got[t].status = served[t].status
    /\ bodylen[t] = IF HasLength(served[t].lines, count[t]) THEN served[t].pieces ELSE -1
    /\ got[t].etag \in IF wantsHeader[t] THEN ETagTexts(served[t].lines, count[t]) ELSE {0}

\* The body begins behind the empty line, or where the count of lines was used
\* up.
BodyStart(t) == Prologue(t) + 1 + count[t] + IF count[t] < HeaderMax THEN 1 ELSE 0

BodyTaken(t) ==
    /\ HeadTaken(t)
    /\ count[t] < HeaderMax => count[t] = Len(served[t].lines)
    /\ conn[t].read = BodyStart(t) + Len(got[t].body)
    /\ \A i \in 1 .. Len(got[t].body) : got[t].body[i] = Wire(t)[BodyStart(t) + i]
    /\ Len(got[t].body) <= IF bodylen[t] > 0 THEN bodylen[t] ELSE 0

\* Why an exchange may fail: there was no reply, it was not read to its end, or
\* the adapter waited for the body of HEAD.
Excused(t) ==
    \/ served[t] = NoReply
    \/ conn[t].read < Len(Wire(t))
    \/ head[t] /\ Has(served[t], "length") /\ served[t].pieces > 0

\* What has been parsed, by the place the thread has reached.
Parsed(t) ==
    /\ pc[t] \in {"idle", "url", "connect", "handshake"} => Fresh(t)
    /\ pc[t] = "status" =>
          /\ served[t] \in Served /\ conn[t].read <= Prologue(t)
          /\ count[t] < HeaderMax /\ bodylen[t] = -1 /\ got[t].etag = 0 /\ got[t].body = <<>>
    /\ pc[t] = "fields" =>
          /\ HeadTaken(t) /\ count[t] < HeaderMax /\ got[t].body = <<>>
          /\ conn[t].read = Prologue(t) + 1 + count[t]
    /\ pc[t] = "body" => BodyTaken(t)
    /\ pc[t] \in {"cleanup", "assign", "test", "returned"} =>
          IF retval[t] = "OK" THEN BodyTaken(t) /\ bodylen[t] <= Len(got[t].body)
                              ELSE Excused(t)

ExchangeInv == TypeOK /\ \A t \in Thread : Ordered(t) /\ Parsed(t)

\* What kii_http_execute makes of the result of request.
Judged(t) ==
    /\ pc[t] = "test" => http_error_code = retval[t]
    /\ pc[t] = "returned" => (ret[t] <=> retval[t] = "OK")

-----------------------------------------------------------------------------
(* The reply on the wire.                                                   *)

\* Two elements put together.
LEMMA PairFacts ==
    ASSUME NEW S, NEW x \in S, NEW y \in S
    PROVE  LET w == <<x>> \o <<y>>
           IN  w \in Seq(S) /\ Len(w) = 2 /\ w[1] = x /\ w[2] = y
  OBVIOUS

\* w is made of five sequences.
Joins(w, a, b, c, d, e) ==
    /\ Len(w) = Len(a) + Len(b) + Len(c) + Len(d) + Len(e)
    /\ \A i \in 1 .. Len(a) : w[i] = a[i]
    /\ \A i \in 1 .. Len(b) : w[Len(a) + i] = b[i]
    /\ \A i \in 1 .. Len(c) : w[Len(a) + Len(b) + i] = c[i]
    /\ \A i \in 1 .. Len(d) : w[Len(a) + Len(b) + Len(c) + i] = d[i]
    /\ \A i \in 1 .. Len(e) : w[Len(a) + Len(b) + Len(c) + Len(d) + i] = e[i]

\* Where each element of five sequences put together is.
LEMMA FiveParts ==
    ASSUME NEW S, NEW a \in Seq(S), NEW b \in Seq(S), NEW c \in Seq(S), NEW d \in Seq(S),
           NEW e \in Seq(S), NEW w, w = a \o b \o c \o d \o e
    PROVE  w \in Seq(S) /\ Joins(w, a, b, c, d, e)
  <1>1. PICK p : p = a \o b
    OBVIOUS
  <1>2. PICK q : q = p \o c
    OBVIOUS
  <1>3. PICK u : u = q \o d
    OBVIOUS
  <1>4. w = u \o e
    BY <1>1, <1>2, <1>3
  <1>5. p \in Seq(S)
    BY <1>1
  <1>6. q \in Seq(S)
    BY <1>2, <1>5
  <1>7. u \in Seq(S)
    BY <1>3, <1>6
  <1>8. /\ Len(p) = Len(a) + Len(b) /\ Len(a) \in Nat /\ Len(b) \in Nat
        /\ \A i \in 1 .. Len(a) : p[i] = a[i]
        /\ \A i \in 1 .. Len(b) : p[Len(a) + i] = b[i]
    BY <1>1
  <1>9. /\ Len(q) = Len(p) + Len(c) /\ Len(c) \in Nat
        /\ \A i \in 1 .. Len(p) : q[i] = p[i]
        /\ \A i \in 1 .. Len(c) : q[Len(p) + i] = c[i]
    BY <1>2, <1>5
  <1>10. /\ Len(u) = Len(q) + Len(d) /\ Len(d) \in Nat
         /\ \A i \in 1 .. Len(q) : u[i] = q[i]
         /\ \A i \in 1 .. Len(d) : u[Len(q) + i] = d[i]
    BY <1>3, <1>6
  <1>11. /\ w \in Seq(S) /\ Len(w) = Len(u) + Len(e) /\ Len(e) \in Nat
         /\ \A i \in 1 .. Len(u) : w[i] = u[i]
         /\ \A i \in 1 .. Len(e) : w[Len(u) + i] = e[i]
    BY <1>4, <1>7
  <1>12. \A i \in 1 .. Len(q) : w[i] = q[i]
    BY <1>10, <1>11, <1>8, <1>9
  <1>13. \A i \in 1 .. Len(p) : w[i] = p[i]
    BY <1>8, <1>9, <1>12
  <1>14. Len(w) = Len(a) + Len(b) + Len(c) + Len(d) + Len(e)
    BY <1>8, <1>9, <1>10, <1>11
  <1>15. /\ \A i \in 1 .. Len(a) : w[i] = a[i]
         /\ \A i \in 1 .. Len(b) : w[Len(a) + i] = b[i]
    BY <1>8, <1>13, SMTT(30)
  <1>16. \A i \in 1 .. Len(c) : w[Len(a) + Len(b) + i] = c[i]
    BY <1>8, <1>9, <1>12
  <1>17. \A i \in 1 .. Len(d) : w[Len(a) + Len(b) + Len(c) + i] = d[i]
    BY <1>8, <1>9, <1>10, <1>11
  <1>18. \A i \in 1 .. Len(e) : w[Len(a) + Len(b) + Len(c) + Len(d) + i] = e[i]
    BY <1>8, <1>9, <1>10, <1>11
  <1>19. QED BY <1>11, <1>14, <1>15, <1>16, <1>17, <1>18 DEF Joins

\* What a reply of the server is made of.
LEMMA ServedType ==
    ASSUME NEW r \in Served
    PROVE  /\ r.interim \in BOOLEAN /\ r.http11 \in BOOLEAN /\ r.status \in Nat \ {0}
           /\ r.lines \in Seq(Unit) /\ r.pieces \in Nat /\ r # NoReply
           /\ \A i \in 1 .. Len(r.lines) :
                 /\ r.lines[i].kind \in {"length", "etag", "other"}
                 /\ r.lines[i].kind = "length" => r.lines[i].value = r.pieces
                 /\ r.lines[i].kind = "etag" => r.lines[i].value \in ETag
  <1>1. r \in [interim : BOOLEAN, http11 : BOOLEAN, status : Nat \ {0},
               lines : Seq(Unit), pieces : Nat]
    BY SslAssumption
  <1>2. /\ r.interim \in BOOLEAN /\ r.http11 \in BOOLEAN /\ r.status \in Nat \ {0}
        /\ r.lines \in Seq(Unit) /\ r.pieces \in Nat
    BY <1>1
  <1>3. NoReply.status = 0
    BY DEF NoReply
  <1>4. DOMAIN r.lines = 1 .. Len(r.lines)
    BY <1>2
  <1>5. QED BY <1>2, <1>3, <1>4, SslAssumption

\* A line that is shorter than a block.
LEMMA ShortType ==
    ASSUME NEW kind \in {"interim", "status", "blank", "length", "etag", "other", "piece"},
           NEW value \in Nat
    PROVE  /\ Short(kind, value) \in Unit
           /\ Short(kind, value).kind = kind /\ Short(kind, value).value = value
  BY DEF Short, Unit

\* The pieces of a body are a sequence.
LEMMA PiecesType ==
    ASSUME NEW n \in Nat
    PROVE  /\ Pieces(n) \in Seq(Unit) /\ Len(Pieces(n)) = n
           /\ \A i \in 1 .. n : Pieces(n)[i] = Short("piece", i)
  <1>1. \A i \in 1 .. n : Short("piece", i) \in Unit
    BY ShortType
  <1>2. Pieces(n) \in [1 .. n -> Unit]
    BY <1>1 DEF Pieces
  <1>3. QED BY <1>2 DEF Pieces

\* Where each unit of the reply is on the wire.
LEMMA WireFacts ==
    ASSUME NEW t \in Thread, served[t] \in Served, head[t] \in BOOLEAN
    PROVE  LET r == served[t]
               text == Prologue(t) + 1
               end == text + Len(r.lines) + 1
           IN  /\ Wire(t) \in Seq(Unit)
               /\ Len(Wire(t)) = end + IF head[t] THEN 0 ELSE r.pieces
               /\ \A i \in 1 .. Prologue(t) : Wire(t)[i].kind \in {"interim", "blank"}
               /\ Wire(t)[text] = Short(IF r.http11 THEN "status" ELSE "other", r.status)
               /\ \A i \in 1 .. Len(r.lines) : Wire(t)[text + i] = r.lines[i]
               /\ Wire(t)[end] = Short("blank", 0)
               /\ ~head[t] => \A i \in 1 .. r.pieces : Wire(t)[end + i] = Short("piece", i)
  <1> DEFINE r == served[t]
             text == Short(IF r.http11 THEN "status" ELSE "other", r.status)
             blank == <<Short("blank", 0)>>
             prologue == IF r.interim THEN <<Short("interim", 100)>> \o blank ELSE <<>>
             status == <<text>>
             body == IF head[t] THEN <<>> ELSE Pieces(r.pieces)
             after == Prologue(t) + 1 + Len(r.lines)
  <1>1. Wire(t) = prologue \o status \o r.lines \o blank \o body
    BY DEF Wire
  <1>2. r.lines \in Seq(Unit) /\ r.status \in Nat /\ r.pieces \in Nat /\ r.interim \in BOOLEAN
    BY ServedType
  <1>3. blank \in Seq(Unit) /\ Len(blank) = 1 /\ blank[1] = Short("blank", 0)
    BY ShortType
  <1>4. status \in Seq(Unit) /\ Len(status) = 1 /\ status[1] = text
    BY <1>2, ShortType
  <1>5. /\ prologue \in Seq(Unit) /\ Len(prologue) = Prologue(t) /\ Prologue(t) \in {0, 2}
        /\ \A i \in 1 .. Prologue(t) : prologue[i].kind \in {"interim", "blank"}
    <2>1. CASE r.interim
      <3>1. /\ prologue \in Seq(Unit) /\ Len(prologue) = 2
            /\ prologue[1] = Short("interim", 100) /\ prologue[2] = Short("blank", 0)
        BY <2>1, PairFacts, ShortType
      <3>2. QED BY <2>1, <3>1, ShortType DEF Prologue
    <2>2. CASE ~r.interim
      BY <2>2 DEF Prologue
    <2>3. QED BY <2>1, <2>2
  <1>6. /\ body \in Seq(Unit) /\ Len(body) = IF head[t] THEN 0 ELSE r.pieces
        /\ ~head[t] => \A i \in 1 .. r.pieces : body[i] = Short("piece", i)
    <2>1. CASE head[t]
      BY <2>1
    <2>2. CASE ~head[t]
      BY <1>2, <2>2, PiecesType
    <2>3. QED BY <2>1, <2>2
  <1>7. Len(r.lines) \in Nat
    BY <1>2
  <1> HIDE DEF r, text, blank, prologue, status, body
  <1>8. Wire(t) \in Seq(Unit) /\ Joins(Wire(t), prologue, status, r.lines, blank, body)
    <2>1. /\ prologue \in Seq(Unit) /\ status \in Seq(Unit) /\ r.lines \in Seq(Unit)
          /\ blank \in Seq(Unit) /\ body \in Seq(Unit)
      BY <1>2, <1>3, <1>4, <1>5, <1>6
    <2>2. QED BY <1>1, <2>1, FiveParts, Zenon
  <1>9. /\ Wire(t) \in Seq(Unit)
        /\ Len(Wire(t)) = after + 1 + IF head[t] THEN 0 ELSE r.pieces
        /\ \A i \in 1 .. Prologue(t) : Wire(t)[i].kind \in {"interim", "blank"}
        /\ Wire(t)[Prologue(t) + 1] = text
        /\ \A i \in 1 .. Len(r.lines) : Wire(t)[Prologue(t) + 1 + i] = r.lines[i]
        /\ Wire(t)[after + 1] = Short("blank", 0)
        /\ ~head[t] => \A i \in 1 .. r.pieces : Wire(t)[after + 1 + i] = Short("piece", i)
    <2>1. Wire(t) \in Seq(Unit) /\ Len(Wire(t)) = after + 1 + IF head[t] THEN 0 ELSE r.pieces
      BY <1>3, <1>4, <1>5, <1>6, <1>7, <1>8 DEF Joins
    <2>2. \A i \in 1 .. Prologue(t) : Wire(t)[i].kind \in {"interim", "blank"}
      BY <1>5, <1>8 DEF Joins
    <2>3. Wire(t)[Prologue(t) + 1] = text
      BY <1>4, <1>5, <1>8 DEF Joins
    <2>4. \A i \in 1 .. Len(r.lines) : Wire(t)[Prologue(t) + 1 + i] = r.lines[i]
      BY <1>4, <1>5, <1>8 DEF Joins
    <2>5. Wire(t)[after + 1] = Short("blank", 0)
      BY <1>3, <1>4, <1>5, <1>7, <1>8 DEF Joins
    <2>6. ~head[t] => \A i \in 1 .. r.pieces : Wire(t)[after + 1 + i] = Short("piece", i)
      BY <1>2, <1>3, <1>4, <1>5, <1>6, <1>7, <1>8, ZenonT(60) DEF Joins
    <2>7. QED BY <2>1, <2>2, <2>3, <2>4, <2>5, <2>6
  <1>10. QED BY <1>9 DEF r, text

\* The length of the reply, before a step and after it.
LEMMA WireLength ==
    \A t \in Thread : served[t] \in Served /\ head[t] \in BOOLEAN => Len(Wire(t)) \in Nat
  <1> TAKE t \in Thread
  <1> HAVE served[t] \in Served /\ head[t] \in BOOLEAN
  <1>1. Wire(t) \in Seq(Unit)
    BY WireFacts
  <1>2. QED BY <1>1

\* The same after a step.
LEMMA WireLengthNext ==
    (\A t \in Thread : served[t] \in Served /\ head[t] \in BOOLEAN => Len(Wire(t)) \in Nat)'
  BY WireLength, PTL

-----------------------------------------------------------------------------
(* What a step leaves alone.                                                *)

\* The exchange of s, as the parser sees it, is the same after the step.
SameReply(s) ==
    /\ served'[s] = served[s] /\ head'[s] = head[s] /\ wantsHeader'[s] = wantsHeader[s]
    /\ conn'[s] = conn[s]
    /\ count'[s] = count[s] /\ bodylen'[s] = bodylen[s] /\ got'[s] = got[s]

SameThread(s) == SameReply(s) /\ pc'[s] = pc[s] /\ retval'[s] = retval[s]

\* What is said of a reply stays true when nothing of it changes.
LEMMA ReplyKept ==
    ASSUME NEW s \in Thread, SameReply(s)
    PROVE  /\ Wire(s)' = Wire(s)
           /\ Ordered(s) => Ordered(s)'
           /\ BodyTaken(s) => BodyTaken(s)'
           /\ HeadTaken(s) => HeadTaken(s)'
           /\ Excused(s) => Excused(s)'
           /\ Fresh(s) => Fresh(s)'
  <1>1. Wire(s)' = Wire(s)
    BY DEF SameReply, Wire
  <1>2. Ordered(s) => Ordered(s)'
    BY <1>1 DEF SameReply, Ordered, InOrder
  <1>3. HeadTaken(s) => HeadTaken(s)'
    BY DEF SameReply, HeadTaken
  <1>4. BodyTaken(s) => BodyTaken(s)'
    BY <1>1, <1>3 DEF SameReply, BodyTaken, BodyStart, Prologue
  <1>5. Excused(s) => Excused(s)'
    BY <1>1 DEF SameReply, Excused
  <1>6. Fresh(s) => Fresh(s)'
    BY DEF SameReply, Fresh
  <1>7. QED BY <1>1, <1>2, <1>3, <1>4, <1>5, <1>6

\* So does the invariant of a thread that does not step.
LEMMA ThreadKept ==
    ASSUME NEW s \in Thread, SameThread(s), Ordered(s), Parsed(s)
    PROVE  Ordered(s)' /\ Parsed(s)'
  <1>1. SameReply(s)
    BY DEF SameThread
  <1>2. QED
    BY <1>1, ReplyKept DEF SameThread, SameReply, Parsed, Prologue

\* One thread steps: the others keep their part of the invariant.
LEMMA OneSteps ==
    ASSUME ExchangeInv, NEW t \in Thread,
           TypeOK', Ordered(t)', Parsed(t)', \A s \in Thread \ {t} : SameThread(s)
    PROVE  ExchangeInv'
  BY ThreadKept DEF ExchangeInv

-----------------------------------------------------------------------------
(* Reading a unit.                                                          *)

ConnType == [sent : Nat, records : Seq(Nat), decrypted : Nat, read : Nat, closed : BOOLEAN]

\* What a connection is made of.
LEMMA ConnFields ==
    ASSUME NEW c \in ConnType
    PROVE  /\ c.sent \in Nat /\ c.records \in Seq(Nat) /\ c.decrypted \in Nat /\ c.read \in Nat
           /\ c.closed \in BOOLEAN
  BY DEF ConnType

\* Three fields of a connection are changed.
LEMMA ConnExcept ==
    ASSUME conn \in [Thread -> ConnType], NEW t \in Thread,
           NEW n \in Nat, NEW h \in Nat, NEW q \in Seq(Nat),
           conn' = [conn EXCEPT ![t].read = n, ![t].decrypted = h, ![t].records = q]
    PROVE  /\ conn' \in [Thread -> ConnType] /\ conn'[t].sent = conn[t].sent
           /\ conn'[t].read = n /\ conn'[t].decrypted = h /\ conn'[t].records = q
           /\ \A s \in Thread \ {t} : conn'[s] = conn[s]
  <1>1. conn' \in [Thread -> ConnType]
    BY ZenonT(60) DEF ConnType
  <1>2. /\ conn'[t].sent = conn[t].sent
        /\ conn'[t].read = n /\ conn'[t].decrypted = h /\ conn'[t].records = q
        /\ \A s \in Thread \ {t} : conn'[s] = conn[s]
    BY DEF ConnType
  <1>3. QED BY <1>1, <1>2

\* The records after the first are in order, and behind the first.
LEMMA RestOfRecords ==
    ASSUME NEW q \in Seq(Nat), q # <<>>, NEW low \in Nat, NEW high \in Nat,
           \A i \in 1 .. Len(q) : low < q[i] /\ q[i] <= high,
           \A i, j \in 1 .. Len(q) : i < j => q[i] < q[j]
    PROVE  /\ Head(q) \in Nat /\ low < Head(q) /\ Head(q) <= high /\ Tail(q) \in Seq(Nat)
           /\ \A i \in 1 .. Len(Tail(q)) : Head(q) < Tail(q)[i] /\ Tail(q)[i] <= high
           /\ \A i, j \in 1 .. Len(Tail(q)) : i < j => Tail(q)[i] < Tail(q)[j]
  <1>1. PICK h, w : h = Head(q) /\ w = Tail(q)
    OBVIOUS
  <1>2. /\ h = q[1] /\ Len(q) \in Nat \ {0} /\ w \in Seq(Nat) /\ Len(w) = Len(q) - 1
        /\ \A i \in 1 .. Len(q) : q[i] \in Nat
        /\ \A i \in 1 .. Len(w) : w[i] = q[i + 1]
    BY <1>1
  <1>3. h \in Nat /\ low < h /\ h <= high
    BY <1>2
  <1>4. \A i \in 1 .. Len(w) : h < w[i] /\ w[i] <= high
    <2> TAKE i \in 1 .. Len(w)
    <2>1. w[i] = q[i + 1] /\ i + 1 \in 1 .. Len(q) /\ 1 \in 1 .. Len(q) /\ 1 < i + 1
      BY <1>2
    <2>2. q[1] < q[i + 1] /\ q[i + 1] <= high
      BY <2>1
    <2>3. QED BY <1>2, <2>1, <2>2
  <1>5. \A i, j \in 1 .. Len(w) : i < j => w[i] < w[j]
    <2> TAKE i, j \in 1 .. Len(w)
    <2>1. /\ w[i] = q[i + 1] /\ w[j] = q[j + 1]
          /\ i + 1 \in 1 .. Len(q) /\ j + 1 \in 1 .. Len(q)
          /\ i < j => i + 1 < j + 1
      BY <1>2, SMTT(30)
    <2>2. i + 1 < j + 1 => q[i + 1] < q[j + 1]
      BY <2>1
    <2>3. QED BY <2>1, <2>2
  <1>6. QED BY <1>1, <1>2, <1>3, <1>4, <1>5, Zenon

\* A unit that can be read has been sent, and reading it keeps the order.
LEMMA ReadsSent ==
    ASSUME TypeOK, NEW t \in Thread, served[t] \in Served, Ordered(t), CanRead(t), Read(t)
    PROVE  /\ conn' \in [Thread -> ConnType] /\ InOrder(conn'[t])
           /\ conn'[t].read = conn[t].read + 1 /\ conn'[t].sent = conn[t].sent
           /\ conn[t].read \in Nat /\ conn[t].read + 1 <= Len(Wire(t))
           /\ \A s \in Thread \ {t} : conn'[s] = conn[s]
  <1> DEFINE c == conn[t]
             h == IF Pending(t) THEN c.decrypted ELSE Head(c.records)
             q == IF Pending(t) THEN c.records ELSE Tail(c.records)
  <1>1. conn \in [Thread -> ConnType]
    BY DEF TypeOK, ConnType
  <1>2. InOrder(c) /\ c.sent <= Len(Wire(t)) /\ Len(Wire(t)) \in Nat
    BY WireFacts DEF Ordered, TypeOK
  <1>3. /\ c.sent \in Nat /\ c.records \in Seq(Nat) /\ c.decrypted \in Nat /\ c.read \in Nat
    BY <1>1, ConnFields
  <1>4. /\ h \in Nat /\ q \in Seq(Nat) /\ c.read + 1 <= h /\ h <= c.sent
        /\ \A i \in 1 .. Len(q) : h < q[i] /\ q[i] <= c.sent
        /\ \A i, j \in 1 .. Len(q) : i < j => q[i] < q[j]
    <2>1. CASE Pending(t)
      BY <1>2, <1>3, <2>1 DEF Pending, InOrder
    <2>2. CASE ~Pending(t)
      <3>1. c.records # <<>>
        BY <2>2 DEF CanRead
      <3>2. /\ Head(c.records) \in Nat /\ c.decrypted < Head(c.records)
            /\ Head(c.records) <= c.sent /\ Tail(c.records) \in Seq(Nat)
            /\ \A i \in 1 .. Len(Tail(c.records)) :
                  Head(c.records) < Tail(c.records)[i] /\ Tail(c.records)[i] <= c.sent
            /\ \A i, j \in 1 .. Len(Tail(c.records)) :
                  i < j => Tail(c.records)[i] < Tail(c.records)[j]
        BY <1>2, <1>3, <3>1, RestOfRecords DEF InOrder
      <3>3. PICK x, w : x = Head(c.records) /\ w = Tail(c.records)
        OBVIOUS
      <3>4. h = x /\ q = w
        BY <2>2, <3>3
      <3>5. /\ x \in Nat /\ c.decrypted < x /\ x <= c.sent /\ w \in Seq(Nat)
            /\ \A i \in 1 .. Len(w) : x < w[i] /\ w[i] <= c.sent
            /\ \A i, j \in 1 .. Len(w) : i < j => w[i] < w[j]
        BY <3>2, <3>3, Zenon
      <3> HIDE DEF h, q
      <3>6. c.read <= c.decrypted
        BY <1>2 DEF InOrder
      <3>7. QED BY <1>3, <3>4, <3>5, <3>6
    <2>3. QED BY <2>1, <2>2
  <1>5. conn' = [conn EXCEPT ![t].read = c.read + 1, ![t].decrypted = h, ![t].records = q]
    BY Zenon DEF Read
  <1> HIDE DEF h, q
  <1>6. /\ conn' \in [Thread -> ConnType] /\ conn'[t].sent = c.sent
        /\ conn'[t].read = c.read + 1 /\ conn'[t].decrypted = h /\ conn'[t].records = q
        /\ \A s \in Thread \ {t} : conn'[s] = conn[s]
    <2>1. c.read + 1 \in Nat
      BY <1>3
    <2>2. QED BY <1>1, <1>4, <1>5, <2>1, ConnExcept
  <1>7. InOrder(conn'[t])
    BY <1>4, <1>6 DEF InOrder
  <1>8. c.read + 1 <= Len(Wire(t))
    BY <1>2, <1>3, <1>4
  <1>9. QED BY <1>3, <1>6, <1>7, <1>8

-----------------------------------------------------------------------------
(* The steps up to the request.                                             *)

\* NoReply is not a reply, and nothing is in order.
LEMMA FreshOrdered ==
    ASSUME NEW t \in Thread, Fresh(t) PROVE Ordered(t)
  <1>1. NoReply \notin Served
    BY ServedType
  <1>2. InOrder(NewConn)
    BY DEF InOrder, NewConn
  <1>3. QED BY <1>1, <1>2 DEF Fresh, Ordered

\* Values the fields start with.
LEMMA InitialTypes ==
    /\ NewConn \in [sent : Nat, records : Seq(Nat), decrypted : Nat, read : Nat, closed : BOOLEAN]
    /\ Nothing \in [status : Nat, etag : ETag \cup {0, Garbled}, body : Seq(Unit)]
    /\ Nothing.etag = 0 /\ Nothing.body = <<>> /\ NewConn.read = 0 /\ NewConn.sent = 0
  BY DEF NewConn, Nothing

\* The invariant of the exchange holds initially.
LEMMA InitExchange == Init => ExchangeInv
  <1> SUFFICES ASSUME Init PROVE ExchangeInv
    OBVIOUS
  <1>1. TypeOK
    <2>1. served \in [Thread -> Served \cup {NoReply}]
      BY DEF Init
    <2>2. /\ conn \in [Thread -> [sent : Nat, records : Seq(Nat), decrypted : Nat, read : Nat,
                                  closed : BOOLEAN]]
          /\ got \in [Thread -> [status : Nat, etag : ETag \cup {0, Garbled}, body : Seq(Unit)]]
      BY InitialTypes DEF Init
    <2>3. /\ count \in [Thread -> 0 .. HeaderMax] /\ bodylen \in [Thread -> Nat \cup {-1}]
          /\ sock \in [Thread -> Fd \cup {-1}]
      BY SslAssumption DEF Init
    <2>4. owner \in [Fd -> Thread \cup {"program", "free"}]
      BY DEF Init
    <2>5. retval \in [Thread -> HttpResult] /\ http_error_code \in HttpResult
      BY DEF Init, HttpResult
    <2>6. QED BY <2>1, <2>2, <2>3, <2>4, <2>5 DEF Init, TypeOK
  <1>2. \A t \in Thread : Fresh(t) /\ pc[t] = "idle"
    BY DEF Init, Fresh
  <1>3. QED BY <1>1, <1>2, FreshOrdered DEF ExchangeInv, Parsed

\* A call starts afresh.
LEMMA CallStep == ASSUME ExchangeInv, NEW t \in Thread, Call(t) PROVE ExchangeInv'
  <1>1. TypeOK'
    <2>1. TypeOK
      BY DEF ExchangeInv
    <2>2. conn' \in [Thread -> [sent : Nat, records : Seq(Nat), decrypted : Nat, read : Nat,
                                closed : BOOLEAN]]
      BY <2>1, InitialTypes DEF Call, TypeOK
    <2>3. got' \in [Thread -> [status : Nat, etag : ETag \cup {0, Garbled}, body : Seq(Unit)]]
      BY <2>1, InitialTypes DEF Call, TypeOK
    <2>4. /\ count' \in [Thread -> 0 .. HeaderMax] /\ bodylen' \in [Thread -> Nat \cup {-1}]
          /\ sock' \in [Thread -> Fd \cup {-1}]
      BY <2>1, SslAssumption DEF Call, TypeOK
    <2>5. head' \in [Thread -> BOOLEAN] /\ wantsHeader' \in [Thread -> BOOLEAN]
      BY <2>1 DEF Call, TypeOK
    <2>6. served' \in [Thread -> Served \cup {NoReply}]
      BY <2>1 DEF Call, TypeOK
    <2>7. QED BY <2>1, <2>2, <2>3, <2>4, <2>5, <2>6 DEF Call, Goto, TypeOK, HttpResult
  <1>2. Fresh(t)' /\ pc'[t] = "url"
    BY DEF Call, Goto, Fresh, ExchangeInv, TypeOK
  <1>3. Ordered(t)'
    BY <1>2, ServedType DEF Fresh, Ordered, InOrder, NewConn
  <1>4. \A s \in Thread \ {t} : SameThread(s)
    BY DEF Call, Goto, SameThread, SameReply, ExchangeInv, TypeOK
  <1>5. QED BY <1>1, <1>2, <1>3, <1>4, OneSteps DEF Parsed

\* The URL, the socket: no reply yet.
LEMMA ConnectStep ==
    ASSUME ExchangeInv, NEW t \in Thread, ParseUrl(t) \/ SocketConnect(t) PROVE ExchangeInv'
  <1>1. TypeOK
    BY DEF ExchangeInv
  <1>2. UNCHANGED <<request, served, conn, parser>>
    BY DEF ParseUrl, SocketConnect
  <1>3. TypeOK'
    <2>1. sock' \in [Thread -> Fd \cup {-1}]
      BY <1>1 DEF ParseUrl, SocketConnect, FreeFd, TypeOK
    <2>2. owner' \in [Fd -> Thread \cup {"program", "free"}]
      BY <1>1 DEF ParseUrl, SocketConnect, FreeFd, TypeOK
    <2>3. pc' \in [Thread -> {"idle", "url", "connect", "handshake", "status", "fields", "body",
                              "cleanup", "assign", "test", "returned"}]
      <3>1. \E x \in {"connect", "handshake", "cleanup"} : pc' = [pc EXCEPT ![t] = x]
        BY DEF ParseUrl, SocketConnect, Goto, EndFunc
      <3>2. QED BY <1>1, <3>1 DEF TypeOK
    <2>4. retval' \in [Thread -> HttpResult]
      BY <1>1 DEF ParseUrl, SocketConnect, EndFunc, TypeOK, HttpResult
    <2>5. UNCHANGED <<ssl, result, crashed>>
      BY DEF ParseUrl, SocketConnect
    <2>6. QED BY <1>1, <1>2, <2>1, <2>2, <2>3, <2>4, <2>5 DEF request, parser, result, TypeOK
  <1>4. Fresh(t) /\ Ordered(t)
    BY DEF ParseUrl, SocketConnect, ExchangeInv, Parsed
  <1>5. \A s \in Thread : SameReply(s)
    BY <1>2 DEF request, parser, SameReply
  <1>6. Ordered(t)' /\ Fresh(t)'
    BY <1>4, <1>5, ReplyKept
  <1>7. /\ \A s \in Thread \ {t} : pc'[s] = pc[s] /\ retval'[s] = retval[s]
        /\ \/ pc'[t] \in {"connect", "handshake"}
           \/ pc'[t] = "cleanup" /\ retval'[t] # "OK"
    BY <1>1, SMTT(30) DEF ParseUrl, SocketConnect, Goto, EndFunc, TypeOK
  <1>8. Parsed(t)'
    BY <1>6, <1>7 DEF Parsed, Excused, Fresh
  <1>9. QED BY <1>3, <1>5, <1>6, <1>7, <1>8, OneSteps DEF SameThread

\* The request is sent: a reply begins, or none does.
LEMMA SslConnectStep ==
    ASSUME ExchangeInv, NEW t \in Thread, SslConnect(t) PROVE ExchangeInv'
  <1>1. TypeOK /\ Fresh(t) /\ pc[t] = "handshake" /\ Ordered(t)
    BY DEF SslConnect, ExchangeInv, Parsed
  <1>2. UNCHANGED <<request, conn, sock, owner, parser, result>>
    BY DEF SslConnect
  <1>3. ssl' \in [Thread -> BOOLEAN] /\ crashed' \in BOOLEAN
    BY <1>1 DEF SslConnect, TypeOK
  <1>4. CASE \E r \in Served : /\ served' = [served EXCEPT ![t] = r]
                               /\ Goto(t, "status") /\ UNCHANGED retval
    <2>1. PICK r \in Served : served' = [served EXCEPT ![t] = r]
      BY <1>4
    <2>2. served' \in [Thread -> Served \cup {NoReply}] /\ served'[t] = r
      BY <1>1, <2>1 DEF TypeOK
    <2>3. TypeOK'
      BY <1>1, <1>2, <1>3, <1>4, <2>2 DEF Goto, request, parser, result, TypeOK
    <2>4. Ordered(t)'
      BY <1>1, <1>2, <2>3, WireLengthNext, InitialTypes
      DEF request, parser, Fresh, Ordered, InOrder, TypeOK, NewConn
    <2>5. Parsed(t)'
      <3>1. Prologue(t)' \in Nat /\ pc'[t] = "status" /\ served'[t] \in Served
        BY <1>1, <1>4, <2>2 DEF Goto, Prologue, TypeOK
      <3>2. 0 < HeaderMax
        BY SslAssumption
      <3>3. QED
        BY <1>1, <1>2, <3>1, <3>2, InitialTypes DEF parser, Parsed, Fresh
    <2>6. \A s \in Thread \ {t} : SameThread(s)
      BY <1>1, <1>2, <1>4, <2>1 DEF Goto, request, parser, SameThread, SameReply, TypeOK
    <2>7. QED BY <2>3, <2>4, <2>5, <2>6, OneSteps
  <1>5. CASE EndFunc(t, "ERROR_CONNECTSSLSERVER") /\ UNCHANGED served
    <2>1. TypeOK'
      BY <1>1, <1>2, <1>3, <1>5 DEF EndFunc, Goto, request, parser, result, TypeOK, HttpResult
    <2>2. \A s \in Thread : SameReply(s)
      BY <1>2, <1>5 DEF request, parser, SameReply
    <2>3. Ordered(t)' /\ Fresh(t)'
      BY <1>1, <2>2, ReplyKept
    <2>4. Parsed(t)'
      BY <1>1, <1>5, <2>3 DEF EndFunc, Goto, TypeOK, Parsed, Excused, Fresh
    <2>5. \A s \in Thread \ {t} : SameThread(s)
      BY <1>1, <1>5, <2>2 DEF EndFunc, Goto, TypeOK, SameThread
    <2>6. QED BY <2>1, <2>3, <2>4, <2>5, OneSteps
  <1>6. CASE UNCHANGED <<pc, ssl, served, retval>>
    <2>1. TypeOK'
      BY <1>1, <1>2, <1>3, <1>6 DEF request, parser, result, TypeOK
    <2>2. \A s \in Thread : SameThread(s)
      BY <1>2, <1>6 DEF request, parser, SameThread, SameReply
    <2>3. QED BY <2>1, <2>2, ThreadKept DEF ExchangeInv
  <1>7. QED BY <1>4, <1>5, <1>6 DEF SslConnect

-----------------------------------------------------------------------------
(* The server and the connection.                                           *)

\* While the adapter reads, there is a reply.
LEMMA ReceivingServed ==
    ASSUME ExchangeInv, NEW t \in Thread, Receiving(t)
    PROVE  /\ TypeOK /\ served[t] \in Served /\ Ordered(t) /\ Parsed(t)
           /\ Len(Wire(t)) \in Nat /\ Wire(t) \in Seq(Unit)
           /\ conn \in [Thread -> ConnType] /\ conn[t].read <= Len(Wire(t))
  <1>1. TypeOK /\ served[t] \in Served /\ Ordered(t) /\ Parsed(t) /\ head[t] \in BOOLEAN
    BY DEF Receiving, ExchangeInv, Parsed, BodyTaken, HeadTaken, TypeOK
  <1>2. Wire(t) \in Seq(Unit) /\ Len(Wire(t)) \in Nat
    BY <1>1, WireFacts
  <1>3. conn \in [Thread -> ConnType]
    BY <1>1 DEF TypeOK, ConnType
  <1>4. conn[t].read \in Nat /\ conn[t].decrypted \in Nat /\ conn[t].sent \in Nat
    BY <1>3, ConnFields
  <1>5. QED BY <1>1, <1>2, <1>3, <1>4 DEF Ordered, InOrder

\* What is parsed depends on how much is read, not on how much was sent.
LEMMA SentMore ==
    ASSUME NEW t \in Thread, Parsed(t), conn'[t].read = conn[t].read, Receiving(t),
           UNCHANGED <<pc, request, served, parser, retval>>
    PROVE  Parsed(t)'
  <1>1. Wire(t)' = Wire(t)
    BY DEF request, Wire
  <1>2. HeadTaken(t)' = HeadTaken(t) /\ Prologue(t)' = Prologue(t)
    BY DEF request, parser, HeadTaken, Prologue
  <1>3. BodyTaken(t) => BodyTaken(t)'
    BY <1>1, <1>2 DEF parser, BodyTaken, BodyStart
  <1>4. QED BY <1>1, <1>2, <1>3 DEF Receiving, parser, Parsed

\* Another record is behind all others.
LEMMA OneMoreRecord ==
    ASSUME NEW q \in Seq(Nat), NEW low \in Nat, NEW high \in Nat, NEW n \in Nat,
           low <= high, high < n,
           \A i \in 1 .. Len(q) : low < q[i] /\ q[i] <= high,
           \A i, j \in 1 .. Len(q) : i < j => q[i] < q[j]
    PROVE  /\ Append(q, n) \in Seq(Nat)
           /\ \A i \in 1 .. Len(Append(q, n)) : low < Append(q, n)[i] /\ Append(q, n)[i] <= n
           /\ \A i, j \in 1 .. Len(Append(q, n)) : i < j => Append(q, n)[i] < Append(q, n)[j]
  <1>1. PICK w : w = Append(q, n)
    OBVIOUS
  <1>2. /\ w \in Seq(Nat) /\ Len(w) = Len(q) + 1 /\ Len(q) \in Nat /\ w[Len(q) + 1] = n
        /\ \A i \in 1 .. Len(q) : w[i] = q[i] /\ q[i] \in Nat
    BY <1>1
  <1>3. \A i \in 1 .. Len(w) : low < w[i] /\ w[i] <= n
    <2> TAKE i \in 1 .. Len(w)
    <2>1. CASE i \in 1 .. Len(q)
      <3>1. w[i] = q[i] /\ w[i] \in Nat /\ low < q[i] /\ q[i] <= high
        BY <1>2, <2>1
      <3>2. QED BY <3>1
    <2>2. CASE i = Len(q) + 1
      BY <1>2, <2>2
    <2>3. QED BY <1>2, <2>1, <2>2
  <1>4. \A i, j \in 1 .. Len(w) : i < j => w[i] < w[j]
    <2> TAKE i, j \in 1 .. Len(w)
    <2> HAVE i < j
    <2>1. i \in 1 .. Len(q) /\ w[i] = q[i] /\ q[i] \in Nat /\ q[i] <= high
      BY <1>2, SMTT(30)
    <2>2. CASE j \in 1 .. Len(q)
      <3>1. w[j] = q[j] /\ q[i] < q[j]
        BY <1>2, <2>1, <2>2
      <3>2. QED BY <2>1, <3>1
    <2>3. CASE j = Len(q) + 1
      BY <1>2, <2>1, <2>3
    <2>4. j \in 1 .. Len(q) \/ j = Len(q) + 1
      <3>1. Len(w) = Len(q) + 1 /\ Len(q) \in Nat
        BY <1>2
      <3> HIDE <1>2
      <3>2. QED BY <3>1
    <2>5. QED BY <2>2, <2>3, <2>4
  <1>5. QED BY <1>1, <1>2, <1>3, <1>4

\* The server sends more of the reply.
LEMMA SendStep == ASSUME ExchangeInv, NEW t \in Thread, Send(t) PROVE ExchangeInv'
  <1> DEFINE c == conn[t]
  <1>1. /\ TypeOK /\ served[t] \in Served /\ Ordered(t) /\ Parsed(t) /\ Receiving(t)
        /\ Len(Wire(t)) \in Nat /\ conn \in [Thread -> ConnType]
    BY ReceivingServed DEF Send
  <1>2. PICK n \in c.sent + 1 .. Len(Wire(t)) :
          conn' = [conn EXCEPT ![t].sent = n, ![t].records = Append(@, n)]
    BY DEF Send
  <1>3. UNCHANGED <<pc, request, served, sock, ssl, owner, parser, retval, result, crashed>>
    BY DEF Send
  <1>4. /\ c.sent \in Nat /\ c.records \in Seq(Nat) /\ c.decrypted \in Nat /\ c.read \in Nat
        /\ n \in Nat /\ n <= Len(Wire(t)) /\ c.sent < n
    BY <1>1, <1>2, ConnFields
  <1>5. PICK w : w = Append(c.records, n)
    OBVIOUS
  <1>6. /\ w \in Seq(Nat)
        /\ \A i \in 1 .. Len(w) : c.decrypted < w[i] /\ w[i] <= n
        /\ \A i, j \in 1 .. Len(w) : i < j => w[i] < w[j]
    BY <1>1, <1>4, <1>5, OneMoreRecord, ZenonT(60) DEF Ordered, InOrder
  <1>7. conn' = [conn EXCEPT ![t].sent = n, ![t].records = w]
    BY <1>1, <1>2, <1>5 DEF ConnType
  <1>8. /\ conn' \in [Thread -> ConnType] /\ conn'[t].sent = n /\ conn'[t].records = w
        /\ conn'[t].read = c.read /\ conn'[t].decrypted = c.decrypted
        /\ \A s \in Thread \ {t} : conn'[s] = conn[s]
    BY <1>1, <1>4, <1>6, <1>7 DEF ConnType
  <1>9. TypeOK'
    BY <1>1, <1>3, <1>8 DEF TypeOK, ConnType, request, parser, result
  <1>10. Ordered(t)'
    <2>1. Wire(t)' = Wire(t)
      BY <1>3 DEF request, Wire
    <2>2. InOrder(conn'[t])
      BY <1>1, <1>4, <1>6, <1>8 DEF Ordered, InOrder
    <2>3. QED BY <1>4, <1>8, <2>1, <2>2 DEF Ordered
  <1>11. Parsed(t)'
    BY <1>1, <1>3, <1>8, SentMore
  <1>12. \A s \in Thread \ {t} : SameThread(s)
    BY <1>3, <1>8 DEF SameThread, SameReply, request, parser
  <1>13. QED BY <1>9, <1>10, <1>11, <1>12, OneSteps

\* The server closes.
LEMMA CloseStep == ASSUME ExchangeInv, NEW t \in Thread, Close(t) PROVE ExchangeInv'
  <1>1. /\ TypeOK /\ Ordered(t) /\ Parsed(t) /\ Receiving(t) /\ conn \in [Thread -> ConnType]
    BY ReceivingServed DEF Close
  <1>2. UNCHANGED <<pc, request, served, sock, ssl, owner, parser, retval, result, crashed>>
    BY DEF Close
  <1>3. /\ conn' \in [Thread -> ConnType] /\ conn'[t].sent = conn[t].sent
        /\ conn'[t].records = conn[t].records
        /\ conn'[t].read = conn[t].read /\ conn'[t].decrypted = conn[t].decrypted
        /\ \A s \in Thread \ {t} : conn'[s] = conn[s]
    BY <1>1 DEF Close, ConnType
  <1>4. TypeOK'
    BY <1>1, <1>2, <1>3 DEF TypeOK, ConnType, request, parser, result
  <1>5. Ordered(t)'
    <2>1. Wire(t)' = Wire(t)
      BY <1>2 DEF request, Wire
    <2>2. QED BY <1>1, <1>2, <1>3, <2>1 DEF Ordered, InOrder
  <1>6. Parsed(t)'
    BY <1>1, <1>2, <1>3, SentMore
  <1>7. \A s \in Thread \ {t} : SameThread(s)
    BY <1>2, <1>3 DEF SameThread, SameReply, request, parser
  <1>8. QED BY <1>4, <1>5, <1>6, <1>7, OneSteps

-----------------------------------------------------------------------------
(* The parser.                                                              *)

\* No more has been read than was sent, and what was read is in order.
LEMMA ReadOrdered ==
    ASSUME ExchangeInv, NEW t \in Thread, Receiving(t), CanRead(t), Read(t),
           UNCHANGED <<request, served>>
    PROVE  /\ Ordered(t)' /\ conn' \in [Thread -> ConnType]
           /\ conn'[t].read = conn[t].read + 1
           /\ conn[t].read \in Nat /\ conn[t].read + 1 <= Len(Wire(t))
           /\ Wire(t)' = Wire(t) /\ Prologue(t)' = Prologue(t)
           /\ \A s \in Thread \ {t} : conn'[s] = conn[s]
  <1>1. TypeOK /\ served[t] \in Served /\ Ordered(t) /\ Len(Wire(t)) \in Nat
    BY ReceivingServed
  <1>2. /\ conn' \in [Thread -> ConnType] /\ InOrder(conn'[t])
        /\ conn'[t].read = conn[t].read + 1 /\ conn'[t].sent = conn[t].sent
        /\ conn[t].read \in Nat /\ conn[t].read + 1 <= Len(Wire(t))
        /\ \A s \in Thread \ {t} : conn'[s] = conn[s]
    BY <1>1, ReadsSent
  <1>3. Wire(t)' = Wire(t) /\ Prologue(t)' = Prologue(t)
    BY DEF request, Wire, Prologue
  <1>4. Ordered(t)'
    BY <1>1, <1>2, <1>3 DEF Ordered
  <1>5. QED BY <1>2, <1>3, <1>4

\* Of the status line of a reply and the lines before it.
LEMMA StatusUnit ==
    ASSUME TypeOK, NEW t \in Thread, served[t] \in Served, conn[t].read \in Nat,
           conn[t].read <= Prologue(t)
    PROVE  LET u == NextUnit(t)
           IN  /\ u.kind \in {"interim", "blank"} => conn[t].read < Prologue(t)
               /\ u.kind = "status" =>
                    /\ conn[t].read = Prologue(t)
                    /\ u.value = served[t].status
               /\ Prologue(t) \in Nat /\ conn[t].read + 1 < Len(Wire(t))
  <1>1. head[t] \in BOOLEAN
    BY DEF TypeOK
  <1>2. /\ Len(Wire(t)) = Prologue(t) + 1 + Len(served[t].lines) + 1
                          + IF head[t] THEN 0 ELSE served[t].pieces
        /\ \A i \in 1 .. Prologue(t) : Wire(t)[i].kind \in {"interim", "blank"}
        /\ Wire(t)[Prologue(t) + 1]
             = Short(IF served[t].http11 THEN "status" ELSE "other", served[t].status)
    BY <1>1, WireFacts
  <1>3. /\ Prologue(t) \in Nat /\ Len(served[t].lines) \in Nat /\ served[t].pieces \in Nat
        /\ served[t].status \in Nat
    BY ServedType DEF Prologue
  <1>4. Prologue(t) + 2 <= Len(Wire(t))
    <2>1. (IF head[t] THEN 0 ELSE served[t].pieces) \in Nat
      BY <1>3
    <2>2. QED BY <1>2, <1>3, <2>1, SMTT(30)
  <1>5. CASE conn[t].read < Prologue(t)
    <2>1. NextUnit(t).kind \in {"interim", "blank"}
      BY <1>2, <1>3, <1>5, SMTT(30) DEF NextUnit
    <2>2. QED BY <1>3, <1>4, <1>5, <2>1
  <1>6. CASE conn[t].read = Prologue(t)
    <2>1. NextUnit(t) = Wire(t)[Prologue(t) + 1]
      BY <1>6 DEF NextUnit
    <2>2. NextUnit(t).kind \in {"status", "other"} /\ NextUnit(t).value = served[t].status
      BY <1>2, <1>3, <2>1, ShortType, SMTT(30)
    <2>3. QED BY <1>3, <1>4, <1>6, <2>2
  <1>7. QED BY <1>3, <1>5, <1>6

\* The status line, or what is before it.
LEMMA ReadStatusStep ==
    ASSUME ExchangeInv, NEW t \in Thread, ReadStatus(t) PROVE ExchangeInv'
  <1> DEFINE u == NextUnit(t)
  <1>1. /\ pc[t] = "status" /\ CanRead(t) /\ Read(t) /\ Receiving(t)
        /\ UNCHANGED <<request, served, sock, ssl, owner, bodylen, result, crashed>>
    BY DEF ReadStatus, Receiving
  <1>2. /\ TypeOK /\ served[t] \in Served /\ conn[t].read <= Prologue(t)
        /\ count[t] < HeaderMax /\ bodylen[t] = -1 /\ got[t].etag = 0 /\ got[t].body = <<>>
    BY <1>1 DEF ExchangeInv, Parsed
  <1>3. /\ Ordered(t)' /\ conn' \in [Thread -> ConnType]
        /\ conn'[t].read = conn[t].read + 1
        /\ conn[t].read \in Nat
        /\ Wire(t)' = Wire(t) /\ Prologue(t)' = Prologue(t)
        /\ \A s \in Thread \ {t} : conn'[s] = conn[s]
    BY <1>1, ReadOrdered
  <1>4. /\ u.kind \in {"interim", "blank"} => conn[t].read < Prologue(t)
        /\ u.kind = "status" => conn[t].read = Prologue(t) /\ u.value = served[t].status
        /\ Prologue(t) \in Nat /\ conn[t].read + 1 < Len(Wire(t))
    BY <1>2, <1>3, StatusUnit
  <1>5. /\ served[t].status \in Nat /\ Len(served[t].lines) \in Nat
        /\ HeaderMax \in Nat /\ 0 < HeaderMax /\ count[t] \in Nat
    BY <1>2, ServedType, SslAssumption DEF TypeOK
  <1> HIDE DEF u
  <1>6. CASE /\ u.kind \in {"blank", "interim"}
             /\ count' = [count EXCEPT ![t] = @ + 1]
             /\ got' = IF u.kind = "interim" THEN [got EXCEPT ![t].status = 100] ELSE got
             /\ IF count[t] + 1 = HeaderMax
                THEN EndFunc(t, "ERROR_RESPONSEHEADER")
                ELSE UNCHANGED <<pc, retval>>
    <2>1. /\ got' \in [Thread -> [status : Nat, etag : ETag \cup {0, Garbled},
                                  body : Seq(Unit)]]
          /\ got'[t].etag = 0 /\ got'[t].body = <<>>
          /\ \A s \in Thread \ {t} : got'[s] = got[s]
      <3>1. CASE u.kind = "interim"
        <4>1. PICK n \in Nat : got' = [got EXCEPT ![t].status = n]
          BY <1>6, <3>1
        <4>2. QED BY <1>2, <4>1, ZenonT(60) DEF TypeOK
      <3>2. CASE u.kind # "interim"
        BY <1>2, <1>6, <3>2 DEF TypeOK
      <3>3. QED BY <3>1, <3>2
    <2>2. /\ count' \in [Thread -> 0 .. HeaderMax] /\ count'[t] = count[t] + 1
          /\ \A s \in Thread \ {t} : count'[s] = count[s]
      BY <1>2, <1>5, <1>6 DEF TypeOK
    <2>3. TypeOK' /\ \A s \in Thread \ {t} : pc'[s] = pc[s] /\ retval'[s] = retval[s]
      <3>1. CASE EndFunc(t, "ERROR_RESPONSEHEADER")
        BY <1>1, <1>2, <1>3, <2>1, <2>2, <3>1
        DEF EndFunc, Goto, request, result, TypeOK, ConnType, HttpResult
      <3>2. CASE UNCHANGED <<pc, retval>>
        BY <1>1, <1>2, <1>3, <2>1, <2>2, <3>2 DEF request, result, TypeOK, ConnType
      <3>3. QED BY <1>6, <3>1, <3>2
    <2>4. Parsed(t)'
      <3>1. CASE count[t] + 1 = HeaderMax
        BY <1>1, <1>2, <1>3, <1>4, <1>6, <3>1 DEF EndFunc, Goto, TypeOK, Parsed, Excused
      <3>2. CASE count[t] + 1 # HeaderMax
        <4>1. UNCHANGED <<pc, retval, served, bodylen>>
          BY <1>1, <1>6, <3>2
        <4>2. conn'[t].read <= Prologue(t)' /\ count'[t] < HeaderMax
          BY <1>2, <1>3, <1>4, <1>5, <1>6, <2>2, <3>2
        <4>3. QED BY <1>1, <1>2, <2>1, <4>1, <4>2 DEF Parsed
      <3>3. QED BY <3>1, <3>2
    <2>5. \A s \in Thread \ {t} : SameThread(s)
      BY <1>1, <1>3, <2>1, <2>2, <2>3 DEF request, SameThread, SameReply
    <2>6. QED BY <1>3, <2>3, <2>4, <2>5, OneSteps
  <1>7. CASE /\ u.kind = "status"
             /\ got' = [got EXCEPT ![t].status = u.value]
             /\ count' = [count EXCEPT ![t] = 0]
             /\ Goto(t, "fields")
             /\ UNCHANGED retval
    <2>1. /\ got' \in [Thread -> [status : Nat, etag : ETag \cup {0, Garbled},
                                  body : Seq(Unit)]]
          /\ got'[t].status = served[t].status /\ got'[t].etag = 0 /\ got'[t].body = <<>>
          /\ \A s \in Thread \ {t} : got'[s] = got[s]
      BY <1>2, <1>4, <1>5, <1>7, ZenonT(60) DEF TypeOK
    <2>2. /\ count' \in [Thread -> 0 .. HeaderMax] /\ count'[t] = 0
          /\ \A s \in Thread \ {t} : count'[s] = count[s]
      BY <1>2, <1>5, <1>7 DEF TypeOK
    <2>3. TypeOK'
      BY <1>1, <1>2, <1>3, <1>7, <2>1, <2>2
      DEF Goto, request, result, TypeOK, ConnType
    <2>4. HeadTaken(t)'
      <3>1. ~HasLength(served[t].lines, 0) /\ ETagTexts(served[t].lines, 0) = {0}
        BY DEF HasLength, ETagTexts
      <3>2. QED BY <1>1, <1>2, <1>5, <2>1, <2>2, <3>1 DEF request, HeadTaken
    <2>5. Parsed(t)'
      <3>1. conn'[t].read = Prologue(t)' + 1 + count'[t]
        BY <1>3, <1>4, <1>7, <2>2
      <3>2. pc'[t] = "fields"
        BY <1>2, <1>7 DEF Goto, TypeOK
      <3>3. QED BY <1>5, <2>1, <2>2, <2>4, <3>1, <3>2 DEF Parsed
    <2>6. \A s \in Thread \ {t} : SameThread(s)
      BY <1>1, <1>2, <1>3, <1>7, <2>1, <2>2 DEF Goto, request, TypeOK, SameThread, SameReply
    <2>7. QED BY <1>3, <2>3, <2>5, <2>6, OneSteps
  <1>8. CASE EndFunc(t, "ERROR_RESPONSEHEADER") /\ UNCHANGED <<count, got>>
    <2>1. TypeOK'
      BY <1>1, <1>2, <1>3, <1>8 DEF EndFunc, Goto, request, result, TypeOK, ConnType, HttpResult
    <2>2. Parsed(t)'
      BY <1>1, <1>2, <1>3, <1>4, <1>8 DEF EndFunc, Goto, TypeOK, Parsed, Excused
    <2>3. \A s \in Thread \ {t} : SameThread(s)
      BY <1>1, <1>2, <1>3, <1>8 DEF EndFunc, Goto, request, TypeOK, SameThread, SameReply
    <2>4. QED BY <1>3, <2>1, <2>2, <2>3, OneSteps
  <1>9. QED BY <1>6, <1>7, <1>8 DEF ReadStatus, u

\* Of the lines of the head.
LEMMA FieldUnit ==
    ASSUME TypeOK, NEW t \in Thread, HeadTaken(t),
           conn[t].read = Prologue(t) + 1 + count[t]
    PROVE  LET u == NextUnit(t)
               n == count[t] + 1
               lines == served[t].lines
           IN  /\ u.kind = "blank" => count[t] = Len(lines)
               /\ u.kind # "blank" => n <= Len(lines) /\ u = lines[n]
               /\ u.kind # "blank" => conn[t].read + 1 < Len(Wire(t))
               /\ u.kind = "length" => u.value = served[t].pieces
               /\ u.kind = "etag" => u.value \in ETag
               /\ n \in Nat /\ Len(lines) \in Nat
  <1> DEFINE lines == served[t].lines
             n == count[t] + 1
  <1>1. served[t] \in Served /\ count[t] \in Nat /\ count[t] <= Len(lines) /\ head[t] \in BOOLEAN
    BY SslAssumption DEF TypeOK, HeadTaken
  <1>2. /\ Len(Wire(t)) = Prologue(t) + 1 + Len(lines) + 1
                          + IF head[t] THEN 0 ELSE served[t].pieces
        /\ \A i \in 1 .. Len(lines) : Wire(t)[Prologue(t) + 1 + i] = lines[i]
        /\ Wire(t)[Prologue(t) + 1 + Len(lines) + 1] = Short("blank", 0)
    BY <1>1, WireFacts
  <1>3. /\ Prologue(t) \in Nat /\ Len(lines) \in Nat /\ served[t].pieces \in Nat
        /\ \A i \in 1 .. Len(lines) :
              /\ lines[i].kind \in {"length", "etag", "other"}
              /\ lines[i].kind = "length" => lines[i].value = served[t].pieces
              /\ lines[i].kind = "etag" => lines[i].value \in ETag
    BY <1>1, ServedType DEF Prologue
  <1>4. Prologue(t) + 1 + Len(lines) + 1 <= Len(Wire(t))
    <2>1. (IF head[t] THEN 0 ELSE served[t].pieces) \in Nat
      BY <1>3
    <2>2. QED BY <1>2, <1>3, <2>1
  <1>5. NextUnit(t) = Wire(t)[Prologue(t) + 1 + n]
    <2>1. conn[t].read + 1 = Prologue(t) + 1 + n
      BY <1>1, <1>3
    <2>2. QED BY <2>1 DEF NextUnit
  <1> HIDE DEF lines
  <1>6. CASE count[t] = Len(lines)
    <2>1. NextUnit(t).kind = "blank"
      <3>1. Prologue(t) + 1 + n = Prologue(t) + 1 + Len(lines) + 1
        BY <1>1, <1>3, <1>6
      <3>2. QED BY <1>2, <1>5, <3>1, ShortType
    <2>2. QED BY <1>1, <1>3, <1>6, <2>1 DEF lines
  <1>7. CASE count[t] # Len(lines)
    <2>1. n \in 1 .. Len(lines)
      BY <1>1, <1>3, <1>7
    <2>2. NextUnit(t) = lines[n]
      BY <1>2, <1>5, <2>1
    <2>3. lines[n].kind # "blank"
      BY <1>3, <2>1
    <2>4. conn[t].read + 1 < Len(Wire(t))
      BY <1>1, <1>3, <1>4, <2>1
    <2>5. QED BY <1>1, <1>3, <2>1, <2>2, <2>3, <2>4, SMTT(30) DEF lines
  <1>8. QED BY <1>6, <1>7

\* One more header line.
LEMMA HeadTakenMore ==
    ASSUME NEW lines, NEW n \in Nat
    PROVE  /\ HasLength(lines, n + 1) <=>
                HasLength(lines, n) \/ lines[n + 1].kind = "length"
           /\ ETagTexts(lines, n + 1) =
                IF lines[n + 1].kind = "etag" THEN TextsOf(lines[n + 1]) ELSE ETagTexts(lines, n)
  <1>1. HasLength(lines, n + 1) <=> HasLength(lines, n) \/ lines[n + 1].kind = "length"
    BY DEF HasLength
  <1> DEFINE at(k) == {i \in 1 .. k : lines[i].kind = "etag"}
             lastOf(S) == TextsOf(lines[CHOOSE i \in S : \A j \in S : j <= i])
             last(k) == CHOOSE i \in at(k) : \A j \in at(k) : j <= i
  <1>2. \A k \in {n, n + 1} :
            ETagTexts(lines, k) = IF at(k) = {} THEN {0} ELSE lastOf(at(k))
    BY Zenon DEF ETagTexts
  <1>3. CASE lines[n + 1].kind = "etag"
    <2>1. n + 1 \in at(n + 1) /\ \A j \in at(n + 1) : j <= n + 1
      BY <1>3
    <2>2. last(n + 1) \in at(n + 1) /\ \A j \in at(n + 1) : j <= last(n + 1)
      BY <2>1
    <2>3. last(n + 1) = n + 1
      BY <2>1, <2>2
    <2>4. ETagTexts(lines, n + 1) = TextsOf(lines[last(n + 1)])
      BY <1>2, <2>1, Zenon
    <2>5. QED BY <1>1, <1>3, <2>3, <2>4
  <1>4. CASE lines[n + 1].kind # "etag"
    <2>1. at(n + 1) = at(n)
      BY <1>4
    <2> HIDE DEF at, lastOf
    <2>2. QED BY <1>1, <1>2, <1>4, <2>1
  <1>5. QED BY <1>3, <1>4

\* The body begins: none of it is taken.
LEMMA BodyBegins ==
    ASSUME TypeOK, NEW t \in Thread, HeadTaken(t), got[t].body = <<>>,
           conn[t].read = BodyStart(t),
           count[t] < HeaderMax => count[t] = Len(served[t].lines)
    PROVE  BodyTaken(t)
  <1>1. bodylen[t] \in Nat \cup {-1} /\ count[t] \in Nat /\ Prologue(t) \in Nat
        /\ HeaderMax \in Nat
    BY SslAssumption DEF TypeOK, Prologue
  <1>2. BodyStart(t) \in Nat
    BY <1>1 DEF BodyStart
  <1>3. Len(got[t].body) = 0
    OBVIOUS
  <1>4. QED BY <1>1, <1>2, <1>3 DEF BodyTaken

\* The same after a step.
LEMMA BodyBeginsNext ==
    (\A t \in Thread :
        /\ TypeOK /\ HeadTaken(t) /\ got[t].body = <<>> /\ conn[t].read = BodyStart(t)
        /\ count[t] < HeaderMax => count[t] = Len(served[t].lines)
        => BodyTaken(t))'
  <1>1. \A t \in Thread :
           /\ TypeOK /\ HeadTaken(t) /\ got[t].body = <<>> /\ conn[t].read = BodyStart(t)
           /\ count[t] < HeaderMax => count[t] = Len(served[t].lines)
           => BodyTaken(t)
    BY BodyBegins
  <1>2. QED BY <1>1, PTL

\* A line of the head.
LEMMA ReadFieldStep ==
    ASSUME ExchangeInv, NEW t \in Thread, ReadField(t) PROVE ExchangeInv'
  <1> DEFINE u == NextUnit(t)
  <1>1. /\ pc[t] = "fields" /\ CanRead(t) /\ Read(t) /\ Receiving(t)
        /\ UNCHANGED <<request, served, sock, ssl, owner, result, crashed>>
    BY DEF ReadField, Receiving
  <1>2. /\ TypeOK /\ HeadTaken(t) /\ count[t] < HeaderMax /\ got[t].body = <<>>
        /\ conn[t].read = Prologue(t) + 1 + count[t]
    BY <1>1 DEF ExchangeInv, Parsed
  <1>3. /\ Ordered(t)' /\ conn' \in [Thread -> ConnType]
        /\ conn'[t].read = conn[t].read + 1
        /\ conn[t].read \in Nat
        /\ Wire(t)' = Wire(t) /\ Prologue(t)' = Prologue(t)
        /\ \A s \in Thread \ {t} : conn'[s] = conn[s]
    BY <1>1, ReadOrdered
  <1>4. /\ u.kind = "blank" => count[t] = Len(served[t].lines)
        /\ u.kind # "blank" => /\ count[t] + 1 <= Len(served[t].lines)
                               /\ u = served[t].lines[count[t] + 1]
                               /\ conn[t].read + 1 < Len(Wire(t))
        /\ u.kind = "length" => u.value = served[t].pieces
        /\ u.kind = "etag" => u.value \in ETag
    BY <1>2, FieldUnit
  <1>5. /\ served[t] \in Served /\ served[t].status \in Nat /\ served[t].pieces \in Nat
        /\ Len(served[t].lines) \in Nat /\ HeaderMax \in Nat /\ 0 < HeaderMax
        /\ count[t] \in Nat /\ Prologue(t) \in Nat
    BY <1>2, ServedType, SslAssumption DEF HeadTaken, TypeOK, Prologue
  <1> HIDE DEF u
  <1>6. CASE u.kind = "blank" /\ Goto(t, "body") /\ UNCHANGED <<parser, retval>>
    <2>1. TypeOK'
      BY <1>1, <1>2, <1>3, <1>6 DEF Goto, request, parser, result, TypeOK, ConnType
    <2>2. HeadTaken(t)'
      BY <1>1, <1>2, <1>6 DEF request, parser, HeadTaken
    <2>3. conn'[t].read = BodyStart(t)'
      BY <1>2, <1>3, <1>5, <1>6 DEF parser, BodyStart
    <2>4. BodyTaken(t)'
      BY <1>1, <1>2, <1>4, <1>6, <2>1, <2>2, <2>3, BodyBeginsNext DEF parser
    <2>5. Parsed(t)'
      BY <1>2, <1>6, <2>4 DEF Goto, TypeOK, Parsed
    <2>6. \A s \in Thread \ {t} : SameThread(s)
      BY <1>1, <1>2, <1>3, <1>6 DEF Goto, request, parser, TypeOK, SameThread, SameReply
    <2>7. QED BY <1>3, <2>1, <2>5, <2>6, OneSteps
  <1>7. CASE /\ u.kind # "blank"
             /\ count' = [count EXCEPT ![t] = @ + 1]
             /\ Goto(t, IF count[t] + 1 = HeaderMax THEN "body" ELSE "fields")
             /\ bodylen' = IF u.kind = "length" THEN [bodylen EXCEPT ![t] = u.value] ELSE bodylen
             /\ IF u.kind = "etag" /\ wantsHeader[t]
                THEN \E e \in TextsOf(u) : got' = [got EXCEPT ![t].etag = e]
                ELSE UNCHANGED got
             /\ UNCHANGED retval
    <2>1. /\ count' \in [Thread -> 0 .. HeaderMax] /\ count'[t] = count[t] + 1
          /\ \A s \in Thread \ {t} : count'[s] = count[s]
      BY <1>2, <1>5, <1>7, SMTT(30) DEF TypeOK
    <2>2. /\ bodylen' \in [Thread -> Nat \cup {-1}]
          /\ bodylen'[t] = IF u.kind = "length" THEN served[t].pieces ELSE bodylen[t]
          /\ \A s \in Thread \ {t} : bodylen'[s] = bodylen[s]
      BY <1>2, <1>4, <1>5, <1>7 DEF TypeOK
    <2>3. /\ got' \in [Thread -> [status : Nat, etag : ETag \cup {0, Garbled},
                                  body : Seq(Unit)]]
          /\ got'[t].status = got[t].status /\ got'[t].body = got[t].body
          /\ IF u.kind = "etag" /\ wantsHeader[t] THEN got'[t].etag \in TextsOf(u)
                                                  ELSE got'[t].etag = got[t].etag
          /\ \A s \in Thread \ {t} : got'[s] = got[s]
      <3>1. CASE u.kind = "etag" /\ wantsHeader[t]
        <4>1. PICK e \in TextsOf(u) : got' = [got EXCEPT ![t].etag = e]
          BY <1>7, <3>1
        <4>2. e \in ETag \cup {0, Garbled}
          BY <1>4, <3>1 DEF TextsOf
        <4>3. got \in [Thread -> [status : Nat, etag : ETag \cup {0, Garbled},
                                  body : Seq(Unit)]]
          BY <1>2 DEF TypeOK
        <4>4. /\ got' \in [Thread -> [status : Nat, etag : ETag \cup {0, Garbled},
                                      body : Seq(Unit)]]
              /\ got'[t].status = got[t].status /\ got'[t].body = got[t].body
              /\ got'[t].etag = e /\ \A s \in Thread \ {t} : got'[s] = got[s]
          BY <4>1, <4>2, <4>3
        <4>5. QED BY <3>1, <4>4
      <3>2. CASE ~(u.kind = "etag" /\ wantsHeader[t])
        BY <1>2, <1>7, <3>2 DEF TypeOK
      <3>3. QED BY <3>1, <3>2
    <2>4. TypeOK'
      BY <1>1, <1>2, <1>3, <1>7, <2>1, <2>2, <2>3
      DEF Goto, request, result, TypeOK, ConnType
    <2>5. HeadTaken(t)'
      <3> DEFINE lines == served[t].lines
      <3>1. /\ HasLength(lines, count[t] + 1) <=> HasLength(lines, count[t]) \/ u.kind = "length"
            /\ ETagTexts(lines, count[t] + 1) =
                 IF u.kind = "etag" THEN TextsOf(u) ELSE ETagTexts(lines, count[t])
        BY <1>4, <1>5, <1>7, HeadTakenMore
      <3>2. /\ count[t] <= Len(lines) /\ got[t].status = served[t].status
            /\ bodylen[t] = IF HasLength(lines, count[t]) THEN served[t].pieces ELSE -1
            /\ got[t].etag \in IF wantsHeader[t] THEN ETagTexts(lines, count[t]) ELSE {0}
        BY <1>2 DEF HeadTaken
      <3>3. bodylen'[t] = IF HasLength(lines, count'[t]) THEN served[t].pieces ELSE -1
        BY <2>1, <2>2, <3>1, <3>2
      <3>4. got'[t].etag \in IF wantsHeader[t] THEN ETagTexts(lines, count'[t]) ELSE {0}
        BY <2>1, <2>3, <3>1, <3>2
      <3>5. count'[t] <= Len(lines)
        BY <1>4, <1>7, <2>1
      <3> HIDE DEF lines
      <3>6. QED BY <1>1, <1>5, <2>3, <3>2, <3>3, <3>4, <3>5 DEF request, HeadTaken, lines
    <2>6. Parsed(t)'
      <3>1. conn'[t].read = Prologue(t)' + 1 + count'[t] /\ got'[t].body = <<>>
        BY <1>2, <1>3, <1>5, <2>1, <2>3
      <3>2. CASE count[t] + 1 = HeaderMax
        <4>1. pc'[t] = "body"
          BY <1>2, <1>7, <3>2 DEF Goto, TypeOK
        <4>2. conn'[t].read = BodyStart(t)' /\ ~(count'[t] < HeaderMax)
          BY <1>3, <1>5, <2>1, <3>1, <3>2 DEF BodyStart
        <4>3. BodyTaken(t)'
          BY <2>4, <2>5, <3>1, <4>2, BodyBeginsNext
        <4>4. QED BY <4>1, <4>3 DEF Parsed
      <3>3. CASE count[t] + 1 # HeaderMax
        <4>1. pc'[t] = "fields"
          BY <1>2, <1>7, <3>3 DEF Goto, TypeOK
        <4>2. count'[t] < HeaderMax
          BY <1>2, <1>5, <2>1, <3>3
        <4>3. QED BY <2>5, <3>1, <4>1, <4>2 DEF Parsed
      <3>4. QED BY <3>2, <3>3
    <2>7. \A s \in Thread \ {t} : SameThread(s)
      BY <1>1, <1>2, <1>3, <1>7, <2>1, <2>2, <2>3
      DEF Goto, request, TypeOK, SameThread, SameReply
    <2>8. QED BY <1>3, <2>4, <2>6, <2>7, OneSteps
  <1>8. CASE u.kind = "etag" /\ EndFunc(t, "ERROR_RESPONSEHEADER") /\ UNCHANGED parser
    <2>1. TypeOK'
      BY <1>1, <1>2, <1>3, <1>8
      DEF EndFunc, Goto, request, parser, result, TypeOK, ConnType, HttpResult
    <2>2. Parsed(t)'
      <3>1. pc'[t] = "cleanup" /\ retval'[t] = "ERROR_RESPONSEHEADER"
        BY <1>2, <1>8 DEF EndFunc, Goto, TypeOK
      <3>2. Excused(t)'
        BY <1>3, <1>4, <1>8 DEF Excused
      <3>3. QED BY <3>1, <3>2 DEF Parsed
    <2>3. \A s \in Thread \ {t} : SameThread(s)
      BY <1>1, <1>2, <1>3, <1>8 DEF EndFunc, Goto, request, parser, TypeOK, SameThread, SameReply
    <2>4. QED BY <1>3, <2>1, <2>2, <2>3, OneSteps
  <1>9. QED BY <1>6, <1>7, <1>8 DEF ReadField, u

\* What is left to do for a body that is not whole.
LEMMA BodyLeft ==
    ASSUME TypeOK, NEW t \in Thread, BodyTaken(t), Len(got[t].body) < bodylen[t]
    PROVE  \/ head[t] /\ Has(served[t], "length") /\ served[t].pieces > 0
           \/ conn[t].read < Len(Wire(t))
  <1> DEFINE lines == served[t].lines
  <1>1. /\ served[t] \in Served /\ count[t] <= Len(lines) /\ head[t] \in BOOLEAN
        /\ bodylen[t] = IF HasLength(lines, count[t]) THEN served[t].pieces ELSE -1
        /\ conn[t].read = BodyStart(t) + Len(got[t].body)
        /\ count[t] < HeaderMax => count[t] = Len(lines)
    BY DEF BodyTaken, HeadTaken, TypeOK
  <1>2. /\ Len(lines) \in Nat /\ count[t] \in Nat /\ Prologue(t) \in Nat /\ HeaderMax \in Nat
        /\ served[t].pieces \in Nat /\ DOMAIN lines = 1 .. Len(lines) /\ lines \in Seq(Unit)
    <2>1. lines \in Seq(Unit)
      BY <1>1, ServedType
    <2>2. QED BY <1>1, <2>1, ServedType, SslAssumption DEF TypeOK, Prologue
  <1>3. Len(got[t].body) \in Nat
    <2>1. got[t].body \in Seq(Unit)
      BY DEF TypeOK
    <2>2. QED BY <2>1
  <1>4. HasLength(lines, count[t]) /\ bodylen[t] = served[t].pieces /\ served[t].pieces > 0
    BY <1>1, <1>2, <1>3
  <1>5. Has(served[t], "length")
    BY <1>1, <1>2, <1>4 DEF Has, HasLength
  <1>6. ~head[t] => Len(Wire(t)) = Prologue(t) + 1 + Len(lines) + 1 + served[t].pieces
    BY <1>1, WireFacts
  <1>7. BodyStart(t) <= Prologue(t) + 1 + Len(lines) + 1 /\ BodyStart(t) \in Nat
    BY <1>1, <1>2 DEF BodyStart
  <1>8. ~head[t] => conn[t].read < Len(Wire(t))
    <2> HAVE ~head[t]
    <2>1. PICK n, b, w : n = Len(got[t].body) /\ b = BodyStart(t) /\ w = Len(Wire(t))
      OBVIOUS
    <2>2. n \in Nat /\ n < served[t].pieces /\ conn[t].read = b + n
      BY <1>1, <1>3, <1>4, <2>1
    <2>3. /\ w = Prologue(t) + 1 + Len(lines) + 1 + served[t].pieces
          /\ b <= Prologue(t) + 1 + Len(lines) + 1 /\ b \in Nat
      BY <1>6, <1>7, <2>1
    <2>4. b + n < w
      BY <1>2, <2>2, <2>3, SMTT(30)
    <2>5. QED BY <2>1, <2>2, <2>4
  <1>9. QED BY <1>1, <1>4, <1>5, <1>8

\* A piece of the body.
LEMMA ReadBodyStep ==
    ASSUME ExchangeInv, NEW t \in Thread, ReadBody(t) PROVE ExchangeInv'
  <1> DEFINE body == got[t].body
             u == NextUnit(t)
  <1>1. /\ pc[t] = "body" /\ Len(body) < bodylen[t] /\ CanRead(t) /\ Read(t) /\ Receiving(t)
        /\ UNCHANGED <<pc, request, served, sock, ssl, owner, count, bodylen, retval, result,
                       crashed>>
        /\ got' = [got EXCEPT ![t].body = Append(@, u)]
    BY DEF ReadBody, InBody, Receiving
  <1>2. TypeOK /\ BodyTaken(t)
    BY <1>1 DEF ExchangeInv, Parsed
  <1>3. /\ Ordered(t)' /\ conn' \in [Thread -> ConnType]
        /\ conn'[t].read = conn[t].read + 1
        /\ conn[t].read \in Nat /\ conn[t].read + 1 <= Len(Wire(t))
        /\ Wire(t)' = Wire(t) /\ Prologue(t)' = Prologue(t)
        /\ \A s \in Thread \ {t} : conn'[s] = conn[s]
    BY <1>1, ReadOrdered
  <1>4. got \in [Thread -> [status : Nat, etag : ETag \cup {0, Garbled}, body : Seq(Unit)]]
    BY <1>2 DEF TypeOK
  <1>5. body \in Seq(Unit) /\ Len(body) \in Nat
    <2>1. body \in Seq(Unit)
      BY <1>4
    <2>2. QED BY <2>1
  <1>6. u \in Unit
    <2>1. Wire(t) \in Seq(Unit) /\ Len(Wire(t)) \in Nat
      BY <1>1, ReceivingServed
    <2>2. conn[t].read + 1 \in 1 .. Len(Wire(t))
      BY <1>3, <2>1
    <2>3. QED BY <2>1, <2>2 DEF NextUnit
  <1>7. PICK w : w = Append(body, u)
    OBVIOUS
  <1>8. /\ w \in Seq(Unit) /\ Len(w) = Len(body) + 1 /\ w[Len(body) + 1] = u
        /\ \A i \in 1 .. Len(body) : w[i] = body[i]
    BY <1>5, <1>6, <1>7
  <1>9. got' = [got EXCEPT ![t].body = w]
    BY <1>1, <1>4, <1>7
  <1>10. /\ got' \in [Thread -> [status : Nat, etag : ETag \cup {0, Garbled}, body : Seq(Unit)]]
         /\ got'[t].status = got[t].status /\ got'[t].etag = got[t].etag /\ got'[t].body = w
         /\ \A s \in Thread \ {t} : got'[s] = got[s]
    BY <1>4, <1>8, <1>9
  <1>11. TypeOK'
    BY <1>1, <1>2, <1>3, <1>10 DEF request, result, TypeOK, ConnType
  <1>12. BodyTaken(t)'
    <2>1. HeadTaken(t)'
      BY <1>1, <1>2, <1>10 DEF BodyTaken, HeadTaken, request
    <2>2. BodyStart(t)' = BodyStart(t) /\ BodyStart(t) \in Nat
      <3>1. Prologue(t) \in Nat /\ count[t] \in Nat /\ HeaderMax \in Nat
        BY <1>2, SslAssumption DEF TypeOK, Prologue
      <3>2. QED BY <1>1, <1>3, <3>1 DEF BodyStart
    <2>3. /\ conn[t].read = BodyStart(t) + Len(body)
          /\ \A i \in 1 .. Len(body) : body[i] = Wire(t)[BodyStart(t) + i]
          /\ count[t] < HeaderMax => count[t] = Len(served[t].lines)
      BY <1>2 DEF BodyTaken
    <2>4. u = Wire(t)[BodyStart(t) + (Len(body) + 1)]
      <3>1. conn[t].read + 1 = BodyStart(t) + (Len(body) + 1)
        BY <1>5, <2>2, <2>3, SMTT(30)
      <3>2. QED BY <3>1 DEF NextUnit
    <2>5. conn'[t].read = BodyStart(t) + Len(w)
      <3> HIDE DEF body, u
      <3>1. QED BY <1>3, <1>5, <1>8, <2>2, <2>3
    <2>6. \A i \in 1 .. Len(w) : w[i] = Wire(t)[BodyStart(t) + i]
      <3> HIDE DEF body, u
      <3> TAKE i \in 1 .. Len(w)
      <3>1. i \in 1 .. Len(body) \/ i = Len(body) + 1
        BY <1>5, <1>8
      <3>2. QED BY <1>8, <2>3, <2>4, <3>1
    <2>7. bodylen[t] \in Int /\ Len(w) <= IF bodylen[t] > 0 THEN bodylen[t] ELSE 0
      <3>1. bodylen[t] \in Int
        BY <1>2 DEF TypeOK
      <3>2. QED BY <1>1, <1>5, <1>8, <3>1
    <2>8. QED BY <1>1, <1>3, <1>10, <2>1, <2>2, <2>3, <2>5, <2>6, <2>7 DEF BodyTaken
  <1>13. Parsed(t)'
    BY <1>1, <1>12 DEF Parsed
  <1>14. \A s \in Thread \ {t} : SameThread(s)
    BY <1>1, <1>3, <1>10 DEF request, SameThread, SameReply
  <1>15. QED BY <1>3, <1>11, <1>13, <1>14, OneSteps

\* The end of the body.
LEMMA EndBodyStep ==
    ASSUME ExchangeInv, NEW t \in Thread, EndBody(t) PROVE ExchangeInv'
  <1>1. /\ pc[t] = "body" /\ ~(Len(got[t].body) < bodylen[t])
        /\ EndFunc(t, "OK")
        /\ UNCHANGED <<request, served, conn, sock, ssl, owner, parser, result, crashed>>
    BY DEF EndBody, InBody
  <1>2. TypeOK /\ BodyTaken(t) /\ Ordered(t)
    BY <1>1 DEF ExchangeInv, Parsed
  <1>3. TypeOK'
    BY <1>1, <1>2 DEF EndFunc, Goto, request, parser, result, TypeOK, HttpResult
  <1>4. \A s \in Thread : SameReply(s)
    BY <1>1 DEF request, parser, SameReply
  <1>5. BodyTaken(t)' /\ Ordered(t)'
    BY <1>2, <1>4, ReplyKept
  <1>6. bodylen[t] <= Len(got[t].body)
    <2>1. got[t].body \in Seq(Unit) /\ bodylen[t] \in Int
      BY <1>2 DEF TypeOK
    <2>2. QED BY <1>1, <2>1
  <1>7. Parsed(t)'
    BY <1>1, <1>2, <1>4, <1>5, <1>6 DEF EndFunc, Goto, TypeOK, Parsed, SameReply
  <1>8. \A s \in Thread \ {t} : SameThread(s)
    BY <1>1, <1>2, <1>4 DEF EndFunc, Goto, TypeOK, SameThread
  <1>9. QED BY <1>3, <1>5, <1>7, <1>8, OneSteps

\* Nothing comes any more.
LEMMA GiveUpStep ==
    ASSUME ExchangeInv, NEW t \in Thread, Timeout(t) \/ ReadFails(t) PROVE ExchangeInv'
  <1>1. /\ WaitsForByte(t) /\ EndFunc(t, "ERROR_RECEIVING") /\ Receiving(t)
        /\ UNCHANGED <<request, served, conn, sock, ssl, owner, parser, result, crashed>>
    BY DEF Timeout, ReadFails, WaitsForByte, InBody, Receiving
  <1>2. /\ TypeOK /\ served[t] \in Served /\ Ordered(t) /\ Parsed(t)
        /\ conn \in [Thread -> ConnType]
    BY <1>1, ReceivingServed
  <1>3. TypeOK'
    BY <1>1, <1>2 DEF EndFunc, Goto, request, parser, result, TypeOK, HttpResult
  <1>4. \A s \in Thread : SameReply(s)
    BY <1>1 DEF request, parser, SameReply
  <1>5. Excused(t)
    <2>1. conn[t].read \in Nat
      BY <1>2, ConnFields
    <2>2. CASE pc[t] = "status"
      BY <1>2, <2>1, <2>2, StatusUnit DEF Parsed, Excused
    <2>3. CASE pc[t] = "fields"
      <3>1. /\ HeadTaken(t) /\ conn[t].read = Prologue(t) + 1 + count[t]
            /\ count[t] <= Len(served[t].lines) /\ count[t] \in Nat /\ head[t] \in BOOLEAN
        BY <1>2, <2>3 DEF Parsed, HeadTaken, TypeOK
      <3>2. Len(Wire(t)) = Prologue(t) + 1 + Len(served[t].lines) + 1
                           + IF head[t] THEN 0 ELSE served[t].pieces
        BY <1>2, <3>1, WireFacts
      <3>3. /\ Prologue(t) \in Nat /\ Len(served[t].lines) \in Nat
            /\ (IF head[t] THEN 0 ELSE served[t].pieces) \in Nat
        BY <1>2, ServedType DEF Prologue
      <3>4. PICK x \in Nat : Len(Wire(t)) = Prologue(t) + 1 + Len(served[t].lines) + 1 + x
        BY <3>2, <3>3
      <3>5. QED BY <3>1, <3>3, <3>4, SMTT(30) DEF Excused
    <2>4. CASE InBody(t)
      BY <1>2, <2>4, BodyLeft DEF InBody, Parsed, Excused
    <2>5. QED BY <1>1, <2>2, <2>3, <2>4 DEF WaitsForByte
  <1>6. Excused(t)' /\ Ordered(t)'
    BY <1>2, <1>4, <1>5, ReplyKept
  <1>7. Parsed(t)'
    BY <1>1, <1>2, <1>6 DEF EndFunc, Goto, TypeOK, Parsed
  <1>8. \A s \in Thread \ {t} : SameThread(s)
    BY <1>1, <1>2, <1>4 DEF EndFunc, Goto, TypeOK, SameThread
  <1>9. QED BY <1>3, <1>6, <1>7, <1>8, OneSteps

-----------------------------------------------------------------------------
(* The way out.                                                             *)

\* A crash changes nothing else.
LEMMA CrashStep ==
    ASSUME ExchangeInv, NEW t \in Thread, WriteBehindLine(t) \/ LackMemory(t)
    PROVE  ExchangeInv'
  <1>1. UNCHANGED <<pc, request, served, conn, sock, ssl, owner, parser, retval, result>>
        /\ crashed' = TRUE
    BY DEF WriteBehindLine, LackMemory
  <1>2. TypeOK'
    BY <1>1 DEF request, parser, result, ExchangeInv, TypeOK
  <1>3. \A s \in Thread : SameThread(s)
    BY <1>1 DEF request, parser, SameThread, SameReply
  <1>4. QED BY <1>2, <1>3, ThreadKept DEF ExchangeInv

\* The return leaves the reply as it is.
LEMMA ReturnStep ==
    ASSUME ExchangeInv, NEW t \in Thread, CleanUp(t) \/ Assign(t) \/ Test(t)
    PROVE  ExchangeInv'
  <1>1. /\ UNCHANGED <<request, served, conn, sock, parser, retval, crashed>>
        /\ pc[t] \in {"cleanup", "assign", "test"}
        /\ \E x \in {"assign", "test", "returned"} : Goto(t, x)
    BY DEF CleanUp, Assign, Test, result
  <1>2. TypeOK /\ Ordered(t) /\ Parsed(t)
    BY DEF ExchangeInv
  <1>3. ssl' \in [Thread -> BOOLEAN] /\ ret' \in [Thread -> BOOLEAN]
        /\ http_error_code' \in HttpResult
    <2>1. ssl' \in [Thread -> BOOLEAN] /\ http_error_code' \in HttpResult
      <3>1. /\ ssl' = ssl \/ ssl' = [ssl EXCEPT ![t] = FALSE]
            /\ http_error_code' = http_error_code \/ http_error_code' = retval[t]
        BY DEF CleanUp, Assign, Test, result
      <3>2. ssl' \in [Thread -> BOOLEAN]
        BY <1>2, <3>1 DEF TypeOK
      <3>3. http_error_code' \in HttpResult
        BY <1>2, <3>1 DEF TypeOK
      <3>4. QED BY <3>2, <3>3
    <2>2. ret' = ret \/ \E b \in BOOLEAN : ret' = [ret EXCEPT ![t] = b]
      BY DEF CleanUp, Assign, Test, result
    <2>3. ret' \in [Thread -> BOOLEAN]
      BY <1>2, <2>2 DEF TypeOK
    <2>4. QED BY <2>1, <2>3
  <1>4. owner' \in [Fd -> Thread \cup {"program", "free"}]
    BY <1>2 DEF CleanUp, Assign, Test, TypeOK
  <1>5. TypeOK'
    BY <1>1, <1>2, <1>3, <1>4, SMTT(30) DEF Goto, request, parser, TypeOK
  <1>6. \A s \in Thread : SameReply(s)
    BY <1>1 DEF request, parser, SameReply
  <1>7. Ordered(t)' /\ (BodyTaken(t) => BodyTaken(t)') /\ (Excused(t) => Excused(t)')
    BY <1>2, <1>6, ReplyKept
  <1>8. Parsed(t)'
    BY <1>1, <1>2, <1>6, <1>7 DEF Goto, TypeOK, Parsed, SameReply
  <1>9. \A s \in Thread \ {t} : SameThread(s)
    BY <1>1, <1>2, <1>6 DEF Goto, TypeOK, SameThread
  <1>10. QED BY <1>5, <1>7, <1>8, <1>9, OneSteps

\* Every step keeps the invariant of the exchange.
LEMMA ExchangeStep == ASSUME ExchangeInv, [Next]_vars PROVE ExchangeInv'
  <1>1. CASE UNCHANGED vars
    <2>1. TypeOK'
      BY <1>1 DEF vars, request, parser, result, ExchangeInv, TypeOK
    <2>2. \A s \in Thread : SameThread(s)
      BY <1>1 DEF vars, request, parser, SameThread, SameReply
    <2>3. QED BY <2>1, <2>2, ThreadKept DEF ExchangeInv
  <1>2. CASE Next
    BY <1>2, CallStep, ConnectStep, SslConnectStep, SendStep, CloseStep, ReadStatusStep,
       ReadFieldStep, ReadBodyStep, EndBodyStep, GiveUpStep, CrashStep, ReturnStep
    DEF Next, Continue
  <1>3. QED BY <1>1, <1>2

\* The invariant of the exchange is one, with any number of threads.
THEOREM SslExchange == Spec => []ExchangeInv
  <1>1. Init => ExchangeInv
    BY InitExchange
  <1>2. ExchangeInv /\ [Next]_vars => ExchangeInv'
    BY ExchangeStep
  <1>3. QED BY <1>1, <1>2, PTL DEF Spec

-----------------------------------------------------------------------------
(* With any number of threads: sockets and OpenSSL objects.                 *)

\* No descriptor is owned by a call initially.
LEMMA InitOwned == Init => Owned
  BY SslAssumption DEF Init, Owned, Connected

\* A thread that does not touch descriptors, and does not move into or out of
\* where it can hold one, keeps everything in its place.
LEMMA OwnedKept ==
    ASSUME Owned, TypeOK, NEW t \in Thread, UNCHANGED <<sock, ssl, owner>>,
           \A s \in Thread \ {t} : pc'[s] = pc[s] /\ retval'[s] = retval[s],
           \/ pc[t] \notin Connected /\ pc'[t] \notin Connected
           \/ /\ pc[t] \in Connected \ {"handshake", "cleanup"}
              /\ pc'[t] \in Connected \ {"handshake"}
    PROVE  Owned'
  <1>1. \A s \in Thread, f \in Fd : owner'[f] = s => sock'[s] = f /\ pc'[s] \in Connected
    BY DEF Owned, TypeOK
  <1>2. \A s \in Thread : ssl'[s] => pc'[s] \in Connected \ {"handshake"}
    BY DEF Owned, TypeOK
  <1>3. ASSUME NEW f \in Fd, owner'[f] = "program"
        PROVE  /\ f = 0
               /\ \A s \in Thread : sock'[s] = f /\ pc'[s] \in Connected =>
                     pc'[s] = "cleanup" /\ retval'[s] = "ERROR_URLSYNTAX"
    BY <1>3 DEF Owned
  <1>4. QED BY <1>1, <1>2, <1>3 DEF Owned

\* Only SocketConnect and CleanUp give descriptors away.
LEMMA OwnedStep == ASSUME Owned, TypeOK, [Next]_vars PROVE Owned'
  <1>1. CASE UNCHANGED vars
    BY <1>1 DEF vars, request, parser, result, Owned
  <1>2. ASSUME NEW t \in Thread, Call(t) PROVE Owned'
    <2>1. /\ pc[t] \in {"idle", "returned"} /\ pc' = [pc EXCEPT ![t] = "url"]
          /\ sock' = [sock EXCEPT ![t] = 0]
          /\ retval' = [retval EXCEPT ![t] = "ERROR_INTERNAL"] /\ UNCHANGED <<ssl, owner>>
      BY <1>2 DEF Call, Goto
    <2>2. \A s \in Thread, f \in Fd : owner[f] = s => s # t
      BY <2>1 DEF Owned, Connected
    <2>3. QED BY <2>1, <2>2 DEF Owned, Connected, TypeOK
  <1>3. ASSUME NEW t \in Thread, ParseUrl(t) PROVE Owned'
    <2>1. CASE Goto(t, "connect") /\ UNCHANGED retval
      BY <1>3, <2>1, OwnedKept DEF ParseUrl, Goto, Connected, TypeOK
    <2>2. CASE EndFunc(t, "ERROR_URLSYNTAX")
      <3>1. /\ pc[t] = "url" /\ pc' = [pc EXCEPT ![t] = "cleanup"]
            /\ retval' = [retval EXCEPT ![t] = "ERROR_URLSYNTAX"]
            /\ UNCHANGED <<sock, ssl, owner>>
        BY <1>3, <2>2 DEF ParseUrl, EndFunc, Goto
      <3>2. QED BY <3>1 DEF Owned, Connected, TypeOK
    <2>3. QED BY <1>3, <2>1, <2>2 DEF ParseUrl
  <1>4. ASSUME NEW t \in Thread, SocketConnect(t) PROVE Owned'
    <2>1. pc[t] = "connect" /\ UNCHANGED ssl /\ \A f \in Fd : owner[f] # t
      BY <1>4 DEF SocketConnect, Owned, Connected
    <2>2. ASSUME NEW f \in FreeFd, sock' = [sock EXCEPT ![t] = f],
                 owner' = [owner EXCEPT ![f] = t], Goto(t, "handshake"), UNCHANGED retval
          PROVE  Owned'
      <3>1. f \in Fd /\ owner[f] = "free" /\ t # "program"
        BY SslAssumption DEF FreeFd
      <3>2. \A s \in Thread, g \in Fd :
               owner'[g] = s => sock'[s] = g /\ pc'[s] \in Connected
        <4> TAKE s \in Thread, g \in Fd
        <4> HAVE owner'[g] = s
        <4>1. CASE g = f
          BY <2>2, <3>1, <4>1 DEF Goto, TypeOK, Connected
        <4>2. CASE g # f
          BY <2>1, <2>2, <3>1, <4>2 DEF Goto, TypeOK, Owned
        <4>3. QED BY <4>1, <4>2
      <3>3. \A s \in Thread : ssl'[s] => pc'[s] \in Connected \ {"handshake"}
        BY <2>1, <2>2 DEF Goto, TypeOK, Owned, Connected
      <3>4. ASSUME NEW g \in Fd, owner'[g] = "program"
            PROVE  /\ g = 0
                   /\ \A s \in Thread : sock'[s] = g /\ pc'[s] \in Connected =>
                         pc'[s] = "cleanup" /\ retval'[s] = "ERROR_URLSYNTAX"
        BY <2>2, <3>1, <3>4 DEF Goto, TypeOK, Owned
      <3>5. QED BY <3>2, <3>3, <3>4 DEF Owned
    <2>3. ASSUME sock' = [sock EXCEPT ![t] = -1], EndFunc(t, "ERROR_CONNECTSERVER"),
                 UNCHANGED owner
          PROVE  Owned'
      <3>1. \A f \in Fd : f # -1
        BY SslAssumption
      <3>2. QED BY <2>1, <2>3, <3>1 DEF EndFunc, Goto, TypeOK, Owned, Connected
    <2>4. QED BY <1>4, <2>2, <2>3 DEF SocketConnect
  <1>5. ASSUME NEW t \in Thread, SslConnect(t) PROVE Owned'
    <2>1. /\ pc[t] = "handshake" /\ UNCHANGED <<sock, owner>>
          /\ \/ ssl' = ssl
             \/ \E b \in BOOLEAN : ssl' = [ssl EXCEPT ![t] = b]
      BY <1>5 DEF SslConnect
    <2>2. CASE UNCHANGED <<pc, ssl, retval>>
      BY <2>1, <2>2 DEF Owned
    <2>3. CASE \E x \in {"status", "cleanup"} :
                  /\ pc' = [pc EXCEPT ![t] = x]
                  /\ \A s \in Thread \ {t} : retval'[s] = retval[s]
      <3>1. pc'[t] \in Connected \ {"handshake"} /\ \A s \in Thread \ {t} : pc'[s] = pc[s]
        BY <2>3 DEF TypeOK, Connected
      <3>2. \A s \in Thread : ssl'[s] => pc'[s] \in Connected \ {"handshake"}
        <4>1. \A s \in Thread \ {t} : ssl'[s] = ssl[s]
          BY <2>1 DEF TypeOK
        <4>2. \A s \in Thread \ {t} : ssl'[s] => pc'[s] \in Connected \ {"handshake"}
          BY <3>1, <4>1 DEF Owned
        <4>3. QED BY <3>1, <4>2
      <3>3. \A s \in Thread, f \in Fd : owner'[f] = s => sock'[s] = f /\ pc'[s] \in Connected
        BY <2>1, <3>1 DEF Owned
      <3>4. ASSUME NEW f \in Fd, owner'[f] = "program"
            PROVE  /\ f = 0
                   /\ \A s \in Thread : sock'[s] = f /\ pc'[s] \in Connected =>
                         pc'[s] = "cleanup" /\ retval'[s] = "ERROR_URLSYNTAX"
        BY <2>1, <2>3, <3>1, <3>4 DEF Owned, Connected
      <3>5. QED BY <3>2, <3>3, <3>4 DEF Owned
    <2>4. QED
      BY <1>5, <2>2, <2>3, ZenonT(60) DEF SslConnect, EndFunc, Goto, TypeOK
  <1>6. ASSUME NEW t \in Thread,
               \/ Send(t) \/ Close(t) \/ WriteBehindLine(t) \/ LackMemory(t)
        PROVE  Owned'
    BY <1>6 DEF Send, Close, WriteBehindLine, LackMemory, Owned
  <1>7. ASSUME NEW t \in Thread,
               \/ ReadStatus(t) \/ ReadField(t) \/ ReadBody(t) \/ EndBody(t)
               \/ Timeout(t) \/ ReadFails(t)
        PROVE  Owned'
    <2>1. pc[t] \in {"status", "fields", "body"} /\ UNCHANGED <<sock, ssl, owner>>
      BY <1>7 DEF ReadStatus, ReadField, ReadBody, EndBody, Timeout, ReadFails, WaitsForByte,
                  InBody
    <2>2. /\ pc'[t] \in {"status", "fields", "body", "cleanup"}
          /\ \A s \in Thread \ {t} : pc'[s] = pc[s] /\ retval'[s] = retval[s]
      <3>1. \/ UNCHANGED <<pc, retval>>
            \/ \E x \in {"fields", "body"} : Goto(t, x) /\ UNCHANGED retval
            \/ \E r \in {"OK", "ERROR_RESPONSEHEADER", "ERROR_RECEIVING"} : EndFunc(t, r)
        BY <1>7 DEF ReadStatus, ReadField, ReadBody, EndBody, Timeout, ReadFails
      <3>2. QED BY <2>1, <3>1 DEF EndFunc, Goto, TypeOK
    <2>3. QED BY <2>1, <2>2, OwnedKept DEF Connected
  <1>8. ASSUME NEW t \in Thread, CleanUp(t) PROVE Owned'
    <2>1. /\ pc[t] = "cleanup" /\ pc' = [pc EXCEPT ![t] = "assign"]
          /\ ssl' = [ssl EXCEPT ![t] = FALSE] /\ UNCHANGED <<sock, retval>>
          /\ owner' = IF sock[t] >= 0 THEN [owner EXCEPT ![sock[t]] = "free"] ELSE owner
      BY <1>8 DEF CleanUp, Goto
    <2>2. /\ sock[t] \in Fd => sock[t] >= 0
          /\ sock[t] >= 0 => sock[t] \in Fd
      <3>1. sock[t] \in Fd \cup {-1}
        BY DEF TypeOK
      <3>2. \A f \in Fd : f >= 0
        BY SslAssumption
      <3>3. QED BY <3>1, <3>2
    <2>3. \A f \in Fd : /\ owner'[f] = owner[f] \/ (owner'[f] = "free" /\ f = sock[t])
                        /\ f = sock[t] => owner'[f] = "free"
      BY <2>1, <2>2 DEF TypeOK
    <2>4. \A s \in Thread : s # "free"
      BY SslAssumption
    <2>5. \A s \in Thread, f \in Fd : owner'[f] = s => sock'[s] = f /\ pc'[s] \in Connected
      BY <2>1, <2>3, <2>4 DEF Owned, TypeOK
    <2>6. \A s \in Thread : ssl'[s] => pc'[s] \in Connected \ {"handshake"}
      BY <2>1 DEF Owned, TypeOK
    <2>7. ASSUME NEW f \in Fd, owner'[f] = "program"
          PROVE  /\ f = 0
                 /\ \A s \in Thread : sock'[s] = f /\ pc'[s] \in Connected =>
                       pc'[s] = "cleanup" /\ retval'[s] = "ERROR_URLSYNTAX"
      <3>1. owner[f] = "program"
        BY <2>3, <2>7
      <3>2. QED BY <2>1, <3>1 DEF Owned, TypeOK, Connected
    <2>8. QED BY <2>5, <2>6, <2>7 DEF Owned
  <1>9. ASSUME NEW t \in Thread, Assign(t) \/ Test(t) PROVE Owned'
    BY <1>9, OwnedKept DEF Assign, Test, Goto, Connected, TypeOK
  <1>10. QED
    BY <1>1, <1>2, <1>3, <1>4, <1>5, <1>6, <1>7, <1>8, <1>9 DEF Next, Continue

\* Ownership is an invariant.
THEOREM SslOwnership == Spec => [](TypeOK /\ Owned)
  <1>1. Init => Owned
    BY InitOwned
  <1>2. ExchangeInv => TypeOK
    BY DEF ExchangeInv
  <1>3. TypeOK /\ Owned /\ [Next]_vars => Owned'
    BY OwnedStep
  <1>4. QED BY <1>1, <1>2, <1>3, SslExchange, PTL DEF Spec

\* However far a call came, it leaves no socket and no OpenSSL object -- with
\* any number of threads.
THEOREM ClosesConnection == Spec => []ConnectionIsClosed
  <1>1. Owned => ConnectionIsClosed
    BY DEF Owned, ConnectionIsClosed, Connected
  <1>2. QED BY <1>1, SslOwnership, PTL

\* A call closes no descriptor of the rest of the program, but descriptor 0 for
\* a URL it cannot use -- with any number of threads.
THEOREM ClosesOnlyItsOwn == Spec => ClosesItsOwn
  <1>1. TypeOK /\ Owned /\ [Next]_vars =>
           [\A f \in Fd : owner[f] = "program" /\ owner'[f] # "program" =>
              f = 0 /\ \E t \in Thread : pc[t] = "cleanup" /\ retval[t] = "ERROR_URLSYNTAX"]_vars
    <2> SUFFICES ASSUME TypeOK, Owned, [Next]_vars,
                        NEW f \in Fd, owner[f] = "program", owner'[f] # "program"
                 PROVE  f = 0 /\ \E t \in Thread :
                                    pc[t] = "cleanup" /\ retval[t] = "ERROR_URLSYNTAX"
      OBVIOUS
    <2>1. owner' # owner
      OBVIOUS
    <2>2. PICK t \in Thread : SocketConnect(t) \/ CleanUp(t)
      BY <2>1 DEF Next, Continue, Call, ParseUrl, SslConnect, Send, Close, WriteBehindLine,
                  LackMemory, ReadStatus, ReadField, ReadBody, EndBody, Timeout, ReadFails,
                  Assign, Test, vars
    <2>3. CASE SocketConnect(t)
      BY <2>3 DEF SocketConnect, FreeFd, TypeOK
    <2>4. CASE CleanUp(t)
      <3>1. f = sock[t] /\ pc[t] = "cleanup"
        BY <2>4 DEF CleanUp, TypeOK
      <3>2. QED BY <3>1 DEF Owned, Connected
    <2>5. QED BY <2>2, <2>3, <2>4
  <1>2. QED BY <1>1, SslOwnership, PTL DEF Spec, ClosesItsOwn

-----------------------------------------------------------------------------
(* With one thread: what the caller gets.                                   *)

\* No other thread assigns http_error_code between the assignment and the test.
LEMMA JudgedStep ==
    ASSUME OneThread, TypeOK, \A t \in Thread : Judged(t), [Next]_vars
    PROVE  \A t \in Thread : Judged(t)'
  <1>1. CASE UNCHANGED vars
    BY <1>1 DEF vars, result, Judged
  <1>2. ASSUME NEW t \in Thread, UNCHANGED <<pc, retval, result>> PROVE Judged(t)'
    BY <1>2 DEF result, Judged
  <1>3. ASSUME NEW t \in Thread, pc'[t] \notin {"test", "returned"} PROVE Judged(t)'
    BY <1>3 DEF Judged
  <1>4. ASSUME NEW t \in Thread, Assign(t) PROVE Judged(t)'
    BY <1>4 DEF Assign, Goto, TypeOK, Judged
  <1>5. ASSUME NEW t \in Thread, Test(t) PROVE Judged(t)'
    <2>1. /\ pc'[t] = "returned" /\ retval'[t] = retval[t] /\ http_error_code = retval[t]
          /\ ret' = [ret EXCEPT ![t] = http_error_code = "OK"]
      BY <1>5 DEF Test, Goto, TypeOK, Judged
    <2>2. ret'[t] <=> http_error_code = "OK"
      BY <2>1 DEF TypeOK
    <2>3. QED BY <2>1, <2>2 DEF Judged
  <1>6. ASSUME NEW t \in Thread, Next, ~Assign(t), ~Test(t) PROVE Judged(t)'
    <2>1. \/ Call(t) \/ ParseUrl(t) \/ SocketConnect(t) \/ SslConnect(t) \/ ReadStatus(t)
          \/ ReadField(t) \/ ReadBody(t) \/ EndBody(t) \/ Timeout(t) \/ ReadFails(t)
          \/ CleanUp(t) \/ Send(t) \/ Close(t) \/ WriteBehindLine(t) \/ LackMemory(t)
      BY <1>6 DEF Next, Continue, OneThread
    <2>2. CASE \/ Send(t) \/ Close(t) \/ ReadBody(t) \/ WriteBehindLine(t) \/ LackMemory(t)
      BY <1>2, <2>2 DEF Send, Close, ReadBody, WriteBehindLine, LackMemory
    <2>3. CASE \/ Call(t) \/ ParseUrl(t) \/ SocketConnect(t) \/ EndBody(t) \/ Timeout(t)
               \/ ReadFails(t) \/ CleanUp(t)
      <3>1. \E x \in {"url", "connect", "handshake", "cleanup", "assign"} : Goto(t, x)
        BY <2>3 DEF Call, ParseUrl, SocketConnect, EndBody, Timeout, ReadFails, CleanUp, EndFunc
      <3>2. QED BY <1>3, <3>1 DEF Goto, TypeOK
    <2>4. CASE SslConnect(t) \/ ReadStatus(t) \/ ReadField(t)
      <3>1. /\ pc[t] \in {"handshake", "status", "fields"}
            /\ \/ UNCHANGED pc
               \/ \E x \in {"status", "fields", "body", "cleanup"} : Goto(t, x)
        BY <2>4 DEF SslConnect, ReadStatus, ReadField, EndFunc
      <3>2. QED BY <1>3, <3>1 DEF Goto, TypeOK
    <2>5. QED BY <2>1, <2>2, <2>3, <2>4
  <1>7. QED BY <1>1, <1>4, <1>5, <1>6

\* With one thread, what is judged is this exchange.
THEOREM SslJudged == ASSUME OneThread PROVE Spec => [](\A t \in Thread : Judged(t))
  <1>1. Init => \A t \in Thread : Judged(t)
    BY DEF Init, Judged
  <1>2. ExchangeInv => TypeOK
    BY DEF ExchangeInv
  <1>3. TypeOK /\ (\A t \in Thread : Judged(t)) /\ [Next]_vars => (\A t \in Thread : Judged(t))'
    BY JudgedStep
  <1>4. QED BY <1>1, <1>2, <1>3, SslExchange, PTL DEF Spec

\* The parser's view of the head is the caller's.
LEMMA WholeHead ==
    ASSUME NEW r \in Served
    PROVE  /\ HasLength(r.lines, Len(r.lines)) <=> Has(r, "length")
           /\ ETagTexts(r.lines, Len(r.lines)) = LastETag(r)
  <1>1. r.lines \in Seq(Unit)
    BY ServedType
  <1>2. DOMAIN r.lines = 1 .. Len(r.lines)
    BY <1>1
  <1>3. HasLength(r.lines, Len(r.lines)) <=> Has(r, "length")
    BY <1>2 DEF HasLength, Has
  <1>4. ETagTexts(r.lines, Len(r.lines)) = LastETag(r)
    <2> DEFINE Texts(places) ==
                 LET at == {i \in places : r.lines[i].kind = "etag"}
                 IN  IF at = {} THEN {0}
                     ELSE TextsOf(r.lines[CHOOSE i \in at : \A j \in at : j <= i])
    <2>1. LastETag(r) = Texts(DOMAIN r.lines)
      BY DEF LastETag
    <2>2. ETagTexts(r.lines, Len(r.lines)) = Texts(1 .. Len(r.lines))
      BY DEF ETagTexts
    <2> HIDE DEF Texts
    <2>3. QED BY <1>2, <2>1, <2>2, Zenon
  <1>5. QED BY <1>3, <1>4

\* A body that was read to its end is the reply's, where the head was whole and
\* gave the length.
LEMMA WholeBody ==
    ASSUME TypeOK, NEW t \in Thread, Ordered(t), BodyTaken(t),
           bodylen[t] <= Len(got[t].body), Len(served[t].lines) < HeaderMax
    PROVE  /\ count[t] = Len(served[t].lines)
           /\ Has(served[t], "length") \/ served[t].pieces = 0 =>
                 got[t].body = IF head[t] THEN <<>> ELSE Pieces(served[t].pieces)
           /\ ~Has(served[t], "length") => got[t].body = <<>>
  <1> DEFINE lines == served[t].lines
             body == got[t].body
             n == served[t].pieces
  <1>1. /\ served[t] \in Served /\ count[t] <= Len(lines) /\ head[t] \in BOOLEAN
        /\ bodylen[t] = IF HasLength(lines, count[t]) THEN n ELSE -1
        /\ conn[t].read = BodyStart(t) + Len(body)
        /\ \A i \in 1 .. Len(body) : body[i] = Wire(t)[BodyStart(t) + i]
        /\ count[t] < HeaderMax => count[t] = Len(lines)
        /\ Len(body) <= IF bodylen[t] > 0 THEN bodylen[t] ELSE 0
        /\ body \in Seq(Unit)
    BY DEF BodyTaken, HeadTaken, TypeOK
  <1>2. /\ Len(lines) \in Nat /\ count[t] \in Nat /\ Prologue(t) \in Nat /\ HeaderMax \in Nat
        /\ n \in Nat
    <2>1. lines \in Seq(Unit) /\ n \in Nat
      BY <1>1, ServedType
    <2>2. QED BY <1>1, <2>1, ServedType, SslAssumption DEF TypeOK, Prologue
  <1>3. Len(body) \in Nat
    BY <1>1
  <1>4. count[t] = Len(lines) /\ BodyStart(t) = Prologue(t) + 1 + Len(lines) + 1
    BY <1>1, <1>2 DEF BodyStart
  <1>5. HasLength(lines, count[t]) <=> Has(served[t], "length")
    BY <1>1, <1>4, WholeHead
  <1> HIDE DEF lines, body, n
  <1>6. Len(body) = IF Has(served[t], "length") THEN n ELSE 0
    BY <1>1, <1>2, <1>3, <1>5 DEF body
  <1>7. Len(body) = 0 => body = <<>>
    BY <1>1
  <1>8. Pieces(0) = <<>>
    BY DEF Pieces
  <1>9. CASE Has(served[t], "length")
    <2>1. CASE head[t]
      <3>1. Len(Wire(t)) = Prologue(t) + 1 + Len(lines) + 1 + 0
        BY <1>1, <2>1, WireFacts DEF lines
      <3>2. conn[t].read <= Len(Wire(t))
        <4>1. conn[t] \in ConnType
          BY DEF TypeOK, ConnType
        <4>2. /\ conn[t].read \in Nat /\ conn[t].decrypted \in Nat /\ conn[t].sent \in Nat
          BY <4>1, ConnFields
        <4>3. Len(Wire(t)) \in Nat
          BY <1>2, <3>1
        <4>4. QED BY <1>1, <4>2, <4>3 DEF Ordered, InOrder
      <3>3. Len(body) = 0
        BY <1>1, <1>2, <1>3, <1>4, <3>1, <3>2
      <3>4. QED BY <1>4, <1>7, <1>9, <2>1, <3>3 DEF lines, body
    <2>2. CASE ~head[t]
      <3>1. \A i \in 1 .. n : Wire(t)[Prologue(t) + 1 + Len(lines) + 1 + i] = Short("piece", i)
        BY <1>1, <2>2, WireFacts DEF lines, n
      <3>2. Len(body) = n /\ \A i \in 1 .. n : body[i] = Short("piece", i)
        BY <1>1, <1>4, <1>6, <1>9, <3>1
      <3>3. body = Pieces(n)
        BY <1>1, <3>2 DEF Pieces
      <3>4. QED BY <1>4, <1>9, <2>2, <3>3 DEF lines, body, n
    <2>3. QED BY <1>1, <2>1, <2>2
  <1>10. CASE ~Has(served[t], "length")
    BY <1>4, <1>6, <1>7, <1>8, <1>10 DEF lines, body, n
  <1>11. QED BY <1>9, <1>10

\* KII_TRUE means the caller holds the server's reply in full.
THEOREM SslDeliversWhole == ASSUME OneThread PROVE Spec => []DeliveredWhole
  <1>1. ExchangeInv /\ (\A t \in Thread : Judged(t)) => DeliveredWhole
    <2> SUFFICES ASSUME ExchangeInv, \A t \in Thread : Judged(t),
                        NEW t \in Thread, pc[t] = "returned", ret[t]
                 PROVE  /\ got[t].status = served[t].status
                        /\ Len(served[t].lines) < HeaderMax =>
                             IF Has(served[t], "length") \/ served[t].pieces = 0
                             THEN got[t] \in Answers(t)
                             ELSE got[t] \in {[a EXCEPT !.body = <<>>] : a \in Answers(t)}
      BY DEF DeliveredWhole
    <2>1. /\ TypeOK /\ Ordered(t) /\ BodyTaken(t) /\ HeadTaken(t)
          /\ bodylen[t] <= Len(got[t].body)
      BY DEF Judged, ExchangeInv, Parsed, BodyTaken
    <2>2. got[t].status = served[t].status /\ served[t] \in Served
      BY <2>1 DEF HeadTaken
    <2>3. ASSUME Len(served[t].lines) < HeaderMax
          PROVE  IF Has(served[t], "length") \/ served[t].pieces = 0
                 THEN got[t] \in Answers(t)
                 ELSE got[t] \in {[a EXCEPT !.body = <<>>] : a \in Answers(t)}
      <3> DEFINE whole == IF head[t] THEN <<>> ELSE Pieces(served[t].pieces)
      <3>1. /\ count[t] = Len(served[t].lines)
            /\ Has(served[t], "length") \/ served[t].pieces = 0 => got[t].body = whole
            /\ ~Has(served[t], "length") => got[t].body = <<>>
        BY <2>1, <2>3, WholeBody
      <3>2. got[t].etag \in IF wantsHeader[t] THEN LastETag(served[t]) ELSE {0}
        BY <2>1, <2>2, <3>1, WholeHead DEF HeadTaken
      <3>3. got[t] = [status |-> got[t].status, etag |-> got[t].etag, body |-> got[t].body]
        BY <2>1 DEF TypeOK
      <3> HIDE DEF whole
      <3>4. PICK a : a = [status |-> got[t].status, etag |-> got[t].etag, body |-> whole]
        OBVIOUS
      <3>5. a \in Answers(t)
        BY <2>2, <3>2, <3>4 DEF Answers, whole
      <3>6. CASE Has(served[t], "length") \/ served[t].pieces = 0
        BY <3>1, <3>3, <3>4, <3>5, <3>6
      <3>7. CASE ~(Has(served[t], "length") \/ served[t].pieces = 0)
        <4>1. got[t] = [a EXCEPT !.body = <<>>]
          BY <3>1, <3>3, <3>4, <3>7
        <4>2. QED BY <3>5, <3>7, <4>1
      <3>8. QED BY <3>6, <3>7
    <2>4. QED BY <2>2, <2>3
  <1>2. QED BY <1>1, SslExchange, SslJudged, PTL

-----------------------------------------------------------------------------
(* With any number of threads: what has arrived.                            *)

\* The last record holds the last unit that was sent.
LastIsSent(c) ==
    IF c.records = <<>> THEN c.decrypted = c.sent ELSE c.records[Len(c.records)] = c.sent

\* Receiving is given up on a closed connection only when everything sent has
\* been read.
ReadAll(t) ==
    /\ pc[t] \in {"cleanup", "assign", "test", "returned"}
    /\ retval[t] = "ERROR_RECEIVING" /\ conn[t].closed
    => conn[t].read = conn[t].sent

ArrivedInv == \A t \in Thread : LastIsSent(conn[t]) /\ ReadAll(t)

\* What becomes of the connection and the place of one thread is its own.
LEMMA OneArrives ==
    ASSUME ArrivedInv, NEW t \in Thread, LastIsSent(conn'[t]), ReadAll(t)',
           \A s \in Thread \ {t} :
              conn'[s] = conn[s] /\ pc'[s] = pc[s] /\ retval'[s] = retval[s]
    PROVE  ArrivedInv'
  BY DEF ArrivedInv, ReadAll

\* The record that is taken off the socket is not the last, or was.
LEMMA ReadArrives ==
    ASSUME TypeOK, NEW t \in Thread, LastIsSent(conn[t]), CanRead(t), Read(t)
    PROVE  /\ LastIsSent(conn'[t])
           /\ \A s \in Thread \ {t} : conn'[s] = conn[s]
  <1> DEFINE c == conn[t]
             h == IF Pending(t) THEN c.decrypted ELSE Head(c.records)
             q == IF Pending(t) THEN c.records ELSE Tail(c.records)
  <1>1. conn \in [Thread -> ConnType]
    BY DEF TypeOK, ConnType
  <1>2. c.sent \in Nat /\ c.records \in Seq(Nat) /\ c.decrypted \in Nat /\ c.read \in Nat
    BY <1>1, ConnFields
  <1>3. /\ h \in Nat /\ q \in Seq(Nat)
        /\ IF q = <<>> THEN h = c.sent ELSE q[Len(q)] = c.sent
    <2>1. CASE Pending(t)
      BY <1>2, <2>1 DEF LastIsSent
    <2>2. CASE ~Pending(t)
      <3>1. c.records # <<>> /\ c.records[Len(c.records)] = c.sent
        BY <2>2 DEF CanRead, LastIsSent
      <3>2. PICK r : r = c.records
        OBVIOUS
      <3>3. PICK x, w : x = Head(r) /\ w = Tail(r)
        OBVIOUS
      <3>4. h = x /\ q = w
        BY <2>2, <3>2, <3>3
      <3>5. /\ r \in Seq(Nat) /\ r # <<>> /\ r[Len(r)] = c.sent
        BY <1>2, <3>1, <3>2
      <3> HIDE DEF h, q
      <3>6. /\ x = r[1] /\ x \in Nat /\ w \in Seq(Nat) /\ Len(r) \in Nat \ {0}
            /\ Len(w) = Len(r) - 1 /\ \A i \in 1 .. Len(w) : w[i] = r[i + 1]
        BY <3>3, <3>5
      <3>7. CASE w = <<>>
        <4>1. Len(r) = 1
          BY <3>6, <3>7
        <4>2. QED BY <3>4, <3>5, <3>6, <3>7, <4>1
      <3>8. CASE w # <<>>
        <4>1. Len(w) \in 1 .. Len(w) /\ Len(w) + 1 = Len(r)
          BY <3>6, <3>8
        <4>2. w[Len(w)] = r[Len(r)]
          BY <3>6, <4>1
        <4>3. QED BY <3>4, <3>5, <3>6, <3>8, <4>2
      <3>9. QED BY <3>7, <3>8
    <2>3. QED BY <2>1, <2>2
  <1>4. conn' = [conn EXCEPT ![t].read = c.read + 1, ![t].decrypted = h, ![t].records = q]
    BY Zenon DEF Read
  <1> HIDE DEF h, q
  <1>5. c.read + 1 \in Nat
    BY <1>2
  <1>6. /\ conn' \in [Thread -> ConnType] /\ conn'[t].sent = c.sent
        /\ conn'[t].read = c.read + 1 /\ conn'[t].decrypted = h /\ conn'[t].records = q
        /\ \A s \in Thread \ {t} : conn'[s] = conn[s]
    <2>1. h \in Nat /\ q \in Seq(Nat)
      BY <1>3
    <2>2. QED BY <1>1, <1>4, <1>5, <2>1, ConnExcept
  <1>7. QED BY <1>3, <1>6 DEF LastIsSent

\* A record that is sent is the last.
LEMMA SendArrives ==
    ASSUME ExchangeInv, ArrivedInv, NEW t \in Thread, Send(t) PROVE ArrivedInv'
  <1> DEFINE c == conn[t]
  <1>1. conn \in [Thread -> ConnType] /\ Len(Wire(t)) \in Nat
    BY ReceivingServed DEF Send
  <1>2. PICK n \in c.sent + 1 .. Len(Wire(t)) :
          conn' = [conn EXCEPT ![t].sent = n, ![t].records = Append(@, n)]
    BY DEF Send
  <1>3. c.sent \in Nat /\ c.records \in Seq(Nat) /\ n \in Nat
    BY <1>1, <1>2, ConnFields
  <1>4. PICK w : w = Append(c.records, n)
    OBVIOUS
  <1>5. w # <<>> /\ w[Len(w)] = n
    <2>1. PICK r : r = c.records
      OBVIOUS
    <2>2. r \in Seq(Nat) /\ n \in Nat /\ w = Append(r, n)
      BY <1>3, <1>4, <2>1
    <2>3. Len(w) = Len(r) + 1 /\ Len(r) \in Nat /\ w[Len(r) + 1] = n
      BY <2>2
    <2>4. QED BY <2>3
  <1>6. /\ conn'[t].sent = n /\ conn'[t].records = w
        /\ \A s \in Thread \ {t} : conn'[s] = conn[s]
    BY <1>1, <1>2, <1>4 DEF ConnType
  <1>7. LastIsSent(conn'[t])
    BY <1>5, <1>6 DEF LastIsSent
  <1>8. ReadAll(t)'
    BY DEF Send, Receiving, ReadAll
  <1>9. QED BY <1>6, <1>7, <1>8, OneArrives DEF Send

\* The connection is closed while it is received from.
LEMMA CloseArrives ==
    ASSUME ExchangeInv, ArrivedInv, NEW t \in Thread, Close(t) PROVE ArrivedInv'
  <1>1. conn \in [Thread -> ConnType]
    BY ReceivingServed DEF Close
  <1>2. /\ conn'[t].sent = conn[t].sent /\ conn'[t].records = conn[t].records
        /\ conn'[t].decrypted = conn[t].decrypted
        /\ \A s \in Thread \ {t} : conn'[s] = conn[s]
    BY <1>1 DEF Close, ConnType
  <1>3. LastIsSent(conn'[t])
    BY <1>2 DEF ArrivedInv, LastIsSent
  <1>4. ReadAll(t)'
    BY DEF Close, Receiving, ReadAll
  <1>5. QED BY <1>2, <1>3, <1>4, OneArrives DEF Close

\* A unit is read: the call goes on, or ends for another reason.
LEMMA ParseArrives ==
    ASSUME ExchangeInv, ArrivedInv, NEW t \in Thread,
           ReadStatus(t) \/ ReadField(t) \/ ReadBody(t)
    PROVE  ArrivedInv'
  <1>1. CanRead(t) /\ Read(t) /\ TypeOK /\ LastIsSent(conn[t])
    BY DEF ReadStatus, ReadField, ReadBody, ExchangeInv, ArrivedInv
  <1>2. LastIsSent(conn'[t]) /\ \A s \in Thread \ {t} : conn'[s] = conn[s]
    BY <1>1, ReadArrives
  <1>3. pc[t] \in {"status", "fields", "body"}
    BY DEF ReadStatus, ReadField, ReadBody, InBody
  <1>4. \/ UNCHANGED <<pc, retval>>
        \/ \E x \in {"fields", "body"} : Goto(t, x) /\ UNCHANGED retval
        \/ EndFunc(t, "ERROR_RESPONSEHEADER")
    BY DEF ReadStatus, ReadField, ReadBody
  <1>5. /\ \A s \in Thread \ {t} : pc'[s] = pc[s] /\ retval'[s] = retval[s]
        /\ pc'[t] \in {"status", "fields", "body"} \/ retval'[t] = "ERROR_RESPONSEHEADER"
    BY <1>1, <1>3, <1>4 DEF Goto, EndFunc, TypeOK
  <1>6. ReadAll(t)'
    BY <1>5 DEF ReadAll
  <1>7. QED BY <1>2, <1>5, <1>6, OneArrives

\* What a read finds missing on a closed connection was not sent.
LEMMA GiveUpArrives ==
    ASSUME ExchangeInv, ArrivedInv, NEW t \in Thread, Timeout(t) \/ ReadFails(t)
    PROVE  ArrivedInv'
  <1>1. TypeOK /\ UNCHANGED conn /\ EndFunc(t, "ERROR_RECEIVING")
    BY DEF Timeout, ReadFails, ExchangeInv
  <1>2. conn[t].closed => conn[t].records = <<>> /\ ~Pending(t)
    BY DEF Timeout, ReadFails, Readable, CanRead
  <1>3. conn[t].read \in Nat /\ conn[t].decrypted \in Nat /\ conn[t].sent \in Nat
    <2>1. conn \in [Thread -> ConnType]
      BY <1>1 DEF TypeOK, ConnType
    <2>2. QED BY <2>1, ConnFields
  <1>4. conn[t].read <= conn[t].decrypted
    BY DEF ExchangeInv, Ordered, InOrder
  <1>5. conn[t].closed => conn[t].read = conn[t].sent
    BY <1>2, <1>3, <1>4 DEF ArrivedInv, LastIsSent, Pending
  <1>6. ReadAll(t)' /\ LastIsSent(conn'[t])
    BY <1>1, <1>5 DEF ReadAll, ArrivedInv
  <1>7. \A s \in Thread \ {t} : pc'[s] = pc[s] /\ retval'[s] = retval[s]
    BY <1>1 DEF EndFunc, Goto, TypeOK
  <1>8. QED BY <1>1, <1>6, <1>7, OneArrives

\* The other steps leave the connection alone.
LEMMA OthersArrive ==
    ASSUME ExchangeInv, ArrivedInv, NEW t \in Thread,
           \/ ParseUrl(t) \/ SocketConnect(t) \/ SslConnect(t) \/ EndBody(t)
           \/ CleanUp(t) \/ Assign(t) \/ Test(t) \/ WriteBehindLine(t) \/ LackMemory(t)
    PROVE  ArrivedInv'
  <1>1. TypeOK /\ LastIsSent(conn[t]) /\ ReadAll(t)
    BY DEF ExchangeInv, ArrivedInv
  <1>2. UNCHANGED conn
    BY DEF ParseUrl, SocketConnect, SslConnect, EndBody, CleanUp, Assign, Test,
           WriteBehindLine, LackMemory
  <1>3. /\ \A s \in Thread \ {t} : pc'[s] = pc[s] /\ retval'[s] = retval[s]
        /\ \/ pc'[t] = pc[t] /\ retval'[t] = retval[t]
           \/ pc'[t] \in {"connect", "handshake", "status"}
           \/ retval'[t] # "ERROR_RECEIVING"
           \/ pc[t] \in {"cleanup", "assign", "test"} /\ retval'[t] = retval[t]
    <2>1. CASE ParseUrl(t) \/ SocketConnect(t)
      BY <1>1, <2>1 DEF ParseUrl, SocketConnect, Goto, EndFunc, TypeOK
    <2>2. CASE SslConnect(t)
      BY <1>1, <2>2 DEF SslConnect, Goto, EndFunc, TypeOK
    <2>3. CASE EndBody(t)
      BY <1>1, <2>3 DEF EndBody, Goto, EndFunc, TypeOK
    <2>4. CASE CleanUp(t) \/ Assign(t) \/ Test(t)
      BY <1>1, <2>4 DEF CleanUp, Assign, Test, Goto, TypeOK
    <2>5. CASE WriteBehindLine(t) \/ LackMemory(t)
      BY <2>5 DEF WriteBehindLine, LackMemory
    <2>6. QED BY <2>1, <2>2, <2>3, <2>4, <2>5
  <1>4. ReadAll(t)' /\ LastIsSent(conn'[t])
    BY <1>1, <1>2, <1>3 DEF ReadAll
  <1>5. QED BY <1>2, <1>3, <1>4, OneArrives

\* Whatever the server sent and however it was cut, with any number of threads,
\* receiving is given up on a closed connection only when all of it is read.
LEMMA SslReadsAll == Spec => []ArrivedInv
  <1>1. Init => ArrivedInv
    <2>1. Init => \A t \in Thread : conn[t] = NewConn /\ pc[t] = "idle"
      BY DEF Init
    <2>2. LastIsSent(NewConn)
      BY DEF LastIsSent, NewConn
    <2>3. QED BY <2>1, <2>2 DEF ArrivedInv, ReadAll
  <1>2. ExchangeInv /\ ArrivedInv /\ [Next]_vars => ArrivedInv'
    <2> SUFFICES ASSUME ExchangeInv, ArrivedInv, [Next]_vars PROVE ArrivedInv'
      OBVIOUS
    <2>1. CASE UNCHANGED vars
      BY <2>1 DEF vars, ArrivedInv, ReadAll
    <2>2. ASSUME NEW t \in Thread, Call(t) PROVE ArrivedInv'
      <3>1. conn'[t] = NewConn /\ pc'[t] = "url"
        BY <2>2 DEF Call, Goto, ExchangeInv, TypeOK
      <3>2. \A s \in Thread \ {t} :
              conn'[s] = conn[s] /\ pc'[s] = pc[s] /\ retval'[s] = retval[s]
        BY <2>2 DEF Call, Goto, ExchangeInv, TypeOK
      <3>3. LastIsSent(conn'[t]) /\ ReadAll(t)'
        BY <3>1 DEF LastIsSent, NewConn, ReadAll
      <3>4. QED BY <3>2, <3>3, OneArrives
    <2>3. QED
      BY <2>1, <2>2, SendArrives, CloseArrives, ParseArrives, GiveUpArrives, OthersArrive
      DEF Next, Continue
  <1>3. QED BY <1>1, <1>2, SslExchange, PTL DEF Spec

\* A reply that was read to its end, or sent in full on a connection then
\* closed, is not reported as a failed exchange, but for the body that HEAD
\* waits for.
THEOREM SslReportsAnswer == ASSUME OneThread PROVE Spec => []AnsweredIsReported
  <1>1. ExchangeInv /\ ArrivedInv /\ (\A t \in Thread : Judged(t)) => AnsweredIsReported
    <2> SUFFICES ASSUME ExchangeInv, ArrivedInv, \A t \in Thread : Judged(t),
                        NEW t \in Thread, pc[t] = "returned", served[t] # NoReply,
                        Arrived(t), ~ret[t]
                 PROVE  head[t] /\ Has(served[t], "length") /\ served[t].pieces > 0
      BY DEF AnsweredIsReported
    <2>1. retval[t] # "OK" /\ Excused(t)
      BY DEF Judged, ExchangeInv, Parsed
    <2>2. conn[t].read = Len(Wire(t))
      BY DEF Arrived, ArrivedInv, ReadAll
    <2>3. conn[t].read \in Nat
      BY DEF ExchangeInv, TypeOK
    <2>4. QED BY <2>1, <2>2, <2>3 DEF Excused
  <1>2. QED BY <1>1, SslExchange, SslReadsAll, SslJudged, PTL
=============================================================================
