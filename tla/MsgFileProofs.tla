--------------------------- MODULE MsgFileProofs ---------------------------
(* The message files, for any number of messages, openings and crashes and   *)
(* any size of the write buffer: messages are numbered once, a caller learns *)
(* of what is dropped, a broken file is left alone, and a reader is given    *)
(* the message of the number it asks for.                                    *)
EXTENDS MsgFileProps, SequenceTheorems, FiniteSetTheorems, TLAPS

Cell == [t : {"head", "half", "bare", "pay"}, first : Nat, n : Nat, msg : Nat]

-----------------------------------------------------------------------------
(* Files, as such: the sound part comes first, and what is appended later    *)
(* makes no torn block whole.                                                *)

\* The block headed at cell i is all there, or i is no header.
Good(f, i) ==
    /\ f[i].t \notin {"half", "bare"}
    /\ f[i].t = "head" => /\ i + f[i].n <= Len(f)
                          /\ \A j \in i + 1 .. i + f[i].n : f[j].t = "pay"
SoundTo(f, i) == \A j \in 1 .. i : Good(f, j)
SoundHead(f, i) == i \in 1 .. Len(f) /\ f[i].t = "head" /\ SoundTo(f, i)
AllSound(f) == SoundTo(f, Len(f))

\* Sound but for a header at the end that is torn so that Read notices.
BrokenTail(f) == f # <<>> /\ f[Len(f)].t = "half" /\ SoundTo(f, Len(f) - 1)

\* Every message belongs to the block of a header before it.
Owned(f) ==
    \A i \in 1 .. Len(f) : f[i].t = "pay" =>
        \E j \in 1 .. i - 1 : f[j].t = "head" /\ i <= j + f[j].n

\* The sound blocks are numbered without a gap, and any header that comes
\* later, torn or not, has a greater number.
Numbered(f) == \A i \in 1 .. Len(f) : SoundHead(f, i) => f[i].first = Pays(f, i)
Ordered(f) ==
    \A i, k \in 1 .. Len(f) :
        SoundHead(f, i) /\ f[k].t = "head" /\ i < k => f[i].first + f[i].n <= f[k].first

\* A header that is torn so that Read notices is not appended to, unless a
\* scan has lost its way before it.
HalfLast(f) == \A i \in 1 .. Len(f) : f[i].t = "half" /\ SoundTo(f, i - 1) => i = Len(f)

FileOK(f) == f \in Seq(Cell) /\ Owned(f) /\ Numbered(f) /\ Ordered(f) /\ HalfLast(f)

\* x is past the numbers of the sound blocks.
Above(f, x) == \A i \in 1 .. Len(f) : SoundHead(f, i) => f[i].first + f[i].n <= x

\* A writer may go on with block x: f is not known to be broken, and is at x.
Fits(f, x) ==
    Above(f, x) /\ ~BrokenTail(f) /\ (AllSound(f) => x = Pays(f, Len(f)))

\* Position p is between two blocks of the sound part, or after the last.
Edge(f, p) == p \in 0 .. Len(f) /\ SoundTo(f, p) /\ (p < Len(f) => f[p + 1].t # "pay")

\* Position p is after something torn.
PastTorn(f, p) == \E j \in 1 .. Len(f) : j <= p /\ ~Good(f, j)

\* g is f with something appended to it.
Extends(f, g) ==
    /\ Len(f) <= Len(g) /\ \A i \in 1 .. Len(f) : g[i] = f[i]
    /\ Len(f) < Len(g) => g[Len(f) + 1].t # "pay"

-----------------------------------------------------------------------------
(* The invariant. *)

ReadFile == [at : {"closed", "idle", "scan", "load", "found", "returned"}, seek : Int, pos : Nat,
             eof : BOOLEAN, fail : BOOLEAN, first : Nat, n : Nat,
             cbuf : Seq(Nat), buf : Seq(Nat), result : Int]

WriteFile == [at : {"closed", "unopened", "opening", "open"}, fail : BOOLEAN, first : Nat, buf : Seq(Nat)]

FileTypeOK ==
    /\ wf \in WriteFile
    /\ rf \in [Scanner -> ReadFile]
    /\ given \in Nat /\ since \in Seq(Nat) /\ began \in BOOLEAN /\ opens \in Nat

\* Of file f and buffer buf, what was given since OpenAppend is the end, and
\* nothing of it is missing.
Kept(f, gave, buf) ==
    LET total == Pays(f, Len(f))
        before == total + Len(buf) - Len(gave)
    IN /\ before >= 0
       /\ \A i \in 1 .. Len(f) :
             f[i].t = "pay" /\ Pays(f, i) > before => f[i].msg = gave[Pays(f, i) - before]
       /\ \A k \in 1 .. Len(buf) : total + k > before => buf[k] = gave[total + k - before]

\* The writer goes on where the file ends, and if the caller found it so after
\* OpenAppend, has not forgotten anything.
WriterOK ==
    /\ OkQ => Fits(file, wf.first) /\ began
    /\ wf.at # "open" /\ ~wf.fail => wf.buf = <<>>
    /\ wf.at = "unopened" => ~began
    /\ began /\ ~wf.fail => Kept(file, since, wf.buf)

\* A scan to the end of file c: it is in the sound part and has counted it, or
\* it has passed it, or it has failed.
AppendAt(c, f) ==
    /\ f.seek = End /\ f.at \in {"scan", "found"}
    /\ f.at = "scan" /\ ~f.fail =>
          /\ ~f.eof
          /\ \/ Edge(c, f.pos) /\ f.first + f.n = Pays(c, f.pos)
             \/ PastTorn(c, f.pos) /\ ~BrokenTail(c) /\ Above(c, f.first)
    /\ f.at = "found" /\ ~f.fail => Fits(c, f.first + f.n)

\* OpenAppend's scan.
AppendOK ==
    wf.at = "opening" => ~wf.fail /\ ~began /\ since = <<>> /\ AppendAt(file, rf["append"])

\* A reader f of file c: where the header was that it read last.
AtStart(f) == f.pos = 0 /\ f.first = 0 /\ f.n = 0 /\ ~f.eof
HeadAt(c, f, h) == SoundHead(c, h) /\ f.first = c[h].first /\ f.n = c[h].n
After(c, f, h) == HeadAt(c, f, h) /\ f.pos = h + f.n /\ ~f.eof
Loaded(c, f, h) ==
    After(c, f, h) /\ Len(f.buf) = f.n /\ \A k \in 1 .. f.n : f.buf[k] = c[h + k].msg
IsPast(c, f) == PastTorn(c, f.pos) /\ Above(c, f.first)
Rests(c, f) == AtStart(f) \/ IsPast(c, f) \/ \E h \in 1 .. Len(c) : Loaded(c, f, h)

\* Number s is in the block headed at i; in some block; in a sound block.
Holds(c, i, s) == c[i].t = "head" /\ c[i].first <= s /\ s < c[i].first + c[i].n
Listed(c, s) == \E i \in 1 .. Len(c) : Holds(c, i, s)
Sought(c, s) == \E i \in 1 .. Len(c) : SoundHead(c, i) /\ Holds(c, i, s)

ReaderAt(c, f) ==
    /\ f.at = "returned" => f.result = Lookup(f)
    /\ f.at = "idle" /\ ~f.fail => Rests(c, f)
    /\ f.at = "scan" /\ ~f.fail =>
          /\ Listed(c, f.seek) /\ (Sought(c, f.seek) => f.first <= f.seek)
          /\ \/ Rests(c, f)
             \/ \E h \in 1 .. Len(c) : After(c, f, h) /\ f.first + f.n <= f.seek
    /\ f.at = "load" /\ ~f.fail =>
          \/ ~f.eof /\ HeadAt(c, f, f.pos) /\ Holds(c, f.pos, f.seek)
          \/ IsPast(c, f) /\ ~Sought(c, f.seek)
    /\ f.at \in {"found", "returned"} /\ ~f.fail =>
          \/ IsPast(c, f) /\ ~Sought(c, f.seek)
          \/ \E h \in 1 .. Len(c) : Loaded(c, f, h) /\ Holds(c, h, f.seek)

ReaderOK == ReaderAt(file, rf["reader"])

IInv == FileTypeOK /\ FileOK(file) /\ WriterOK /\ AppendOK

-----------------------------------------------------------------------------
(* Counting messages. *)

\* The messages counted are among the first i cells.
LEMMA PaysType ==
  ASSUME NEW f, NEW i \in Nat
  PROVE  /\ Pays(f, i) \in Nat /\ Pays(f, i) <= i
         /\ IsFiniteSet({j \in 1 .. i : f[j].t = "pay"})
<1>1. IsFiniteSet(1 .. i) /\ Cardinality(1 .. i) = i
  BY FS_Interval
<1>2. {j \in 1 .. i : f[j].t = "pay"} \in SUBSET (1 .. i)
  OBVIOUS
<1>. QED
  BY <1>1, <1>2, FS_Subset, FS_CardinalityType DEF Pays

\* There are no messages before the first cell.
LEMMA PaysZero ==
  ASSUME NEW f PROVE Pays(f, 0) = 0
<1>1. {j \in 1 .. 0 : f[j].t = "pay"} = {}
  OBVIOUS
<1>. QED
  BY <1>1, FS_EmptySet DEF Pays

\* The count depends on the cells counted only.
LEMMA PaysSame ==
  ASSUME NEW f, NEW g, NEW i \in Nat, \A j \in 1 .. i : g[j] = f[j]
  PROVE  Pays(g, i) = Pays(f, i)
<1>1. {j \in 1 .. i : g[j].t = "pay"} = {j \in 1 .. i : f[j].t = "pay"}
  OBVIOUS
<1>. QED
  BY <1>1 DEF Pays

\* The messages of the first i + n cells are those of the first i and those
\* of the n after them.
MsgsAfter(f, i, n) == {j \in i + 1 .. i + n : f[j].t = "pay"}
LEMMA PaysSplit ==
  ASSUME NEW f, NEW i \in Nat, NEW n \in Nat
  PROVE  /\ Cardinality(MsgsAfter(f, i, n)) \in Nat
         /\ Pays(f, i + n) = Pays(f, i) + Cardinality(MsgsAfter(f, i, n))
<1>. DEFINE A == {j \in 1 .. i : f[j].t = "pay"}
            B == MsgsAfter(f, i, n)
            C == {j \in 1 .. i + n : f[j].t = "pay"}
<1>1. IsFiniteSet(A)
  BY PaysType
<1>2. IsFiniteSet(B)
  <2>1. IsFiniteSet(i + 1 .. i + n)
    BY FS_Interval
  <2>. QED
    BY <2>1, FS_Subset DEF MsgsAfter
<1>3. A \cup B = C /\ A \cap B = {}
  BY DEF MsgsAfter
<1>4. Cardinality(A) \in Nat /\ Cardinality(B) \in Nat
  BY <1>1, <1>2, FS_CardinalityType
<1>5. Cardinality(C) = Cardinality(A) + Cardinality(B)
  <2>1. Cardinality(A \cup B) = Cardinality(A) + Cardinality(B) - Cardinality(A \cap B)
    BY <1>1, <1>2, FS_Union
  <2>2. Cardinality({}) = 0
    BY FS_EmptySet
  <2>3. Cardinality(A \cup B) = Cardinality(C) /\ Cardinality(A \cap B) = 0
    BY <2>2, <1>3
  <2>. HIDE DEF A, B, C
  <2>. QED
    BY <2>1, <2>3, <1>4
<1>. QED
  BY <1>4, <1>5 DEF Pays

\* The count never falls as one goes on.
LEMMA PaysGrow ==
  ASSUME NEW f, NEW i \in Nat, NEW k \in Nat, i <= k
  PROVE  Pays(f, i) <= Pays(f, k)
<1>. DEFINE n == k - i
<1>1. n \in Nat /\ i + n = k
  OBVIOUS
<1>. HIDE DEF n
<1>2. /\ Cardinality(MsgsAfter(f, i, n)) \in Nat
      /\ Pays(f, i + n) = Pays(f, i) + Cardinality(MsgsAfter(f, i, n))
  BY <1>1, PaysSplit
<1>3. Pays(f, i) \in Nat
  BY PaysType
<1>. QED
  BY <1>1, <1>2, <1>3

\* A payload of n messages counts n.
LEMMA PaysRun ==
  ASSUME NEW f, NEW i \in Nat, NEW n \in Nat, \A j \in i + 1 .. i + n : f[j].t = "pay"
  PROVE  Pays(f, i + n) = Pays(f, i) + n
<1>1. MsgsAfter(f, i, n) = i + 1 .. i + n
  BY DEF MsgsAfter
<1>2. Cardinality(i + 1 .. i + n) = n
  BY FS_Interval
<1>. QED
  BY <1>1, <1>2, PaysSplit

\* What is no message does not count.
LEMMA PaysNone ==
  ASSUME NEW f, NEW i \in Nat, f[i + 1].t # "pay"
  PROVE  Pays(f, i + 1) = Pays(f, i)
<1>1. MsgsAfter(f, i, 1) = {}
  BY DEF MsgsAfter
<1>2. Pays(f, i + 1) = Pays(f, i) + Cardinality(MsgsAfter(f, i, 1))
  BY PaysSplit
<1>3. Cardinality(MsgsAfter(f, i, 1)) = 0
  BY <1>1, FS_EmptySet, Zenon
<1>4. Pays(f, i) \in Nat
  BY PaysType
<1>. QED
  BY <1>2, <1>3, <1>4


-----------------------------------------------------------------------------
(* What stays as it was when something is appended. *)

\* A cell, and what follows from cells being cells.
LEMMA CellFacts ==
  ASSUME NEW f \in Seq(Cell), NEW i \in 1 .. Len(f)
  PROVE  /\ f[i] \in Cell /\ f[i].t \in {"head", "half", "bare", "pay"}
         /\ f[i].first \in Nat /\ f[i].n \in Nat /\ f[i].msg \in Nat
         /\ Len(f) \in Nat /\ i \in Nat
<1>1. f[i] \in Cell
  BY ElementOfSeq
<1>. QED
  BY <1>1, LenProperties DEF Cell

\* A torn block stays torn, and a whole one whole.
LEMMA GoodLater ==
  ASSUME NEW f \in Seq(Cell), NEW g \in Seq(Cell), Extends(f, g), NEW i \in 1 .. Len(f)
  PROVE  Good(g, i) <=> Good(f, i)
<1>1. /\ Len(f) \in Nat /\ Len(g) \in Nat /\ Len(f) <= Len(g) /\ i \in Nat
      /\ f[i].n \in Nat /\ g[i] = f[i]
  BY CellFacts, LenProperties DEF Extends
<1>2. ASSUME Good(f, i) PROVE Good(g, i)
  BY <1>1, <1>2 DEF Good, Extends
<1>3. ASSUME Good(g, i) PROVE Good(f, i)
  <2>1. CASE f[i].t # "head"
    BY <1>1, <1>3, <2>1 DEF Good
  <2>2. CASE f[i].t = "head"
    <3>1. i + f[i].n <= Len(g) /\ \A j \in i + 1 .. i + f[i].n : g[j].t = "pay"
      BY <1>1, <1>3, <2>2 DEF Good
    <3>2. i + f[i].n <= Len(f)
      <4>. SUFFICES ASSUME Len(f) < i + f[i].n PROVE FALSE
        BY <1>1
      <4>1. Len(f) + 1 \in i + 1 .. i + f[i].n /\ Len(f) < Len(g)
        BY <1>1, <3>1
      <4>. QED
        BY <3>1, <4>1 DEF Extends
    <3>3. \A j \in i + 1 .. i + f[i].n : f[j].t = "pay"
      BY <1>1, <3>1, <3>2 DEF Extends
    <3>. QED
      BY <1>1, <2>2, <3>2, <3>3 DEF Good
  <2>. QED
    BY <2>1, <2>2
<1>. QED
  BY <1>2, <1>3

\* So the sound part, its headers and its blocks' ends stay.
LEMMA SoundLater ==
  ASSUME NEW f \in Seq(Cell), NEW g \in Seq(Cell), Extends(f, g)
  PROVE  /\ \A i \in 0 .. Len(f) : SoundTo(g, i) <=> SoundTo(f, i)
         /\ \A i \in 1 .. Len(f) : SoundHead(g, i) <=> SoundHead(f, i)
         /\ \A p : Edge(f, p) => Edge(g, p)
         /\ \A p : PastTorn(f, p) => PastTorn(g, p)
         /\ \A i \in 0 .. Len(f) : Pays(g, i) = Pays(f, i)
<1>1. /\ Len(f) \in Nat /\ Len(g) \in Nat /\ Len(f) <= Len(g)
      /\ \A i \in 1 .. Len(f) : g[i] = f[i]
  BY LenProperties DEF Extends
<1>2. \A i \in 1 .. Len(f) : Good(g, i) <=> Good(f, i)
  BY GoodLater
<1>3. \A i \in 0 .. Len(f) : SoundTo(g, i) <=> SoundTo(f, i)
  BY <1>1, <1>2 DEF SoundTo
<1>4. \A i \in 1 .. Len(f) : SoundHead(g, i) <=> SoundHead(f, i)
  BY <1>1, <1>3 DEF SoundHead
<1>5. ASSUME NEW p, Edge(f, p) PROVE Edge(g, p)
  <2>1. p \in 0 .. Len(g) /\ p \in 0 .. Len(f) /\ SoundTo(g, p)
    BY <1>1, <1>3, <1>5 DEF Edge
  <2>2. ASSUME p < Len(g) PROVE g[p + 1].t # "pay"
    <3>1. CASE p < Len(f)
      BY <1>1, <1>5, <2>1, <3>1 DEF Edge
    <3>2. CASE p = Len(f)
      BY <2>2, <3>2 DEF Extends
    <3>. QED
      BY <1>1, <2>1, <3>1, <3>2
  <2>. QED
    BY <2>1, <2>2 DEF Edge
<1>6. ASSUME NEW p, PastTorn(f, p) PROVE PastTorn(g, p)
  BY <1>1, <1>2, <1>6 DEF PastTorn
<1>7. ASSUME NEW i \in 0 .. Len(f) PROVE Pays(g, i) = Pays(f, i)
  <2>1. i \in Nat /\ \A j \in 1 .. i : g[j] = f[j]
    BY <1>1
  <2>. QED
    BY <2>1, PaysSame
<1>. QED
  BY <1>3, <1>4, <1>5, <1>6, <1>7

-----------------------------------------------------------------------------
(* Going from block to block. *)

\* From the edge of a whole block one comes to its other edge, and counts
\* its messages.
LEMMA EdgeNext ==
  ASSUME NEW f, FileOK(f), NEW p, Edge(f, p), p < Len(f), f[p + 1].t = "head", Good(f, p + 1)
  PROVE  /\ SoundHead(f, p + 1) /\ Edge(f, p + 1 + f[p + 1].n)
         /\ f[p + 1].first = Pays(f, p)
         /\ Pays(f, p + 1 + f[p + 1].n) = Pays(f, p) + f[p + 1].n
<1>. DEFINE n == f[p + 1].n
            q == p + 1 + n
<1>1. /\ Len(f) \in Nat /\ p \in Nat /\ p + 1 \in 1 .. Len(f) /\ n \in Nat /\ f \in Seq(Cell)
      /\ SoundTo(f, p)
  BY CellFacts, LenProperties DEF Edge, FileOK
<1>. HIDE DEF n
<1>2. q <= Len(f) /\ \A j \in p + 2 .. q : f[j].t = "pay"
  BY <1>1 DEF Good, n
<1>3. SoundTo(f, p + 1)
  BY <1>1 DEF SoundTo
<1>4. SoundTo(f, q)
  <2>. SUFFICES ASSUME NEW j \in 1 .. q PROVE Good(f, j)
    BY DEF SoundTo
  <2>1. CASE j <= p + 1
    BY <1>1, <1>3, <2>1 DEF SoundTo
  <2>2. CASE p + 1 < j
    BY <1>1, <1>2, <2>2 DEF Good
  <2>. QED
    BY <1>1, <2>1, <2>2
<1>5. ASSUME q < Len(f) PROVE f[q + 1].t # "pay"
  <2>. SUFFICES ASSUME f[q + 1].t = "pay" PROVE FALSE
    OBVIOUS
  <2>1. PICK j \in 1 .. q : f[j].t = "head" /\ q + 1 <= j + f[j].n
    <3>1. q + 1 \in 1 .. Len(f) /\ (q + 1) - 1 = q
      BY <1>1, <1>5
    <3>2. \E j \in 1 .. (q + 1) - 1 : f[j].t = "head" /\ q + 1 <= j + f[j].n
      BY <3>1 DEF FileOK, Owned
    <3>. QED
      BY <3>1, <3>2
  <2>2. f[j].n \in Nat /\ j \in Nat
    BY <1>1, <1>2, CellFacts
  <2>3. j < p + 1
    <3>1. j # p + 1
      BY <1>1, <2>1 DEF n
    <3>2. ~(p + 1 < j)
      BY <1>1, <1>2, <2>1, <2>2
    <3>. QED
      BY <1>1, <2>2, <3>1, <3>2
  <2>4. Good(f, j)
    BY <1>1, <2>3, <2>2 DEF SoundTo
  <2>5. p + 1 \in j + 1 .. j + f[j].n
    BY <1>1, <2>1, <2>2, <2>3
  <2>. QED
    BY <2>1, <2>4, <2>5 DEF Good
<1>6. Edge(f, q)
  BY <1>1, <1>2, <1>4, <1>5 DEF Edge
<1>7. SoundHead(f, p + 1)
  BY <1>1, <1>3 DEF SoundHead
<1>8. f[p + 1].first = Pays(f, p) /\ Pays(f, p + 1) = Pays(f, p)
  <2>1. Pays(f, p + 1) = Pays(f, p)
    BY <1>1, PaysNone
  <2>2. f[p + 1].first = Pays(f, p + 1)
    BY <1>1, <1>7 DEF FileOK, Numbered
  <2>. QED
    BY <2>1, <2>2
<1>9. Pays(f, p + 1 + n) = Pays(f, p + 1) + n
  <2>1. p + 1 \in Nat /\ \A j \in (p + 1) + 1 .. (p + 1) + n : f[j].t = "pay"
    BY <1>1, <1>2
  <2>. QED
    BY <1>1, <2>1, PaysRun
<1>. QED
  BY <1>6, <1>7, <1>8, <1>9 DEF n

\* The blocks before an edge have the numbers before the count there.
LEMMA Behind ==
  ASSUME NEW f, FileOK(f), NEW p, Edge(f, p), NEW i, SoundHead(f, i), i <= p
  PROVE  i + f[i].n <= p /\ f[i].first + f[i].n <= Pays(f, p)
<1>. DEFINE n == f[i].n
<1>1. /\ Len(f) \in Nat /\ p \in 0 .. Len(f) /\ i \in 1 .. Len(f) /\ n \in Nat /\ f \in Seq(Cell)
      /\ f[i].first = Pays(f, i) /\ f[i].t = "head"
  BY CellFacts, LenProperties DEF Edge, FileOK, SoundHead, Numbered
<1>2. i + n <= Len(f) /\ \A j \in i + 1 .. i + n : f[j].t = "pay"
  BY <1>1 DEF SoundHead, SoundTo, Good
<1>. HIDE DEF n
<1>3. i + n <= p
  BY <1>1, <1>2 DEF Edge
<1>4. Pays(f, i + n) = Pays(f, i) + n
  BY <1>1, <1>2, PaysRun
<1>5. Pays(f, i + n) <= Pays(f, p)
  BY <1>1, <1>3, PaysGrow
<1>. QED
  BY <1>1, <1>3, <1>4, <1>5 DEF n

\* At the end of a sound file the next number is the count of its messages.
LEMMA SoundEnd ==
  ASSUME NEW f, FileOK(f), AllSound(f)
  PROVE  Edge(f, Len(f)) /\ Above(f, Pays(f, Len(f))) /\ ~BrokenTail(f)
<1>1. Len(f) \in Nat /\ f \in Seq(Cell)
  BY LenProperties DEF FileOK
<1>2. Edge(f, Len(f))
  BY <1>1 DEF Edge, AllSound
<1>3. ASSUME NEW i \in 1 .. Len(f), SoundHead(f, i)
      PROVE  f[i].first + f[i].n <= Pays(f, Len(f))
  <2>1. i <= Len(f)
    BY <1>1
  <2>. QED
    BY <1>2, <1>3, <2>1, Behind
<1>4. ~BrokenTail(f)
  <2>1. f # <<>> => Len(f) \in 1 .. Len(f)
    BY <1>1, EmptySeq
  <2>. QED
    BY <2>1 DEF BrokenTail, AllSound, SoundTo, Good
<1>. QED
  BY <1>2, <1>3, <1>4 DEF Above


\* A header, whole or torn, after something torn is past the sound blocks.
LEMMA TornHead ==
  ASSUME NEW f, FileOK(f), NEW p \in Nat, p < Len(f), f[p + 1].t = "head",
         PastTorn(f, p) \/ (Edge(f, p) /\ ~Good(f, p + 1))
  PROVE  Above(f, f[p + 1].first) /\ PastTorn(f, p + 1)
<1>1. Len(f) \in Nat /\ f \in Seq(Cell) /\ p + 1 \in 1 .. Len(f)
  BY LenProperties DEF FileOK
<1>2. PICK j \in 1 .. Len(f) : j <= p + 1 /\ ~Good(f, j)
  BY <1>1 DEF PastTorn
<1>3. ASSUME NEW i \in 1 .. Len(f), SoundHead(f, i)
      PROVE  f[i].first + f[i].n <= f[p + 1].first
  <2>1. i < j
    BY <1>1, <1>2, <1>3 DEF SoundHead, SoundTo
  <2>2. i < p + 1
    BY <1>1, <1>2, <2>1
  <2>. QED
    BY <1>1, <1>3, <2>2 DEF FileOK, Ordered
<1>. QED
  BY <1>1, <1>2, <1>3 DEF Above, PastTorn

\* A position after a torn block stays one, and no block that begins after
\* it is sound.
LEMMA TornAfter ==
  ASSUME NEW f \in Seq(Cell), NEW p \in Nat, PastTorn(f, p)
  PROVE  /\ \A q \in Nat : p <= q => PastTorn(f, q)
         /\ ~AllSound(f)
<1>1. Len(f) \in Nat
  BY LenProperties
<1>. QED
  BY <1>1 DEF PastTorn, AllSound, SoundTo

\* What has the numbers of the sound blocks behind it has so the further on.
LEMMA AboveMore ==
  ASSUME NEW f \in Seq(Cell), NEW x \in Int, NEW y \in Int, Above(f, x), x <= y
  PROVE  Above(f, y)
<1>. SUFFICES ASSUME NEW i \in 1 .. Len(f), SoundHead(f, i) PROVE f[i].first + f[i].n <= y
  BY DEF Above
<1>1. f[i].first \in Nat /\ f[i].n \in Nat
  BY CellFacts
<1>2. f[i].first + f[i].n <= x
  BY DEF Above
<1>. QED
  BY <1>1, <1>2

-----------------------------------------------------------------------------
(* What a write of a block appends to a file. *)

\* A block of msgs, or a part of it.
Piece(part, first, msgs) ==
    /\ part \in Seq(Cell) /\ Len(part) <= 1 + Len(msgs)
    /\ \A k \in 2 .. Len(part) : part[k].t = "pay" /\ part[k].msg = msgs[k - 1]
    /\ part # <<>> =>
          \/ part[1].t \in {"half", "bare"} /\ Len(part) = 1
          \/ part[1].t = "head" /\ part[1].first = first /\ part[1].n = Len(msgs)

\* A whole block: its header and its messages.
LEMMA BlockFacts ==
  ASSUME NEW first \in Nat, NEW msgs \in Seq(Nat)
  PROVE  /\ Piece(Block(first, msgs), first, msgs)
         /\ Len(Block(first, msgs)) = 1 + Len(msgs)
         /\ Block(first, msgs)[1].t = "head"
         /\ Block(first, msgs) \in Seq(Cell)
<1>. DEFINE h == HeadCell(first, Len(msgs))
            pays == [i \in DOMAIN msgs |-> PayCell(msgs[i])]
            b == <<h>> \o pays
<1>1. /\ Len(msgs) \in Nat /\ DOMAIN msgs = 1 .. Len(msgs)
      /\ \A i \in 1 .. Len(msgs) : msgs[i] \in Nat
  BY LenProperties, ElementOfSeq
<1>2. h \in Cell /\ h.t = "head" /\ h.first = first /\ h.n = Len(msgs)
  BY <1>1 DEF HeadCell, Cell, Garbage
<1>3. \A m \in Nat : PayCell(m) \in Cell /\ PayCell(m).t = "pay" /\ PayCell(m).msg = m
  BY DEF PayCell, Cell
<1>4. pays \in Seq(Cell) /\ Len(pays) = Len(msgs)
  <2>1. \A i \in 1 .. Len(msgs) : PayCell(msgs[i]) \in Cell
    BY <1>1, <1>3
  <2>. QED
    BY <1>1, <2>1
<1>5. \A i \in 1 .. Len(msgs) : pays[i].t = "pay" /\ pays[i].msg = msgs[i]
  BY <1>1, <1>3
<1>. HIDE DEF h, pays
<1>6. <<h>> \in Seq(Cell) /\ Len(<<h>>) = 1 /\ <<h>>[1] = h
  BY <1>2
<1>7. /\ b \in Seq(Cell) /\ Len(b) = 1 + Len(msgs)
      /\ \A i \in 1 .. 1 + Len(msgs) : b[i] = IF i <= 1 THEN <<h>>[i] ELSE pays[i - 1]
  BY <1>4, <1>6, ConcatProperties
<1>. HIDE DEF b
<1>8. b[1] = h /\ \A k \in 2 .. Len(b) : b[k] = pays[k - 1] /\ k - 1 \in 1 .. Len(msgs)
  BY <1>1, <1>6, <1>7
<1>9. Piece(b, first, msgs)
  BY <1>1, <1>2, <1>5, <1>7, <1>8 DEF Piece
<1>10. Block(first, msgs) = b
  BY DEF Block, b, h, pays
<1>. QED
  BY <1>2, <1>7, <1>8, <1>9, <1>10

\* What a write that does not complete leaves.
LEMMA TornFacts ==
  ASSUME NEW first \in Nat, NEW msgs \in Seq(Nat), NEW part \in Torn(Block(first, msgs))
  PROVE  Piece(part, first, msgs)
<1>. DEFINE b == Block(first, msgs)
<1>1. /\ Piece(b, first, msgs) /\ Len(b) = 1 + Len(msgs) /\ b[1].t = "head"
      /\ b \in Seq(Cell) /\ Len(msgs) \in Nat
  BY BlockFacts, LenProperties
<1>. HIDE DEF b
<1>2. CASE part = <<>>
  BY <1>1, <1>2 DEF Piece
<1>3. CASE \E c \in {HalfCell, BareCell} : part = <<c>>
  <2>1. PICK c \in {HalfCell, BareCell} : part = <<c>>
    BY <1>3
  <2>2. c \in Cell /\ c.t \in {"half", "bare"}
    BY DEF HalfCell, BareCell, Cell, Garbage
  <2>3. part \in Seq(Cell) /\ Len(part) = 1 /\ part[1].t \in {"half", "bare"}
    BY <2>1, <2>2
  <2>. QED
    BY <1>1, <2>3 DEF Piece
<1>4. CASE \E k \in 1 .. Len(b) - 1 : part = SubSeq(b, 1, k)
  <2>1. PICK k \in 1 .. Len(b) - 1 : part = SubSeq(b, 1, k)
    BY <1>4
  <2>2. k \in Nat /\ k <= Len(b) /\ \A i \in 1 .. k : b[i] \in Cell
    BY <1>1, ElementOfSeq
  <2>3. part \in Seq(Cell) /\ Len(part) = k /\ \A i \in 1 .. k : part[i] = b[i]
    <3>1. /\ SubSeq(b, 1, k) \in Seq(Cell)
          /\ Len(SubSeq(b, 1, k)) = (IF 1 <= k THEN k - 1 + 1 ELSE 0)
          /\ \A i \in 1 .. k - 1 + 1 : SubSeq(b, 1, k)[i] = b[1 + i - 1]
      BY <2>2, SubSeqProperties
    <3>. QED
      BY <2>1, <2>2, <3>1
  <2>4. b[1].first = first /\ b[1].n = Len(msgs) /\ b[1].t = "head"
    <3>1. b # <<>>
      BY <1>1, EmptySeq
    <3>. QED
      BY <1>1, <3>1 DEF Piece
  <2>5. \A i \in 2 .. Len(b) : b[i].t = "pay" /\ b[i].msg = msgs[i - 1]
    BY <1>1 DEF Piece
  <2>6. \A i \in 2 .. Len(part) : part[i].t = "pay" /\ part[i].msg = msgs[i - 1]
    BY <1>1, <2>2, <2>3, <2>5
  <2>7. part[1] = b[1]
    BY <2>1, <2>3
  <2>8. Len(part) <= 1 + Len(msgs)
    BY <1>1, <2>2, <2>3
  <2>. QED
    BY <2>3, <2>4, <2>6, <2>7, <2>8 DEF Piece
<1>5. part \in {<<>>, <<HalfCell>>, <<BareCell>>} \/ \E k \in 1 .. Len(b) - 1 : part = SubSeq(b, 1, k)
  BY DEF Torn, b
<1>. QED
  BY <1>2, <1>3, <1>4, <1>5


\* Appending a block, or a part of it, to a file whose sound blocks have the
\* numbers before its own.
LEMMA AppendPiece ==
  ASSUME NEW f, FileOK(f), NEW first \in Nat, NEW msgs \in Seq(Nat), NEW part,
         Piece(part, first, msgs), Above(f, first), ~BrokenTail(f),
         AllSound(f) => first = Pays(f, Len(f))
  PROVE  Extends(f, f \o part) /\ FileOK(f \o part)
<1>. DEFINE g == f \o part
            a == Len(f)
<1>1. f \in Seq(Cell) /\ part \in Seq(Cell) /\ a \in Nat /\ Len(part) \in Nat /\ Len(msgs) \in Nat
  BY LenProperties DEF FileOK, Piece
<1>2. /\ g \in Seq(Cell) /\ Len(g) = a + Len(part)
      /\ \A i \in 1 .. a + Len(part) : g[i] = IF i <= a THEN f[i] ELSE part[i - a]
  BY <1>1, ConcatProperties
<1>. HIDE DEF g, a
<1>3. /\ \A i \in 1 .. a : g[i] = f[i]
      /\ \A i \in a + 1 .. Len(g) : g[i] = part[i - a] /\ i - a \in 1 .. Len(part)
  BY <1>1, <1>2
<1>4. ASSUME NEW i \in a + 2 .. Len(g) PROVE g[i].t = "pay"
  <2>1. i \in a + 1 .. Len(g) /\ i - a \in 2 .. Len(part)
    BY <1>1, <1>2
  <2>2. part[i - a].t = "pay"
    BY <2>1 DEF Piece
  <2>. QED
    BY <1>3, <2>1, <2>2
<1>5. ASSUME a < Len(g)
      PROVE  /\ \/ g[a + 1].t \in {"half", "bare"} /\ Len(g) = a + 1
                \/ g[a + 1].t = "head" /\ g[a + 1].first = first /\ g[a + 1].n = Len(msgs)
             /\ Len(g) <= a + 1 + Len(msgs)
  <2>1. Len(part) # 0 /\ part # <<>> /\ g[a + 1] = part[1]
    BY <1>1, <1>2, <1>3, <1>5, EmptySeq
  <2>2. Len(part) <= 1 + Len(msgs)
    BY DEF Piece
  <2>3. \/ part[1].t \in {"half", "bare"} /\ Len(part) = 1
        \/ part[1].t = "head" /\ part[1].first = first /\ part[1].n = Len(msgs)
    BY <2>1 DEF Piece
  <2>4. Len(g) <= a + 1 + Len(msgs) /\ (Len(part) = 1 => Len(g) = a + 1)
    <3>1. Len(g) = a + Len(part)
      BY <1>2
    <3>2. a \in Nat /\ Len(part) \in Nat /\ Len(msgs) \in Nat
      BY <1>1
    <3>3. \A x, y, z \in Nat : \A w : w = x + y /\ y <= 1 + z =>
              w <= x + 1 + z /\ (y = 1 => w = x + 1)
      OBVIOUS
    <3>. QED
      BY <3>1, <3>2, <3>3, <2>2, Zenon
  <2>. QED
    BY <2>1, <2>3, <2>4
<1>6. Extends(f, g)
  BY <1>1, <1>2, <1>3, <1>5 DEF Extends, a
<1>7. /\ \A i \in 0 .. a : SoundTo(g, i) <=> SoundTo(f, i)
      /\ \A i \in 1 .. a : SoundHead(g, i) <=> SoundHead(f, i)
      /\ \A i \in 0 .. a : Pays(g, i) = Pays(f, i)
  BY <1>1, <1>2, <1>6, SoundLater DEF a
<1>8. ASSUME NEW i \in 1 .. Len(g), g[i].t = "pay"
      PROVE  \E j \in 1 .. i - 1 : g[j].t = "head" /\ i <= j + g[j].n
  <2>1. CASE i <= a
    <3>1. i \in 1 .. Len(f) /\ f[i].t = "pay"
      BY <1>1, <1>3, <1>8, <2>1 DEF a
    <3>2. PICK j \in 1 .. i - 1 : f[j].t = "head" /\ i <= j + f[j].n
      BY <3>1 DEF FileOK, Owned
    <3>3. j \in 1 .. a
      BY <1>1, <2>1, <3>2
    <3>. QED
      BY <1>3, <3>2, <3>3
  <2>2. CASE a < i
    <3>1. a < Len(g) /\ i # a + 1
      BY <1>1, <1>2, <1>5, <1>8, <2>2
    <3>2. g[a + 1].t = "head" /\ g[a + 1].n = Len(msgs) /\ Len(g) <= a + 1 + Len(msgs)
      BY <1>1, <1>2, <1>5, <2>2, <3>1
    <3>3. a + 1 \in 1 .. i - 1 /\ i <= (a + 1) + g[a + 1].n
      <4>1. a + 1 \in 1 .. i - 1
        BY <1>1, <1>2, <2>2, <3>1
      <4>2. i <= (a + 1) + Len(msgs)
        BY <1>1, <1>2, <2>2, <3>1, <3>2
      <4>. QED
        BY <3>2, <4>1, <4>2
    <3>. QED
      BY <3>2, <3>3
  <2>. QED
    BY <1>1, <1>2, <2>1, <2>2
<1>9. ASSUME NEW i \in 1 .. Len(g), SoundHead(g, i) PROVE g[i].first = Pays(g, i)
  <2>1. CASE i <= a
    <3>1. i \in 1 .. Len(f) /\ SoundHead(f, i) /\ g[i] = f[i] /\ Pays(g, i) = Pays(f, i)
      BY <1>1, <1>3, <1>7, <1>9, <2>1 DEF a
    <3>. QED
      BY <3>1 DEF FileOK, Numbered
  <2>2. CASE a < i
    <3>1. g[i].t = "head" /\ SoundTo(g, i)
      BY <1>9 DEF SoundHead
    <3>2. i = a + 1 /\ a < Len(g)
      BY <1>1, <1>2, <1>4, <2>2, <3>1
    <3>3. g[a + 1].t = "head" /\ g[a + 1].first = first
      BY <1>5, <3>1, <3>2
    <3>4. SoundTo(f, a)
      <4>1. SoundTo(g, a)
        BY <1>1, <3>1, <3>2 DEF SoundTo
      <4>2. a \in 0 .. a
        BY <1>1
      <4>. QED
        BY <1>7, <4>1, <4>2
    <3>5. first = Pays(f, a)
      BY <3>4 DEF AllSound, a
    <3>6. Pays(g, a + 1) = Pays(g, a)
      BY <1>1, <3>3, PaysNone
    <3>7. Pays(g, a) = Pays(f, a)
      BY <1>1, <1>7
    <3>. QED
      BY <3>2, <3>3, <3>5, <3>6, <3>7
  <2>. QED
    BY <1>1, <1>2, <2>1, <2>2
<1>10. ASSUME NEW i \in 1 .. Len(g), NEW k \in 1 .. Len(g),
              SoundHead(g, i), g[k].t = "head", i < k
       PROVE  g[i].first + g[i].n <= g[k].first
  <2>1. k <= a + 1
    BY <1>1, <1>2, <1>4, <1>10
  <2>2. /\ i \in 1 .. a /\ i \in 1 .. Len(f) /\ SoundHead(f, i) /\ g[i] = f[i]
    BY <1>1, <1>2, <1>3, <1>7, <1>10, <2>1 DEF a
  <2>3. CASE k <= a
    <3>1. k \in 1 .. Len(f) /\ f[k].t = "head" /\ g[k] = f[k]
      BY <1>1, <1>3, <1>10, <2>3 DEF a
    <3>. QED
      BY <1>10, <2>2, <3>1 DEF FileOK, Ordered
  <2>4. CASE k = a + 1
    <3>1. a < Len(g)
      BY <1>1, <1>2, <2>4
    <3>2. g[k].first = first
      BY <1>5, <1>10, <2>4, <3>1
    <3>. QED
      BY <2>2, <3>2 DEF Above
  <2>. QED
    BY <1>1, <2>1, <2>3, <2>4
<1>11. ASSUME NEW i \in 1 .. Len(g), g[i].t = "half", SoundTo(g, i - 1) PROVE i = Len(g)
  <2>1. CASE i <= a
    <3>1. i \in 1 .. Len(f) /\ f[i].t = "half" /\ i - 1 \in 0 .. a
      BY <1>1, <1>3, <1>11, <2>1 DEF a
    <3>2. SoundTo(f, i - 1)
      BY <1>7, <1>11, <3>1
    <3>3. i = a
      BY <3>1, <3>2 DEF FileOK, HalfLast, a
    <3>4. BrokenTail(f)
      BY <3>1, <3>2, <3>3, EmptySeq DEF BrokenTail, a
    <3>. QED
      BY <3>4
  <2>2. CASE a < i
    <3>1. i = a + 1 /\ a < Len(g)
      BY <1>1, <1>2, <1>4, <1>11, <2>2
    <3>. QED
      BY <1>5, <1>11, <3>1
  <2>. QED
    BY <1>1, <1>2, <2>1, <2>2
<1>12. FileOK(g)
  BY <1>2, <1>8, <1>9, <1>10, <1>11 DEF FileOK, Owned, Numbered, Ordered, HalfLast
<1>. QED
  BY <1>6, <1>12 DEF g

\* File g is f with a whole block of msgs after it, and counts its messages.
Appended(f, first, msgs, g) ==
    /\ Extends(f, g) /\ FileOK(g) /\ Len(g) = Len(f) + 1 + Len(msgs)
    /\ g[Len(f) + 1].t = "head" /\ g[Len(f) + 1].first = first /\ g[Len(f) + 1].n = Len(msgs)
    /\ \A k \in 1 .. Len(msgs) : /\ g[Len(f) + 1 + k].t = "pay"
                                 /\ g[Len(f) + 1 + k].msg = msgs[k]
                                 /\ Pays(g, Len(f) + 1 + k) = Pays(f, Len(f)) + k
    /\ Pays(g, Len(g)) = Pays(f, Len(f)) + Len(msgs)

\* Appending a whole block.
LEMMA AppendBlock ==
  ASSUME NEW f, FileOK(f), NEW first \in Nat, NEW msgs \in Seq(Nat), Above(f, first),
         ~BrokenTail(f), AllSound(f) => first = Pays(f, Len(f)),
         NEW g, g = f \o Block(first, msgs)
  PROVE  Appended(f, first, msgs, g)
<1>. DEFINE b == Block(first, msgs)
            a == Len(f)
<1>1. /\ f \in Seq(Cell) /\ b \in Seq(Cell) /\ a \in Nat /\ Len(msgs) \in Nat
      /\ Piece(b, first, msgs) /\ Len(b) = 1 + Len(msgs) /\ b[1].t = "head"
      /\ g = f \o b
  BY BlockFacts, LenProperties DEF FileOK
<1>. HIDE DEF b
<1>2. Extends(f, g) /\ FileOK(g)
  BY <1>1, AppendPiece
<1>3. /\ Len(g) = a + Len(b)
      /\ \A i \in 1 .. a + Len(b) : g[i] = IF i <= a THEN f[i] ELSE b[i - a]
  <2>1. /\ Len(f \o b) = Len(f) + Len(b)
        /\ \A i \in 1 .. Len(f) + Len(b) : (f \o b)[i] = IF i <= Len(f) THEN f[i] ELSE b[i - Len(f)]
    <3>1. f \in Seq(Cell) /\ b \in Seq(Cell)
      BY <1>1
    <3>. QED
      BY <3>1, ConcatProperties, Zenon
  <2>2. g = f \o b
    BY <1>1
  <2>. QED
    BY <2>1, <2>2, Zenon
<1>4. b[1].first = first /\ b[1].n = Len(msgs)
  <2>1. b # <<>>
    BY <1>1, EmptySeq
  <2>. QED
    BY <1>1, <2>1 DEF Piece
<1>5. \A k \in 2 .. Len(b) : b[k].t = "pay" /\ b[k].msg = msgs[k - 1]
  BY <1>1 DEF Piece
<1>6. g[a + 1] = b[1]
  BY <1>1, <1>3
<1>7. \A k \in 1 .. Len(msgs) : g[a + 1 + k] = b[k + 1] /\ k + 1 \in 2 .. Len(b)
  BY <1>1, <1>3
<1>8. ASSUME NEW k \in 1 .. Len(msgs)
      PROVE  g[a + 1 + k].t = "pay" /\ g[a + 1 + k].msg = msgs[k]
  <2>1. (k + 1) - 1 = k /\ k + 1 \in 2 .. Len(b) /\ g[a + 1 + k] = b[k + 1]
    BY <1>1, <1>7
  <2>. QED
    BY <1>5, <2>1
<1>9. Pays(g, a + 1) = Pays(f, a)
  <2>1. Pays(g, a + 1) = Pays(g, a)
    BY <1>1, <1>6, PaysNone
  <2>2. Pays(g, a) = Pays(f, a)
    <3>1. g \in Seq(Cell) /\ a \in 0 .. a
      BY <1>1, <1>2 DEF FileOK
    <3>2. \A i \in 0 .. a : Pays(g, i) = Pays(f, i)
      BY <1>1, <1>2, <3>1, SoundLater
    <3>. QED
      BY <3>1, <3>2
  <2>. QED
    BY <2>1, <2>2
<1>10. ASSUME NEW k \in 0 .. Len(msgs) PROVE Pays(g, a + 1 + k) = Pays(f, a) + k
  <2>1. /\ a + 1 \in Nat /\ k \in Nat
        /\ \A j \in (a + 1) + 1 .. (a + 1) + k : g[j].t = "pay"
    <3>1. ASSUME NEW j \in (a + 1) + 1 .. (a + 1) + k PROVE g[j].t = "pay"
      <4>1. j - (a + 1) \in 1 .. Len(msgs) /\ a + 1 + (j - (a + 1)) = j
        BY <1>1
      <4>. QED
        BY <1>8, <4>1
    <3>. QED
      BY <1>1, <3>1
  <2>2. Pays(g, (a + 1) + k) = Pays(g, a + 1) + k
    BY <2>1, PaysRun
  <2>. QED
    BY <1>9, <2>2
<1>11. Pays(g, Len(g)) = Pays(f, a) + Len(msgs)
  <2>1. Len(g) = a + 1 + Len(msgs) /\ Len(msgs) \in 0 .. Len(msgs)
    BY <1>1, <1>3
  <2>. QED
    BY <1>10, <2>1
<1>. QED
  <2>1. \A k \in 1 .. Len(msgs) : Pays(g, a + 1 + k) = Pays(f, a) + k
    BY <1>1, <1>10
  <2>2. Len(g) = a + 1 + Len(msgs)
    BY <1>1, <1>3
  <2>. QED
    BY <1>1, <1>2, <1>4, <1>6, <1>8, <1>11, <2>1, <2>2 DEF Appended


-----------------------------------------------------------------------------
(* What was given to the writer is kept. *)

\* Nothing was given yet.
LEMMA KeptFresh ==
  ASSUME NEW f \in Seq(Cell)
  PROVE  Kept(f, <<>>, <<>>)
<1>1. Len(f) \in Nat /\ Len(<<>>) = 0 /\ Pays(f, Len(f)) \in Nat
  BY LenProperties, PaysType
<1>2. ASSUME NEW i \in 1 .. Len(f)
      PROVE  Pays(f, i) \in Nat /\ Pays(f, i) <= Pays(f, Len(f))
  <2>1. i \in Nat /\ i <= Len(f)
    BY <1>1
  <2>. QED
    BY <1>1, <2>1, PaysType, PaysGrow
<1>3. Pays(f, Len(f)) + Len(<<>>) - Len(<<>>) = Pays(f, Len(f))
  BY <1>1
<1>. QED
  BY <1>1, <1>2, <1>3 DEF Kept

\* One message more, into the buffer.
LEMMA KeptGiven ==
  ASSUME NEW f \in Seq(Cell), NEW gave \in Seq(Nat), NEW buf \in Seq(Nat), Kept(f, gave, buf),
         NEW m \in Nat
  PROVE  Kept(f, Append(gave, m), Append(buf, m))
<1>. DEFINE total == Pays(f, Len(f))
            before == total + Len(buf) - Len(gave)
            gave2 == Append(gave, m)
            buf2 == Append(buf, m)
<1>1. Len(f) \in Nat /\ total \in Nat /\ Len(gave) \in Nat /\ Len(buf) \in Nat
  BY LenProperties, PaysType
<1>2. /\ Len(gave2) = Len(gave) + 1 /\ gave2[Len(gave) + 1] = m
      /\ \A i \in 1 .. Len(gave) : gave2[i] = gave[i]
  BY AppendProperties
<1>3. /\ Len(buf2) = Len(buf) + 1 /\ buf2[Len(buf) + 1] = m
      /\ \A i \in 1 .. Len(buf) : buf2[i] = buf[i]
  BY AppendProperties
<1>4. /\ before >= 0 /\ before \in Int
      /\ \A i \in 1 .. Len(f) :
            f[i].t = "pay" /\ Pays(f, i) > before => f[i].msg = gave[Pays(f, i) - before]
      /\ \A k \in 1 .. Len(buf) : total + k > before => buf[k] = gave[total + k - before]
  BY <1>1 DEF Kept
<1>. HIDE DEF gave2, buf2, total
<1>5. total + Len(buf2) - Len(gave2) = before
  BY <1>1, <1>2, <1>3
<1>6. ASSUME NEW i \in 1 .. Len(f), f[i].t = "pay", Pays(f, i) > before
      PROVE  f[i].msg = gave2[Pays(f, i) - before]
  <2>1. Pays(f, i) \in Nat /\ Pays(f, i) <= total
    <3>1. i \in Nat /\ i <= Len(f)
      BY <1>1
    <3>. QED
      BY <1>1, <3>1, PaysType, PaysGrow DEF total
  <2>2. Pays(f, i) - before \in 1 .. Len(gave)
    BY <1>1, <1>4, <1>6, <2>1
  <2>. QED
    BY <1>2, <1>4, <1>6, <2>2
<1>7. ASSUME NEW k \in 1 .. Len(buf2), total + k > before
      PROVE  buf2[k] = gave2[total + k - before]
  <2>1. CASE k <= Len(buf)
    <3>1. k \in 1 .. Len(buf) /\ total + k - before \in 1 .. Len(gave)
      BY <1>1, <1>3, <1>4, <1>7, <2>1
    <3>. QED
      BY <1>2, <1>3, <1>4, <1>7, <3>1
  <2>2. CASE k = Len(buf) + 1
    <3>1. total + k - before = Len(gave) + 1
      BY <1>1, <2>2
    <3>. QED
      BY <1>2, <1>3, <2>2, <3>1
  <2>. QED
    BY <1>1, <1>3, <2>1, <2>2
<1>8. Kept(f, gave2, buf2)
  <2>1. before >= 0
    BY <1>4
  <2>. HIDE DEF before
  <2>. QED
    BY <1>5, <1>6, <1>7, <2>1 DEF Kept, total
<1>. QED
  BY <1>8 DEF gave2, buf2

\* The buffer is written to the file.
LEMMA KeptWritten ==
  ASSUME NEW f, FileOK(f), NEW first \in Nat, NEW buf \in Seq(Nat),
         NEW g, Appended(f, first, buf, g),
         NEW gave \in Seq(Nat), Kept(f, gave, buf)
  PROVE  Kept(g, gave, <<>>)
<1>. DEFINE total == Pays(f, Len(f))
            before == total + Len(buf) - Len(gave)
<1>1. /\ Len(f) \in Nat /\ total \in Nat /\ Len(gave) \in Nat /\ Len(buf) \in Nat
      /\ f \in Seq(Cell)
  BY LenProperties, PaysType DEF FileOK
<1>2. /\ Extends(f, g) /\ FileOK(g) /\ Len(g) = Len(f) + 1 + Len(buf)
      /\ g[Len(f) + 1].t = "head"
      /\ \A k \in 1 .. Len(buf) : /\ g[Len(f) + 1 + k].t = "pay"
                                  /\ g[Len(f) + 1 + k].msg = buf[k]
                                  /\ Pays(g, Len(f) + 1 + k) = total + k
      /\ Pays(g, Len(g)) = total + Len(buf)
  BY DEF Appended
<1>3. /\ before >= 0
      /\ \A i \in 1 .. Len(f) :
            f[i].t = "pay" /\ Pays(f, i) > before => f[i].msg = gave[Pays(f, i) - before]
      /\ \A k \in 1 .. Len(buf) : total + k > before => buf[k] = gave[total + k - before]
  BY DEF Kept
<1>4. /\ \A i \in 1 .. Len(f) : g[i] = f[i]
      /\ \A i \in 0 .. Len(f) : Pays(g, i) = Pays(f, i)
  <2>1. g \in Seq(Cell)
    BY <1>2 DEF FileOK
  <2>. QED
    BY <1>1, <1>2, <2>1, SoundLater DEF Extends
<1>5. Pays(g, Len(g)) + Len(<<>>) - Len(gave) = before
  <2>1. Len(<<>>) = 0
    OBVIOUS
  <2>2. Pays(g, Len(g)) = total + Len(buf)
    BY <1>2
  <2>. QED
    BY <1>1, <2>1, <2>2
<1>. HIDE DEF total, before
<1>6. ASSUME NEW i \in 1 .. Len(g), g[i].t = "pay", Pays(g, i) > before
      PROVE  g[i].msg = gave[Pays(g, i) - before]
  <2>1. CASE i <= Len(f)
    <3>1. i \in 1 .. Len(f) /\ i \in 0 .. Len(f)
      BY <1>1, <2>1
    <3>. QED
      BY <1>3, <1>4, <1>6, <3>1
  <2>2. CASE i = Len(f) + 1
    BY <1>2, <1>6, <2>2
  <2>3. CASE i > Len(f) + 1
    <3>1. PICK k \in 1 .. Len(buf) : i = Len(f) + 1 + k
      <4>1. i - (Len(f) + 1) \in 1 .. Len(buf) /\ i = Len(f) + 1 + (i - (Len(f) + 1))
        BY <1>1, <1>2, <2>3
      <4>. QED
        BY <4>1
    <3>2. g[i].msg = buf[k] /\ Pays(g, i) = total + k
      BY <1>2, <3>1
    <3>3. total + k > before
      BY <1>6, <3>2
    <3>4. buf[k] = gave[total + k - before]
      BY <1>3, <3>3
    <3>5. Pays(g, i) - before = total + k - before
      <4>1. total \in Int /\ k \in Int /\ before \in Int
        BY <1>1 DEF before
      <4>. QED
        BY <3>2, <4>1
    <3>. QED
      BY <3>2, <3>4, <3>5
  <2>. QED
    BY <1>1, <1>2, <2>1, <2>2, <2>3
<1>7. \A k \in 1 .. Len(<<>>) : FALSE
  OBVIOUS
<1>. QED
  BY <1>3, <1>5, <1>6, <1>7 DEF Kept


-----------------------------------------------------------------------------
(* The writer. *)

\* Flush of w takes file f to g and w to v.
FlushTo(f, w, g, v) ==
    \/ /\ g = f \o Block(w.first, w.buf)
       /\ v = [w EXCEPT !.first = @ + Len(w.buf), !.buf = <<>>]
    \/ /\ \E part \in Torn(Block(w.first, w.buf)) : g = f \o part
       /\ v = [w EXCEPT !.fail = TRUE]

\* A writer that may go on may do so after a flush that succeeds.
LEMMA Flushed ==
  ASSUME NEW f, FileOK(f), NEW w \in WriteFile, Fits(f, w.first),
         NEW gave \in Seq(Nat), Kept(f, gave, w.buf),
         NEW g, NEW v, FlushTo(f, w, g, v)
  PROVE  /\ Extends(f, g) /\ FileOK(g) /\ v \in WriteFile /\ v.at = w.at
         /\ ~v.fail => Fits(g, v.first) /\ Kept(g, gave, v.buf) /\ v.buf = <<>>
<1>1. /\ w.at \in {"closed", "unopened", "opening", "open"} /\ w.first \in Nat /\ w.buf \in Seq(Nat)
      /\ Len(w.buf) \in Nat /\ w.fail \in BOOLEAN
  BY LenProperties DEF WriteFile
<1>2. Above(f, w.first) /\ ~BrokenTail(f) /\ (AllSound(f) => w.first = Pays(f, Len(f)))
  BY DEF Fits
<1>3. CASE g = f \o Block(w.first, w.buf) /\ v = [w EXCEPT !.first = @ + Len(w.buf), !.buf = <<>>]
  <2>1. /\ v \in WriteFile /\ v.at = w.at /\ v.first = w.first + Len(w.buf) /\ v.buf = <<>>
    <3>1. <<>> \in Seq(Nat) /\ w.first + Len(w.buf) \in Nat
      BY <1>1, EmptySeq
    <3>. QED
      BY <1>3, <3>1 DEF WriteFile
  <2>2. Appended(f, w.first, w.buf, g)
    BY <1>1, <1>2, <1>3, AppendBlock
  <2>. HIDE <1>3
  <2>3. /\ Extends(f, g) /\ FileOK(g) /\ Len(g) = Len(f) + 1 + Len(w.buf)
        /\ g[Len(f) + 1].t = "head" /\ g[Len(f) + 1].first = w.first /\ g[Len(f) + 1].n = Len(w.buf)
        /\ \A k \in 1 .. Len(w.buf) : g[Len(f) + 1 + k].t = "pay"
        /\ Pays(g, Len(g)) = Pays(f, Len(f)) + Len(w.buf)
    BY <2>2 DEF Appended
  <2>4. /\ f \in Seq(Cell) /\ g \in Seq(Cell) /\ Len(f) \in Nat /\ Len(g) \in Nat
        /\ \A i \in 1 .. Len(f) : g[i] = f[i]
    BY <2>3, LenProperties DEF FileOK, Extends
  <2>5. /\ \A i \in 0 .. Len(f) : SoundTo(g, i) <=> SoundTo(f, i)
        /\ \A i \in 1 .. Len(f) : SoundHead(g, i) <=> SoundHead(f, i)
    BY <2>3, <2>4, SoundLater
  <2>6. ASSUME NEW i \in 1 .. Len(g), SoundHead(g, i)
        PROVE  g[i].first + g[i].n <= w.first + Len(w.buf)
    <3>1. CASE i <= Len(f)
      <4>1. i \in 1 .. Len(f) /\ SoundHead(f, i) /\ g[i] = f[i]
        BY <2>4, <2>5, <2>6, <3>1
      <4>2. f[i].first \in Nat /\ f[i].n \in Nat /\ f[i].first + f[i].n <= w.first
        BY <1>2, <2>4, <4>1, CellFacts DEF Above
      <4>. QED
        BY <1>1, <4>1, <4>2
    <3>2. CASE i = Len(f) + 1
      BY <1>1, <2>3, <3>2
    <3>3. CASE i > Len(f) + 1
      <4>1. i - (Len(f) + 1) \in 1 .. Len(w.buf) /\ Len(f) + 1 + (i - (Len(f) + 1)) = i
        <5>1. /\ Len(f) \in Nat /\ Len(w.buf) \in Nat /\ Len(g) = Len(f) + 1 + Len(w.buf)
              /\ i \in Int /\ i <= Len(g) /\ i > Len(f) + 1
          <6>1. Len(f) \in Nat /\ Len(w.buf) \in Nat /\ Len(g) \in Nat
            BY <1>1, <2>4
          <6>2. Len(g) = Len(f) + 1 + Len(w.buf)
            BY <2>3
          <6>3. i \in Int /\ i <= Len(g)
            BY <6>1
          <6>. QED
            BY <6>1, <6>2, <6>3, <3>3, Zenon
        <5>2. \A x, y \in Nat, j, z \in Int : z = x + 1 + y /\ j <= z /\ j > x + 1 =>
                  j - (x + 1) \in 1 .. y /\ x + 1 + (j - (x + 1)) = j
          OBVIOUS
        <5>3. Len(g) \in Int
          BY <2>4
        <5>. QED
          BY <5>1, <5>2, <5>3
      <4>2. g[i].t = "pay"
        BY <2>3, <4>1
      <4>. QED
        BY <2>6, <4>2 DEF SoundHead
    <3>. QED
      BY <2>4, <3>1, <3>2, <3>3
  <2>7. g[Len(g)].t # "half"
    <3>1. CASE Len(w.buf) = 0
      BY <2>3, <2>4, <3>1
    <3>2. CASE Len(w.buf) > 0
      <4>1. Len(w.buf) \in 1 .. Len(w.buf)
        BY <1>1, <3>2
      <4>. QED
        BY <2>3, <4>1
    <3>. QED
      BY <1>1, <3>1, <3>2
  <2>8. AllSound(g) => v.first = Pays(g, Len(g))
    <3>1. AllSound(g) => AllSound(f)
      <4>1. AllSound(g) => SoundTo(g, Len(f))
        <5>1. Len(f) \in Nat /\ Len(g) \in Nat /\ Len(f) <= Len(g)
          BY <2>3, <2>4 DEF Extends
        <5>. QED
          BY <5>1 DEF AllSound, SoundTo
      <4>2. Len(f) \in 0 .. Len(f)
        BY <2>4
      <4>. QED
        BY <2>5, <4>1, <4>2 DEF AllSound
    <3>. QED
      BY <1>2, <2>1, <2>3, <3>1
  <2>9. Kept(g, gave, <<>>)
    BY <1>1, <2>2, KeptWritten
  <2>10. Fits(g, v.first)
    BY <2>1, <2>6, <2>7, <2>8 DEF Fits, Above, BrokenTail
  <2>. QED
    BY <2>1, <2>3, <2>9, <2>10
<1>4. CASE /\ \E part \in Torn(Block(w.first, w.buf)) : g = f \o part
           /\ v = [w EXCEPT !.fail = TRUE]
  <2>1. PICK part \in Torn(Block(w.first, w.buf)) : g = f \o part
    BY <1>4
  <2>2. Piece(part, w.first, w.buf)
    BY <1>1, <2>1, TornFacts
  <2>3. Extends(f, f \o part) /\ FileOK(f \o part)
    BY <1>1, <1>2, <2>2, AppendPiece
  <2>4. v \in WriteFile /\ v.at = w.at /\ v.fail
    BY <1>4 DEF WriteFile
  <2>. QED
    BY <2>1, <2>3, <2>4
<1>. QED
  BY <1>3, <1>4 DEF FlushTo


-----------------------------------------------------------------------------
(* A scan. *)

\* The fields of a scanner.
LEMMA ReadFields ==
  ASSUME NEW f \in ReadFile
  PROVE  /\ f.at \in {"closed", "idle", "scan", "load", "found", "returned"}
         /\ f.seek \in Int /\ f.pos \in Nat /\ f.eof \in BOOLEAN /\ f.fail \in BOOLEAN
         /\ f.first \in Nat /\ f.n \in Nat /\ f.cbuf \in Seq(Nat) /\ f.buf \in Seq(Nat)
         /\ f.result \in Int
BY DEF ReadFile

\* Where a seek lands.
LEMMA SkipFacts ==
  ASSUME file \in Seq(Cell), NEW i \in Nat, NEW n \in Nat, NEW p \in SkipTo(i, n)
  PROVE  /\ p \in Nat
         /\ PayloadAt(i, n) => p = i + n
         /\ i <= Len(file) => i <= p
<1>. Len(file) \in Nat
  BY LenProperties
<1>. QED
  BY DEF SkipTo

\* The sound cells are those the invariant speaks of.
LEMMA SoundIs ==
  ASSUME file \in Seq(Cell)
  PROVE  /\ Sound = {i \in 1 .. Len(file) : SoundTo(file, i)}
         /\ SoundHeads = {i \in 1 .. Len(file) : SoundHead(file, i)}
         /\ DOMAIN file = 1 .. Len(file)
<1>1. DOMAIN file = 1 .. Len(file) /\ Len(file) \in Nat
  BY LenProperties
<1>2. ASSUME NEW j \in 1 .. Len(file)
      PROVE  Good(file, j) <=> file[j].t \notin {"half", "bare"} /\ (j \in Heads => Whole(j))
  BY <1>1 DEF Good, Heads, Whole, PayloadAt
<1>3. ASSUME NEW i \in 1 .. Len(file)
      PROVE  i \in Sound <=> SoundTo(file, i)
  BY <1>1, <1>2 DEF Sound, SoundTo
<1>4. ASSUME NEW i PROVE i \in SoundHeads <=> i \in 1 .. Len(file) /\ SoundHead(file, i)
  BY <1>1, <1>3 DEF SoundHeads, Heads, Sound, SoundHead
<1>5. Sound = {i \in 1 .. Len(file) : SoundTo(file, i)}
  BY <1>1, <1>3 DEF Sound
<1>. QED
  BY <1>1, <1>4, <1>5

\* What is no header, and is read as one, has a number past the sound blocks.
\* Such a reading takes scanner f to g.
Astray(f, g) ==
    \E x \in Nat, n \in Nat, p \in f.pos + 1 .. Len(file) + 1 :
        /\ Above(file, x)
        /\ \/ /\ f.seek # End
              /\ g = [f EXCEPT !.at = "load", !.pos = p, !.first = x, !.n = n]
           \/ /\ f.seek = End \/ x + n <= f.seek
              /\ g = [f EXCEPT !.at = "scan", !.pos = p, !.first = x, !.n = n]
LEMMA MistakenCases ==
  ASSUME file \in Seq(Cell), NEW f \in ReadFile, NEW g \in Mistaken(f)
  PROVE  Astray(f, g)
<1>1. PICK x \in Misnumbers, n \in Strays, p \in Onward(f) : g = MistakenFor(f, x, n, p)
  BY DEF Mistaken
<1>. DEFINE h == [f EXCEPT !.pos = p, !.first = x, !.n = n]
<1>2. x \in Nat /\ n \in Nat /\ p \in f.pos + 1 .. Len(file) + 1 /\ f.seek \in Int
  BY FileAssumption, ReadFields DEF Misnumbers, Onward
<1>3. Above(file, x)
  BY SoundIs DEF Misnumbers, Above
<1>4. Reached(h) <=> f.seek # End /\ x + n > f.seek
  <2>1. h.seek = f.seek /\ h.first = x /\ h.n = n
    BY DEF ReadFile
  <2>. QED
    BY <2>1 DEF Reached
<1>5. CASE Reached(h)
  <2>1. g = [f EXCEPT !.at = "load", !.pos = p, !.first = x, !.n = n]
    BY <1>1, <1>5 DEF MistakenFor, ReadFile
  <2>. QED
    BY <1>2, <1>3, <1>4, <1>5, <2>1 DEF Astray
<1>6. CASE ~Reached(h)
  <2>1. g = [f EXCEPT !.at = "scan", !.pos = p, !.first = x, !.n = n]
    BY <1>1, <1>6 DEF MistakenFor, ReadFile
  <2>2. f.seek = End \/ x + n <= f.seek
    BY <1>2, <1>4, <1>6
  <2>. QED
    BY <1>2, <1>3, <2>1, <2>2 DEF Astray
<1>. QED
  BY <1>5, <1>6

\* What reading a header does: at the end, at a whole or torn block that is
\* sought or skipped, at a torn header, within the payload of a torn block.
LEMMA ReadHeadCases ==
  ASSUME file \in Seq(Cell), NEW f \in ReadFile, NEW g \in ReadHead(f)
  PROVE  \/ /\ Reached(f) \/ f.fail \/ f.eof
            /\ g = [f EXCEPT !.at = "found"]
         \/ /\ ~Reached(f) /\ ~f.fail /\ ~f.eof /\ f.pos >= Len(file)
            /\ g = [f EXCEPT !.at = "found", !.eof = TRUE]
         \/ /\ ~Reached(f) /\ ~f.fail /\ ~f.eof /\ f.pos < Len(file)
            /\ file[f.pos + 1].t = "head"
            /\ f.seek # End /\ file[f.pos + 1].first + file[f.pos + 1].n > f.seek
            /\ g = [f EXCEPT !.at = "load", !.pos = f.pos + 1, !.first = file[f.pos + 1].first,
                             !.n = file[f.pos + 1].n]
         \/ /\ ~Reached(f) /\ ~f.fail /\ ~f.eof /\ f.pos < Len(file)
            /\ file[f.pos + 1].t = "head"
            /\ f.seek = End \/ file[f.pos + 1].first + file[f.pos + 1].n <= f.seek
            /\ \E p \in SkipTo(f.pos + 1, file[f.pos + 1].n) :
                  g = [f EXCEPT !.pos = p, !.first = file[f.pos + 1].first,
                                !.n = file[f.pos + 1].n]
         \/ /\ ~Reached(f) /\ ~f.fail /\ ~f.eof /\ f.pos < Len(file)
            /\ file[f.pos + 1].t # "head"
            /\ \/ g = [f EXCEPT !.at = "found", !.fail = TRUE]
               \/ /\ file[f.pos + 1].t = "bare" /\ f.pos + 1 = Len(file)
                  /\ g = [f EXCEPT !.at = "found", !.eof = TRUE, !.pos = f.pos + 1]
               \/ /\ file[f.pos + 1].t # "bare"
                  /\ file[f.pos + 1].t = "half" => f.pos + 1 # Len(file)
                  /\ \/ g = [f EXCEPT !.at = "found", !.eof = TRUE]
                     \/ \E p \in f.pos + 1 .. Len(file) + 1 : g = [f EXCEPT !.pos = p]
               \/ /\ file[f.pos + 1].t \in {"half", "bare"} => f.pos + 1 # Len(file)
                  /\ Astray(f, g)
<1>1. f.pos \in Nat /\ Len(file) \in Nat /\ f.seek \in Int
  BY ReadFields, LenProperties
<1>2. CASE Reached(f) \/ ~CanRead(f)
  BY <1>2 DEF ReadHead, Scanned, CanRead
<1>3. CASE ~(Reached(f) \/ ~CanRead(f)) /\ f.pos >= Len(file)
  <2>1. g = Ended(f)
    BY <1>3 DEF ReadHead
  <2>2. Ended(f) = [f EXCEPT !.at = "found", !.eof = TRUE]
    BY DEF Ended, Scanned
  <2>. QED
    BY <1>3, <2>1, <2>2 DEF CanRead
<1>4. CASE ~(Reached(f) \/ ~CanRead(f)) /\ ~(f.pos >= Len(file))
  <2>. DEFINE cell == file[f.pos + 1]
              h == [f EXCEPT !.pos = @ + 1, !.first = cell.first, !.n = cell.n]
  <2>1. f.pos < Len(file) /\ cell.t \in {"head", "half", "bare", "pay"} /\ cell.first \in Nat /\ cell.n \in Nat
    <3>1. f.pos + 1 \in 1 .. Len(file) /\ f.pos < Len(file)
      BY <1>1, <1>4
    <3>. QED
      BY <3>1, CellFacts
  <2>2. h.seek = f.seek /\ h.pos = f.pos + 1 /\ h.first = cell.first /\ h.n = cell.n
    BY DEF ReadFile
  <2>3. CASE cell.t = "head" /\ Reached(h)
    <3>1. g = [h EXCEPT !.at = "load"]
      BY <1>4, <2>3 DEF ReadHead
    <3>2. [h EXCEPT !.at = "load"]
          = [f EXCEPT !.at = "load", !.pos = f.pos + 1, !.first = cell.first, !.n = cell.n]
      BY DEF ReadFile
    <3>3. f.seek # End /\ cell.first + cell.n > f.seek
      BY <2>2, <2>3 DEF Reached
    <3>. QED
      BY <1>4, <2>1, <2>3, <3>1, <3>2, <3>3 DEF CanRead
  <2>4. CASE cell.t = "head" /\ ~Reached(h)
    <3>1. g \in {[h EXCEPT !.pos = p] : p \in SkipTo(h.pos, h.n)}
      BY <1>4, <2>4 DEF ReadHead
    <3>2. PICK p \in SkipTo(f.pos + 1, cell.n) : g = [h EXCEPT !.pos = p]
      BY <2>2, <3>1
    <3>3. [h EXCEPT !.pos = p] = [f EXCEPT !.pos = p, !.first = cell.first, !.n = cell.n]
      BY DEF ReadFile
    <3>4. f.seek = End \/ cell.first + cell.n <= f.seek
      BY <1>1, <2>1, <2>2, <2>4 DEF Reached
    <3>5. g = [f EXCEPT !.pos = p, !.first = cell.first, !.n = cell.n]
      BY <3>2, <3>3
    <3>. QED
      BY <1>4, <2>1, <2>4, <3>4, <3>5 DEF CanRead
  <2>5. Failed(f) = [f EXCEPT !.at = "found", !.fail = TRUE]
    BY DEF Failed, Scanned
  <2>6. CASE cell.t = "half" /\ f.pos + 1 = Len(file)
    <3>1. g = Failed(f)
      BY <1>4, <2>6 DEF ReadHead
    <3>. QED
      BY <1>4, <2>1, <2>5, <2>6, <3>1 DEF CanRead
  <2>7. CASE cell.t = "bare" /\ f.pos + 1 = Len(file)
    <3>1. g = [Ended(f) EXCEPT !.pos = @ + 1]
      BY <1>4, <2>7 DEF ReadHead
    <3>2. [Ended(f) EXCEPT !.pos = @ + 1] = [f EXCEPT !.at = "found", !.eof = TRUE, !.pos = f.pos + 1]
      BY DEF Ended, Scanned, ReadFile
    <3>. QED
      BY <1>4, <2>1, <2>7, <3>1, <3>2 DEF CanRead
  <2>8. CASE cell.t = "bare" /\ f.pos + 1 # Len(file)
    <3>1. g = Failed(f) \/ g \in Mistaken(f)
      BY <1>4, <2>8 DEF ReadHead
    <3>2. g = Failed(f) \/ Astray(f, g)
      BY <3>1, MistakenCases
    <3>. QED
      BY <1>4, <2>1, <2>5, <2>8, <3>2 DEF CanRead
  <2>9. CASE (cell.t = "half" /\ f.pos + 1 # Len(file)) \/ cell.t = "pay"
    <3>1. g \in {Failed(f), Ended(f)} \cup {[f EXCEPT !.pos = p] : p \in Onward(f)} \cup Mistaken(f)
      BY <1>4, <2>9 DEF ReadHead
    <3>2. Ended(f) = [f EXCEPT !.at = "found", !.eof = TRUE]
      BY DEF Ended, Scanned
    <3>3. \/ g = Failed(f) \/ g = [f EXCEPT !.at = "found", !.eof = TRUE]
          \/ \E p \in f.pos + 1 .. Len(file) + 1 : g = [f EXCEPT !.pos = p]
          \/ Astray(f, g)
      BY <3>1, <3>2, MistakenCases DEF Onward
    <3>. QED
      BY <1>4, <2>1, <2>5, <2>9, <3>3 DEF CanRead
  <2>. QED
    BY <2>1, <2>3, <2>4, <2>6, <2>7, <2>8, <2>9
<1>. QED
  BY <1>2, <1>3, <1>4


\* A scanner stays one, whatever it reads.
LEMMA ReadHeadType ==
  ASSUME file \in Seq(Cell), NEW f \in ReadFile, NEW g \in ReadHead(f)
  PROVE  g \in ReadFile /\ g.seek = f.seek
<1>1. f.pos \in Nat /\ Len(file) \in Nat
  BY ReadFields, LenProperties
<1>2. ASSUME f.pos < Len(file) PROVE file[f.pos + 1].first \in Nat /\ file[f.pos + 1].n \in Nat
  <2>1. f.pos + 1 \in 1 .. Len(file)
    BY <1>1, <1>2
  <2>. QED
    BY <2>1, CellFacts
<1>3. f.pos + 1 \in Nat /\ \A p \in f.pos + 1 .. Len(file) + 1 : p \in Nat
  BY <1>1
<1>4. CASE g = [f EXCEPT !.at = "found"]
  BY <1>4 DEF ReadFile
<1>5. CASE g = [f EXCEPT !.at = "found", !.eof = TRUE]
  BY <1>5 DEF ReadFile
<1>6. CASE g = [f EXCEPT !.at = "found", !.fail = TRUE]
  BY <1>6 DEF ReadFile
<1>7. ASSUME NEW p \in Nat, g = [f EXCEPT !.pos = p] PROVE g \in ReadFile /\ g.seek = f.seek
  BY <1>7 DEF ReadFile
<1>8. ASSUME NEW p \in Nat, NEW a \in Nat, NEW n \in Nat,
             g = [f EXCEPT !.at = "load", !.pos = p, !.first = a, !.n = n]
      PROVE  g \in ReadFile /\ g.seek = f.seek
  BY <1>8 DEF ReadFile
<1>9. ASSUME NEW p \in Nat, NEW a \in Nat, NEW n \in Nat,
             g = [f EXCEPT !.pos = p, !.first = a, !.n = n]
      PROVE  g \in ReadFile /\ g.seek = f.seek
  BY <1>9 DEF ReadFile
<1>10. \A n \in Nat : \A p \in SkipTo(f.pos + 1, n) : p \in Nat
  BY <1>3, SkipFacts
<1>11. ASSUME f.pos < Len(file),
              g = [f EXCEPT !.at = "load", !.pos = f.pos + 1, !.first = file[f.pos + 1].first,
                            !.n = file[f.pos + 1].n]
       PROVE  g \in ReadFile /\ g.seek = f.seek
  BY <1>2, <1>3, <1>8, <1>11
<1>12. ASSUME f.pos < Len(file), NEW p \in SkipTo(f.pos + 1, file[f.pos + 1].n),
              g = [f EXCEPT !.pos = p, !.first = file[f.pos + 1].first, !.n = file[f.pos + 1].n]
       PROVE  g \in ReadFile /\ g.seek = f.seek
  BY <1>2, <1>9, <1>10, <1>12
<1>13. ASSUME NEW p \in f.pos + 1 .. Len(file) + 1, g = [f EXCEPT !.pos = p]
       PROVE  g \in ReadFile /\ g.seek = f.seek
  BY <1>3, <1>7, <1>13
<1>14. ASSUME g = [f EXCEPT !.at = "found", !.eof = TRUE, !.pos = f.pos + 1]
       PROVE  g \in ReadFile /\ g.seek = f.seek
  BY <1>3, <1>14 DEF ReadFile
<1>15. ASSUME Astray(f, g) PROVE g \in ReadFile /\ g.seek = f.seek
  <2>1. PICK x \in Nat, n \in Nat, p \in f.pos + 1 .. Len(file) + 1, a \in {"load", "scan"} :
            g = [f EXCEPT !.at = a, !.pos = p, !.first = x, !.n = n]
    BY <1>15 DEF Astray
  <2>. QED
    BY <1>3, <2>1 DEF ReadFile
<1>16. \/ g = [f EXCEPT !.at = "found"] \/ g = [f EXCEPT !.at = "found", !.eof = TRUE]
       \/ g = [f EXCEPT !.at = "found", !.fail = TRUE]
       \/ f.pos < Len(file) /\ g = [f EXCEPT !.at = "load", !.pos = f.pos + 1,
                                            !.first = file[f.pos + 1].first,
                                            !.n = file[f.pos + 1].n]
       \/ f.pos < Len(file) /\ \E p \in SkipTo(f.pos + 1, file[f.pos + 1].n) :
             g = [f EXCEPT !.pos = p, !.first = file[f.pos + 1].first, !.n = file[f.pos + 1].n]
       \/ \E p \in f.pos + 1 .. Len(file) + 1 : g = [f EXCEPT !.pos = p]
       \/ g = [f EXCEPT !.at = "found", !.eof = TRUE, !.pos = f.pos + 1]
       \/ Astray(f, g)
  BY ReadHeadCases
<1>. HIDE DEF ReadFile
<1>. QED
  BY <1>4, <1>5, <1>6, <1>11, <1>12, <1>13, <1>14, <1>15, <1>16

\* A function on 1 .. n is a sequence.
LEMMA IsSeqOf ==
  ASSUME NEW n \in Nat, NEW s \in [1 .. n -> Nat]
  PROVE  s \in Seq(Nat) /\ Len(s) = n
OBVIOUS

\* A scan that ends with messages msgs, or with a failure, at p.
LoadedAt(f, p, eof, msgs) ==
    [f EXCEPT !.at = "found", !.pos = p, !.eof = eof, !.cbuf = msgs, !.buf = msgs]
FailedAt(f, p, eof) ==
    [f EXCEPT !.at = "found", !.pos = p, !.eof = eof, !.fail = TRUE, !.buf = <<>>]

\* What loading a payload does: it gives the messages, or it is not all
\* there and fails or gives anything.
LEMMA LoadBlockCases ==
  ASSUME file \in Seq(Cell), NEW f \in ReadFile, NEW g \in LoadBlock(f)
  PROVE  \/ /\ Headed(f)
            /\ \E msgs \in Seq(Nat) :
                  /\ Len(msgs) = f.n /\ \A k \in 1 .. f.n : msgs[k] = file[f.pos + k].msg
                  /\ g = LoadedAt(f, f.pos + f.n, f.eof, msgs)
         \/ /\ ~Headed(f)
            /\ \E p \in Nat, eof \in BOOLEAN :
                  /\ p = Len(file) \/ f.pos <= p
                  /\ g = FailedAt(f, p, eof) \/ \E msgs \in Seq(Nat) : g = LoadedAt(f, p, eof, msgs)
<1>1. f.pos \in Nat /\ f.n \in Nat /\ Len(file) \in Nat /\ f.cbuf \in Seq(Nat) /\ f.eof \in BOOLEAN
  BY ReadFields, LenProperties
<1>. DEFINE to == IF f.pos + f.n <= Len(file) THEN f.pos + f.n ELSE Len(file)
            h == [f EXCEPT !.pos = to]
            gone == [f EXCEPT !.pos = to, !.eof = TRUE]
<1>2. h = [f EXCEPT !.pos = IF @ + f.n <= Len(file) THEN @ + f.n ELSE Len(file)]
  BY DEF ReadFile
<1>3. gone = [h EXCEPT !.eof = TRUE]
  BY DEF ReadFile
<1>4. to \in Nat /\ (to = Len(file) \/ f.pos <= to)
  BY <1>1
<1>. HIDE DEF to
<1>5. ASSUME NEW msgs
      PROVE  /\ [Scanned(h) EXCEPT !.cbuf = msgs, !.buf = msgs] = LoadedAt(f, to, f.eof, msgs)
             /\ [Scanned(gone) EXCEPT !.cbuf = msgs, !.buf = msgs] = LoadedAt(f, to, TRUE, msgs)
  BY DEF ReadFile, Scanned, LoadedAt
<1>6. /\ [Failed(h) EXCEPT !.buf = <<>>] = FailedAt(f, to, f.eof)
      /\ [Failed(gone) EXCEPT !.buf = <<>>] = FailedAt(f, to, TRUE)
  BY DEF ReadFile, Failed, Scanned, FailedAt
<1>. HIDE DEF h, gone
<1>7. CASE Headed(f)
  <2>. DEFINE msgs == [i \in 1 .. f.n |-> file[f.pos + i].msg]
  <2>1. msgs \in Seq(Nat) /\ Len(msgs) = f.n
    <3>1. \A i \in 1 .. f.n : f.pos + i \in 1 .. Len(file)
      BY <1>1, <1>7 DEF Headed, PayloadAt
    <3>2. \A i \in 1 .. f.n : file[f.pos + i].msg \in Nat
      BY <3>1, CellFacts
    <3>3. msgs \in [1 .. f.n -> Nat]
      BY <3>2
    <3>. HIDE DEF msgs
    <3>. QED
      BY <1>1, <3>3, IsSeqOf
  <2>2. \A k \in 1 .. f.n : msgs[k] = file[f.pos + k].msg
    OBVIOUS
  <2>3. g \in Unpacked(h, msgs)
    BY <1>2, <1>7 DEF LoadBlock
  <2>. HIDE DEF msgs
  <2>4. to = f.pos + f.n
    BY <1>1, <1>7 DEF Headed, PayloadAt, to
  <2>5. g = LoadedAt(f, f.pos + f.n, f.eof, msgs)
    BY <1>5, <2>3, <2>4 DEF Unpacked
  <2>. QED
    BY <1>7, <2>1, <2>2, <2>5
<1>8. CASE ~Headed(f) /\ f.pos >= Len(file)
  <2>1. g \in NotUnpacked(gone) \cup Unpacked(gone, f.cbuf)
    BY <1>2, <1>3, <1>8 DEF LoadBlock
  <2>2. g = FailedAt(f, to, TRUE) \/ g = LoadedAt(f, to, TRUE, f.cbuf)
    BY <1>5, <1>6, <2>1 DEF Unpacked, NotUnpacked
  <2>. QED
    BY <1>1, <1>4, <1>8, <2>2
<1>9. CASE ~Headed(f) /\ ~(f.pos >= Len(file))
  <2>. DEFINE msgs == [i \in 1 .. f.n |-> Garbage]
  <2>1. msgs \in Seq(Nat)
    <3>1. msgs \in [1 .. f.n -> Nat]
      BY DEF Garbage
    <3>. HIDE DEF msgs
    <3>. QED
      BY <1>1, <3>1, IsSeqOf
  <2>2. g \in NotUnpacked(h) \cup Unpacked(h, msgs)
    BY <1>2, <1>9 DEF LoadBlock
  <2>. HIDE DEF msgs
  <2>3. g = FailedAt(f, to, f.eof) \/ g = LoadedAt(f, to, f.eof, msgs)
    BY <1>5, <1>6, <2>2 DEF Unpacked, NotUnpacked
  <2>. QED
    BY <1>1, <1>4, <1>9, <2>1, <2>3
<1>. QED
  BY <1>7, <1>8, <1>9

\* A scanner stays one when it loads a payload, which ends the scan.
LEMMA LoadBlockType ==
  ASSUME file \in Seq(Cell), NEW f \in ReadFile, NEW g \in LoadBlock(f)
  PROVE  g \in ReadFile /\ g.at = "found" /\ g.seek = f.seek
<1>1. f.pos + f.n \in Nat /\ f.eof \in BOOLEAN /\ <<>> \in Seq(Nat)
  BY ReadFields, EmptySeq
<1>2. ASSUME NEW p \in Nat, NEW eof \in BOOLEAN, NEW msgs \in Seq(Nat), g = LoadedAt(f, p, eof, msgs)
      PROVE  g \in ReadFile /\ g.at = "found" /\ g.seek = f.seek
  BY <1>2 DEF ReadFile, LoadedAt
<1>3. ASSUME NEW p \in Nat, NEW eof \in BOOLEAN, g = FailedAt(f, p, eof)
      PROVE  g \in ReadFile /\ g.at = "found" /\ g.seek = f.seek
  BY <1>1, <1>3 DEF ReadFile, FailedAt
<1>4. \E p \in Nat, eof \in BOOLEAN :
         g = FailedAt(f, p, eof) \/ \E msgs \in Seq(Nat) : g = LoadedAt(f, p, eof, msgs)
  BY <1>1, LoadBlockCases
<1>. QED
  BY <1>2, <1>3, <1>4

\* The payload of the block of a header is there unless the block is torn.
LEMMA PayloadIsGood ==
  ASSUME NEW i, file[i].t = "head"
  PROVE  PayloadAt(i, file[i].n) <=> Good(file, i)
BY DEF PayloadAt, Good

\* OpenAppend's scan goes on counting the sound part, or beyond it.
LEMMA AppendScans ==
  ASSUME FileOK(file), NEW f \in ReadFile, AppendAt(file, f), f.at = "scan", NEW g \in ReadHead(f)
  PROVE  AppendAt(file, g)
<1>. SUFFICES ASSUME ~f.fail PROVE AppendAt(file, g)
  <2>1. ASSUME f.fail PROVE AppendAt(file, g)
    <3>1. g = [f EXCEPT !.at = "found"]
      BY <2>1, ReadHeadCases DEF FileOK
    <3>2. g.seek = End /\ g.at = "found" /\ g.fail
      BY <2>1, <3>1 DEF AppendAt, ReadFile
    <3>. QED
      BY <3>2 DEF AppendAt
  <2>. QED
    BY <2>1
<1>1. /\ f.pos \in Nat /\ f.first \in Nat /\ f.n \in Nat /\ Len(file) \in Nat /\ file \in Seq(Cell)
      /\ f.seek = End /\ f.fail = FALSE /\ f.eof = FALSE
  BY ReadFields, LenProperties DEF FileOK, AppendAt
<1>2. \/ Edge(file, f.pos) /\ f.first + f.n = Pays(file, f.pos)
      \/ PastTorn(file, f.pos) /\ ~BrokenTail(file) /\ Above(file, f.first)
  BY DEF AppendAt
<1>3. ~Reached(f)
  BY <1>1 DEF Reached
\* Past something torn the writer goes on with any later number.
<1>8. ASSUME PastTorn(file, f.pos), ~BrokenTail(file), Above(file, f.first)
      PROVE  Fits(file, f.first + f.n)
  <2>1. ~AllSound(file)
    BY <1>1, <1>8, TornAfter
  <2>2. f.first \in Int /\ f.first + f.n \in Int /\ f.first <= f.first + f.n
    BY <1>1
  <2>3. Above(file, f.first + f.n)
    BY <1>1, <1>8, <2>2, AboveMore
  <2>. QED
    BY <1>8, <2>1, <2>3 DEF Fits
<1>4. CASE f.pos >= Len(file) /\ g = [f EXCEPT !.at = "found", !.eof = TRUE]
  <2>1. g.seek = End /\ g.at = "found" /\ g.fail = FALSE /\ g.first = f.first /\ g.n = f.n
    BY <1>1, <1>4 DEF ReadFile
  <2>2. CASE Edge(file, f.pos) /\ f.first + f.n = Pays(file, f.pos)
    <3>1. f.pos = Len(file)
      BY <1>1, <1>4, <2>2 DEF Edge
    <3>2. AllSound(file)
      BY <2>2, <3>1 DEF Edge, AllSound
    <3>3. Fits(file, f.first + f.n)
      BY <2>2, <3>1, <3>2, SoundEnd DEF Fits
    <3>. QED
      BY <2>1, <3>3 DEF AppendAt
  <2>. QED
    BY <1>2, <1>8, <2>1, <2>2 DEF AppendAt
<1>5. ASSUME f.pos < Len(file), file[f.pos + 1].t = "head",
             NEW p \in SkipTo(f.pos + 1, file[f.pos + 1].n),
             g = [f EXCEPT !.pos = p, !.first = file[f.pos + 1].first, !.n = file[f.pos + 1].n]
      PROVE  AppendAt(file, g)
  <2>. DEFINE i == f.pos + 1
              n == file[i].n
  <2>1. i \in 1 .. Len(file) /\ i \in Nat /\ n \in Nat /\ file[i].first \in Nat
    BY <1>1, <1>5, CellFacts
  <2>2. /\ g.seek = End /\ g.at = "scan" /\ g.fail = FALSE /\ g.eof = FALSE
        /\ g.pos = p /\ g.first = file[i].first /\ g.n = n
    BY <1>1, <1>5 DEF ReadFile
  <2>3. /\ p \in Nat /\ i <= p
        /\ Good(file, i) => p = i + n
    BY <1>1, <1>5, <2>1, SkipFacts, PayloadIsGood
  <2>4. CASE Edge(file, f.pos) /\ f.first + f.n = Pays(file, f.pos) /\ Good(file, i)
    <3>1. /\ Edge(file, i + n) /\ file[i].first = Pays(file, f.pos)
          /\ Pays(file, i + n) = Pays(file, f.pos) + n
      BY <1>5, <2>4, EdgeNext
    <3>2. g.pos = i + n /\ g.first = Pays(file, f.pos)
      BY <2>2, <2>3, <2>4, <3>1
    <3>3. g.first + g.n = Pays(file, g.pos)
      BY <2>2, <3>1, <3>2
    <3>4. Edge(file, g.pos)
      BY <3>1, <3>2
    <3>. QED
      BY <2>2, <3>3, <3>4 DEF AppendAt
  <2>5. CASE PastTorn(file, f.pos) \/ (Edge(file, f.pos) /\ ~Good(file, i))
    <3>1. Above(file, file[i].first) /\ PastTorn(file, i)
      BY <1>1, <1>5, <2>5, TornHead
    <3>2. PastTorn(file, p)
      BY <1>1, <2>1, <2>3, <3>1, TornAfter
    <3>3. ~BrokenTail(file)
      <4>1. CASE PastTorn(file, f.pos) /\ ~Edge(file, f.pos)
        BY <1>2, <4>1
      <4>2. CASE Edge(file, f.pos)
        <5>1. ~Good(file, i)
          <6>1. PastTorn(file, f.pos) => FALSE
            BY <4>2 DEF PastTorn, Edge, SoundTo
          <6>. QED
            BY <2>5, <6>1
        <5>2. SUFFICES ASSUME BrokenTail(file) PROVE FALSE
          OBVIOUS
        <5>3. i # Len(file)
          BY <1>5, <5>2 DEF BrokenTail
        <5>4. i \in 1 .. Len(file) - 1
          BY <1>1, <2>1, <5>3
        <5>. QED
          BY <5>1, <5>2, <5>4 DEF BrokenTail, SoundTo
      <4>. QED
        BY <2>5, <4>1, <4>2
    <3>. QED
      BY <2>2, <3>1, <3>2, <3>3 DEF AppendAt
  <2>. QED
    BY <1>2, <2>4, <2>5
<1>6. ASSUME f.pos < Len(file), file[f.pos + 1].t # "head",
             g = [f EXCEPT !.at = "found", !.fail = TRUE]
      PROVE  AppendAt(file, g)
  <2>1. g.seek = End /\ g.at = "found" /\ g.fail = TRUE
    BY <1>1, <1>6 DEF ReadFile
  <2>. QED
    BY <2>1 DEF AppendAt
\* A header torn behind its MsgHeader ends the scan like the end of the file.
<1>9. ASSUME f.pos < Len(file), f.pos + 1 = Len(file), file[f.pos + 1].t = "bare",
             g = [f EXCEPT !.at = "found", !.eof = TRUE, !.pos = f.pos + 1]
      PROVE  AppendAt(file, g)
  <2>1. g.seek = End /\ g.at = "found" /\ g.fail = FALSE /\ g.first = f.first /\ g.n = f.n
    BY <1>1, <1>9 DEF ReadFile
  <2>2. CASE Edge(file, f.pos) /\ f.first + f.n = Pays(file, f.pos)
    <3>1. ASSUME NEW i \in 1 .. Len(file), SoundHead(file, i)
          PROVE  file[i].first + file[i].n <= f.first + f.n
      <4>1. i <= f.pos
        BY <1>1, <1>9, <3>1 DEF SoundHead
      <4>. QED
        BY <2>2, <3>1, <4>1, Behind
    <3>2. ~AllSound(file)
      <4>1. Len(file) \in 1 .. Len(file) /\ ~Good(file, Len(file))
        BY <1>1, <1>9 DEF Good
      <4>. QED
        BY <4>1 DEF AllSound, SoundTo
    <3>3. Fits(file, f.first + f.n)
      BY <1>9, <3>1, <3>2 DEF Fits, Above, BrokenTail
    <3>. QED
      BY <2>1, <3>3 DEF AppendAt
  <2>. QED
    BY <1>2, <1>8, <2>1, <2>2 DEF AppendAt
\* Everything else that is no header is read by a scan that has lost its way,
\* or makes it lose it.
<1>10. ASSUME f.pos < Len(file), file[f.pos + 1].t # "head",
             file[f.pos + 1].t = "half" => f.pos + 1 # Len(file)
      PROVE  \/ PastTorn(file, f.pos) /\ ~BrokenTail(file) /\ Above(file, f.first)
             \/ file[f.pos + 1].t = "bare"
  <2>1. f.pos + 1 \in 1 .. Len(file) /\ file[f.pos + 1].t \in {"head", "half", "bare", "pay"}
        /\ (f.pos + 1) - 1 = f.pos
    <3>1. f.pos + 1 \in 1 .. Len(file)
      BY <1>1, <1>10
    <3>. QED
      BY <1>1, <3>1, CellFacts
  <2>2. CASE Edge(file, f.pos)
    <3>1. SoundTo(file, f.pos) /\ file[f.pos + 1].t # "pay"
      BY <1>10, <2>2 DEF Edge
    <3>2. file[f.pos + 1].t # "half"
      BY <1>10, <2>1, <3>1 DEF FileOK, HalfLast
    <3>. QED
      BY <1>10, <2>1, <3>1, <3>2
  <2>. QED
    BY <1>2, <2>2
<1>11. ASSUME f.pos < Len(file), file[f.pos + 1].t # "head", file[f.pos + 1].t # "bare",
             file[f.pos + 1].t = "half" => f.pos + 1 # Len(file),
             g = [f EXCEPT !.at = "found", !.eof = TRUE]
      PROVE  AppendAt(file, g)
  <2>1. g.seek = End /\ g.at = "found" /\ g.fail = FALSE /\ g.first = f.first /\ g.n = f.n
    BY <1>1, <1>11 DEF ReadFile
  <2>2. Fits(file, f.first + f.n)
    BY <1>8, <1>10, <1>11
  <2>. QED
    BY <2>1, <2>2 DEF AppendAt
<1>12. ASSUME f.pos < Len(file), file[f.pos + 1].t # "head",
             file[f.pos + 1].t \in {"half", "bare"} => f.pos + 1 # Len(file), Astray(f, g)
      PROVE  AppendAt(file, g)
  <2>1. PICK x \in Nat, n \in Nat, p \in f.pos + 1 .. Len(file) + 1 :
            Above(file, x) /\ g = [f EXCEPT !.at = "scan", !.pos = p, !.first = x, !.n = n]
    BY <1>1, <1>12 DEF Astray
  <2>2. /\ g.seek = End /\ g.at = "scan" /\ g.fail = FALSE /\ g.eof = FALSE
        /\ g.pos = p /\ g.first = x /\ p \in Nat /\ f.pos + 1 <= p
    BY <1>1, <2>1 DEF ReadFile
  <2>3. PastTorn(file, p) /\ ~BrokenTail(file)
    <3>1. CASE PastTorn(file, f.pos) /\ ~BrokenTail(file)
      BY <1>1, <2>2, <3>1, TornAfter
    <3>2. CASE file[f.pos + 1].t = "bare"
      <4>1. f.pos + 1 \in 1 .. Len(file) - 1 /\ f.pos + 1 \in 1 .. Len(file)
        BY <1>1, <1>12, <3>2
      <4>2. ~Good(file, f.pos + 1)
        BY <3>2 DEF Good
      <4>3. PastTorn(file, p)
        BY <2>2, <4>1, <4>2 DEF PastTorn
      <4>4. ~BrokenTail(file)
        BY <4>1, <4>2 DEF BrokenTail, SoundTo
      <4>. QED
        BY <4>3, <4>4
    <3>. QED
      BY <1>10, <1>12, <3>1, <3>2
  <2>. QED
    BY <2>1, <2>2, <2>3 DEF AppendAt
<1>7. ASSUME f.pos < Len(file), file[f.pos + 1].t # "head", file[f.pos + 1].t # "bare",
             file[f.pos + 1].t = "half" => f.pos + 1 # Len(file),
             NEW p \in f.pos + 1 .. Len(file) + 1, g = [f EXCEPT !.pos = p]
      PROVE  AppendAt(file, g)
  <2>1. PastTorn(file, f.pos) /\ ~BrokenTail(file) /\ Above(file, f.first)
    BY <1>10, <1>7
  <2>2. /\ g.seek = End /\ g.at = "scan" /\ g.fail = FALSE /\ g.eof = FALSE
        /\ g.pos = p /\ g.first = f.first
    BY <1>1, <1>7 DEF ReadFile
  <2>3. p \in Nat /\ f.pos <= p
    BY <1>1
  <2>4. PastTorn(file, p)
    BY <1>1, <2>1, <2>3, TornAfter
  <2>. QED
    BY <2>1, <2>2, <2>4 DEF AppendAt
<1>. QED
  BY <1>1, <1>3, <1>4, <1>5, <1>6, <1>9, <1>11, <1>12, <1>7, ReadHeadCases


-----------------------------------------------------------------------------
(* The invariant holds. *)

\* The edge a scan starts from.
LEMMA StartEdge ==
  ASSUME NEW f, FileOK(f)
  PROVE  Edge(f, 0) /\ Pays(f, 0) = 0
<1>1. Len(f) \in Nat
  BY LenProperties DEF FileOK
<1>2. ASSUME 0 < Len(f) PROVE f[1].t # "pay"
  <2>1. 1 \in 1 .. Len(f)
    BY <1>1, <1>2
  <2>. QED
    BY <2>1 DEF FileOK, Owned
<1>. QED
  BY <1>1, <1>2, PaysZero DEF Edge, SoundTo

\* A scanner that is opened, closed, or begins a scan.
Fresh(f) ==
    /\ f \in ReadFile /\ f.seek = End /\ f.pos = 0 /\ f.first = 0 /\ f.n = 0
    /\ ~f.fail /\ ~f.eof
LEMMA OpenedFacts ==
  /\ UnopenedRead \in ReadFile /\ UnopenedRead.at = "idle" /\ UnopenedRead.fail
  /\ LET f == BeginScan(UnopenedRead, End) IN
     f \in ReadFile /\ f.seek = End /\ f.at = "scan" /\ f.fail
  /\ Fresh(OpenedRead) /\ Fresh(ClosedRead) /\ Fresh(BeginScan(OpenedRead, End))
  /\ OpenedRead.at = "idle" /\ ClosedRead.at = "closed" /\ BeginScan(OpenedRead, End).at = "scan"
<1>1. OpenedRead \in ReadFile
  <2>1. End \in Int /\ NoResult \in Int /\ FALSE \in BOOLEAN
    BY DEF End, NoResult
  <2>2. \A s \in Seq(Nat), e, r \in Int :
           [at |-> "idle", seek |-> e, pos |-> 0, eof |-> FALSE, fail |-> FALSE,
            first |-> 0, n |-> 0, cbuf |-> s, buf |-> s, result |-> r] \in ReadFile
    BY DEF ReadFile
  <2>3. <<>> \in Seq(Nat)
    BY EmptySeq
  <2>. QED
    BY <2>1, <2>2, <2>3, Zenon DEF OpenedRead
<1>2. Fresh(OpenedRead) /\ OpenedRead.at = "idle"
  BY <1>1 DEF Fresh, OpenedRead
<1>3. Fresh(ClosedRead) /\ ClosedRead.at = "closed"
  BY <1>2 DEF Fresh, ClosedRead, ReadFile
<1>4. BeginScan(OpenedRead, End) = [OpenedRead EXCEPT !.seek = End, !.at = "scan"]
  BY DEF BeginScan, Rewound
<1>5. End \in Int
  BY DEF End
<1>6. \A f \in ReadFile : Fresh(f) => Fresh([f EXCEPT !.seek = End, !.at = "scan"])
                                      /\ [f EXCEPT !.seek = End, !.at = "scan"].at = "scan"
  BY <1>5 DEF Fresh, ReadFile
<1>7. UnopenedRead \in ReadFile /\ UnopenedRead.at = "idle" /\ UnopenedRead.fail = TRUE
  BY <1>1, <1>2 DEF UnopenedRead, ReadFile
<1>8. BeginScan(UnopenedRead, End) = [UnopenedRead EXCEPT !.seek = End, !.at = "scan"]
  BY DEF BeginScan, Rewound
<1>9. \A f \in ReadFile : LET g == [f EXCEPT !.seek = End, !.at = "scan"] IN
         g \in ReadFile /\ g.seek = End /\ g.at = "scan" /\ g.fail = f.fail
  BY <1>5 DEF ReadFile
<1>. QED
  BY <1>1, <1>2, <1>3, <1>4, <1>6, <1>7, <1>8, <1>9

\* At first.
LEMMA FileInit == Init => IInv
<1>. SUFFICES ASSUME Init PROVE IInv
  OBVIOUS
<1>. USE DEF Init
<1>1. /\ wf = [at |-> "closed", fail |-> FALSE, first |-> 0, buf |-> <<>>]
      /\ <<>> \in Seq(Nat) /\ <<>> \in Seq(Cell) /\ Len(<<>>) = 0
  BY EmptySeq
<1>2. ClosedRead \in ReadFile
  BY OpenedFacts DEF Fresh
<1>3. FileTypeOK
  <2>1. wf \in WriteFile
    BY <1>1 DEF WriteFile
  <2>2. rf \in [Scanner -> ReadFile]
    BY <1>2
  <2>. QED
    BY <1>1, <2>1, <2>2 DEF FileTypeOK
<1>4. FileOK(file)
  BY <1>1 DEF FileOK, Owned, Numbered, Ordered, HalfLast
<1>5. Kept(file, since, wf.buf)
  <2>1. Kept(<<>>, <<>>, <<>>)
    BY <1>1, KeptFresh
  <2>2. file = <<>> /\ since = <<>> /\ wf.buf = <<>>
    BY <1>1
  <2>. QED
    BY <2>1, <2>2, Zenon
<1>6. WriterOK /\ AppendOK
  BY <1>1, <1>5 DEF WriterOK, AppendOK, OkQ
<1>. QED
  BY <1>3, <1>4, <1>6 DEF IInv

\* What the types of the state give.
LEMMA StateFields ==
  ASSUME FileTypeOK
  PROVE  /\ wf.at \in {"closed", "unopened", "opening", "open"} /\ wf.fail \in BOOLEAN /\ wf.first \in Nat
         /\ wf.buf \in Seq(Nat)
         /\ rf["append"] \in ReadFile /\ rf["reader"] \in ReadFile /\ DOMAIN rf = Scanner
         /\ "append" \in Scanner /\ "reader" \in Scanner
BY DEF FileTypeOK, WriteFile, Scanner

\* A flush by a writer that may go on, of what was kept so far.
LEMMA FlushKeeps ==
  ASSUME FileOK(file), NEW w \in WriteFile, w.at \in {"closed", "open"}, began' = TRUE,
         Fits(file, w.first), since' \in Seq(Nat), Kept(file, since', w.buf), Flush(w)
  PROVE  /\ wf' \in WriteFile /\ FileOK(file') /\ WriterOK' /\ AppendOK' /\ Extends(file, file')
<1>1. FlushTo(file, w, file', wf')
  BY DEF Flush, FlushTo
<1>2. /\ Extends(file, file') /\ FileOK(file') /\ wf' \in WriteFile /\ wf'.at = w.at
      /\ ~wf'.fail => Fits(file', wf'.first) /\ Kept(file', since', wf'.buf) /\ wf'.buf = <<>>
  BY <1>1, Flushed
<1>. QED
  BY <1>2 DEF WriterOK, AppendOK, OkQ

\* The writer's operations keep the invariant, and the file only grows.
LEMMA WriterNext ==
  ASSUME IInv, Writer \/ Crash
  PROVE  IInv' /\ Extends(file, file')
<1>1. /\ FileTypeOK /\ FileOK(file) /\ WriterOK /\ AppendOK /\ file \in Seq(Cell)
      /\ wf \in WriteFile /\ since \in Seq(Nat) /\ given \in Nat /\ opens \in Nat
      /\ began \in BOOLEAN /\ rf \in [Scanner -> ReadFile]
  BY DEF IInv, FileOK, FileTypeOK
<1>2. /\ wf.at \in {"closed", "unopened", "opening", "open"} /\ wf.fail \in BOOLEAN /\ wf.first \in Nat
      /\ wf.buf \in Seq(Nat) /\ rf["append"] \in ReadFile /\ "append" \in Scanner
  BY <1>1, StateFields
<1>3. Extends(file, file)
  BY <1>1, LenProperties DEF Extends
<1>4. <<>> \in Seq(Nat) /\ ClosedRead \in ReadFile
  BY EmptySeq, OpenedFacts DEF Fresh
<1>5. CASE OpenAppend
  <2>1. /\ file' = file /\ since' = <<>> /\ opens' \in Nat /\ given' = given /\ began' = FALSE
        /\ \/ wf'.at = "unopened" /\ rf' = rf
           \/ /\ wf'.at = "opening"
              /\ \E g \in {OpenedRead, UnopenedRead} :
                    rf' = [rf EXCEPT !["append"] = BeginScan(g, End)]
        /\ wf' \in WriteFile /\ wf'.fail = FALSE /\ wf'.buf = <<>>
    <3>1. /\ file' = file /\ since' = <<>> /\ opens' = opens + 1 /\ given' = given
          /\ began' = FALSE
      BY <1>5 DEF OpenAppend
    <3>2. \/ /\ wf' = [at |-> "unopened", fail |-> FALSE, first |-> 0, buf |-> <<>>]
             /\ rf' = rf
          \/ /\ wf' = [at |-> "opening", fail |-> FALSE, first |-> 0, buf |-> <<>>]
             /\ \E g \in {OpenedRead, UnopenedRead} :
                   rf' = [rf EXCEPT !["append"] = BeginScan(g, End)]
      BY <1>5, Zenon DEF OpenAppend
    <3>3. wf' \in WriteFile /\ wf'.fail = FALSE /\ wf'.buf = <<>>
      <4>1. ASSUME NEW a \in {"unopened", "opening"},
                   wf' = [at |-> a, fail |-> FALSE, first |-> 0, buf |-> <<>>]
            PROVE  wf' \in WriteFile /\ wf'.fail = FALSE /\ wf'.buf = <<>>
        BY <1>4, <4>1 DEF WriteFile
      <4>. QED
        BY <3>2, <4>1
    <3>4. opens' \in Nat
      BY <1>1, <3>1
    <3>5. \/ wf'.at = "unopened" /\ rf' = rf
          \/ /\ wf'.at = "opening"
             /\ \E g \in {OpenedRead, UnopenedRead} :
                   rf' = [rf EXCEPT !["append"] = BeginScan(g, End)]
      <4>1. \A a : [at |-> a, fail |-> FALSE, first |-> 0, buf |-> <<>>].at = a
        OBVIOUS
      <4>. QED
        BY <3>2, <4>1
    <3>. QED
      BY <3>1, <3>3, <3>4, <3>5
  <2>2. WriterOK'
    BY <2>1 DEF WriterOK, OkQ
  <2>3. CASE wf'.at = "unopened" /\ rf' = rf
    BY <1>1, <1>3, <1>4, <2>1, <2>2, <2>3 DEF IInv, FileTypeOK, AppendOK
  <2>4. ASSUME NEW g \in {OpenedRead, UnopenedRead},
               rf' = [rf EXCEPT !["append"] = BeginScan(g, End)]
        PROVE  IInv'
    <3>. DEFINE f == BeginScan(g, End)
    <3>1. /\ f \in ReadFile /\ f.seek = End /\ f.at = "scan"
          /\ ~f.fail => f.eof = FALSE /\ f.pos = 0 /\ f.first + f.n = 0
      <4>1. CASE g = OpenedRead
        BY <4>1, OpenedFacts DEF Fresh, ReadFile
      <4>2. CASE g = UnopenedRead
        BY <4>2, OpenedFacts
      <4>. QED
        BY <4>1, <4>2
    <3>. HIDE DEF f
    <3>2. rf' \in [Scanner -> ReadFile] /\ rf'["append"] = f
      BY <1>1, <1>2, <2>4, <3>1 DEF f
    <3>3. FileTypeOK'
      BY <1>1, <1>4, <2>1, <3>2 DEF FileTypeOK
    <3>4. AppendAt(file, f)
      BY <1>1, <3>1, StartEdge DEF AppendAt
    <3>5. AppendOK'
      BY <2>1, <3>2, <3>4 DEF AppendOK
    <3>. QED
      BY <1>1, <2>1, <2>2, <3>3, <3>5 DEF IInv
  <2>. QED
    BY <1>3, <2>1, <2>3, <2>4
<1>6. CASE OpenAppended
  <2>. DEFINE f == rf["append"]
              x == IF f.fail THEN f.first ELSE f.first + f.n
  <2>1. /\ wf.at = "opening" /\ f.at = "found"
        /\ wf' = [wf EXCEPT !.at = "open", !.fail = f.fail, !.first = x]
        /\ rf' = [rf EXCEPT !["append"] = ClosedRead] /\ began' = ~wf'.fail
        /\ file' = file /\ since' = since /\ given' = given /\ opens' = opens
    BY <1>6 DEF OpenAppended
  <2>2. f.fail \in BOOLEAN /\ x \in Nat
    BY <1>2, ReadFields
  <2>3. ~wf.fail /\ since = <<>> /\ AppendAt(file, f) /\ wf.buf = <<>>
    BY <1>1, <2>1 DEF AppendOK, WriterOK
  <2>. HIDE DEF f, x
  <2>4. wf' \in WriteFile /\ wf'.at = "open" /\ wf'.fail = f.fail /\ wf'.first = x /\ wf'.buf = <<>>
    BY <1>1, <2>1, <2>2, <2>3 DEF WriteFile
  <2>5. FileTypeOK'
    BY <1>1, <1>4, <2>1, <2>2, <2>4 DEF FileTypeOK
  <2>6. ~f.fail => Fits(file, x)
    BY <2>1, <2>3 DEF AppendAt, x
  <2>7. Kept(file, <<>>, <<>>)
    BY <1>1, KeptFresh
  <2>8. WriterOK' /\ AppendOK'
    BY <2>1, <2>3, <2>4, <2>6, <2>7 DEF WriterOK, AppendOK, OkQ
  <2>. QED
    BY <1>1, <1>3, <2>1, <2>5, <2>8 DEF IInv
<1>7. CASE WriteMsg
  <2>. DEFINE m == given + 1
              w == [wf EXCEPT !.buf = Append(@, m)]
  <2>1. /\ wf.at \in {"open", "unopened"} /\ given' = m /\ since' = Append(since, m)
        /\ rf' = rf /\ began' = began /\ opens' = opens
        /\ IF ~OkQ THEN file' = file /\ wf' = wf
           ELSE IF Len(w.buf) >= Thr THEN Flush(w)
           ELSE wf' = w /\ file' = file
    BY <1>7 DEF WriteMsg
  <2>2. m \in Nat /\ since' \in Seq(Nat) /\ Append(wf.buf, m) \in Seq(Nat)
    BY <1>1, <1>2, <2>1, AppendProperties
  <2>3. w \in WriteFile /\ w.at = wf.at /\ w.fail = wf.fail /\ w.first = wf.first
        /\ w.buf = Append(wf.buf, m)
    BY <1>1, <2>2 DEF WriteFile
  <2>. HIDE DEF m, w
  <2>4. ASSUME OkQ
        PROVE  Fits(file, w.first) /\ Kept(file, since', w.buf) /\ began' = TRUE /\ w.at = "open"
    <3>1. Fits(file, wf.first) /\ began /\ Kept(file, since, wf.buf) /\ wf.at = "open"
      BY <1>1, <2>4 DEF WriterOK, OkQ
    <3>2. Kept(file, since, wf.buf) => Kept(file, Append(since, m), Append(wf.buf, m))
      BY <1>1, <1>2, <2>2, KeptGiven
    <3>. QED
      BY <1>1, <2>1, <2>3, <3>1, <3>2
  <2>5. CASE ~OkQ
    <3>1. file' = file /\ wf' = wf
      BY <2>1, <2>5
    <3>2. ~(began /\ ~wf.fail) \/ wf.at = "unopened"
      BY <2>1, <2>5 DEF OkQ
    <3>3. /\ wf.at = "unopened" => ~began
          /\ wf.at # "open" /\ ~wf.fail => wf.buf = <<>>
      BY <1>1 DEF WriterOK
    <3>4. OkQ' <=> OkQ
      BY <3>1 DEF OkQ
    <3>5. WriterOK'
      BY <2>1, <2>5, <3>1, <3>2, <3>3, <3>4 DEF WriterOK
    <3>6. AppendOK'
      BY <2>1, <3>1 DEF AppendOK
    <3>. QED
      BY <1>1, <1>3, <2>1, <2>2, <3>1, <3>5, <3>6 DEF IInv, FileTypeOK
  <2>6. CASE OkQ /\ Len(w.buf) >= Thr
    <3>1. Flush(w)
      BY <2>1, <2>6
    <3>2. wf' \in WriteFile /\ FileOK(file') /\ WriterOK' /\ AppendOK' /\ Extends(file, file')
      BY <1>1, <2>2, <2>3, <2>4, <2>6, <3>1, FlushKeeps
    <3>. QED
      BY <1>1, <2>1, <2>2, <3>2 DEF IInv, FileTypeOK
  <2>7. CASE OkQ /\ ~(Len(w.buf) >= Thr)
    <3>1. wf' = w /\ file' = file
      BY <2>1, <2>7
    <3>. QED
      BY <1>1, <1>3, <2>1, <2>2, <2>3, <2>4, <2>7, <3>1
      DEF IInv, FileTypeOK, WriterOK, AppendOK, OkQ
  <2>. QED
    BY <2>5, <2>6, <2>7
<1>8. CASE FlushStep
  <2>1. /\ wf.at = "open" /\ ~wf.fail /\ Flush(wf)
        /\ rf' = rf /\ given' = given /\ since' = since /\ began' = began /\ opens' = opens
    BY <1>8 DEF FlushStep, OkQ
  <2>2. /\ Fits(file, wf.first) /\ Kept(file, since', wf.buf) /\ since' \in Seq(Nat)
        /\ began' = TRUE
    BY <1>1, <2>1 DEF WriterOK, OkQ
  <2>3. wf' \in WriteFile /\ FileOK(file') /\ WriterOK' /\ AppendOK' /\ Extends(file, file')
    BY <1>1, <2>1, <2>2, FlushKeeps
  <2>. QED
    BY <1>1, <2>1, <2>2, <2>3 DEF IInv, FileTypeOK
<1>9. CASE Close
  <2>1. PICK ok \in BOOLEAN :
            LET w == [wf EXCEPT !.at = "closed", !.fail = @ \/ ~ok] IN
            /\ wf.at = "unopened" => ok
            /\ IF OkQ /\ wf.buf # <<>> THEN Flush(w) ELSE wf' = w /\ file' = file
    BY <1>9 DEF Close
  <2>. DEFINE w == [wf EXCEPT !.at = "closed", !.fail = @ \/ ~ok]
  <2>2. /\ wf.at \in {"open", "unopened"} /\ rf' = rf /\ given' = given /\ since' = since
        /\ began' = began /\ opens' = opens
        /\ IF OkQ /\ wf.buf # <<>> THEN Flush(w) ELSE wf' = w /\ file' = file
    BY <1>9, <2>1 DEF Close
  <2>3. /\ w \in WriteFile /\ w.at = "closed" /\ (~w.fail => ~wf.fail) /\ w.first = wf.first
        /\ w.buf = wf.buf
    BY <1>1 DEF WriteFile
  <2>. HIDE DEF w
  <2>4. CASE OkQ /\ wf.buf # <<>>
    <3>1. /\ Fits(file, w.first) /\ Kept(file, since', w.buf) /\ since' \in Seq(Nat)
          /\ began' = TRUE /\ Flush(w)
      BY <1>1, <2>2, <2>3, <2>4 DEF WriterOK, OkQ
    <3>2. wf' \in WriteFile /\ FileOK(file') /\ WriterOK' /\ AppendOK' /\ Extends(file, file')
      BY <1>1, <2>3, <3>1, FlushKeeps
    <3>. QED
      BY <1>1, <2>2, <3>2 DEF IInv, FileTypeOK
  <2>5. CASE ~(OkQ /\ wf.buf # <<>>)
    <3>1. wf' = w /\ file' = file
      BY <2>2, <2>5
    <3>2. ~w.fail => w.buf = <<>>
      <4>1. wf.at # "open" /\ ~wf.fail => wf.buf = <<>>
        BY <1>1 DEF WriterOK
      <4>. QED
        BY <2>2, <2>3, <2>5, <4>1 DEF OkQ
    <3>3. began /\ ~w.fail => Kept(file, since, w.buf)
      BY <1>1, <2>3 DEF WriterOK
    <3>4. WriterOK' /\ AppendOK'
      BY <2>2, <2>3, <3>1, <3>2, <3>3 DEF WriterOK, AppendOK, OkQ
    <3>. QED
      BY <1>1, <1>3, <2>2, <2>3, <3>1, <3>4 DEF IInv, FileTypeOK
  <2>. QED
    BY <2>4, <2>5
<1>10. CASE Crash
  <2>1. /\ wf' = [wf EXCEPT !.at = "closed", !.fail = TRUE, !.buf = <<>>]
        /\ rf' = [rf EXCEPT !["append"] = ClosedRead]
        /\ given' = given /\ since' = since /\ began' = began /\ opens' = opens
        /\ \E part \in IF OkQ /\ wf.buf # <<>> THEN Torn(Block(wf.first, wf.buf)) ELSE {<<>>} :
              file' = file \o part
    BY <1>10 DEF Crash
  <2>2. wf' \in WriteFile /\ wf'.at = "closed" /\ wf'.fail = TRUE
    BY <1>1, <1>4, <2>1 DEF WriteFile
  <2>3. rf' \in [Scanner -> ReadFile]
    BY <1>1, <1>4, <2>1
  <2>4. FileOK(file') /\ Extends(file, file')
    <3>1. PICK part \in IF OkQ /\ wf.buf # <<>> THEN Torn(Block(wf.first, wf.buf)) ELSE {<<>>} :
              file' = file \o part
      BY <2>1
    <3>2. CASE OkQ /\ wf.buf # <<>>
      <4>1. Piece(part, wf.first, wf.buf)
        BY <1>2, <3>1, <3>2, TornFacts
      <4>2. Above(file, wf.first) /\ ~BrokenTail(file) /\ (AllSound(file) => wf.first = Pays(file, Len(file)))
        BY <1>1, <3>2 DEF WriterOK, OkQ, Fits
      <4>3. Extends(file, file \o part) /\ FileOK(file \o part)
        BY <1>1, <1>2, <4>1, <4>2, AppendPiece
      <4>. QED
        BY <3>1, <4>3
    <3>3. CASE ~(OkQ /\ wf.buf # <<>>)
      <4>1. file' = file
        BY <1>1, <3>1, <3>3, ConcatEmptySeq
      <4>. QED
        BY <1>1, <1>3, <4>1
    <3>. QED
      BY <3>2, <3>3
  <2>5. WriterOK' /\ AppendOK'
    BY <2>2 DEF WriterOK, AppendOK, OkQ
  <2>. QED
    BY <1>1, <2>1, <2>2, <2>3, <2>4, <2>5 DEF IInv, FileTypeOK
<1>. QED
  BY <1>5, <1>6, <1>7, <1>8, <1>9, <1>10 DEF Writer


\* What ReadMsg returns is a message or none.
LEMMA LookupType ==
  ASSUME NEW f \in ReadFile
  PROVE  Lookup(f) \in Int
<1>1. f.seek \in Int /\ f.first \in Nat /\ f.n \in Nat /\ f.buf \in Seq(Nat) /\ Len(f.buf) \in Nat
  BY ReadFields, LenProperties
<1>2. ASSUME f.first <= f.seek, f.seek - f.first < Len(f.buf)
      PROVE  f.buf[f.seek - f.first + 1] \in Int
  <2>1. f.seek - f.first + 1 \in 1 .. Len(f.buf)
    BY <1>1, <1>2
  <2>2. f.buf[f.seek - f.first + 1] \in Nat
    BY <1>1, <2>1, ElementOfSeq
  <2>. QED
    BY <2>2
<1>. QED
  BY <1>2 DEF Lookup, NoResult

\* The reader's operations change the reader only.
LEMMA ReaderSteps ==
  ASSUME FileTypeOK, Reader
  PROVE  /\ file' = file /\ wf' = wf /\ given' = given /\ since' = since /\ began' = began
         /\ opens' = opens
         /\ \E g \in ReadFile : rf' = [rf EXCEPT !["reader"] = g]
<1>1. rf["reader"] \in ReadFile
  BY StateFields
<1>. DEFINE f == rf["reader"]
<1>2. CASE OpenRead
  <2>1. OpenedRead \in ReadFile /\ UnopenedRead \in ReadFile
    BY OpenedFacts DEF Fresh
  <2>. QED
    BY <1>2, <2>1 DEF OpenRead
<1>3. CASE \E s \in Asked : ReadMsg(s)
  <2>1. PICK s \in Asked : ReadMsg(s)
    BY <1>3
  <2>2. s \in Int
    BY FileAssumption DEF Asked
  <2>3. [f EXCEPT !.seek = s, !.at = "found"] \in ReadFile /\ BeginScan(f, s) \in ReadFile
    BY <1>1, <2>2 DEF ReadFile, BeginScan, Rewound
  <2>. QED
    BY <2>1, <2>3 DEF ReadMsg
<1>4. CASE ReadMsgReturns
  <2>1. [f EXCEPT !.at = "returned", !.result = Lookup(f)] \in ReadFile
    BY <1>1, LookupType DEF ReadFile
  <2>2. rf' = [rf EXCEPT !["reader"] = [f EXCEPT !.at = "returned", !.result = Lookup(f)]]
    BY <1>4 DEF ReadMsgReturns
  <2>. QED
    BY <1>4, <2>1, <2>2 DEF ReadMsgReturns
<1>5. CASE ReaderTakes
  <2>1. [f EXCEPT !.at = "idle", !.result = NoResult, !.seek = End] \in ReadFile
    <3>1. NoResult \in Int /\ End \in Int
      BY DEF NoResult, End
    <3>2. "idle" \in {"closed", "idle", "scan", "load", "found", "returned"}
      OBVIOUS
    <3>. QED
      BY <1>1, <3>1, <3>2 DEF ReadFile
  <2>2. rf' = [rf EXCEPT !["reader"] = [f EXCEPT !.at = "idle", !.result = NoResult, !.seek = End]]
    BY <1>5 DEF ReaderTakes
  <2>. QED
    BY <1>5, <2>1, <2>2 DEF ReaderTakes
<1>. QED
  BY <1>2, <1>3, <1>4, <1>5 DEF Reader

\* Every step keeps the invariant, and the file only grows.
LEMMA FileNext ==
  ASSUME IInv, [Next]_vars
  PROVE  IInv' /\ Extends(file, file')
<1>1. /\ FileTypeOK /\ FileOK(file) /\ WriterOK /\ AppendOK /\ file \in Seq(Cell)
      /\ rf \in [Scanner -> ReadFile]
  BY DEF IInv, FileOK, FileTypeOK
<1>2. Extends(file, file)
  BY <1>1, LenProperties DEF Extends
<1>3. CASE Writer \/ Crash
  BY <1>3, WriterNext
<1>4. CASE Reader
  <2>1. PICK g \in ReadFile : rf' = [rf EXCEPT !["reader"] = g]
    BY <1>1, <1>4, ReaderSteps
  <2>2. /\ file' = file /\ wf' = wf /\ given' = given /\ since' = since /\ began' = began
        /\ opens' = opens
    BY <1>1, <1>4, ReaderSteps
  <2>3. rf' \in [Scanner -> ReadFile] /\ rf'["append"] = rf["append"]
    BY <1>1, <2>1 DEF Scanner
  <2>. QED
    BY <1>1, <1>2, <2>2, <2>3 DEF IInv, FileTypeOK, WriterOK, AppendOK, OkQ
<1>5. ASSUME NEW w \in Scanner, ScanStep(w) PROVE IInv' /\ Extends(file, file')
  <2>1. /\ file' = file /\ wf' = wf /\ given' = given /\ since' = since /\ began' = began
        /\ opens' = opens
    BY <1>5 DEF ScanStep
  <2>2. PICK g : /\ \/ rf[w].at = "scan" /\ g \in ReadHead(rf[w])
                    \/ rf[w].at = "load" /\ g \in LoadBlock(rf[w])
                 /\ rf' = [rf EXCEPT ![w] = g]
    BY <1>5 DEF ScanStep
  <2>3. g \in ReadFile
    BY <1>1, <1>5, <2>2, ReadHeadType, LoadBlockType
  <2>4. rf' \in [Scanner -> ReadFile]
    BY <1>1, <2>2, <2>3
  <2>5. wf.at = "opening" => AppendAt(file, rf'["append"])
    <3>1. CASE w # "append"
      <4>1. rf'["append"] = rf["append"]
        BY <1>1, <2>2, <3>1 DEF Scanner
      <4>. QED
        BY <1>1, <4>1 DEF AppendOK
    <3>2. CASE w = "append" /\ wf.at = "opening"
      <4>1. rf["append"] \in ReadFile /\ AppendAt(file, rf["append"]) /\ rf'["append"] = g
        BY <1>1, <2>2, <3>2, StateFields DEF AppendOK
      <4>2. rf["append"].at = "scan" /\ g \in ReadHead(rf["append"])
        BY <2>2, <3>2, <4>1 DEF AppendAt
      <4>. QED
        BY <1>1, <4>1, <4>2, AppendScans
    <3>. QED
      BY <3>1, <3>2
  <2>. QED
    BY <1>1, <1>2, <2>1, <2>4, <2>5 DEF IInv, FileTypeOK, WriterOK, AppendOK, OkQ
<1>6. CASE UNCHANGED vars
  BY <1>1, <1>2, <1>6 DEF vars, IInv, FileTypeOK, WriterOK, AppendOK, OkQ
<1>. QED
  BY <1>3, <1>4, <1>5, <1>6 DEF Next

\* The types, the file, the writer and OpenAppend's scan are in order always.
THEOREM FileInvariant == Spec => []IInv
<1>1. Init => IInv
  BY FileInit
<1>2. IInv /\ [Next]_vars => IInv'
  BY FileNext
<1>. QED
  BY <1>1, <1>2, PTL DEF Spec

-----------------------------------------------------------------------------
(* What the invariant gives. *)

\* However often the writer fails, dies in a block and is started again, the
\* messages of the sound part are numbered from 0 without a gap or a repetition,
\* and what follows a tear has greater numbers (OpenAppend, Flush).
THEOREM NumberedOnceHolds == Spec => []NumberedOnce
<1>1. IInv => NumberedOnce
  BY SoundIs DEF IInv, FileOK, Numbered, NumberedOnce
<1>. QED
  BY <1>1, FileInvariant, PTL

\* A caller that found the file OkQ after OpenAppend, and closes it without
\* FailQ, finds all it gave in it, whatever was buffered, flushed or dropped on
\* the way (OpenAppend, WriteMsg, Flush, Close).
THEOREM CloseTellsHolds == Spec => []CloseTells
<1>1. ASSUME IInv, wf.at = "closed", began, ~wf.fail
      PROVE  LET before == Pays(file, Len(file)) - Len(since) IN
             /\ before >= 0
             /\ \A i \in DOMAIN file :
                   file[i].t = "pay" /\ Pays(file, i) > before =>
                       file[i].msg = since[Pays(file, i) - before]
  <2>1. file \in Seq(Cell) /\ since \in Seq(Nat)
    BY <1>1 DEF IInv, FileOK, FileTypeOK
  <2>2. wf.buf = <<>> /\ Kept(file, since, wf.buf)
    BY <1>1 DEF IInv, WriterOK
  <2>3. /\ DOMAIN file = 1 .. Len(file) /\ Len(<<>>) = 0 /\ Len(since) \in Nat
        /\ Pays(file, Len(file)) \in Nat
    BY <2>1, LenProperties, PaysType
  <2>4. Pays(file, Len(file)) + Len(<<>>) - Len(since) = Pays(file, Len(file)) - Len(since)
    BY <2>3
  <2>5. Kept(file, since, <<>>)
    BY <2>2
  <2>. QED
    BY <2>3, <2>4, <2>5 DEF Kept
<1>2. IInv => CloseTells
  BY <1>1 DEF CloseTells
<1>. QED
  BY <1>2, FileInvariant, PTL

\* A sound file whose last header is torn within one of the two parts Scan reads
\* it in, the tear OpenAppend can see, is never written to again, by any number
\* of openings.
THEOREM BrokenIsLeftHolds == Spec => BrokenIsLeft
<1>. DEFINE Left == TornAt({"half"}) => UNCHANGED file
<1>1. ASSUME IInv, [Next]_vars PROVE Left
  <2>. SUFFICES ASSUME file # <<>>, file[Len(file)].t = "half", DOMAIN file \ Sound = {Len(file)}
                PROVE  file' = file
    BY DEF TornAt
  <2>1. FileTypeOK /\ file \in Seq(Cell) /\ Len(file) \in Nat /\ WriterOK
    BY <1>1, LenProperties DEF IInv, FileOK
  <2>2. BrokenTail(file)
    <3>1. \A i \in 1 .. Len(file) - 1 : SoundTo(file, i)
      <4>. SUFFICES ASSUME NEW i \in 1 .. Len(file) - 1 PROVE SoundTo(file, i)
        OBVIOUS
      <4>1. i \in DOMAIN file /\ i # Len(file)
        <5>1. DOMAIN file = 1 .. Len(file)
          BY <2>1, LenProperties
        <5>2. i \in 1 .. Len(file) /\ i # Len(file)
          BY <2>1
        <5>. QED
          BY <5>1, <5>2
      <4>2. i \in Sound
        BY <4>1
      <4>. QED
        BY <2>1, <4>2, SoundIs
    <3>2. SoundTo(file, Len(file) - 1)
      BY <2>1, <3>1 DEF SoundTo
    <3>. QED
      BY <3>2 DEF BrokenTail
  <2>3. ~OkQ
    BY <2>1, <2>2 DEF WriterOK, Fits
  <2>4. CASE Writer
    BY <2>3, <2>4 DEF Writer, OpenAppend, OpenAppended, WriteMsg, FlushStep, Close
  <2>5. CASE Crash
    <3>1. file' = file \o <<>>
      BY <2>3, <2>5 DEF Crash
    <3>. QED
      BY <2>1, <3>1, ConcatEmptySeq
  <2>6. CASE Reader
    BY <2>1, <2>6, ReaderSteps
  <2>7. CASE \E w \in Scanner : ScanStep(w)
    BY <2>7 DEF ScanStep
  <2>8. CASE UNCHANGED vars
    BY <2>8 DEF vars
  <2>. QED
    BY <1>1, <2>4, <2>5, <2>6, <2>7, <2>8 DEF Next
<1>2. IInv /\ [Next]_vars => [Left]_vars
  BY <1>1
<1>. QED
  BY <1>2, FileInvariant, PTL DEF Spec, BrokenIsLeft


-----------------------------------------------------------------------------
(* The reader. *)

\* A number is in one sound block at most.
LEMMA HeadUnique ==
  ASSUME NEW c, FileOK(c), NEW i, SoundHead(c, i), NEW h, SoundHead(c, h), NEW s \in Int,
         Holds(c, i, s), Holds(c, h, s)
  PROVE  i = h
<1>1. /\ i \in 1 .. Len(c) /\ h \in 1 .. Len(c) /\ Len(c) \in Nat
      /\ c[i].first \in Nat /\ c[i].n \in Nat /\ c[h].first \in Nat /\ c[h].n \in Nat
      /\ c[i].t = "head" /\ c[h].t = "head"
  BY CellFacts, LenProperties DEF SoundHead, FileOK
<1>2. /\ i < h => c[i].first + c[i].n <= c[h].first
      /\ h < i => c[h].first + c[h].n <= c[i].first
  BY <1>1 DEF FileOK, Ordered
<1>. QED
  BY <1>1, <1>2 DEF Holds

\* A number before the end of a sound block, if it is in any block, is in a
\* sound one.
LEMMA ListedSound ==
  ASSUME NEW c, FileOK(c), NEW s \in Int, Listed(c, s), NEW h, SoundHead(c, h),
         s < c[h].first + c[h].n
  PROVE  Sought(c, s)
<1>1. PICK k \in 1 .. Len(c) : Holds(c, k, s)
  BY DEF Listed
<1>2. /\ h \in 1 .. Len(c) /\ Len(c) \in Nat
      /\ c[k].first \in Nat /\ c[k].n \in Nat /\ c[h].first \in Nat /\ c[h].n \in Nat
      /\ c[k].t = "head" /\ c[k].first <= s
  BY <1>1, CellFacts, LenProperties DEF SoundHead, FileOK, Holds
<1>3. CASE k <= h
  <2>1. SoundHead(c, k)
    BY <1>2, <1>3 DEF SoundHead, SoundTo
  <2>. QED
    BY <1>1, <2>1 DEF Sought
<1>4. CASE h < k
  <2>1. c[h].first + c[h].n <= c[k].first
    BY <1>2, <1>4 DEF FileOK, Ordered
  <2>. QED
    BY <1>2, <2>1
<1>. QED
  BY <1>2, <1>3, <1>4

\* After a sound block there is an edge, and no header between.
LEMMA AfterEdge ==
  ASSUME NEW c, FileOK(c), NEW h, SoundHead(c, h)
  PROVE  /\ Edge(c, h + c[h].n) /\ h + c[h].n <= Len(c) /\ h \in 1 .. Len(c)
         /\ \A j \in h + 1 .. h + c[h].n : c[j].t = "pay"
<1>1. /\ h \in 1 .. Len(c) /\ h \in Nat /\ Len(c) \in Nat /\ c[h].n \in Nat
      /\ c[h].t = "head" /\ SoundTo(c, h)
  BY CellFacts, LenProperties DEF SoundHead, FileOK
<1>2. Good(c, h)
  BY <1>1 DEF SoundTo
<1>. DEFINE p == h - 1
<1>3. p + 1 = h /\ p < Len(c) /\ p \in 0 .. Len(c)
  BY <1>1
<1>. HIDE DEF p
<1>4. SoundTo(c, p)
  BY <1>1, <1>3 DEF SoundTo
<1>5. Edge(c, p)
  BY <1>1, <1>3, <1>4 DEF Edge
<1>6. Edge(c, p + 1 + c[p + 1].n)
  BY <1>1, <1>2, <1>3, <1>5, EdgeNext
<1>. QED
  BY <1>1, <1>2, <1>3, <1>6 DEF Good

\* A reader that has not reached its number is at an edge with the sound
\* blocks before it behind the number, or past something torn.
Ahead(c, f) ==
    Edge(c, f.pos) /\ \A i \in 1 .. Len(c) : SoundHead(c, i) /\ i <= f.pos
                                             => c[i].first + c[i].n <= f.seek
LEMMA ScanAhead ==
  ASSUME NEW c, FileOK(c), NEW f \in ReadFile, ReaderAt(c, f), f.at = "scan", ~f.fail
  PROVE  /\ f.seek \in Nat
         /\ IsPast(c, f) => ~Sought(c, f.seek)
         /\ Reached(f) => \/ IsPast(c, f)
                          \/ \E h \in 1 .. Len(c) : Loaded(c, f, h) /\ Holds(c, h, f.seek)
         /\ ~Reached(f) => IsPast(c, f) \/ Ahead(c, f)
         /\ IsPast(c, f) \/ ~f.eof
<1>1. /\ f.seek \in Int /\ f.pos \in Nat /\ f.first \in Nat /\ f.n \in Nat /\ f.eof \in BOOLEAN
      /\ c \in Seq(Cell) /\ Len(c) \in Nat
      /\ \A i \in 1 .. Len(c) : c[i].first \in Nat /\ c[i].n \in Nat
  BY ReadFields, LenProperties, CellFacts DEF FileOK
<1>2. /\ Listed(c, f.seek) /\ (Sought(c, f.seek) => f.first <= f.seek)
      /\ \/ AtStart(f) \/ IsPast(c, f)
         \/ \E h \in 1 .. Len(c) : Loaded(c, f, h)
         \/ \E h \in 1 .. Len(c) : After(c, f, h) /\ f.first + f.n <= f.seek
  BY DEF ReaderAt, Rests
<1>3. f.seek \in Nat
  <2>1. PICK k \in 1 .. Len(c) : Holds(c, k, f.seek)
    BY <1>2 DEF Listed
  <2>. QED
    BY <1>1, <2>1 DEF Holds
<1>4. Reached(f) <=> f.first + f.n > f.seek
  BY <1>3 DEF Reached, End
<1>5. ASSUME IsPast(c, f) PROVE ~Sought(c, f.seek)
  <2>. SUFFICES ASSUME Sought(c, f.seek) PROVE FALSE
    OBVIOUS
  <2>1. PICK i \in 1 .. Len(c) : SoundHead(c, i) /\ Holds(c, i, f.seek)
    BY DEF Sought
  <2>2. c[i].first + c[i].n <= f.first /\ f.first <= f.seek /\ f.seek < c[i].first + c[i].n
    BY <1>2, <1>5, <2>1 DEF IsPast, Above, Holds
  <2>. QED
    BY <1>1, <2>1, <2>2
<1>6. CASE AtStart(f)
  <2>1. ~Reached(f) /\ ~f.eof
    BY <1>3, <1>4, <1>6 DEF AtStart
  <2>2. Ahead(c, f)
    BY <1>1, <1>6, StartEdge DEF Ahead, AtStart
  <2>. QED
    BY <1>3, <1>5, <2>1, <2>2
<1>7. CASE IsPast(c, f)
  BY <1>3, <1>5, <1>7
<1>8. ASSUME NEW h \in 1 .. Len(c), After(c, f, h), ~Reached(f)
      PROVE  Ahead(c, f)
  <2>1. SoundHead(c, h) /\ f.first = c[h].first /\ f.n = c[h].n /\ f.pos = h + c[h].n
    BY <1>8 DEF After, HeadAt
  <2>2. /\ Edge(c, f.pos) /\ c[h].first + c[h].n <= f.seek
        /\ \A j \in h + 1 .. f.pos : c[j].t = "pay"
    <3>1. Edge(c, f.pos) /\ \A j \in h + 1 .. f.pos : c[j].t = "pay"
      BY <2>1, AfterEdge
    <3>2. c[h].first + c[h].n <= f.seek
      BY <1>1, <1>3, <1>4, <1>8, <2>1
    <3>. QED
      BY <3>1, <3>2
  <2>3. ASSUME NEW i \in 1 .. Len(c), SoundHead(c, i), i <= f.pos
        PROVE  c[i].first + c[i].n <= f.seek
    <3>1. i <= h
      <4>1. c[i].t # "pay"
        BY <2>3 DEF SoundHead
      <4>. QED
        BY <1>1, <2>2, <2>3, <4>1
    <3>2. CASE i = h
      BY <2>2, <3>2
    <3>3. CASE i < h
      <4>1. c[i].first + c[i].n <= c[h].first
        BY <2>1, <2>3, <3>3 DEF FileOK, Ordered, SoundHead
      <4>. QED
        BY <1>1, <2>2, <4>1
    <3>. QED
      BY <1>1, <3>1, <3>2, <3>3
  <2>. QED
    BY <2>2, <2>3 DEF Ahead
<1>9. CASE \E h \in 1 .. Len(c) : Loaded(c, f, h)
  <2>1. PICK h \in 1 .. Len(c) : Loaded(c, f, h)
    BY <1>9
  <2>2. After(c, f, h) /\ ~f.eof /\ SoundHead(c, h) /\ f.first = c[h].first /\ f.n = c[h].n
    BY <2>1 DEF Loaded, After, HeadAt
  <2>3. ASSUME Reached(f) PROVE Holds(c, h, f.seek)
    <3>1. f.seek < c[h].first + c[h].n
      BY <1>1, <1>4, <2>2, <2>3
    <3>2. Sought(c, f.seek)
      BY <1>1, <1>2, <2>2, <3>1, ListedSound
    <3>. QED
      BY <1>2, <2>2, <3>1, <3>2 DEF Holds, SoundHead
  <2>. QED
    BY <1>3, <1>5, <1>8, <2>1, <2>2, <2>3
<1>10. CASE \E h \in 1 .. Len(c) : After(c, f, h) /\ f.first + f.n <= f.seek
  <2>1. PICK h \in 1 .. Len(c) : After(c, f, h) /\ f.first + f.n <= f.seek
    BY <1>10
  <2>2. ~Reached(f) /\ ~f.eof
    BY <1>1, <1>4, <2>1 DEF After
  <2>. QED
    BY <1>3, <1>5, <1>8, <2>1, <2>2
<1>. QED
  BY <1>2, <1>6, <1>7, <1>9, <1>10


\* Reading a header keeps the reader in order.
LEMMA ReaderReads ==
  ASSUME FileOK(file), NEW f \in ReadFile, ReaderAt(file, f), f.at = "scan", ~f.fail,
         NEW g \in ReadHead(f)
  PROVE  ReaderAt(file, g)
<1>1. /\ f.seek \in Nat /\ f.pos \in Nat /\ f.first \in Nat /\ f.n \in Nat /\ f.eof \in BOOLEAN
      /\ f.fail = FALSE
      /\ file \in Seq(Cell) /\ Len(file) \in Nat
      /\ \A i \in 1 .. Len(file) : file[i].first \in Nat /\ file[i].n \in Nat
  BY ReadFields, LenProperties, CellFacts, ScanAhead DEF FileOK
<1>2. /\ IsPast(file, f) => ~Sought(file, f.seek)
      /\ Reached(f) => \/ IsPast(file, f)
                       \/ \E h \in 1 .. Len(file) : Loaded(file, f, h) /\ Holds(file, h, f.seek)
      /\ ~Reached(f) => IsPast(file, f) \/ Ahead(file, f)
      /\ IsPast(file, f) \/ ~f.eof
      /\ Listed(file, f.seek) /\ (Sought(file, f.seek) => f.first <= f.seek)
  BY ScanAhead DEF ReaderAt
<1>3. CASE (Reached(f) \/ f.fail \/ f.eof) /\ g = [f EXCEPT !.at = "found"]
  <2>1. /\ g.at = "found" /\ g.seek = f.seek /\ g.pos = f.pos /\ g.first = f.first /\ g.n = f.n
        /\ g.eof = f.eof /\ g.buf = f.buf
    BY <1>3 DEF ReadFile
  <2>2. \/ IsPast(file, f)
        \/ \E h \in 1 .. Len(file) : Loaded(file, f, h) /\ Holds(file, h, f.seek)
    BY <1>1, <1>2, <1>3
  <2>3. \/ IsPast(file, g) /\ ~Sought(file, g.seek)
        \/ \E h \in 1 .. Len(file) : Loaded(file, g, h) /\ Holds(file, h, g.seek)
    BY <1>2, <2>1, <2>2 DEF IsPast, Loaded, After, HeadAt
  <2>. QED
    BY <2>1, <2>3 DEF ReaderAt
<1>4. CASE ~Reached(f) /\ f.pos >= Len(file) /\ g = [f EXCEPT !.at = "found", !.eof = TRUE]
  <2>1. g.at = "found" /\ g.seek = f.seek /\ g.pos = f.pos /\ g.first = f.first
    BY <1>4 DEF ReadFile
  <2>2. IsPast(file, f)
    <3>. SUFFICES ASSUME Ahead(file, f) PROVE FALSE
      BY <1>2, <1>4
    <3>1. f.pos = Len(file) /\ SoundTo(file, Len(file))
      BY <1>1, <1>4 DEF Ahead, Edge
    <3>2. PICK k \in 1 .. Len(file) : Holds(file, k, f.seek)
      BY <1>2 DEF Listed
    <3>3. SoundHead(file, k)
      BY <1>1, <3>1, <3>2 DEF SoundHead, SoundTo, Holds
    <3>4. file[k].first + file[k].n <= f.seek /\ f.seek < file[k].first + file[k].n
      BY <1>1, <3>1, <3>2, <3>3 DEF Ahead, Holds
    <3>. QED
      BY <1>1, <3>4
  <2>3. IsPast(file, g) /\ ~Sought(file, g.seek)
    BY <1>2, <2>1, <2>2 DEF IsPast
  <2>. QED
    BY <2>1, <2>3 DEF ReaderAt
<1>5. ASSUME ~Reached(f), f.pos < Len(file), file[f.pos + 1].t = "head",
             Ahead(file, f) => Good(file, f.pos + 1)
      PROVE  \/ Ahead(file, f) /\ SoundHead(file, f.pos + 1)
             \/ Above(file, file[f.pos + 1].first) /\ PastTorn(file, f.pos + 1) /\ IsPast(file, f)
  <2>1. CASE Ahead(file, f)
    BY <1>1, <1>5, <2>1, EdgeNext DEF Ahead
  <2>2. CASE IsPast(file, f)
    BY <1>1, <1>5, <2>2, TornHead DEF IsPast
  <2>. QED
    BY <1>2, <1>5, <2>1, <2>2
<1>6. ASSUME f.pos < Len(file), Ahead(file, f), ~Good(file, f.pos + 1)
      PROVE  PastTorn(file, f.pos + 1) /\ ~Sought(file, f.seek)
  <2>1. PastTorn(file, f.pos + 1)
    <3>1. f.pos + 1 \in 1 .. Len(file)
      BY <1>1, <1>6
    <3>. QED
      BY <1>6, <3>1 DEF PastTorn
  <2>2. ASSUME NEW i \in 1 .. Len(file), SoundHead(file, i) PROVE ~Holds(file, i, f.seek)
    <3>1. i <= f.pos
      BY <1>1, <1>6, <2>2 DEF SoundHead, SoundTo
    <3>2. file[i].first + file[i].n <= f.seek
      BY <1>6, <2>2, <3>1 DEF Ahead
    <3>. QED
      BY <1>1, <3>2 DEF Holds
  <2>. QED
    BY <2>1, <2>2 DEF Sought
<1>13. ASSUME f.pos < Len(file), file[f.pos + 1].t = "head", Ahead(file, f), ~Good(file, f.pos + 1)
       PROVE  Above(file, file[f.pos + 1].first)
  BY <1>1, <1>13, TornHead DEF Ahead
<1>7. CASE /\ ~Reached(f) /\ ~f.eof /\ f.pos < Len(file)
           /\ file[f.pos + 1].t = "head"
           /\ f.seek # End /\ file[f.pos + 1].first + file[f.pos + 1].n > f.seek
           /\ g = [f EXCEPT !.at = "load", !.pos = f.pos + 1, !.first = file[f.pos + 1].first,
                            !.n = file[f.pos + 1].n]
  <2>. DEFINE h == f.pos + 1
  <2>1. /\ g.at = "load" /\ g.seek = f.seek /\ g.pos = h /\ g.first = file[h].first
        /\ g.n = file[h].n /\ g.eof = f.eof /\ h \in 1 .. Len(file)
    BY <1>1, <1>7 DEF ReadFile
  <2>. HIDE DEF h
  <2>2. CASE Ahead(file, f) /\ Good(file, h)
    <3>1. SoundHead(file, h)
      BY <1>1, <1>7, <2>2, EdgeNext DEF Ahead, h
    <3>2. Sought(file, f.seek)
      BY <1>1, <1>2, <1>7, <3>1, ListedSound DEF h
    <3>3. PICK i \in 1 .. Len(file) : SoundHead(file, i) /\ Holds(file, i, f.seek)
      BY <3>2 DEF Sought
    <3>4. ~(i < h)
      <4>1. i < h => i <= f.pos
        BY <1>1 DEF h
      <4>2. i <= f.pos => file[i].first + file[i].n <= f.seek
        BY <2>2, <3>3 DEF Ahead
      <4>. QED
        BY <1>1, <3>3, <4>1, <4>2 DEF Holds
    <3>5. ~(h < i)
      <4>1. h < i => file[h].first + file[h].n <= file[i].first
        BY <2>1, <3>1, <3>3 DEF FileOK, Ordered, SoundHead
      <4>. QED
        BY <1>1, <1>7, <2>1, <3>3, <4>1 DEF Holds, h
    <3>6. i = h
      BY <1>1, <2>1, <3>4, <3>5
    <3>7. HeadAt(file, g, g.pos) /\ Holds(file, g.pos, g.seek)
      BY <2>1, <3>1, <3>3, <3>6 DEF HeadAt
    <3>. QED
      BY <1>7, <2>1, <3>7 DEF ReaderAt
  <2>3. CASE ~(Ahead(file, f) /\ Good(file, h))
    <3>1. Above(file, file[h].first) /\ PastTorn(file, h) /\ ~Sought(file, f.seek)
      BY <1>1, <1>2, <1>5, <1>6, <1>13, <1>7, <2>3 DEF h
    <3>2. IsPast(file, g) /\ ~Sought(file, g.seek)
      BY <2>1, <3>1 DEF IsPast
    <3>. QED
      BY <2>1, <3>2 DEF ReaderAt
  <2>. QED
    BY <2>2, <2>3
<1>8. ASSUME ~Reached(f), ~f.eof, f.pos < Len(file), file[f.pos + 1].t = "head",
             f.seek = End \/ file[f.pos + 1].first + file[f.pos + 1].n <= f.seek,
             NEW p \in SkipTo(f.pos + 1, file[f.pos + 1].n),
             g = [f EXCEPT !.pos = p, !.first = file[f.pos + 1].first, !.n = file[f.pos + 1].n]
      PROVE  ReaderAt(file, g)
  <2>. DEFINE h == f.pos + 1
  <2>1. /\ g.at = "scan" /\ g.seek = f.seek /\ g.pos = p /\ g.first = file[h].first
        /\ g.n = file[h].n /\ g.eof = f.eof /\ g.fail = FALSE /\ h \in 1 .. Len(file) /\ h \in Nat
    BY <1>1, <1>8 DEF ReadFile
  <2>2. file[h].first + file[h].n <= f.seek
    BY <1>1, <1>8 DEF End
  <2>3. /\ p \in Nat /\ h <= p
        /\ Good(file, h) => p = h + file[h].n
    BY <1>1, <1>8, <2>1, SkipFacts, PayloadIsGood
  <2>. HIDE DEF h
  <2>4. g.first <= g.seek
    BY <1>1, <2>1, <2>2
  <2>5. CASE Ahead(file, f) /\ Good(file, h)
    <3>1. SoundHead(file, h)
      BY <1>1, <1>8, <2>5, EdgeNext DEF Ahead, h
    <3>2. After(file, g, h) /\ g.first + g.n <= g.seek
      BY <1>8, <2>1, <2>2, <2>3, <2>5, <3>1 DEF After, HeadAt
    <3>. QED
      BY <1>2, <2>1, <2>4, <3>2 DEF ReaderAt
  <2>6. CASE ~(Ahead(file, f) /\ Good(file, h))
    <3>1. Above(file, file[h].first) /\ PastTorn(file, h)
      BY <1>1, <1>2, <1>5, <1>6, <1>13, <1>8, <2>6 DEF h
    <3>2. PastTorn(file, p)
      BY <1>1, <2>1, <2>3, <3>1, TornAfter
    <3>3. IsPast(file, g)
      BY <2>1, <3>1, <3>2 DEF IsPast
    <3>. QED
      BY <1>2, <2>1, <2>4, <3>3 DEF ReaderAt, Rests
  <2>. QED
    BY <2>5, <2>6
<1>9. CASE g = [f EXCEPT !.at = "found", !.fail = TRUE]
  <2>1. g.at = "found" /\ g.fail = TRUE
    BY <1>9 DEF ReadFile
  <2>. QED
    BY <2>1 DEF ReaderAt
\* What is no header is read by a reader that has lost its way, or is a tear.
<1>10. ASSUME f.pos < Len(file), file[f.pos + 1].t # "head", Ahead(file, f)
       PROVE  file[f.pos + 1].t = "bare" \/ (file[f.pos + 1].t = "half" /\ f.pos + 1 = Len(file))
  <2>1. f.pos + 1 \in 1 .. Len(file) /\ (f.pos + 1) - 1 = f.pos
    BY <1>1, <1>10
  <2>2. file[f.pos + 1].t \in {"half", "bare"} /\ SoundTo(file, f.pos)
    BY <1>1, <1>10, <2>1, CellFacts DEF Ahead, Edge
  <2>. QED
    BY <2>1, <2>2 DEF FileOK, HalfLast
<1>11. ASSUME f.pos < Len(file), file[f.pos + 1].t # "head", file[f.pos + 1].t # "bare",
              file[f.pos + 1].t = "half" => f.pos + 1 # Len(file), ~Reached(f)
       PROVE  IsPast(file, f)
  BY <1>2, <1>10, <1>11
<1>12. ASSUME ~Reached(f), f.pos < Len(file), file[f.pos + 1].t # "head", file[f.pos + 1].t # "bare",
              file[f.pos + 1].t = "half" => f.pos + 1 # Len(file),
              NEW p \in f.pos + 1 .. Len(file) + 1, g = [f EXCEPT !.pos = p]
       PROVE  ReaderAt(file, g)
  <2>1. /\ g.at = "scan" /\ g.seek = f.seek /\ g.pos = p /\ g.first = f.first
    BY <1>1, <1>12 DEF ReadFile
  <2>2. IsPast(file, f)
    BY <1>11, <1>12
  <2>3. p \in Nat /\ f.pos <= p
    BY <1>1
  <2>4. IsPast(file, g)
    BY <1>1, <2>1, <2>2, <2>3, TornAfter DEF IsPast
  <2>. QED
    BY <1>2, <2>1, <2>4 DEF ReaderAt, Rests
<1>14. ASSUME ~Reached(f), f.pos < Len(file), file[f.pos + 1].t # "head", file[f.pos + 1].t # "bare",
              file[f.pos + 1].t = "half" => f.pos + 1 # Len(file),
              g = [f EXCEPT !.at = "found", !.eof = TRUE]
       PROVE  ReaderAt(file, g)
  <2>1. g.at = "found" /\ g.seek = f.seek /\ g.pos = f.pos /\ g.first = f.first
    BY <1>14 DEF ReadFile
  <2>2. IsPast(file, g) /\ ~Sought(file, g.seek)
    BY <1>2, <1>11, <1>14, <2>1 DEF IsPast
  <2>. QED
    BY <2>1, <2>2 DEF ReaderAt
\* A number that is listed comes before a header that is torn at the end.
<1>15. ASSUME ~Reached(f), f.pos < Len(file), file[f.pos + 1].t = "bare", f.pos + 1 = Len(file),
              g = [f EXCEPT !.at = "found", !.eof = TRUE, !.pos = f.pos + 1]
       PROVE  ReaderAt(file, g)
  <2>1. g.at = "found" /\ g.seek = f.seek /\ g.pos = f.pos + 1 /\ g.first = f.first
    BY <1>15 DEF ReadFile
  <2>2. IsPast(file, f)
    <3>. SUFFICES ASSUME Ahead(file, f) PROVE FALSE
      BY <1>2, <1>15
    <3>1. PICK k \in 1 .. Len(file) : Holds(file, k, f.seek)
      BY <1>2 DEF Listed
    <3>2. k <= f.pos
      BY <1>1, <1>15, <3>1 DEF Holds
    <3>3. SoundHead(file, k)
      BY <1>1, <3>1, <3>2 DEF SoundHead, SoundTo, Holds, Ahead, Edge
    <3>4. file[k].first + file[k].n <= f.seek /\ f.seek < file[k].first + file[k].n
      BY <1>1, <3>1, <3>2, <3>3 DEF Ahead, Holds
    <3>. QED
      BY <1>1, <3>4
  <2>3. IsPast(file, g) /\ ~Sought(file, g.seek)
    <3>1. f.pos + 1 \in Nat /\ f.pos <= f.pos + 1
      BY <1>1
    <3>. QED
      BY <1>1, <1>2, <2>1, <2>2, <3>1, TornAfter DEF IsPast
  <2>. QED
    BY <2>1, <2>3 DEF ReaderAt
<1>16. ASSUME ~Reached(f), f.pos < Len(file), file[f.pos + 1].t # "head",
              file[f.pos + 1].t \in {"half", "bare"} => f.pos + 1 # Len(file), Astray(f, g)
       PROVE  ReaderAt(file, g)
  <2>1. PICK x \in Nat, n \in Nat, p \in f.pos + 1 .. Len(file) + 1, a \in {"load", "scan"} :
            /\ Above(file, x) /\ g = [f EXCEPT !.at = a, !.pos = p, !.first = x, !.n = n]
            /\ a = "scan" => x + n <= f.seek
    <3>1. f.seek # End
      <4>1. f.seek \in Nat
        BY <1>1
      <4>. QED
        BY <4>1 DEF End
    <3>2. PICK x \in Nat, n \in Nat, p \in f.pos + 1 .. Len(file) + 1 :
              /\ Above(file, x)
              /\ \/ g = [f EXCEPT !.at = "load", !.pos = p, !.first = x, !.n = n]
                 \/ /\ x + n <= f.seek
                    /\ g = [f EXCEPT !.at = "scan", !.pos = p, !.first = x, !.n = n]
      BY <1>16, <3>1 DEF Astray
    <3>3. CASE g = [f EXCEPT !.at = "load", !.pos = p, !.first = x, !.n = n]
      BY <3>2, <3>3
    <3>4. CASE x + n <= f.seek /\ g = [f EXCEPT !.at = "scan", !.pos = p, !.first = x, !.n = n]
      BY <3>2, <3>4
    <3>. QED
      BY <3>2, <3>3, <3>4
  <2>2. /\ g.seek = f.seek /\ g.at = a /\ g.pos = p /\ g.first = x
        /\ p \in Nat /\ f.pos + 1 <= p /\ f.pos + 1 \in Nat
    BY <1>1, <2>1 DEF ReadFile
  <2>3. PastTorn(file, f.pos + 1) /\ ~Sought(file, f.seek)
    <3>1. CASE IsPast(file, f)
      <4>1. f.pos <= f.pos + 1
        BY <1>1
      <4>. QED
        BY <1>1, <1>2, <2>2, <3>1, <4>1, TornAfter DEF IsPast
    <3>2. CASE Ahead(file, f)
      <4>1. file[f.pos + 1].t = "bare"
        BY <1>10, <1>16, <3>2
      <4>2. ~Good(file, f.pos + 1)
        BY <4>1 DEF Good
      <4>. QED
        BY <1>6, <1>16, <3>2, <4>2
    <3>. QED
      BY <1>2, <1>16, <3>1, <3>2
  <2>4. IsPast(file, g) /\ ~Sought(file, g.seek)
    BY <1>1, <2>1, <2>2, <2>3, TornAfter DEF IsPast
  <2>. QED
    BY <1>2, <2>2, <2>4 DEF ReaderAt, Rests
<1>. QED
  BY <1>1, <1>3, <1>4, <1>7, <1>8, <1>9, <1>12, <1>14, <1>15, <1>16, ReadHeadCases

\* So does loading a payload.
LEMMA ReaderLoads ==
  ASSUME FileOK(file), NEW f \in ReadFile, ReaderAt(file, f), f.at = "load", ~f.fail,
         NEW g \in LoadBlock(f)
  PROVE  ReaderAt(file, g)
<1>1. /\ f.pos \in Nat /\ f.n \in Nat /\ file \in Seq(Cell) /\ Len(file) \in Nat
  BY ReadFields, LenProperties DEF FileOK
<1>2. \/ ~f.eof /\ HeadAt(file, f, f.pos) /\ Holds(file, f.pos, f.seek)
      \/ IsPast(file, f) /\ ~Sought(file, f.seek)
  BY DEF ReaderAt
<1>3. \A p, eof, msgs :
        LET x == LoadedAt(f, p, eof, msgs) IN
        /\ x.at = "found" /\ x.seek = f.seek /\ x.pos = p /\ x.eof = eof /\ x.fail = f.fail
        /\ x.first = f.first /\ x.n = f.n /\ x.buf = msgs
  BY DEF LoadedAt, ReadFile
<1>4. \A p, eof : FailedAt(f, p, eof).at = "found" /\ FailedAt(f, p, eof).fail = TRUE
  BY DEF FailedAt, ReadFile
<1>5. ASSUME Headed(f), NEW msgs \in Seq(Nat), Len(msgs) = f.n,
             \A k \in 1 .. f.n : msgs[k] = file[f.pos + k].msg,
             g = LoadedAt(f, f.pos + f.n, f.eof, msgs)
      PROVE  ReaderAt(file, g)
  <2>1. /\ g.at = "found" /\ g.seek = f.seek /\ g.pos = f.pos + f.n /\ g.eof = f.eof
        /\ g.first = f.first /\ g.n = f.n /\ g.buf = msgs
    BY <1>3, <1>5
  <2>2. CASE ~f.eof /\ HeadAt(file, f, f.pos) /\ Holds(file, f.pos, f.seek)
    <3>1. f.pos \in 1 .. Len(file)
      BY <2>2 DEF HeadAt, SoundHead
    <3>2. Loaded(file, g, f.pos) /\ Holds(file, f.pos, g.seek)
      BY <1>5, <2>1, <2>2 DEF Loaded, After, HeadAt
    <3>. QED
      BY <2>1, <3>1, <3>2 DEF ReaderAt
  <2>3. CASE IsPast(file, f) /\ ~Sought(file, f.seek)
    <3>1. g.pos \in Nat /\ f.pos <= g.pos
      BY <1>1, <2>1
    <3>2. IsPast(file, g) /\ ~Sought(file, g.seek)
      BY <1>1, <2>1, <2>3, <3>1, TornAfter DEF IsPast
    <3>. QED
      BY <2>1, <3>2 DEF ReaderAt
  <2>. QED
    BY <1>2, <2>2, <2>3
<1>6. ASSUME NEW p, NEW eof, g = FailedAt(f, p, eof) PROVE ReaderAt(file, g)
  BY <1>4, <1>6 DEF ReaderAt
<1>7. ASSUME ~Headed(f), NEW p \in Nat, NEW eof, p = Len(file) \/ f.pos <= p,
             NEW msgs, g = LoadedAt(f, p, eof, msgs)
      PROVE  ReaderAt(file, g)
  <2>1. g.at = "found" /\ g.seek = f.seek /\ g.pos = p /\ g.first = f.first
    BY <1>3, <1>7
  <2>2. IsPast(file, f) /\ ~Sought(file, f.seek)
    <3>. SUFFICES ASSUME HeadAt(file, f, f.pos) PROVE FALSE
      BY <1>2
    <3>1. /\ file[f.pos].t = "head" /\ f.first = file[f.pos].first /\ f.pos \in 1 .. Len(file)
          /\ f.n = file[f.pos].n /\ SoundTo(file, f.pos)
          /\ f.pos \in 1 .. f.pos
      BY <1>1 DEF HeadAt, SoundHead
    <3>2. Good(file, f.pos)
      BY <3>1 DEF SoundTo
    <3>3. f.pos \in Heads /\ PayloadAt(f.pos, f.n)
      BY <1>1, <3>1, <3>2, PayloadIsGood, LenProperties DEF Heads
    <3>. QED
      BY <1>7, <3>1, <3>3 DEF Headed
  <2>3. PastTorn(file, p)
    <3>1. PastTorn(file, f.pos)
      BY <2>2 DEF IsPast
    <3>2. CASE f.pos <= p
      BY <1>1, <1>7, <3>1, <3>2, TornAfter
    <3>3. CASE p = Len(file)
      BY <1>1, <3>1, <3>3 DEF PastTorn
    <3>. QED
      BY <1>7, <3>2, <3>3
  <2>4. IsPast(file, g) /\ ~Sought(file, g.seek)
    BY <2>1, <2>2, <2>3 DEF IsPast
  <2>. QED
    BY <2>1, <2>4 DEF ReaderAt
<1>8. CASE /\ Headed(f)
           /\ \E msgs \in Seq(Nat) :
                 /\ Len(msgs) = f.n /\ \A k \in 1 .. f.n : msgs[k] = file[f.pos + k].msg
                 /\ g = LoadedAt(f, f.pos + f.n, f.eof, msgs)
  BY <1>5, <1>8
<1>9. CASE /\ ~Headed(f)
           /\ \E p \in Nat, eof \in BOOLEAN :
                 /\ p = Len(file) \/ f.pos <= p
                 /\ g = FailedAt(f, p, eof) \/ \E msgs \in Seq(Nat) : g = LoadedAt(f, p, eof, msgs)
  BY <1>6, <1>7, <1>9
<1>. QED
  BY <1>1, <1>8, <1>9, LoadBlockCases


\* What is appended changes nothing for the reader.
LEMMA ReaderLater ==
  ASSUME NEW c, FileOK(c), NEW d, FileOK(d), Extends(c, d), NEW f \in ReadFile, ReaderAt(c, f)
  PROVE  ReaderAt(d, f)
<1>1. /\ c \in Seq(Cell) /\ d \in Seq(Cell) /\ Len(c) \in Nat /\ Len(d) \in Nat /\ Len(c) <= Len(d)
      /\ \A i \in 1 .. Len(c) : d[i] = c[i]
      /\ f.seek \in Int
  BY ReadFields, LenProperties DEF FileOK, Extends
<1>2. /\ \A i \in 1 .. Len(c) : SoundHead(d, i) <=> SoundHead(c, i)
      /\ PastTorn(c, f.pos) => PastTorn(d, f.pos)
      /\ \A i \in 0 .. Len(c) : SoundTo(d, i) <=> SoundTo(c, i)
  BY <1>1, SoundLater
<1>3. ASSUME NEW h, HeadAt(c, f, h) PROVE HeadAt(d, f, h)
  BY <1>1, <1>2, <1>3 DEF HeadAt, SoundHead
<1>4. ASSUME NEW h, After(c, f, h) PROVE After(d, f, h)
  BY <1>3, <1>4 DEF After
<1>5. ASSUME NEW h, Loaded(c, f, h) PROVE Loaded(d, f, h)
  <2>1. SoundHead(c, h) /\ f.n = c[h].n /\ After(c, f, h)
    BY <1>5 DEF Loaded, After, HeadAt
  <2>2. h + f.n <= Len(c) /\ h \in 1 .. Len(c)
    BY <2>1, AfterEdge
  <2>3. \A k \in 1 .. f.n : d[h + k] = c[h + k]
    <3>1. f.n \in Nat
      BY ReadFields
    <3>2. \A k \in 1 .. f.n : h + k \in 1 .. Len(c)
      BY <1>1, <2>2, <3>1
    <3>. QED
      BY <1>1, <3>2
  <2>. QED
    BY <1>4, <1>5, <2>1, <2>3 DEF Loaded
<1>6. ASSUME PastTorn(c, f.pos), NEW i \in 1 .. Len(d), SoundHead(d, i)
      PROVE  i \in 1 .. Len(c) /\ SoundHead(c, i) /\ d[i] = c[i]
  <2>1. PICK j \in 1 .. Len(c) : ~Good(c, j)
    BY <1>6 DEF PastTorn
  <2>2. ~Good(d, j)
    BY <1>1, <2>1, GoodLater
  <2>3. i < j
    BY <1>1, <1>6, <2>2 DEF SoundHead, SoundTo
  <2>4. i \in 1 .. Len(c)
    BY <1>1, <2>3
  <2>. QED
    BY <1>1, <1>2, <1>6, <2>4
<1>7. ASSUME IsPast(c, f) PROVE IsPast(d, f) /\ (Sought(d, f.seek) => Sought(c, f.seek))
  BY <1>2, <1>6, <1>7 DEF IsPast, Above, Sought, Holds
<1>8. \A i \in 1 .. Len(c) : Holds(c, i, f.seek) => Holds(d, i, f.seek) /\ i \in 1 .. Len(d)
  BY <1>1 DEF Holds
<1>9. Rests(c, f) => Rests(d, f)
  <2>1. ASSUME NEW h \in 1 .. Len(c), Loaded(c, f, h) PROVE \E k \in 1 .. Len(d) : Loaded(d, f, k)
    BY <1>1, <1>5, <2>1
  <2>. QED
    BY <1>7, <2>1 DEF Rests
<1>10. ASSUME Listed(c, f.seek), Sought(d, f.seek) PROVE Sought(c, f.seek)
  <2>1. PICK k \in 1 .. Len(c) : Holds(c, k, f.seek)
    BY <1>10 DEF Listed
  <2>2. PICK i \in 1 .. Len(d) : SoundHead(d, i) /\ Holds(d, i, f.seek)
    BY <1>10 DEF Sought
  <2>3. CASE i <= Len(c)
    <3>1. i \in 1 .. Len(c) /\ SoundHead(c, i) /\ d[i] = c[i]
      BY <1>1, <1>2, <2>2, <2>3
    <3>. QED
      BY <2>2, <3>1 DEF Sought, Holds
  <2>4. CASE Len(c) < i
    <3>1. SoundTo(d, k)
      BY <1>1, <2>2, <2>4 DEF SoundHead, SoundTo
    <3>2. k \in 0 .. Len(c)
      BY <1>1
    <3>3. SoundHead(c, k)
      BY <1>2, <2>1, <3>1, <3>2 DEF SoundHead, Holds
    <3>. QED
      BY <2>1, <3>3 DEF Sought
  <2>. QED
    BY <1>1, <2>3, <2>4
<1>11. CASE f.at = "idle" /\ ~f.fail
  BY <1>9, <1>11 DEF ReaderAt
<1>12. CASE f.at = "scan" /\ ~f.fail
  <2>1. Listed(d, f.seek) /\ (Sought(d, f.seek) => f.first <= f.seek)
    BY <1>8, <1>10, <1>12 DEF ReaderAt, Listed
  <2>2. \/ Rests(c, f)
        \/ \E h \in 1 .. Len(c) : After(c, f, h) /\ f.first + f.n <= f.seek
    BY <1>12 DEF ReaderAt
  <2>3. \/ Rests(d, f)
        \/ \E h \in 1 .. Len(d) : After(d, f, h) /\ f.first + f.n <= f.seek
    BY <1>1, <1>4, <1>9, <2>2
  <2>. QED
    BY <1>12, <2>1, <2>3 DEF ReaderAt
<1>13. CASE f.at = "load" /\ ~f.fail
  <2>1. \/ ~f.eof /\ HeadAt(c, f, f.pos) /\ Holds(c, f.pos, f.seek)
        \/ IsPast(c, f) /\ ~Sought(c, f.seek)
    BY <1>13 DEF ReaderAt
  <2>2. \/ ~f.eof /\ HeadAt(d, f, f.pos) /\ Holds(d, f.pos, f.seek)
        \/ IsPast(d, f) /\ ~Sought(d, f.seek)
    BY <1>3, <1>7, <1>8, <2>1 DEF HeadAt, SoundHead
  <2>. QED
    BY <1>13, <2>2 DEF ReaderAt
<1>14. CASE f.at \in {"found", "returned"} /\ ~f.fail
  <2>1. \/ IsPast(c, f) /\ ~Sought(c, f.seek)
        \/ \E h \in 1 .. Len(c) : Loaded(c, f, h) /\ Holds(c, h, f.seek)
    BY <1>14 DEF ReaderAt
  <2>2. \/ IsPast(d, f) /\ ~Sought(d, f.seek)
        \/ \E h \in 1 .. Len(d) : Loaded(d, f, h) /\ Holds(d, h, f.seek)
    BY <1>5, <1>7, <1>8, <2>1
  <2>3. f.at = "returned" => f.result = Lookup(f)
    BY DEF ReaderAt
  <2>. QED
    BY <1>14, <2>2, <2>3 DEF ReaderAt
<1>15. CASE f.fail \/ f.at = "closed"
  BY <1>15 DEF ReaderAt
<1>. QED
  BY <1>11, <1>12, <1>13, <1>14, <1>15, ReadFields

\* Every step keeps the reader in order, if it asks for what is in the file.
LEMMA ReaderNext ==
  ASSUME Beyond = 0, IInv, ReaderOK, [Next]_vars
  PROVE  ReaderOK'
<1>. DEFINE f == rf["reader"]
<1>1. /\ FileTypeOK /\ FileOK(file) /\ f \in ReadFile /\ ReaderAt(file, f) /\ FileOK(file')
      /\ Extends(file, file') /\ rf \in [Scanner -> ReadFile]
  BY FileNext, StateFields DEF IInv, ReaderOK, FileTypeOK
<1>. HIDE DEF f
<1>2. SUFFICES ASSUME rf'["reader"] # f PROVE ReaderAt(file', rf'["reader"])
  BY <1>1, ReaderLater DEF ReaderOK
<1>3. CASE Writer \/ Crash
  BY <1>1, <1>2, <1>3
  DEF Writer, OpenAppend, OpenAppended, WriteMsg, FlushStep, Close, Crash, f, Scanner
<1>4. CASE OpenRead
  <2>1. rf'["reader"] \in {OpenedRead, UnopenedRead}
    BY <1>1, <1>4 DEF OpenRead, Scanner
  <2>2. ReaderAt(file', OpenedRead) /\ ReaderAt(file', UnopenedRead)
    BY OpenedFacts DEF ReaderAt, Rests, AtStart, Fresh
  <2>. QED
    BY <2>1, <2>2
<1>5. ASSUME NEW s \in Asked, ReadMsg(s) PROVE ReaderAt(file', rf'["reader"])
  <2>1. /\ f.at = "idle" /\ file' = file
        /\ rf'["reader"] = IF f.fail THEN [f EXCEPT !.seek = s, !.at = "found"] ELSE BeginScan(f, s)
    BY <1>1, <1>5 DEF ReadMsg, f, Scanner
  <2>2. CASE f.fail
    <3>1. [f EXCEPT !.seek = s, !.at = "found"].at = "found"
          /\ [f EXCEPT !.seek = s, !.at = "found"].fail = f.fail
      BY <1>1 DEF ReadFile
    <3>. QED
      BY <2>1, <2>2, <3>1 DEF ReaderAt
  <2>3. CASE ~f.fail
    <3>. DEFINE g == BeginScan(f, s)
    <3>1. s \in Nat /\ Listed(file, s)
      <4>1. s \in Nat /\ s \in Seqnos
        BY <1>5, FileAssumption DEF Asked
      <4>2. file \in Seq(Cell)
        BY <1>1 DEF FileOK
      <4>3. PICK i \in DOMAIN file :
                file[i].t = "head" /\ s \in file[i].first .. file[i].first + file[i].n - 1
        BY <4>1 DEF Seqnos, Heads
      <4>4. i \in 1 .. Len(file)
        BY <4>2, LenProperties
      <4>5. file[i].first \in Nat /\ file[i].n \in Nat
        BY <4>2, <4>4, CellFacts
      <4>. QED
        BY <4>1, <4>3, <4>4, <4>5 DEF Listed, Holds
    <3>2. Rests(file, f)
      BY <1>1, <2>1, <2>3 DEF ReaderAt
    <3>3. CASE s < f.first
      <4>1. g = [[f EXCEPT !.eof = FALSE, !.first = 0, !.n = 0, !.pos = 0]
                 EXCEPT !.seek = s, !.at = "scan"]
        <5>1. s # End
          BY <3>1 DEF End
        <5>2. Rewound(f, s) = [f EXCEPT !.eof = FALSE, !.first = 0, !.n = 0, !.pos = 0]
          BY <3>3, <5>1, Zenon DEF Rewound
        <5>. QED
          BY <5>2, Zenon DEF BeginScan
      <4>2. g.at = "scan" /\ g.seek = s /\ AtStart(g)
        BY <1>1, <4>1 DEF ReadFile, AtStart
      <4>3. ReaderAt(file, g)
        BY <3>1, <4>2 DEF ReaderAt, Rests, AtStart
      <4>. QED
        BY <2>1, <2>3, <4>3
    <3>4. CASE ~(s < f.first)
      <4>1. g = [f EXCEPT !.seek = s, !.at = "scan"]
        BY <3>4 DEF BeginScan, Rewound
      <4>2. /\ g.at = "scan" /\ g.seek = s /\ g.pos = f.pos /\ g.first = f.first /\ g.n = f.n
            /\ g.eof = f.eof /\ g.buf = f.buf
        BY <1>1, <4>1 DEF ReadFile
      <4>3. f.first <= s
        BY <1>1, <3>1, <3>4, ReadFields
      <4>. HIDE DEF g
      <4>4. Rests(file, g)
        BY <3>2, <4>2 DEF Rests, AtStart, IsPast, Loaded, After, HeadAt
      <4>5. ReaderAt(file, g)
        BY <3>1, <4>2, <4>3, <4>4 DEF ReaderAt
      <4>. QED
        BY <2>1, <2>3, <4>5 DEF g
    <3>. QED
      BY <3>3, <3>4
  <2>. QED
    BY <2>2, <2>3
<1>6. CASE ReadMsgReturns
  <2>. DEFINE g == [f EXCEPT !.at = "returned", !.result = Lookup(f)]
  <2>1. f.at = "found" /\ file' = file /\ rf'["reader"] = g
    <3>1. f.at = "found" /\ file' = file
          /\ rf' = [rf EXCEPT !["reader"] = g]
      BY <1>6 DEF ReadMsgReturns, f
    <3>. QED
      BY <1>1, <3>1 DEF Scanner
  <2>2. /\ g.at = "returned" /\ g.result = Lookup(f) /\ g.seek = f.seek /\ g.pos = f.pos
        /\ g.first = f.first /\ g.n = f.n /\ g.eof = f.eof /\ g.buf = f.buf /\ g.fail = f.fail
    BY <1>1 DEF ReadFile
  <2>. HIDE DEF g
  <2>3. g.result = Lookup(g)
    BY <2>2 DEF Lookup
  <2>4. ~f.fail => \/ IsPast(file, f) /\ ~Sought(file, f.seek)
                   \/ \E h \in 1 .. Len(file) : Loaded(file, f, h) /\ Holds(file, h, f.seek)
    BY <1>1, <2>1 DEF ReaderAt
  <2>5. ~g.fail => \/ IsPast(file, g) /\ ~Sought(file, g.seek)
                   \/ \E h \in 1 .. Len(file) : Loaded(file, g, h) /\ Holds(file, h, g.seek)
    BY <2>2, <2>4 DEF IsPast, Loaded, After, HeadAt
  <2>6. ReaderAt(file, g)
    BY <2>2, <2>3, <2>5 DEF ReaderAt
  <2>. QED
    BY <2>1, <2>6
<1>7. CASE ReaderTakes
  <2>. DEFINE g == [f EXCEPT !.at = "idle", !.result = NoResult, !.seek = End]
  <2>1. f.at = "returned" /\ file' = file /\ rf'["reader"] = g
    <3>1. f.at = "returned" /\ file' = file
          /\ rf' = [rf EXCEPT !["reader"] = g]
      BY <1>7 DEF ReaderTakes, f
    <3>. QED
      BY <1>1, <3>1 DEF Scanner
  <2>2. /\ g.at = "idle" /\ g.pos = f.pos /\ g.first = f.first /\ g.n = f.n
        /\ g.eof = f.eof /\ g.buf = f.buf /\ g.fail = f.fail
    BY <1>1 DEF ReadFile
  <2>. HIDE DEF g
  <2>3. ~f.fail => IsPast(file, f) \/ \E h \in 1 .. Len(file) : Loaded(file, f, h)
    BY <1>1, <2>1 DEF ReaderAt
  <2>4. ~g.fail => Rests(file, g)
    BY <2>2, <2>3 DEF Rests, IsPast, Loaded, After, HeadAt
  <2>5. ReaderAt(file, g)
    BY <2>2, <2>4 DEF ReaderAt
  <2>. QED
    BY <2>1, <2>5
<1>8. ASSUME NEW w \in Scanner, ScanStep(w) PROVE ReaderAt(file', rf'["reader"])
  <2>1. file' = file
    BY <1>8 DEF ScanStep
  <2>2. PICK g : /\ \/ rf[w].at = "scan" /\ g \in ReadHead(rf[w])
                    \/ rf[w].at = "load" /\ g \in LoadBlock(rf[w])
                 /\ rf' = [rf EXCEPT ![w] = g]
    BY <1>8 DEF ScanStep
  <2>3. w = "reader"
    BY <1>1, <1>2, <2>2 DEF Scanner, f
  <2>4. /\ \/ f.at = "scan" /\ g \in ReadHead(f)
           \/ f.at = "load" /\ g \in LoadBlock(f)
        /\ rf'["reader"] = g
    BY <1>1, <2>2, <2>3 DEF f, Scanner
  <2>5. CASE ~f.fail
    <3>1. ReaderAt(file, g)
      BY <1>1, <2>4, <2>5, ReaderReads, ReaderLoads
    <3>. QED
      BY <2>1, <2>4, <3>1
  <2>6. CASE f.fail
    <3>1. file \in Seq(Cell)
      BY <1>1 DEF FileOK
    <3>2. g.at = "found" /\ g.fail
      <4>1. CASE f.at = "scan"
        <5>1. g = [f EXCEPT !.at = "found"]
          BY <1>1, <2>4, <2>6, <3>1, <4>1, ReadHeadCases
        <5>. QED
          BY <1>1, <2>6, <5>1 DEF ReadFile
      <4>2. CASE f.at = "load"
        <5>1. \E p, eof : g = FailedAt(f, p, eof) \/ \E msgs : g = LoadedAt(f, p, eof, msgs)
          <6>1. g \in LoadBlock(f)
            BY <2>4, <4>2
          <6>2. CASE Headed(f)
            <7>1. \E msgs \in Seq(Nat) : g = LoadedAt(f, f.pos + f.n, f.eof, msgs)
              BY <1>1, <3>1, <6>1, <6>2, LoadBlockCases
            <7>. QED
              BY <7>1, Zenon
          <6>3. CASE ~Headed(f)
            <7>1. \E p \in Nat, eof \in BOOLEAN :
                    g = FailedAt(f, p, eof) \/ \E msgs \in Seq(Nat) : g = LoadedAt(f, p, eof, msgs)
              <8>. HIDE DEF f
              <8>. QED
                BY <1>1, <3>1, <6>1, <6>3, LoadBlockCases
            <7>. QED
              BY <7>1, Zenon
          <6>. QED
            BY <6>2, <6>3
        <5>2. \A p, eof, msgs :
                 /\ FailedAt(f, p, eof).at = "found" /\ FailedAt(f, p, eof).fail
                 /\ LoadedAt(f, p, eof, msgs).at = "found" /\ LoadedAt(f, p, eof, msgs).fail = f.fail
          BY <1>1 DEF FailedAt, LoadedAt, ReadFile
        <5>. QED
          BY <2>6, <5>1, <5>2
      <4>. QED
        BY <2>4, <4>1, <4>2
    <3>3. ReaderAt(file, g)
      BY <3>2 DEF ReaderAt
    <3>. QED
      BY <2>1, <2>4, <3>3
  <2>. QED
    BY <2>5, <2>6
<1>9. CASE UNCHANGED vars
  BY <1>2, <1>9 DEF vars, f
<1>. QED
  BY <1>3, <1>4, <1>5, <1>6, <1>7, <1>8, <1>9 DEF Next, Reader

\* At first the reader is closed.
LEMMA ReaderInit == Init => ReaderOK
<1>. SUFFICES ASSUME Init PROVE ReaderOK
  OBVIOUS
<1>1. rf["reader"] = ClosedRead
  BY DEF Init, Scanner
<1>2. ReaderAt(file, ClosedRead)
  BY OpenedFacts DEF ReaderAt
<1>. QED
  BY <1>1, <1>2 DEF ReaderOK

\* A reader that asks for no number past the end (Beyond = 0; read_past_end shows
\* what happens after one that does) is given the message of the number it asks
\* for, or none after a failure, also while the file grows (ReadMsg, Scan).
THEOREM ReadsBySeqnoHolds ==
  ASSUME Beyond = 0
  PROVE  Spec => []ReadsBySeqno
<1>. DEFINE f == rf["reader"]
<1>1. ASSUME IInv, ReaderOK, f.at = "returned", NEW i \in SoundHeads, InBlock(i, f.seek)
      PROVE  f.result \in {file[i + 1 + (f.seek - file[i].first)].msg}
                          \cup IF f.fail THEN {NoResult} ELSE {}
  <2>1. /\ FileOK(file) /\ f \in ReadFile /\ file \in Seq(Cell) /\ ReaderAt(file, f)
    BY <1>1, StateFields DEF IInv, FileOK, ReaderOK
  <2>. HIDE DEF f
  <2>2. f.result = Lookup(f) /\ f.seek \in Int /\ f.fail \in BOOLEAN
    BY <1>1, <2>1, ReadFields DEF ReaderAt
  <2>3. CASE f.fail
    BY <2>2, <2>3 DEF Lookup
  <2>4. CASE ~f.fail
    <3>1. i \in 1 .. Len(file) /\ SoundHead(file, i) /\ Holds(file, i, f.seek)
      BY <1>1, <2>1, SoundIs DEF InBlock, Holds, SoundHead
    <3>2. Sought(file, f.seek)
      BY <3>1 DEF Sought
    <3>3. PICK h \in 1 .. Len(file) : Loaded(file, f, h) /\ Holds(file, h, f.seek)
      BY <1>1, <2>1, <2>4, <3>2 DEF ReaderAt
    <3>4. /\ SoundHead(file, h) /\ f.first = file[h].first /\ f.n = file[h].n
          /\ Len(f.buf) = f.n /\ \A k \in 1 .. f.n : f.buf[k] = file[h + k].msg
      BY <3>3 DEF Loaded, After, HeadAt
    <3>5. i = h
      BY <2>1, <2>2, <3>1, <3>3, <3>4, HeadUnique
    <3>6. f.first \in Nat /\ f.n \in Nat /\ h \in Nat /\ f.first <= f.seek /\ f.seek < f.first + f.n
      BY <2>1, <3>3, <3>4, ReadFields DEF Holds
    <3>7. Lookup(f) = f.buf[f.seek - f.first + 1]
      BY <2>2, <2>4, <3>4, <3>6 DEF Lookup
    <3>8. f.seek - f.first + 1 \in 1 .. f.n
          /\ h + (f.seek - f.first + 1) = i + 1 + (f.seek - file[i].first)
      BY <2>2, <3>4, <3>5, <3>6
    <3>9. f.buf[f.seek - f.first + 1] = file[h + (f.seek - f.first + 1)].msg
      BY <3>4, <3>8
    <3>. QED
      BY <2>2, <3>7, <3>8, <3>9
  <2>. QED
    BY <2>3, <2>4
<1>2. IInv /\ ReaderOK => ReadsBySeqno
  BY <1>1 DEF ReadsBySeqno
<1>3. IInv /\ ReaderOK /\ [Next]_vars => ReaderOK'
  BY ReaderNext
<1>4. Init => ReaderOK
  BY ReaderInit
<1>. QED
  BY <1>2, <1>3, <1>4, FileInvariant, PTL DEF Spec

=============================================================================
