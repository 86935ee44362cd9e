----------------------------- MODULE KeyProofs ------------------------------
(* The key decoders, for any keyboard of the shapes KeyboardAssumption names *)
(* and any number of keys.  The argument is about the bytes that were sent   *)
(* and are not decoded: they are the rest of the key the decoder is inside   *)
(* of, then whole keys, the ones that were typed and not yet handled.        *)
EXTENDS KeyProps, SequenceTheorems, WellFoundedInduction, TLAPS

Byte == UNION {{seq[i] : i \in 1 .. Len(seq)} : seq \in Keyboard}

\* What Type puts into the history.
Name(seq) == IF seq = CtrlC THEN "Ctrl-C" ELSE KeyName(seq)
Named == {Name(seq) : seq \in Keyboard}

\* What a decoder may hold of a key it has not decoded.
Esc      == <<"esc">>
Bracket  == <<"esc", "[">>
Paged(x) == <<"esc", "[", x>>
Frag     == {<<>>, Esc, Bracket} \cup {Paged(x) : x \in DOMAIN Page}

Prefix(s, t) == Len(s) <= Len(t) /\ \A i \in 1 .. Len(s) : s[i] = t[i]

\* The history with its bytes: ks[i] is key i, of rest[0] bytes in all the last
\* rest[i] come after it.
History(ks, rest) ==
    /\ ks \in Seq(Keyboard) /\ Len(ks) = Len(term.typed)
    /\ rest \in [0 .. Len(ks) -> Nat] /\ rest[Len(ks)] = 0
    /\ \A i \in 1 .. Len(ks) : /\ term.typed[i] = Name(ks[i])
                               /\ rest[i - 1] = rest[i] + Len(ks[i])

\* The bytes of B are the last ones of the history.
Sent(ks, rest, B) ==
    \A i \in 1 .. Len(ks) : \A j \in 1 .. Len(ks[i]) :
       Len(B) + j > rest[i - 1] => B[Len(B) - rest[i - 1] + j] = ks[i][j]

\* A decoder that has decoded n keys and holds f, with r bytes to come, is inside
\* key n + 1; every Escape but the last key is decoded.
Place(ks, rest, n, f, r) ==
    /\ n \in 0 .. Len(ks) /\ f \in Frag /\ r \in Nat
    /\ rest[n] = Len(f) + r
    /\ f # <<>> => /\ n < Len(ks) /\ Len(f) <= Len(ks[n + 1])
                   /\ \A j \in 1 .. Len(f) : f[j] = ks[n + 1][j]
    /\ \A i \in 1 .. Len(ks) - 1 : ks[i] = Esc => i <= n

-----------------------------------------------------------------------------
(* Keys and their names. *)

LEMMA Shapes ==
    ASSUME NEW seq \in Keyboard
    PROVE  /\ seq \in Seq(Byte)
           /\ Len(seq) \in {1, 3, 4}
           /\ Len(seq) = 1 => seq = <<seq[1]>> /\ seq[1] # ""
           /\ Len(seq) # 1 => seq[1] = "esc" /\ seq[2] = "["
           /\ Len(seq) = 3 => seq[3] \in DOMAIN Csi
           /\ Len(seq) = 4 => seq[3] \in DOMAIN Page /\ seq[4] = "~"
<1>1. ASSUME NEW b, seq = <<b>>, b # ""
      PROVE  seq \in Seq(Byte) /\ Len(seq) = 1 /\ seq = <<seq[1]>> /\ seq[1] # ""
  <2>1. Len(seq) = 1 /\ seq[1] = b
    BY <1>1
  <2>2. b \in Byte
    BY <2>1 DEF Byte
  <2>3. <<b>> \in Seq(Byte)
    BY <2>2
  <2> QED
    BY <1>1, <2>1, <2>3
<1>2. ASSUME NEW x \in DOMAIN Csi, seq = <<"esc", "[", x>>
      PROVE  /\ seq \in Seq(Byte) /\ Len(seq) = 3
             /\ seq[1] = "esc" /\ seq[2] = "[" /\ seq[3] \in DOMAIN Csi
  <2>1. Len(seq) = 3 /\ seq[1] = "esc" /\ seq[2] = "[" /\ seq[3] = x
    BY <1>2
  <2>2. seq[1] \in Byte /\ seq[2] \in Byte /\ seq[3] \in Byte
    BY <2>1 DEF Byte
  <2>3. <<seq[1], seq[2], seq[3]>> \in Seq(Byte)
    BY <2>2
  <2> QED
    BY <1>2, <2>1, <2>3
<1>3. ASSUME NEW x \in DOMAIN Page, seq = <<"esc", "[", x, "~">>
      PROVE  /\ seq \in Seq(Byte) /\ Len(seq) = 4
             /\ seq[1] = "esc" /\ seq[2] = "[" /\ seq[3] \in DOMAIN Page /\ seq[4] = "~"
  <2>1. Len(seq) = 4 /\ seq[1] = "esc" /\ seq[2] = "[" /\ seq[3] = x /\ seq[4] = "~"
    BY <1>3
  <2>2. seq[1] \in Byte /\ seq[2] \in Byte /\ seq[3] \in Byte /\ seq[4] \in Byte
    BY <2>1 DEF Byte
  <2>3. <<seq[1], seq[2], seq[3], seq[4]>> \in Seq(Byte)
    BY <2>2
  <2> QED
    BY <1>3, <2>1, <2>3
<1>4. \/ \E b : seq = <<b>> /\ b # ""
      \/ \E x \in DOMAIN Csi : seq = <<"esc", "[", x>>
      \/ \E x \in DOMAIN Page : seq = <<"esc", "[", x, "~">>
  <2>1. \/ seq = <<seq[1]>> /\ seq[1] # ""
        \/ \E x \in DOMAIN Csi : seq = <<"esc", "[", x>>
        \/ \E x \in DOMAIN Page : seq = <<"esc", "[", x, "~">>
    BY KeyboardAssumption
  <2> QED
    BY <2>1, Zenon
<1>5. CASE \E b : seq = <<b>> /\ b # ""
  <2>1. seq \in Seq(Byte) /\ Len(seq) = 1 /\ seq = <<seq[1]>> /\ seq[1] # ""
    BY <1>1, <1>5, Zenon
  <2>2. 1 # 3 /\ 1 # 4
    OBVIOUS
  <2> QED
    BY <2>1, <2>2, Zenon
<1>6. CASE \E x \in DOMAIN Csi : seq = <<"esc", "[", x>>
  BY <1>2, <1>6
<1>7. CASE \E x \in DOMAIN Page : seq = <<"esc", "[", x, "~">>
  BY <1>3, <1>7
<1> QED
  BY <1>4, <1>5, <1>6, <1>7

LEMMA Domains ==
    /\ DOMAIN Csi = {"A", "B", "C", "D", "H", "F"}
    /\ DOMAIN Page = {"5", "6"}
    /\ DOMAIN Plain = {"cr", "nl", "del", "bs", "tab", "sp", "soh"}
BY DEF Csi, Page, Plain

LEMMA NamesOf ==
    /\ \A byte : byte # "" => NameOf(byte) # ""
    /\ \A x \in DOMAIN Csi : Csi[x] # ""
    /\ \A x \in DOMAIN Page : Page[x] # ""
<1>1. \A byte \in DOMAIN Plain : Plain[byte] # ""
  <2>1. /\ Plain["cr"] = "Enter" /\ Plain["nl"] = "Enter" /\ Plain["del"] = "Backspace"
        /\ Plain["bs"] = "Backspace" /\ Plain["tab"] = "Tab" /\ Plain["sp"] = "Space"
        /\ Plain["soh"] = "Ctrl-A"
    BY DEF Plain
  <2> QED
    BY <2>1, Domains
<1>2. \A byte : byte # "" => NameOf(byte) # ""
  BY <1>1 DEF NameOf
<1>3. \A x \in DOMAIN Csi : Csi[x] # ""
  <2>1. /\ Csi["A"] = "Up" /\ Csi["B"] = "Down" /\ Csi["C"] = "Right"
        /\ Csi["D"] = "Left" /\ Csi["H"] = "Home" /\ Csi["F"] = "End"
    BY DEF Csi
  <2> QED
    BY <2>1, Domains
<1>4. \A x \in DOMAIN Page : Page[x] # ""
  BY DEF Page
<1> QED
  BY <1>2, <1>3, <1>4

LEMMA Naming ==
    ASSUME NEW seq \in Keyboard
    PROVE  /\ Name(seq) \in Named
           /\ Len(seq) = 1 /\ seq[1] # "etx" =>
                 Name(seq) = IF seq[1] = "esc" THEN "Escape" ELSE NameOf(seq[1])
           /\ Len(seq) = 3 => Name(seq) = Csi[seq[3]]
           /\ Len(seq) = 4 => Name(seq) = Page[seq[3]]
<1>1. Len(CtrlC) = 1 /\ CtrlC[1] = "etx"
  BY DEF CtrlC
<1>2. seq = CtrlC => Len(seq) = 1 /\ seq[1] = "etx"
  BY <1>1
<1>3. Len(seq) = 1 => KeyName(seq) = IF seq[1] = "esc" THEN "Escape" ELSE NameOf(seq[1])
  BY DEF KeyName
<1>4. Len(seq) = 3 => KeyName(seq) = Csi[seq[3]]
  BY DEF KeyName
<1>5. Len(seq) = 4 => KeyName(seq) = Page[seq[3]]
  BY DEF KeyName
<1> QED
  BY <1>2, <1>3, <1>4, <1>5 DEF Name, Named

LEMMA Fragments ==
    /\ Len(<<>>) = 0
    /\ Len(Esc) = 1 /\ Esc[1] = "esc"
    /\ Len(Bracket) = 2 /\ Bracket[1] = "esc" /\ Bracket[2] = "["
    /\ \A x : Len(Paged(x)) = 3 /\ Paged(x)[1] = "esc" /\ Paged(x)[2] = "[" /\ Paged(x)[3] = x
BY DEF Esc, Bracket, Paged

LEMMA Indices ==
    /\ \A j \in 1 .. 1 : j = 1
    /\ \A j \in 1 .. 2 : j = 1 \/ j = 2
    /\ \A j \in 1 .. 3 : j = 1 \/ j = 2 \/ j = 3
    /\ 1 \in 1 .. 1 /\ 0 # 1 /\ 0 # 2 /\ 0 # 3
OBVIOUS

-----------------------------------------------------------------------------
(* Where a decoder is. *)

\* There is a key to come as long as there are bytes to come, and the history
\* of a key it is inside of is long enough.
LEMMA NextKey ==
    ASSUME NEW ks, NEW rest, NEW n, NEW f, NEW r,
           History(ks, rest), Place(ks, rest, n, f, r), rest[n] > 0
    PROVE  /\ n + 1 \in 1 .. Len(ks) /\ ks[n + 1] \in Keyboard
           /\ rest[n] = rest[n + 1] + Len(ks[n + 1]) /\ rest[n + 1] \in Nat
           /\ term.typed[n + 1] = Name(ks[n + 1])
<1>1. n \in 0 .. Len(ks) /\ Len(ks) \in Nat
  BY LenProperties DEF History, Place
<1>2. n # Len(ks)
  BY DEF History
<1>3. n + 1 \in 1 .. Len(ks) /\ (n + 1) - 1 = n /\ n + 1 \in 0 .. Len(ks)
  BY <1>1, <1>2
<1>4. ks[n + 1] \in Keyboard
  BY <1>3, ElementOfSeq DEF History
<1>5. rest[n + 1] \in Nat
  BY <1>3 DEF History
<1>6. term.typed[n + 1] = Name(ks[n + 1]) /\ rest[(n + 1) - 1] = rest[n + 1] + Len(ks[n + 1])
  BY <1>3 DEF History
<1> QED
  BY <1>3, <1>4, <1>5, <1>6

\* What is held is not yet the whole key, if there are bytes to come: the one
\* key that is the beginning of others is the last.
LEMMA Held ==
    ASSUME NEW ks, NEW rest, NEW n, NEW f, NEW r,
           History(ks, rest), Place(ks, rest, n, f, r), r > 0
    PROVE  Len(f) < Len(ks[n + 1])
<1> DEFINE k == ks[n + 1]
<1>1. Len(f) \in {0, 1, 2, 3} /\ r \in Nat /\ rest[n] = Len(f) + r
  BY Fragments DEF Place, Frag
<1>2. rest[n] > 0
  BY <1>1
<1>3. /\ n + 1 \in 1 .. Len(ks) /\ k \in Keyboard
      /\ rest[n] = rest[n + 1] + Len(k) /\ rest[n + 1] \in Nat
  BY <1>2, NextKey
<1>4. /\ Len(k) \in {1, 3, 4}
      /\ Len(k) = 1 => k = <<k[1]>>
      /\ Len(k) # 1 => k[1] = "esc" /\ k[2] = "["
      /\ Len(k) = 3 => k[3] \in DOMAIN Csi
      /\ Len(k) = 4 => k[3] \in DOMAIN Page /\ k[4] = "~"
  BY <1>3, Shapes
<1>10. f # <<>> => Len(f) <= Len(k) /\ \A j \in 1 .. Len(f) : f[j] = k[j]
  BY DEF Place
<1> SUFFICES Len(f) < Len(k)
  OBVIOUS
<1> HIDE DEF k
<1>5. CASE f = <<>>
  BY <1>4, <1>5
<1>6. CASE f = Esc
  <2>1. k[1] = "esc"
    BY <1>6, <1>10, Fragments
  <2>2. ASSUME Len(k) = 1 PROVE FALSE
    <3>1. ks[n + 1] = Esc
      BY <2>1, <2>2, <1>4 DEF Esc, k
    <3>2. n + 1 > Len(ks) - 1
      BY <3>1, <1>3, LenProperties DEF Place, History
    <3>3. n + 1 = Len(ks)
      BY <3>2, <1>3, LenProperties DEF History
    <3>4. rest[n + 1] = 0
      BY <3>3 DEF History
    <3> QED
      BY <3>4, <2>2, <1>1, <1>3, <1>6, Fragments
  <2> QED
    BY <2>2, <1>4, <1>6, Fragments
<1>7. CASE f = Bracket
  <2>1. Len(f) = 2 /\ Len(f) <= Len(k)
    BY <1>7, <1>10, Fragments
  <2>2. Len(k) # 1
    <3>1. ASSUME Len(k) = 1 PROVE FALSE
      <4>1. 2 <= 1
        BY <2>1, <3>1, Zenon
      <4> QED
        BY <4>1
    <3> QED
      BY <3>1
  <2>3. Len(k) = 3 \/ Len(k) = 4
    BY <2>2, <1>4
  <2> QED
    BY <2>1, <2>3
<1>8. ASSUME NEW x \in DOMAIN Page, f = Paged(x) PROVE Len(f) < Len(k)
  <2>1. Len(f) = 3 /\ f[3] = x
    BY <1>8, Fragments
  <2>2. Len(f) <= Len(k) /\ f[3] = k[3]
    BY <2>1, <1>10, <1>8, Fragments
  <2>3. k[3] \notin DOMAIN Csi
    BY <2>1, <2>2, <1>8, Domains
  <2> QED
    BY <2>1, <2>2, <2>3, <1>4
<1>9. f \in {<<>>, Esc, Bracket} \cup {Paged(x) : x \in DOMAIN Page}
  BY DEF Place, Frag
<1> QED
  BY <1>5, <1>6, <1>7, <1>8, <1>9

\* The next byte is the one that follows, in that key, what is held of it.
LEMMA NextByte ==
    ASSUME NEW ks, NEW rest, NEW n, NEW f, NEW r, NEW B \in Seq(Byte),
           History(ks, rest), Sent(ks, rest, B), Place(ks, rest, n, f, r),
           r > 0, r <= Len(B)
    PROVE  /\ Len(f) + 1 \in 1 .. Len(ks[n + 1])
           /\ B[Len(B) - r + 1] = ks[n + 1][Len(f) + 1]
<1> DEFINE k == ks[n + 1]
<1>1. Len(f) \in {0, 1, 2, 3} /\ r \in Nat /\ rest[n] = Len(f) + r
  BY Fragments DEF Place, Frag
<1>2. rest[n] > 0
  BY <1>1
<1>3. n + 1 \in 1 .. Len(ks) /\ k \in Keyboard /\ n \in Nat
  <2>1. n + 1 \in 1 .. Len(ks) /\ k \in Keyboard
    BY <1>2, NextKey
  <2> QED
    BY <2>1 DEF Place
<1>4. Len(f) < Len(k)
  BY Held
<1>5. Len(k) \in Nat /\ Len(B) \in Nat
  <2>1. Len(k) \in {1, 3, 4}
    BY <1>3, Shapes
  <2> QED
    BY <2>1, LenProperties
<1>6. Len(f) + 1 \in 1 .. Len(k)
  BY <1>1, <1>4, <1>5
<1>7. rest[(n + 1) - 1] = Len(f) + r
  <2>1. (n + 1) - 1 = n
    BY <1>3
  <2> QED
    BY <2>1, <1>1
<1>8. Len(B) + (Len(f) + 1) > rest[(n + 1) - 1]
  <2>1. Len(B) + (Len(f) + 1) > Len(f) + r
    BY <1>1, <1>5
  <2> QED
    BY <2>1, <1>7
<1>9. B[Len(B) - rest[(n + 1) - 1] + (Len(f) + 1)] = k[Len(f) + 1]
  BY <1>3, <1>6, <1>8 DEF Sent
<1>10. Len(B) - rest[(n + 1) - 1] + (Len(f) + 1) = Len(B) - r + 1
  <2>1. Len(B) - (Len(f) + r) + (Len(f) + 1) = Len(B) - r + 1
    BY <1>1, <1>5
  <2> QED
    BY <2>1, <1>7
<1> QED
  BY <1>6, <1>9, <1>10

LEMMA HoldMore ==
    ASSUME NEW ks, NEW rest, NEW n, NEW f, NEW r, NEW g \in Frag,
           Place(ks, rest, n, f, r), r > 0, n < Len(ks),
           Len(f) \in Nat, Len(g) = Len(f) + 1, Len(g) <= Len(ks[n + 1]),
           \A j \in 1 .. Len(g) : g[j] = ks[n + 1][j]
    PROVE  Place(ks, rest, n, g, r - 1)
<1>1. r - 1 \in Nat /\ rest[n] = Len(g) + (r - 1)
  BY DEF Place
<1> QED
  BY <1>1 DEF Place

LEMMA Complete ==
    ASSUME NEW ks, NEW rest, NEW n, NEW f, NEW r,
           History(ks, rest), Place(ks, rest, n, f, r), rest[n] > 0,
           Len(f) \in Nat, NEW q \in Nat, Len(ks[n + 1]) = Len(f) + (r - q)
    PROVE  Place(ks, rest, n + 1, <<>>, q) /\ term.typed[n + 1] = Name(ks[n + 1])
<1>1. /\ n + 1 \in 1 .. Len(ks) /\ rest[n + 1] \in Nat
      /\ rest[n] = rest[n + 1] + Len(ks[n + 1])
      /\ term.typed[n + 1] = Name(ks[n + 1])
  BY NextKey
<1>2. n \in Nat /\ r \in Nat /\ rest[n] = Len(f) + r /\ Len(ks) \in Nat
  BY LenProperties DEF Place, History
<1>3. rest[n + 1] = Len(<<>>) + q
  <2>1. Len(f) + r = rest[n + 1] + (Len(f) + (r - q))
    BY <1>1, <1>2
  <2>2. rest[n + 1] = q
    BY <2>1, <1>1, <1>2
  <2> QED
    BY <2>2, Fragments
<1>4. n + 1 \in 0 .. Len(ks) /\ <<>> \in Frag
  BY <1>1, <1>2 DEF Frag
<1>5. \A i \in 1 .. Len(ks) - 1 : ks[i] = Esc => i <= n + 1
  <2>1. \A i \in 1 .. Len(ks) - 1 : ks[i] = Esc => i <= n
    BY DEF Place
  <2>2. \A i \in 1 .. Len(ks) - 1 : i <= n => i <= n + 1
    BY <1>2
  <2> QED
    BY <2>1, <2>2
<1> QED
  BY <1>1, <1>3, <1>4, <1>5 DEF Place

\* What each byte does: the tables of StartKey, AfterEscape, AfterBracket and
\* AfterPage, of which the other cases do not occur.
Decoding(ks, rest, n, f, r, b) ==
    /\ n + 1 \in 1 .. Len(ks) /\ term.typed[n + 1] \in Named
    /\ f = <<>> => b # ""
    /\ f = <<>> /\ b = "esc" => Place(ks, rest, n, Esc, r - 1)
    /\ f = <<>> /\ b \notin {"esc", "etx"} =>
          Place(ks, rest, n + 1, <<>>, r - 1) /\ term.typed[n + 1] = NameOf(b)
    /\ f = Esc => b = "[" /\ Place(ks, rest, n, Bracket, r - 1)
    /\ f = Bracket =>
          \/ /\ b \in DOMAIN Csi /\ term.typed[n + 1] = Csi[b]
             /\ Place(ks, rest, n + 1, <<>>, r - 1)
          \/ b \in DOMAIN Page /\ Place(ks, rest, n, Paged(b), r - 1)
    /\ \A x : f = Paged(x) =>
          /\ b = "~" /\ x \in DOMAIN Page /\ term.typed[n + 1] = Page[x]
          /\ Place(ks, rest, n + 1, <<>>, r - 1)

LEMMA Decodes ==
    ASSUME NEW ks, NEW rest, NEW n, NEW f, NEW r, NEW B \in Seq(Byte), NEW b,
           History(ks, rest), Sent(ks, rest, B), Place(ks, rest, n, f, r),
           r > 0, r <= Len(B), b = B[Len(B) - r + 1]
    PROVE  Decoding(ks, rest, n, f, r, b)
<1> DEFINE k == ks[n + 1]
<1>1. /\ Len(f) + 1 \in 1 .. Len(k)
      /\ b = k[Len(f) + 1]
  BY NextByte
<1>2. Len(f) \in {0, 1, 2, 3} /\ r \in Nat /\ rest[n] = Len(f) + r
  BY Fragments DEF Place, Frag
<1>3. rest[n] > 0
  BY <1>2
<1>4. /\ n + 1 \in 1 .. Len(ks) /\ k \in Keyboard
      /\ term.typed[n + 1] = Name(k)
  BY <1>3, NextKey
<1>5. n \in Nat /\ Len(ks) \in Nat /\ n < Len(ks)
  <2>1. n \in 0 .. Len(ks) /\ Len(ks) \in Nat
    BY LenProperties DEF Place, History
  <2> QED
    BY <2>1, <1>4
<1>6. f # <<>> => Len(f) <= Len(k) /\ \A j \in 1 .. Len(f) : f[j] = k[j]
  BY DEF Place
<1>7. Len(k) \in {1, 3, 4} /\ Len(k) \in Nat
  <2>1. Len(k) \in {1, 3, 4}
    BY <1>4, Shapes
  <2> QED
    BY <2>1
<1>8. ASSUME NEW g \in Frag, Len(g) = Len(f) + 1, \A j \in 1 .. Len(g) : g[j] = k[j]
      PROVE  Place(ks, rest, n, g, r - 1)
  <2>1. Len(f) \in Nat /\ Len(g) <= Len(k)
    BY <1>1, <1>2, <1>7, <1>8
  <2> QED
    BY <2>1, <1>5, <1>8, HoldMore
<1>9. ASSUME Len(k) = Len(f) + 1
      PROVE  Place(ks, rest, n + 1, <<>>, r - 1)
  <2>1. Len(f) \in Nat /\ r - 1 \in Nat
    BY <1>2
  <2>2. Len(k) = Len(f) + (r - (r - 1))
    BY <1>2, <1>9
  <2> QED
    BY <2>1, <2>2, <1>3, Complete
<1> HIDE DEF k
<1>10. ASSUME f = <<>>
       PROVE  /\ b # ""
              /\ b = "esc" => Place(ks, rest, n, Esc, r - 1)
              /\ b \notin {"esc", "etx"} =>
                    Place(ks, rest, n + 1, <<>>, r - 1) /\ term.typed[n + 1] = NameOf(b)
  <2>1. Len(f) = 0 /\ b = k[1]
    BY <1>1, <1>10, Fragments
  <2>2. b # ""
    BY <2>1, <1>4, Shapes
  <2>3. ASSUME b = "esc" PROVE Place(ks, rest, n, Esc, r - 1)
    <3>1. Esc \in Frag /\ Len(Esc) = Len(f) + 1
      BY <2>1, Fragments DEF Frag
    <3>2. \A j \in 1 .. 1 : Esc[j] = k[j]
      BY <2>1, <2>3, Fragments, Indices, Zenon
    <3> QED
      BY <3>1, <3>2, <1>8, Fragments
  <2>4. ASSUME b \notin {"esc", "etx"}
        PROVE  Place(ks, rest, n + 1, <<>>, r - 1) /\ term.typed[n + 1] = NameOf(b)
    <3>1. Len(k) = 1
      BY <2>1, <2>4, <1>4, Shapes
    <3>2. Name(k) = NameOf(b)
      BY <3>1, <2>1, <2>4, <1>4, Naming
    <3>3. Len(k) = Len(f) + 1
      BY <3>1, <2>1
    <3> QED
      BY <3>2, <3>3, <1>4, <1>9
  <2> QED
    BY <2>2, <2>3, <2>4
<1>11. ASSUME f = Esc
       PROVE  b = "[" /\ Place(ks, rest, n, Bracket, r - 1)
  <2>0. Len(f) = 1 /\ f[1] = "esc" /\ 1 \in 1 .. 1 /\ f # <<>>
    BY <1>11, Fragments, Indices, Zenon
  <2>1. b = k[2] /\ k[1] = "esc" /\ Len(k) # 1
    BY <2>0, <1>1, <1>6, <1>7
  <2>2. b = "["
    BY <2>1, <1>4, Shapes
  <2>3. Bracket \in Frag /\ Len(Bracket) = Len(f) + 1
    BY <2>0, Fragments DEF Frag
  <2>4. \A j \in 1 .. 2 : Bracket[j] = k[j]
    BY <2>1, <2>2, Fragments, Indices, Zenon
  <2> QED
    BY <2>2, <2>3, <2>4, <1>8, Fragments
<1>12. ASSUME f = Bracket
       PROVE  \/ /\ b \in DOMAIN Csi /\ term.typed[n + 1] = Csi[b]
                 /\ Place(ks, rest, n + 1, <<>>, r - 1)
              \/ b \in DOMAIN Page /\ Place(ks, rest, n, Paged(b), r - 1)
  <2>1. Len(f) = 2 /\ b = k[3] /\ k[1] = "esc" /\ k[2] = "["
    BY <1>1, <1>6, <1>12, Fragments
  <2>2. Len(k) = 3 \/ Len(k) = 4
    BY <2>1, <1>1, <1>7
  <2>3. CASE Len(k) = 3
    <3>1. b \in DOMAIN Csi /\ Name(k) = Csi[b]
      BY <2>1, <2>3, <1>4, Shapes, Naming
    <3>2. Place(ks, rest, n + 1, <<>>, r - 1)
      BY <2>1, <2>3, <1>9
    <3> QED
      BY <3>1, <3>2, <1>4
  <2>4. CASE Len(k) = 4
    <3>1. b \in DOMAIN Page
      BY <2>1, <2>4, <1>4, Shapes
    <3>2. Paged(b) \in Frag
      BY <3>1 DEF Frag
    <3>3. Len(Paged(b)) = Len(f) + 1 /\ \A j \in 1 .. Len(Paged(b)) : Paged(b)[j] = k[j]
      BY <2>1, Fragments
    <3> QED
      BY <3>1, <3>2, <3>3, <1>8
  <2> QED
    BY <2>2, <2>3, <2>4
<1>13. ASSUME NEW x, f = Paged(x)
       PROVE  /\ b = "~" /\ x \in DOMAIN Page /\ term.typed[n + 1] = Page[x]
              /\ Place(ks, rest, n + 1, <<>>, r - 1)
  <2>1. Len(f) = 3 /\ b = k[4] /\ k[3] = x
    BY <1>1, <1>6, <1>13, Fragments
  <2>2. Len(k) = 4
    BY <2>1, <1>1, <1>7
  <2>3. b = "~" /\ x \in DOMAIN Page /\ Name(k) = Page[x]
    BY <2>1, <2>2, <1>4, Shapes, Naming
  <2>4. Place(ks, rest, n + 1, <<>>, r - 1)
    BY <2>1, <2>2, <1>9
  <2> QED
    BY <2>3, <2>4, <1>4
<1>14. Name(k) \in Named
  BY <1>4, Naming
<1> QED
  BY <1>4, <1>10, <1>11, <1>12, <1>13, <1>14 DEF Decoding

-----------------------------------------------------------------------------
(* The decoder under epoll. *)

DecType == [buf : Frag, armed : BOOLEAN, keys : Seq(Named), running : BOOLEAN]

Good(ks, rest, d, r) ==
    /\ Prefix(d.keys, term.typed)
    /\ d.running => /\ Place(ks, rest, Len(d.keys), d.buf, r)
                    /\ d.armed => d.buf = Esc

LEMMA AppendTwo == \A a, b : Append(<<a>>, b) = <<a, b>>
<1> TAKE a, b
<1> DEFINE S == {a, b}
<1>1. <<a>> \in Seq(S) /\ <<a, b>> \in Seq(S) /\ Append(<<a>>, b) \in Seq(S)
  OBVIOUS
<1>2. Len(<<a, b>>) = 2 /\ Len(<<a>>) = 1
  OBVIOUS
<1>3. Len(Append(<<a>>, b)) = 2
  BY <1>1, <1>2, AppendProperties
<1>4. \A i \in 1 .. 2 : Append(<<a>>, b)[i] = <<a, b>>[i]
  BY <1>1, <1>2, AppendProperties
<1> QED
  BY <1>1, <1>2, <1>3, <1>4, SeqEqual

LEMMA AppendThree == \A a, b, c : Append(<<a, b>>, c) = <<a, b, c>>
<1> TAKE a, b, c
<1> DEFINE S == {a, b, c}
<1>1. <<a, b>> \in Seq(S) /\ <<a, b, c>> \in Seq(S) /\ Append(<<a, b>>, c) \in Seq(S)
  OBVIOUS
<1>2. Len(<<a, b, c>>) = 3 /\ Len(<<a, b>>) = 2
  OBVIOUS
<1>3. Len(Append(<<a, b>>, c)) = 3
  BY <1>1, <1>2, AppendProperties
<1>4. \A i \in 1 .. 3 : Append(<<a, b>>, c)[i] = <<a, b, c>>[i]
  BY <1>1, <1>2, AppendProperties
<1> QED
  BY <1>1, <1>2, <1>3, <1>4, SeqEqual

LEMMA Longer ==
    ASSUME NEW keys \in Seq(Named), NEW name \in Named, Prefix(keys, term.typed),
           Len(term.typed) \in Nat, Len(keys) + 1 <= Len(term.typed),
           term.typed[Len(keys) + 1] = name
    PROVE  /\ Append(keys, name) \in Seq(Named)
           /\ Len(Append(keys, name)) = Len(keys) + 1
           /\ Prefix(Append(keys, name), term.typed)
<1> DEFINE longer == Append(keys, name)
<1>1. longer \in Seq(Named) /\ Len(longer) = Len(keys) + 1
  BY AppendProperties
<1>2. \A i \in 1 .. Len(keys) : longer[i] = keys[i]
  BY AppendProperties
<1>3. longer[Len(keys) + 1] = name
  BY AppendProperties
<1> HIDE DEF longer
<1>4. ASSUME NEW i \in 1 .. Len(longer) PROVE longer[i] = term.typed[i]
  <2>1. i \in 1 .. Len(keys) \/ i = Len(keys) + 1
    BY <1>1, LenProperties
  <2> QED
    BY <2>1, <1>2, <1>3 DEF Prefix
<1>5. Len(longer) <= Len(term.typed)
  BY <1>1
<1>6. Prefix(longer, term.typed)
  BY <1>4, <1>5 DEF Prefix
<1> QED
  BY <1>1, <1>6 DEF longer

LEMMA Reported ==
    ASSUME NEW ks, NEW rest, NEW d \in DecType, NEW r,
           History(ks, rest), Prefix(d.keys, term.typed),
           Len(d.keys) + 1 \in 1 .. Len(ks), term.typed[Len(d.keys) + 1] \in Named,
           Place(ks, rest, Len(d.keys) + 1, <<>>, r)
    PROVE  LET e == Report(d, term.typed[Len(d.keys) + 1])
           IN  e \in DecType /\ Good(ks, rest, e, r)
<1> DEFINE name == term.typed[Len(d.keys) + 1]
           e == Report(d, name)
<1>1. d.keys \in Seq(Named) /\ name \in Named
  BY DEF DecType
<1>2. Len(term.typed) = Len(ks) /\ Len(ks) \in Nat
  BY LenProperties DEF History
<1>3. Len(d.keys) + 1 <= Len(term.typed)
  BY <1>2
<1> HIDE DEF name
<1>4. /\ Append(d.keys, name) \in Seq(Named)
      /\ Len(Append(d.keys, name)) = Len(d.keys) + 1
      /\ Prefix(Append(d.keys, name), term.typed)
  BY <1>1, <1>2, <1>3, Longer DEF name
<1>5. /\ e.keys = Append(d.keys, name) /\ e.buf = <<>> /\ e.armed = FALSE
      /\ e.running = d.running
  BY DEF DecType, Report
<1>6. e \in DecType
  <2>1. <<>> \in Frag
    BY DEF Frag
  <2> QED
    BY <2>1, <1>4 DEF DecType, Report
<1>7. Good(ks, rest, e, r)
  BY <1>4, <1>5 DEF Good
<1> QED
  BY <1>6, <1>7 DEF name

LEMMA Advanced ==
    ASSUME NEW ks, NEW rest, NEW d \in DecType, NEW r, NEW e,
           Prefix(d.keys, term.typed), Place(ks, rest, Len(d.keys), e.buf, r),
           e = [d EXCEPT !.buf = e.buf, !.armed = e.armed] \/ e = [d EXCEPT !.buf = e.buf],
           e.armed \in BOOLEAN, e.armed => e.buf = Esc
    PROVE  e \in DecType /\ Good(ks, rest, e, r)
<1>1. e.buf \in Frag
  BY DEF Place
<1>2. e.keys = d.keys /\ e.running = d.running
  BY DEF DecType
<1>3. e \in DecType
  BY <1>1 DEF DecType
<1>4. Good(ks, rest, e, r)
  BY <1>2 DEF Good
<1> QED
  BY <1>3, <1>4

LEMMA StepGood ==
    ASSUME NEW ks, NEW rest, NEW d \in DecType, NEW r, NEW B \in Seq(Byte), NEW b,
           History(ks, rest), Sent(ks, rest, B), Good(ks, rest, d, r),
           r > 0, r <= Len(B), b = B[Len(B) - r + 1]
    PROVE  Step(d, b) \in DecType /\ Good(ks, rest, Step(d, b), r - 1)
<1>1. CASE ~d.running
  BY <1>1 DEF Step, Good
<1>2. CASE d.running
  <2> DEFINE n == Len(d.keys)
  <2>1. Prefix(d.keys, term.typed) /\ Place(ks, rest, n, d.buf, r) /\ (d.armed => d.buf = Esc)
    BY <1>2 DEF Good
  <2>0. d.keys \in Seq(Named)
    BY DEF DecType
  <2>2. /\ n + 1 \in 1 .. Len(ks) /\ term.typed[n + 1] \in Named
        /\ d.buf = <<>> => b # ""
        /\ d.buf = <<>> /\ b = "esc" => Place(ks, rest, n, Esc, r - 1)
        /\ d.buf = <<>> /\ b \notin {"esc", "etx"} =>
              Place(ks, rest, n + 1, <<>>, r - 1) /\ term.typed[n + 1] = NameOf(b)
        /\ d.buf = Esc => b = "[" /\ Place(ks, rest, n, Bracket, r - 1)
        /\ d.buf = Bracket =>
              \/ /\ b \in DOMAIN Csi /\ term.typed[n + 1] = Csi[b]
                 /\ Place(ks, rest, n + 1, <<>>, r - 1)
              \/ b \in DOMAIN Page /\ Place(ks, rest, n, Paged(b), r - 1)
        /\ \A x : d.buf = Paged(x) =>
              /\ b = "~" /\ x \in DOMAIN Page /\ term.typed[n + 1] = Page[x]
              /\ Place(ks, rest, n + 1, <<>>, r - 1)
    <3>1. Decoding(ks, rest, n, d.buf, r, b)
      BY <2>1, Decodes
    <3> QED
      BY <3>1 DEF Decoding
  <2>3. Step(d, b) = DecodeKeyByte(d, b)
    BY <1>2 DEF Step
  <2>4. ASSUME NEW name, term.typed[n + 1] = name, Place(ks, rest, n + 1, <<>>, r - 1),
               Step(d, b) = Report(d, name)
        PROVE  Step(d, b) \in DecType /\ Good(ks, rest, Step(d, b), r - 1)
    BY <2>1, <2>2, <2>4, Reported
  <2>5. ASSUME NEW f, NEW armed \in BOOLEAN, Place(ks, rest, n, f, r - 1), armed => f = Esc,
               \/ Step(d, b) = [d EXCEPT !.buf = f, !.armed = armed]
               \/ Step(d, b) = [d EXCEPT !.buf = f] /\ armed = d.armed
        PROVE  Step(d, b) \in DecType /\ Good(ks, rest, Step(d, b), r - 1)
    <3>1. Step(d, b).buf = f /\ Step(d, b).armed = armed
      BY <2>5 DEF DecType
    <3> QED
      BY <2>1, <2>5, <3>1, Advanced
  <2> HIDE DEF n
  <2>6. CASE d.buf = <<>>
    <3>1. Step(d, b) = StartKey(d, b)
      BY <2>3, <2>6, Fragments DEF DecodeKeyByte
    <3>2. CASE b = "etx"
      <4>1. Step(d, b) = [d EXCEPT !.running = FALSE]
        BY <3>1, <3>2 DEF StartKey
      <4>3. Step(d, b) \in DecType
        BY <4>1 DEF DecType
      <4>4. Step(d, b).keys = d.keys /\ ~ Step(d, b).running
        BY <4>1 DEF DecType
      <4> QED
        BY <4>3, <4>4, <2>1 DEF Good
    <3>3. CASE b = "esc"
      <4>1. Step(d, b) = [d EXCEPT !.buf = Esc, !.armed = TRUE]
        BY <3>1, <3>3 DEF StartKey, Esc
      <4> QED
        BY <4>1, <2>2, <2>5, <2>6, <3>3
    <3>4. CASE b \notin {"etx", "esc"}
      <4>1. Step(d, b) = Report(d, NameOf(b))
        BY <3>1, <3>4 DEF StartKey
      <4> QED
        BY <4>1, <2>2, <2>4, <2>6, <3>4
    <3> QED
      BY <3>2, <3>3, <3>4
  <2>7. CASE d.buf = Esc
    <3>1. Step(d, b) = AfterEscape(d, b)
      BY <2>3, <2>7, Fragments DEF DecodeKeyByte
    <3>2. Append(Esc, "[") = Bracket
      BY AppendTwo DEF Esc, Bracket
    <3>3. Step(d, b) = [d EXCEPT !.buf = Bracket, !.armed = FALSE]
      BY <3>1, <3>2, <2>2, <2>7 DEF AfterEscape
    <3> QED
      BY <3>3, <2>2, <2>5, <2>7
  <2>8. CASE d.buf = Bracket
    <3>1. Step(d, b) = AfterBracket(d, b)
      BY <2>3, <2>8, Fragments DEF DecodeKeyByte
    <3>2. CASE b \in DOMAIN Csi
      <4>1. Step(d, b) = Report(d, Csi[b]) /\ b \notin DOMAIN Page
        BY <3>1, <3>2, Domains DEF AfterBracket
      <4> QED
        BY <4>1, <2>2, <2>4, <2>8
    <3>3. CASE b \in DOMAIN Page
      <4>1. b \notin DOMAIN Csi
        BY <3>3, Domains
      <4>2. Append(Bracket, b) = Paged(b)
        BY AppendThree DEF Bracket, Paged
      <4>3. Step(d, b) = [d EXCEPT !.buf = Paged(b)]
        BY <3>1, <3>3, <4>1, <4>2, <2>8 DEF AfterBracket
      <4>4. d.armed = FALSE
        BY <2>1, <2>8, Fragments, Indices DEF DecType
      <4> QED
        BY <4>1, <4>3, <4>4, <2>2, <2>5, <2>8
    <3> QED
      BY <3>2, <3>3, <2>2, <2>8
  <2>9. ASSUME NEW x, d.buf = Paged(x)
        PROVE  Step(d, b) \in DecType /\ Good(ks, rest, Step(d, b), r - 1)
    <3>1. Step(d, b) = AfterPage(d, b)
      BY <2>3, <2>9, Fragments DEF DecodeKeyByte
    <3>2. b = "~" /\ d.buf[3] = x
      BY <2>2, <2>9, Fragments
    <3>3. Step(d, b) = Report(d, Page[x])
      BY <3>1, <3>2 DEF AfterPage
    <3> QED
      BY <3>3, <2>2, <2>4, <2>9
  <2>10. d.buf \in {<<>>, Esc, Bracket} \cup {Paged(x) : x \in DOMAIN Page}
    BY <2>1 DEF Place, Frag
  <2> QED
    BY <2>6, <2>7, <2>8, <2>9, <2>10
<1> QED
  BY <1>1, <1>2 DEF DecType

LEMMA LeastNat ==
    ASSUME NEW T \in SUBSET Nat, T # {}
    PROVE  \E n \in T : \A m \in T : n <= m
<1>1. PICK n \in T : \A m \in T : ~ (<<m, n>> \in OpToRel(<, Nat))
  BY WFMin, NatLessThanWellFounded
<1>2. \A m \in T : ~ (m < n)
  BY <1>1 DEF OpToRel
<1> QED
  BY <1>2

\* after tells what the first m bytes make of d.
After(after, d, bytes, m) ==
    after = [i \in 0 .. m |-> IF i = 0 THEN {d} ELSE {Step(x, bytes[i]) : x \in after[i - 1]}]

LEMMA AfterExists ==
    ASSUME NEW d, NEW bytes, NEW n \in Nat
    PROVE  \E after : After(after, d, bytes, n)
<1> DEFINE T == {m \in Nat : ~ \E after : After(after, d, bytes, m)}
<1>1. ASSUME T # {} PROVE FALSE
  <2>1. PICK m \in T : \A l \in T : m <= l
    BY <1>1, LeastNat
  <2>2. m # 0
    <3> DEFINE none == [i \in 0 .. 0 |-> {d}]
    <3>1. \A i \in 0 .. 0 : i = 0
      OBVIOUS
    <3>2. After(none, d, bytes, 0)
      BY <3>1 DEF After
    <3> QED
      BY <3>2
  <2>3. m - 1 \in Nat /\ m - 1 \notin T
    BY <2>1, <2>2
  <2>4. PICK before : After(before, d, bytes, m - 1)
    BY <2>3
  <2> DEFINE all == [i \in 0 .. m |-> IF i = m THEN {Step(x, bytes[m]) : x \in before[m - 1]}
                                               ELSE before[i]]
  <2>5. \A i \in 0 .. m : i # m => i \in 0 .. (m - 1)
    BY <2>1
  <2>6. \A i \in 0 .. (m - 1) : before[i] = IF i = 0 THEN {d} ELSE {Step(x, bytes[i]) : x \in before[i - 1]}
    BY <2>4 DEF After
  <2>7. \A i \in 0 .. m : i # 0 => i - 1 \in 0 .. m /\ i - 1 # m
    BY <2>1
  <2>8. ASSUME NEW i \in 0 .. m
        PROVE  all[i] = IF i = 0 THEN {d} ELSE {Step(x, bytes[i]) : x \in all[i - 1]}
    <3>1. CASE i = m
      <4>1. all[i] = {Step(x, bytes[m]) : x \in before[m - 1]}
        BY <3>1
      <4>2. all[i - 1] = before[m - 1]
        BY <3>1, <2>2, <2>7
      <4> HIDE DEF all
      <4> QED
        BY <4>1, <4>2, <3>1, <2>2
    <3>2. CASE i # m
      <4>1. all[i] = before[i]
        BY <3>2
      <4>2. i # 0 => all[i - 1] = before[i - 1]
        BY <2>7
      <4> HIDE DEF all
      <4> QED
        BY <4>1, <4>2, <3>2, <2>5, <2>6
    <3> QED
      BY <3>1, <3>2
  <2>9. all = [i \in 0 .. m |-> all[i]]
    OBVIOUS
  <2> HIDE DEF all
  <2>10. After(all, d, bytes, m)
    BY <2>8, <2>9 DEF After
  <2> QED
    BY <2>10
<1> QED
  BY <1>1

LEMMA DrainIsAfter ==
    ASSUME NEW d, NEW bytes, Len(bytes) \in Nat
    PROVE  \E after : After(after, d, bytes, Len(bytes)) /\ Drain(d, bytes) = after[Len(bytes)]
<1> DEFINE after == CHOOSE g : After(g, d, bytes, Len(bytes))
<1>1. After(after, d, bytes, Len(bytes))
  BY AfterExists
<1>2. Drain(d, bytes) = after[Len(bytes)]
  BY DEF Drain, After
<1> QED
  BY <1>1, <1>2

LEMMA DrainGood ==
    ASSUME NEW ks, NEW rest, NEW d \in DecType, NEW bytes \in Seq(Byte), NEW B \in Seq(Byte),
           History(ks, rest), Sent(ks, rest, B), Good(ks, rest, d, Len(B)),
           Len(bytes) <= Len(B), \A i \in 1 .. Len(bytes) : bytes[i] = B[i],
           NEW e \in Drain(d, bytes)
    PROVE  e \in DecType /\ Good(ks, rest, e, Len(B) - Len(bytes))
<1>1. Len(bytes) \in Nat /\ Len(B) \in Nat
  BY LenProperties
<1>2. PICK after : After(after, d, bytes, Len(bytes)) /\ Drain(d, bytes) = after[Len(bytes)]
  BY <1>1, DrainIsAfter
<1>3. \A i \in 0 .. Len(bytes) :
         after[i] = IF i = 0 THEN {d} ELSE {Step(x, bytes[i]) : x \in after[i - 1]}
  BY <1>2 DEF After
<1> DEFINE Fine(x, i) == x \in DecType /\ Good(ks, rest, x, Len(B) - i)
           T == {i \in 0 .. Len(bytes) : \E x \in after[i] : ~Fine(x, i)}
<1>4. ASSUME T # {} PROVE FALSE
  <2>1. T \in SUBSET Nat
    OBVIOUS
  <2>2. PICK i \in T : \A j \in T : i <= j
    BY <1>4, <2>1, LeastNat
  <2>3. PICK x \in after[i] : ~Fine(x, i)
    BY <2>2
  <2>4. i \in 0 .. Len(bytes) /\ i \in Nat
    BY <2>2
  <2>5. CASE i = 0
    <3>1. x = d
      BY <2>3, <2>4, <2>5, <1>3
    <3>2. Len(B) - i = Len(B)
      BY <1>1, <2>5
    <3> QED
      BY <3>1, <3>2, <2>3
  <2>6. CASE i # 0
    <3>1. i - 1 \in 0 .. Len(bytes) /\ i - 1 \notin T /\ i \in 1 .. Len(bytes)
      BY <2>1, <2>2, <2>4, <2>6
    <3>2. PICK y \in after[i - 1] : x = Step(y, bytes[i])
      BY <2>3, <2>4, <2>6, <1>3
    <3>3. Fine(y, i - 1)
      BY <3>1, <3>2
    <3> DEFINE r == Len(B) - (i - 1)
    <3>4. r > 0 /\ r <= Len(B) /\ Len(B) - r + 1 = i /\ r - 1 = Len(B) - i
      BY <3>1, <1>1, <2>4
    <3>5. bytes[i] = B[Len(B) - r + 1]
      BY <3>1, <3>4
    <3>6. y \in DecType /\ Good(ks, rest, y, r)
      BY <3>3
    <3> HIDE DEF r
    <3>7. Step(y, bytes[i]) \in DecType /\ Good(ks, rest, Step(y, bytes[i]), r - 1)
      BY <3>4, <3>5, <3>6, StepGood
    <3>8. Fine(x, i)
      BY <3>2, <3>4, <3>7
    <3> QED
      BY <3>8, <2>3
  <2> QED
    BY <2>5, <2>6
<1>5. Len(bytes) \in 0 .. Len(bytes) /\ Len(bytes) \notin T
  BY <1>1, <1>4
<1> QED
  BY <1>2, <1>5

-----------------------------------------------------------------------------
(* The invariant. *)

Coming == term.tty \o term.part

KeyTypeOK ==
    /\ mode \in {"loop", "blocking"}
    /\ term \in [typed : Seq(Named), part : Seq(Byte), tty : Seq(Byte), eof : BOOLEAN]
    /\ dec \in DecType
    /\ reader \in [at : {"call", "read", "escape", "bracket", "page", "key"},
                   key : Named \cup {"", "Escape"}, errno : {"0", "EINTR", "ENOENT"}]

\* What the blocking decoder has handed over or is about to, and what it holds.
Got == IF reader.at = "key" THEN Handled(dec.keys, reader.key) ELSE dec.keys

Holding(f) ==
    /\ reader.at \in {"call", "read", "key"} => f = <<>>
    /\ reader.at = "escape" => f = Esc
    /\ reader.at = "bracket" => f = Bracket
    /\ reader.at = "page" => \E x \in DOMAIN Page : f = Paged(x) /\ reader.key = Page[x]

\* An Escape that a hangup follows is lost, and nothing comes after it.
Lost == /\ term.eof /\ Caught
        /\ reader.at \in {"call", "read"} \/ (reader.at = "key" /\ reader.key = "")

Blocked(ks, rest) ==
    /\ Prefix(Got, term.typed)
    /\ Lost \/ \E f \in Frag : Holding(f) /\ Place(ks, rest, Len(Got), f, Len(Coming))

Facts(ks, rest) ==
    /\ KeyTypeOK
    /\ History(ks, rest) /\ Sent(ks, rest, Coming)
    /\ Prefix(dec.keys, term.typed)
    /\ mode = "loop" => Good(ks, rest, dec, Len(Coming))
    /\ mode = "blocking" /\ dec.running => Blocked(ks, rest)

IInv == \E ks, rest : Facts(ks, rest)

LEMMA Joined ==
    ASSUME NEW t \in Seq(Byte), NEW p \in Seq(Byte)
    PROVE  /\ t \o p \in Seq(Byte) /\ Len(t \o p) = Len(t) + Len(p)
           /\ Len(t) \in Nat /\ Len(p) \in Nat
           /\ \A i \in 1 .. Len(t) : (t \o p)[i] = t[i]
           /\ \A i \in 1 .. Len(p) : (t \o p)[Len(t) + i] = p[i]
<1>1. Len(t) \in Nat /\ Len(p) \in Nat
  BY LenProperties
<1>2. /\ t \o p \in Seq(Byte) /\ Len(t \o p) = Len(t) + Len(p)
      /\ \A i \in 1 .. Len(t) + Len(p) :
            (t \o p)[i] = IF i <= Len(t) THEN t[i] ELSE p[i - Len(t)]
  BY ConcatProperties
<1>3. \A i \in 1 .. Len(t) : i \in 1 .. Len(t) + Len(p) /\ i <= Len(t)
  BY <1>1
<1>4. \A i \in 1 .. Len(p) : /\ Len(t) + i \in 1 .. Len(t) + Len(p)
                             /\ ~(Len(t) + i <= Len(t)) /\ (Len(t) + i) - Len(t) = i
  BY <1>1
<1> QED
  BY <1>1, <1>2, <1>3, <1>4

LEMMA Moved ==
    ASSUME NEW t \in Seq(Byte), NEW p \in Seq(Byte), p # <<>>
    PROVE  Append(t, Head(p)) \o Tail(p) = t \o p
<1> DEFINE h == Head(p)
           q == Tail(p)
<1>1. h \in Byte /\ q \in Seq(Byte) /\ h = p[1]
  BY HeadTailProperties
<1>2. Len(p) \in Nat \ {0}
  BY EmptySeq
<1>3. p = SubSeq(p, 1, Len(p)) /\ q = SubSeq(p, 2, Len(p))
  BY SubSeqFull, TailIsSubSeq
<1>4. 1 \in 1 .. Len(p) /\ Len(p) \in 1 .. Len(p) /\ 1 + 1 = 2
  BY <1>2
<1>5. SubSeq(p, 1, Len(p)) = <<p[1]>> \o SubSeq(p, 1 + 1, Len(p))
  BY <1>4, SubSeqRecursiveFirst
<1> HIDE DEF h, q
<1>6. p = <<h>> \o q
  BY <1>1, <1>3, <1>4, <1>5
<1>7. Append(t, h) = t \o <<h>> /\ <<h>> \in Seq(Byte)
  BY <1>1, AppendIsConcat
<1>8. (t \o <<h>>) \o q = t \o (<<h>> \o q)
  BY <1>1, <1>7, ConcatAssociative
<1> QED
  BY <1>6, <1>7, <1>8 DEF h, q

LEMMA ComingInSeq ==
    ASSUME KeyTypeOK
    PROVE  /\ Coming \in Seq(Byte) /\ Len(Coming) = Len(term.tty) + Len(term.part)
           /\ Len(term.tty) \in Nat /\ Len(term.part) \in Nat
           /\ \A i \in 1 .. Len(term.tty) : Coming[i] = term.tty[i]
           /\ \A i \in 1 .. Len(term.part) : Coming[Len(term.tty) + i] = term.part[i]
<1>1. term.tty \in Seq(Byte) /\ term.part \in Seq(Byte)
  BY DEF KeyTypeOK
<1> QED
  BY <1>1, Joined DEF Coming

\* The end of what was to come is still the end of the history.
LEMMA SentSuffix ==
    ASSUME NEW ks, NEW rest, History(ks, rest),
           NEW B, Len(B) \in Nat, Sent(ks, rest, B), NEW C, Len(C) \in Nat, Len(C) <= Len(B),
           \A i \in 1 .. Len(C) : C[i] = B[Len(B) - Len(C) + i]
    PROVE  Sent(ks, rest, C)
<1> SUFFICES ASSUME NEW i \in 1 .. Len(ks), NEW j \in 1 .. Len(ks[i]), Len(C) + j > rest[i - 1]
             PROVE  C[Len(C) - rest[i - 1] + j] = ks[i][j]
  BY DEF Sent
<1>1. ks[i] \in Keyboard /\ Len(ks) \in Nat
  BY ElementOfSeq, LenProperties DEF History
<1>2. Len(ks[i]) \in Nat
  <2>1. Len(ks[i]) \in {1, 3, 4}
    BY <1>1, Shapes
  <2> QED
    BY <2>1
<1>3. rest[i] \in Nat /\ rest[i - 1] = rest[i] + Len(ks[i])
  <2>1. i \in 0 .. Len(ks)
    BY <1>1
  <2> QED
    BY <2>1 DEF History
<1> DEFINE p == rest[i - 1]
<1>4. p \in Nat /\ j <= p /\ j \in Nat
  BY <1>2, <1>3
<1>5. Len(C) + j > p
  OBVIOUS
<1> HIDE DEF p
<1>6. Len(C) - p + j \in 1 .. Len(C)
  BY <1>4, <1>5
<1>7. C[Len(C) - p + j] = B[Len(B) - Len(C) + (Len(C) - p + j)]
  BY <1>6
<1>8. Len(B) - Len(C) + (Len(C) - p + j) = Len(B) - p + j
  BY <1>4
<1>9. Len(B) + j > p
  BY <1>4, <1>5
<1>10. B[Len(B) - p + j] = ks[i][j]
  BY <1>9 DEF Sent, p
<1> QED
  BY <1>7, <1>8, <1>10 DEF p

\* One byte is read.
LEMMA TailComing ==
    ASSUME NEW ks, NEW rest, KeyTypeOK, History(ks, rest), Sent(ks, rest, Coming),
           term.tty # <<>>
    PROVE  LET C == Tail(term.tty) \o term.part
           IN  /\ C \in Seq(Byte) /\ Len(C) = Len(Coming) - 1 /\ Len(C) \in Nat
               /\ Sent(ks, rest, C)
               /\ Len(Coming) > 0 /\ Head(term.tty) = Coming[Len(Coming) - Len(Coming) + 1]
<1> DEFINE C == Tail(term.tty) \o term.part
           T == Tail(term.tty)
<1>1. term.tty \in Seq(Byte) /\ term.part \in Seq(Byte)
  BY DEF KeyTypeOK
<1>2. Len(term.part) \in Nat /\ Len(term.tty) \in Nat /\ Len(term.tty) # 0
  BY <1>1, EmptySeq, LenProperties
<1>3. /\ T \in Seq(Byte) /\ Len(T) = Len(term.tty) - 1
      /\ \A i \in 1 .. Len(T) : T[i] = term.tty[i + 1]
  BY <1>1, HeadTailProperties
<1>14. Len(T) \in Nat
  BY <1>3, LenProperties
<1>4. Head(term.tty) = term.tty[1]
  OBVIOUS
<1>5. /\ Coming \in Seq(Byte) /\ Len(Coming) = Len(term.tty) + Len(term.part)
      /\ \A i \in 1 .. Len(term.tty) : Coming[i] = term.tty[i]
      /\ \A i \in 1 .. Len(term.part) : Coming[Len(term.tty) + i] = term.part[i]
  BY ComingInSeq
<1> HIDE DEF T
<1>6. /\ T \o term.part \in Seq(Byte) /\ Len(T \o term.part) = Len(T) + Len(term.part)
      /\ \A i \in 1 .. Len(T) + Len(term.part) :
            (T \o term.part)[i] = IF i <= Len(T) THEN T[i] ELSE term.part[i - Len(T)]
  BY <1>1, <1>3, ConcatProperties
<1>7. C \in Seq(Byte) /\ Len(C) = Len(Coming) - 1 /\ Len(C) \in Nat /\ Len(C) = Len(T) + Len(term.part)
  <2>1. Len(T) + Len(term.part) = (Len(term.tty) + Len(term.part)) - 1
    BY <1>2, <1>3
  <2>2. Len(T) + Len(term.part) \in Nat
    BY <1>2, <1>14
  <2>3. C = T \o term.part
    BY DEF T
  <2> HIDE DEF C
  <2> QED
    BY <2>1, <2>2, <2>3, <1>5, <1>6
<1>8. ASSUME NEW i \in 1 .. Len(C) PROVE C[i] = Coming[i + 1]
  <2>1. C[i] = IF i <= Len(T) THEN T[i] ELSE term.part[i - Len(T)]
    BY <1>6, <1>7 DEF T
  <2> HIDE DEF C
  <2>2. CASE i <= Len(T)
    <3>1. T[i] = term.tty[i + 1] /\ i + 1 \in 1 .. Len(term.tty)
      BY <2>2, <1>2, <1>3, <1>7
    <3> QED
      BY <3>1, <2>1, <2>2, <1>5
  <2>3. CASE ~(i <= Len(T))
    <3>0. Len(term.tty) = Len(T) + 1
      BY <1>2, <1>3
    <3>1. i \in 1 .. Len(T) + Len(term.part)
      BY <1>7
    <3>2. i - Len(T) \in 1 .. Len(term.part) /\ (Len(T) + 1) + (i - Len(T)) = i + 1
      BY <3>1, <2>3, <1>2, <1>14
    <3> QED
      BY <3>0, <3>2, <2>1, <2>3, <1>5
  <2> QED
    BY <2>2, <2>3
<1> HIDE DEF C
<1>9. \A i \in 1 .. Len(C) : C[i] = Coming[Len(Coming) - Len(C) + i]
  <2>1. \A i \in 1 .. Len(C) : Len(Coming) - Len(C) + i = i + 1
    BY <1>7, <1>2, <1>5
  <2> QED
    BY <2>1, <1>8
<1>10. Len(Coming) \in Nat /\ Len(C) <= Len(Coming) /\ Len(Coming) > 0
  <2>1. Len(Coming) \in Nat
    BY <1>5, LenProperties
  <2> QED
    BY <2>1, <1>7
<1>11. Sent(ks, rest, C)
  BY <1>7, <1>9, <1>10, SentSuffix
<1>12. Len(Coming) - Len(Coming) + 1 = 1 /\ 1 \in 1 .. Len(term.tty)
  BY <1>2, <1>10
<1>13. Head(term.tty) = Coming[Len(Coming) - Len(Coming) + 1]
  BY <1>4, <1>5, <1>12
<1> QED
  BY <1>7, <1>10, <1>11, <1>13 DEF C

-----------------------------------------------------------------------------
(* One step for each action. *)

\* Fewer than 50 ms separate the bytes of a key, so that an Escape after which
\* nothing is under way is a key.
LEMMA LoneEscape ==
    ASSUME NEW ks, NEW rest, NEW n, History(ks, rest), Place(ks, rest, n, Esc, 0)
    PROVE  /\ n + 1 \in 1 .. Len(ks) /\ Place(ks, rest, n + 1, <<>>, 0)
           /\ term.typed[n + 1] = "Escape" /\ "Escape" \in Named
<1> DEFINE k == ks[n + 1]
<1>1. rest[n] = 1 /\ Len(Esc) = 1
  BY Fragments DEF Place
<1>2. /\ n + 1 \in 1 .. Len(ks) /\ k \in Keyboard /\ rest[n + 1] \in Nat
      /\ rest[n] = rest[n + 1] + Len(k) /\ term.typed[n + 1] = Name(k)
  BY <1>1, NextKey
<1>3. Len(k) \in {1, 3, 4}
  BY <1>2, Shapes
<1>4. Len(k) = 1
  <2> DEFINE q == rest[n + 1]
             l == Len(k)
  <2>1. q \in Nat /\ l \in {1, 3, 4} /\ 1 = q + l
    BY <1>1, <1>2, <1>3
  <2> HIDE DEF q, l
  <2>2. l = 1
    BY <2>1
  <2> QED
    BY <2>2 DEF l
<1>5. Esc # <<>> /\ 1 \in 1 .. Len(Esc)
  BY <1>1, Indices
<1>6. k[1] = "esc"
  BY <1>5, Fragments DEF Place
<1>7. Name(k) = "Escape" /\ Name(k) \in Named
  BY <1>2, <1>4, <1>6, Naming
<1>8. Len(ks[n + 1]) = Len(Esc) + (0 - 0) /\ 0 \in Nat /\ Len(Esc) \in Nat
  BY <1>1, <1>4
<1>9. Place(ks, rest, n + 1, <<>>, 0)
  BY <1>1, <1>8, Complete
<1> QED
  BY <1>2, <1>7, <1>9

\* What only the typed keys decide stays when no key is typed.
LEMMA SameHistory ==
    ASSUME NEW ks, NEW rest, History(ks, rest), term'.typed = term.typed
    PROVE  History(ks, rest)'
BY DEF History

LEMMA CaughtMeans ==
    ASSUME KeyTypeOK
    PROVE  Caught <=> Len(Coming) = 0
<1>1. term.tty \in Seq(Byte) /\ term.part \in Seq(Byte)
  BY DEF KeyTypeOK
<1>2. /\ term.tty = <<>> <=> Len(term.tty) = 0
      /\ term.part = <<>> <=> Len(term.part) = 0
      /\ Len(term.tty) \in Nat /\ Len(term.part) \in Nat
  BY <1>1, EmptySeq, LenProperties
<1>3. Len(Coming) = Len(term.tty) + Len(term.part)
  BY ComingInSeq
<1>4. Len(Coming) = 0 <=> Len(term.tty) = 0 /\ Len(term.part) = 0
  <2>1. \A a, b \in Nat : a + b = 0 <=> a = 0 /\ b = 0
    OBVIOUS
  <2> QED
    BY <2>1, <1>2, <1>3
<1>5. Caught <=> term.part = <<>> /\ term.tty = <<>>
  BY DEF Caught, Delivered, Incoming
<1> QED
  BY <1>2, <1>4, <1>5, Zenon

LEMMA InitFacts == Init => IInv
<1> SUFFICES ASSUME Init PROVE IInv
  OBVIOUS
<1> DEFINE rest == [i \in 0 .. 0 |-> 0]
<1>1. /\ \A S : <<>> \in Seq(S)
      /\ Len(<<>>) = 0 /\ <<>> \o <<>> = <<>>
  BY EmptySeq, ConcatEmptySeq
<1>2. /\ term = [typed |-> <<>>, part |-> <<>>, tty |-> <<>>, eof |-> FALSE]
      /\ dec = [buf |-> <<>>, armed |-> FALSE, keys |-> <<>>, running |-> TRUE]
      /\ reader = [at |-> "call", key |-> "", errno |-> "0"] /\ mode \in Modes
  BY DEF Init
<1>3. KeyTypeOK
  <2>1. dec \in DecType
    BY <1>1, <1>2 DEF DecType, Frag
  <2>2. mode \in {"loop", "blocking"}
    BY <1>2, KeyboardAssumption
  <2> QED
    BY <1>1, <1>2, <2>1, <2>2 DEF KeyTypeOK
<1>4. Coming = <<>>
  BY <1>1, <1>2 DEF Coming
<1>5. \A i \in 0 .. 0 : i = 0
  OBVIOUS
<1>6. History(<<>>, rest)
  <2>1. Len(<<>>) = Len(term.typed) /\ term.typed = <<>>
    BY <1>2
  <2>2. rest \in [0 .. 0 -> Nat] /\ rest[0] = 0
    OBVIOUS
  <2>3. \A i \in 1 .. 0 : FALSE
    OBVIOUS
  <2> HIDE DEF rest
  <2> QED
    BY <1>1, <2>1, <2>2, <2>3 DEF History
<1>7. Sent(<<>>, rest, Coming)
  BY <1>1 DEF Sent
<1>8. Prefix(dec.keys, term.typed)
  <2>1. dec.keys = <<>> /\ term.typed = <<>>
    BY <1>2
  <2>2. Prefix(<<>>, <<>>)
    BY <1>1 DEF Prefix
  <2> QED
    BY <2>1, <2>2
<1>9. Place(<<>>, rest, 0, <<>>, 0)
  BY <1>1 DEF Place, Frag
<1>10. Good(<<>>, rest, dec, Len(Coming))
  BY <1>1, <1>2, <1>4, <1>8, <1>9 DEF Good
<1>11. Blocked(<<>>, rest)
  <2>1. Got = <<>> /\ Holding(<<>>) /\ <<>> \in Frag
    BY <1>2 DEF Got, Holding, Frag
  <2> QED
    BY <2>1, <1>1, <1>2, <1>4, <1>8, <1>9 DEF Blocked
<1>12. Facts(<<>>, rest)
  BY <1>3, <1>6, <1>7, <1>8, <1>10, <1>11 DEF Facts
<1> QED
  BY <1>12 DEF IInv

LEMMA DeliverKeeps ==
    ASSUME NEW ks, NEW rest, Facts(ks, rest), Deliver
    PROVE  Facts(ks, rest)'
<1>1. KeyTypeOK /\ term.tty \in Seq(Byte) /\ term.part \in Seq(Byte) /\ term.part # <<>>
  BY DEF Facts, KeyTypeOK, Deliver, Delivered
<1> DEFINE t == Append(term.tty, Head(term.part))
           p == Tail(term.part)
<1>2. term'.tty = t /\ term'.part = p /\ term'.typed = term.typed /\ term'.eof = term.eof
  BY DEF Deliver, Facts, KeyTypeOK
<1>3. UNCHANGED <<mode, dec, reader>>
  BY DEF Deliver
<1>4. t \in Seq(Byte) /\ p \in Seq(Byte)
  BY <1>1, HeadTailProperties, AppendProperties
<1>11. Coming' = Coming
  <2>1. Coming' = t \o p
    BY <1>2 DEF Coming
  <2> QED
    BY <2>1, <1>1, Moved DEF Coming
<1>12. KeyTypeOK'
  BY <1>2, <1>3, <1>4 DEF KeyTypeOK, Deliver, Facts
<1>13. ~Caught
  BY <1>1 DEF Caught, Delivered
<1>14. History(ks, rest)'
  BY <1>2, SameHistory DEF Facts
<1> QED
  BY <1>2, <1>3, <1>11, <1>12, <1>13, <1>14 DEF Facts, Blocked, Lost, Good, Got, Holding

LEMMA HangupKeeps ==
    ASSUME NEW ks, NEW rest, Facts(ks, rest), Hangup
    PROVE  Facts(ks, rest)'
<1>1. /\ term'.typed = term.typed /\ term'.tty = term.tty /\ term'.part = term.part
      /\ UNCHANGED <<mode, dec, reader>> /\ ~term.eof
  BY DEF Hangup, Facts, KeyTypeOK
<1>2. KeyTypeOK'
  BY <1>1 DEF Facts, KeyTypeOK, Hangup
<1>3. Coming' = Coming /\ ~Lost
  BY <1>1 DEF Coming, Lost
<1>4. History(ks, rest)'
  BY <1>1, SameHistory DEF Facts
<1> QED
  BY <1>1, <1>2, <1>3, <1>4 DEF Facts, Blocked, Good, Got, Holding

LEMMA Bounded == \A m \in Nat : \A n \in 1 .. m : n <= m
OBVIOUS

\* The keys a decoder has handed over leave room for another.
LEMMA GotMore ==
    ASSUME NEW ks, NEW rest, NEW name, KeyTypeOK, History(ks, rest),
           Prefix(dec.keys, term.typed),
           Len(dec.keys) + 1 \in 1 .. Len(ks), name = term.typed[Len(dec.keys) + 1],
           name \in Named, name # ""
    PROVE  /\ Handled(dec.keys, name) \in Seq(Named)
           /\ Len(Handled(dec.keys, name)) = Len(dec.keys) + 1
           /\ Prefix(Handled(dec.keys, name), term.typed)
<1>1. dec.keys \in Seq(Named)
  BY DEF KeyTypeOK, DecType
<1>2. Len(term.typed) = Len(ks) /\ Len(ks) \in Nat
  BY LenProperties DEF History
<1>3. Len(dec.keys) + 1 <= Len(term.typed)
  BY <1>2, Bounded
<1>4. Handled(dec.keys, name) = Append(dec.keys, name)
  BY DEF Handled
<1> QED
  BY <1>1, <1>2, <1>3, <1>4, Longer

LEMMA ResizeKeeps ==
    ASSUME NEW ks, NEW rest, Facts(ks, rest), Resize
    PROVE  Facts(ks, rest)'
<1>1. UNCHANGED <<mode, term, dec>> /\ KeyTypeOK
  BY DEF Resize, Facts
<1>2. Coming' = Coming /\ Coming \in Seq(Byte)
  BY <1>1, ComingInSeq DEF Coming
<1>3. History(ks, rest)'
  BY <1>1, SameHistory DEF Facts
<1>4. \/ reader' = reader
      \/ /\ mode = "blocking" /\ reader.at = "read" /\ Caught /\ ~term.eof
         /\ reader' = [at |-> "key", key |-> "", errno |-> "EINTR"]
      \/ /\ mode = "blocking" /\ reader.at = "escape" /\ Caught /\ ~term.eof
         /\ reader' = [at |-> "key", key |-> "Escape", errno |-> "EINTR"]
  BY DEF Resize
<1>5. KeyTypeOK'
  <2>1. reader' \in [at : {"call", "read", "escape", "bracket", "page", "key"},
                     key : Named \cup {"", "Escape"}, errno : {"0", "EINTR", "ENOENT"}]
    <3>1. \A k \in {"", "Escape"} : [at |-> "key", key |-> k, errno |-> "EINTR"]
             \in [at : {"call", "read", "escape", "bracket", "page", "key"},
                 key : Named \cup {"", "Escape"}, errno : {"0", "EINTR", "ENOENT"}]
      OBVIOUS
    <3> QED
      BY <3>1, <1>1, <1>4 DEF KeyTypeOK
  <2> QED
    BY <2>1, <1>1 DEF KeyTypeOK
<1>6. ASSUME mode = "blocking", dec.running PROVE Blocked(ks, rest)'
  <2>1. Blocked(ks, rest)
    BY <1>6 DEF Facts
  <2>2. CASE reader' = reader
    BY <2>1, <2>2, <1>1, <1>2 DEF Blocked, Got, Holding, Lost, Caught, Delivered, Incoming
  <2>3. CASE reader.at = "read" /\ ~term.eof /\ reader' = [at |-> "key", key |-> "", errno |-> "EINTR"]
    <3>1. PICK f \in Frag : Holding(f) /\ Place(ks, rest, Len(Got), f, Len(Coming))
      BY <2>1, <2>3 DEF Blocked, Lost
    <3>2. Got = dec.keys /\ f = <<>>
      BY <2>3, <3>1 DEF Got, Holding
    <3>3. Got' = dec.keys
      BY <2>3, <1>1 DEF Got, Handled
    <3>4. Holding(f)'
      BY <2>3, <3>2 DEF Holding
    <3> QED
      BY <2>1, <3>1, <3>2, <3>3, <3>4, <1>1, <1>2 DEF Blocked
  <2>4. CASE /\ reader.at = "escape" /\ Caught /\ ~term.eof
             /\ reader' = [at |-> "key", key |-> "Escape", errno |-> "EINTR"]
    <3>1. PICK f \in Frag : Holding(f) /\ Place(ks, rest, Len(Got), f, Len(Coming))
      BY <2>1, <2>4 DEF Blocked, Lost
    <3>2. Got = dec.keys /\ f = Esc /\ Len(Coming) = 0
      BY <2>4, <3>1, <1>1, CaughtMeans DEF Got, Holding
    <3> DEFINE n == Len(dec.keys)
    <3>3. /\ n + 1 \in 1 .. Len(ks) /\ Place(ks, rest, n + 1, <<>>, 0)
          /\ term.typed[n + 1] = "Escape" /\ "Escape" \in Named
      BY <3>1, <3>2, LoneEscape DEF Facts
    <3>4. Got' = Handled(dec.keys, "Escape")
      BY <2>4, <1>1 DEF Got
    <3>5. Len(Got') = n + 1 /\ Prefix(Got', term.typed)
      BY <3>3, <3>4, GotMore DEF Facts
    <3>6. Holding(<<>>)' /\ <<>> \in Frag
      BY <2>4 DEF Holding, Frag
    <3> QED
      BY <3>2, <3>3, <3>5, <3>6, <1>1, <1>2 DEF Blocked
  <2> QED
    BY <2>2, <2>3, <2>4, <1>4
<1>7. Good(ks, rest, dec, Len(Coming)) => Good(ks, rest, dec, Len(Coming))'
  BY <1>1, <1>2 DEF Good
<1> QED
  BY <1>1, <1>2, <1>3, <1>5, <1>6, <1>7 DEF Facts

\* Nothing but the reader moves.
LEMMA CallReadKeeps ==
    ASSUME NEW ks, NEW rest, Facts(ks, rest), CallRead
    PROVE  Facts(ks, rest)'
<1>1. /\ UNCHANGED <<mode, term, dec>> /\ KeyTypeOK /\ mode = "blocking" /\ dec.running
      /\ reader.at = "call" /\ reader' = [reader EXCEPT !.at = "read"]
  BY DEF CallRead, Blocking, Facts
<1>2. Coming' = Coming
  BY <1>1 DEF Coming
<1>3. History(ks, rest)'
  BY <1>1, SameHistory DEF Facts
<1>4. reader'.at = "read" /\ KeyTypeOK'
  BY <1>1 DEF KeyTypeOK
<1>5. Got' = Got /\ Got = dec.keys
  BY <1>1, <1>4 DEF Got
<1>6. Lost => Lost'
  BY <1>1, <1>4 DEF Lost, Caught, Delivered, Incoming
<1>7. \A f : Holding(f) => Holding(f)'
  BY <1>1, <1>4 DEF Holding
<1> QED
  BY <1>1, <1>2, <1>3, <1>4, <1>5, <1>6, <1>7 DEF Facts, Blocked

\* A key that stops the program or is handed over is no reason to look back.
LEMMA CallbackKeeps ==
    ASSUME NEW ks, NEW rest, Facts(ks, rest), TuiStdinReadCallback
    PROVE  Facts(ks, rest)'
<1>1. /\ KeyTypeOK /\ mode = "loop" /\ UNCHANGED <<mode, reader>>
      /\ term' = [term EXCEPT !.tty = <<>>] /\ History(ks, rest) /\ Sent(ks, rest, Coming)
      /\ Good(ks, rest, dec, Len(Coming))
  BY DEF TuiStdinReadCallback, Facts
<1>2. PICK d \in Drain(dec, term.tty) : dec' = [d EXCEPT !.running = @ /\ ~term.eof]
  BY DEF TuiStdinReadCallback
<1>3. dec \in DecType /\ term.tty \in Seq(Byte) /\ term.part \in Seq(Byte) /\ term.eof \in BOOLEAN
  BY <1>1 DEF KeyTypeOK
<1>4. /\ Coming \in Seq(Byte) /\ Len(Coming) = Len(term.tty) + Len(term.part)
      /\ Len(term.tty) \in Nat /\ Len(term.part) \in Nat
      /\ \A i \in 1 .. Len(term.tty) : Coming[i] = term.tty[i]
      /\ \A i \in 1 .. Len(term.part) : Coming[Len(term.tty) + i] = term.part[i]
  BY <1>1, ComingInSeq
<1>5. Len(term.tty) <= Len(Coming) /\ Len(Coming) - Len(term.tty) = Len(term.part) /\ Len(Coming) \in Nat
  <2>1. \A a, b \in Nat : a <= a + b /\ (a + b) - a = b /\ a + b \in Nat
    OBVIOUS
  <2> QED
    BY <2>1, <1>4
<1>6. d \in DecType /\ Good(ks, rest, d, Len(term.part))
  <2>1. \A i \in 1 .. Len(term.tty) : term.tty[i] = Coming[i]
    BY <1>4
  <2> QED
    BY <2>1, <1>1, <1>2, <1>3, <1>4, <1>5, DrainGood
<1>7. term'.tty = <<>> /\ term'.part = term.part /\ term'.typed = term.typed /\ KeyTypeOK'
  <2>1. dec' \in DecType
    BY <1>2, <1>3, <1>6 DEF DecType
  <2>2. <<>> \in Seq(Byte)
    BY EmptySeq
  <2> QED
    BY <2>1, <2>2, <1>1 DEF KeyTypeOK
<1>8. Coming' = term.part
  BY <1>3, <1>7, ConcatEmptySeq DEF Coming
<1>9. Sent(ks, rest, Coming)'
  <2>1. \A i \in 1 .. Len(term.part) : term.part[i] = Coming[Len(Coming) - Len(term.part) + i]
    <3>1. Len(Coming) - Len(term.part) = Len(term.tty)
      BY <1>4
    <3> QED
      BY <3>1, <1>4
  <2>2. Len(term.part) <= Len(Coming)
    <3>1. \A a, b \in Nat : b <= a + b
      OBVIOUS
    <3> QED
      BY <3>1, <1>4
  <2>3. Sent(ks, rest, term.part)
    BY <2>1, <2>2, <1>1, <1>4, <1>5, SentSuffix
  <2> QED
    BY <2>3, <1>8
<1>10. Good(ks, rest, dec, Len(Coming))'
  <2>1. /\ dec'.keys = d.keys /\ dec'.buf = d.buf /\ dec'.armed = d.armed
        /\ dec'.running => d.running
    BY <1>2, <1>3, <1>6 DEF DecType
  <2> QED
    BY <2>1, <1>6, <1>7, <1>8 DEF Good
<1>11. History(ks, rest)'
  BY <1>1, <1>7, SameHistory
<1> QED
  BY <1>1, <1>7, <1>9, <1>10, <1>11 DEF Facts, Good

LEMMA EscTimeoutKeeps ==
    ASSUME NEW ks, NEW rest, Facts(ks, rest), EscTimeoutCallback
    PROVE  Facts(ks, rest)'
<1>1. /\ KeyTypeOK /\ mode = "loop" /\ UNCHANGED <<mode, term, reader>> /\ dec.armed /\ dec.running
      /\ Caught /\ dec' = Report(dec, "Escape") /\ History(ks, rest)
      /\ Good(ks, rest, dec, Len(Coming)) /\ dec \in DecType
  BY DEF EscTimeoutCallback, Facts, KeyTypeOK
<1>2. Coming' = Coming /\ Len(Coming) = 0
  BY <1>1, CaughtMeans DEF Coming
<1> DEFINE n == Len(dec.keys)
<1>3. Place(ks, rest, n, Esc, 0) /\ Prefix(dec.keys, term.typed)
  BY <1>1, <1>2 DEF Good
<1>4. /\ n + 1 \in 1 .. Len(ks) /\ Place(ks, rest, n + 1, <<>>, 0)
      /\ term.typed[n + 1] = "Escape" /\ "Escape" \in Named
  BY <1>1, <1>3, LoneEscape
<1>5. dec' \in DecType /\ Good(ks, rest, dec', 0)
  BY <1>1, <1>3, <1>4, Reported
<1>6. KeyTypeOK'
  BY <1>1, <1>5 DEF KeyTypeOK
<1>7. History(ks, rest)'
  BY <1>1, SameHistory
<1>8. Good(ks, rest, dec, Len(Coming))'
  BY <1>1, <1>2, <1>5 DEF Good
<1> QED
  BY <1>1, <1>2, <1>6, <1>7, <1>8 DEF Facts, Good

LEMMA StutterKeeps ==
    ASSUME NEW ks, NEW rest, Facts(ks, rest), UNCHANGED <<mode, term, dec, reader>>
    PROVE  Facts(ks, rest)'
<1>1. KeyTypeOK' /\ Coming' = Coming /\ History(ks, rest)'
  BY SameHistory DEF Facts, KeyTypeOK, Coming
<1>2. Good(ks, rest, dec, Len(Coming)) => Good(ks, rest, dec, Len(Coming))'
  BY <1>1 DEF Good
<1>3. Blocked(ks, rest) => Blocked(ks, rest)'
  BY <1>1 DEF Blocked, Got, Holding, Lost, Caught, Delivered, Incoming
<1> QED
  BY <1>1, <1>2, <1>3 DEF Facts

-----------------------------------------------------------------------------
(* The steps of the blocking decoder. *)

LEMMA Reads ==
    ASSUME NEW ks, NEW rest, Facts(ks, rest), mode = "blocking", dec.running, Incoming,
           reader.at \in {"read", "escape", "bracket", "page"}
    PROVE  \E f \in Frag : /\ Holding(f)
                           /\ Decoding(ks, rest, Len(dec.keys), f, Len(Coming), Head(term.tty))
<1>1. KeyTypeOK /\ History(ks, rest) /\ Sent(ks, rest, Coming) /\ Blocked(ks, rest)
  BY DEF Facts
<1>2. Got = dec.keys /\ ~Lost
  BY DEF Got, Lost, Caught
<1>3. PICK f \in Frag : Holding(f) /\ Place(ks, rest, Len(dec.keys), f, Len(Coming))
  BY <1>1, <1>2 DEF Blocked
<1>4. Len(Coming) > 0 /\ Head(term.tty) = Coming[Len(Coming) - Len(Coming) + 1]
  BY <1>1, TailComing DEF Incoming
<1>5. Coming \in Seq(Byte) /\ Len(Coming) <= Len(Coming)
  <2>1. Coming \in Seq(Byte) /\ Len(Coming) \in Nat
    BY <1>1, ComingInSeq, LenProperties
  <2> QED
    BY <2>1
<1>6. Decoding(ks, rest, Len(dec.keys), f, Len(Coming), Head(term.tty))
  BY <1>1, <1>3, <1>4, <1>5, Decodes
<1> QED
  BY <1>3, <1>6

LEMMA Consumed ==
    ASSUME NEW ks, NEW rest, Facts(ks, rest), Incoming, mode' = mode, mode = "blocking",
           NEW at \in {"call", "read", "escape", "bracket", "page", "key"},
           NEW key \in Named \cup {""}, Consume(at, key),
           dec' \in DecType, dec'.keys = dec.keys,
           dec'.running =>
              \E f \in Frag : /\ Holding(f)' /\ Prefix(Got', term.typed)
                              /\ Place(ks, rest, Len(Got'), f, Len(Coming) - 1)
    PROVE  Facts(ks, rest)'
<1>1. KeyTypeOK /\ History(ks, rest) /\ Sent(ks, rest, Coming) /\ term.tty # <<>>
  BY DEF Facts, Incoming
<1>2. /\ term'.tty = Tail(term.tty) /\ term'.part = term.part
      /\ term'.typed = term.typed /\ term'.eof = term.eof
  BY <1>1 DEF Consume, KeyTypeOK
<1>3. Coming' = Tail(term.tty) \o term.part
  BY <1>2 DEF Coming
<1>4. Len(Coming') = Len(Coming) - 1 /\ Sent(ks, rest, Coming')
  BY <1>1, <1>3, TailComing
<1>5. KeyTypeOK'
  <2>1. Tail(term.tty) \in Seq(Byte)
    BY <1>1, HeadTailProperties DEF KeyTypeOK
  <2>2. term' \in [typed : Seq(Named), part : Seq(Byte), tty : Seq(Byte), eof : BOOLEAN]
    BY <2>1, <1>1 DEF KeyTypeOK, Consume
  <2>3. reader' \in [at : {"call", "read", "escape", "bracket", "page", "key"},
                     key : Named \cup {"", "Escape"}, errno : {"0", "EINTR", "ENOENT"}]
    BY <1>1 DEF KeyTypeOK, Consume
  <2> QED
    BY <2>2, <2>3, <1>1 DEF KeyTypeOK
<1>6. History(ks, rest)'
  BY <1>1, <1>2, SameHistory
<1>7. dec'.running => Blocked(ks, rest)'
  BY <1>2, <1>4 DEF Blocked
<1>8. Prefix(dec'.keys, term'.typed)
  BY <1>2 DEF Facts
<1>9. (mode = "loop" => Good(ks, rest, dec, Len(Coming)))'
  OBVIOUS
<1> QED
  BY <1>4, <1>5, <1>6, <1>7, <1>8, <1>9 DEF Facts

\* Where Consume leaves the reader.
LEMMA ConsumeAt ==
    ASSUME KeyTypeOK, NEW at, NEW key, Consume(at, key)
    PROVE  reader'.at = at /\ reader'.key = key
BY DEF KeyTypeOK, Consume

LEMMA ReadFirstKeeps ==
    ASSUME NEW ks, NEW rest, Facts(ks, rest), ReadFirst
    PROVE  Facts(ks, rest)'
<1> DEFINE b == Head(term.tty)
           n == Len(dec.keys)
<1>1. /\ KeyTypeOK /\ dec \in DecType /\ mode = "blocking" /\ dec.running /\ reader.at = "read" /\ Incoming
      /\ mode' = mode /\ Prefix(dec.keys, term.typed)
  BY DEF ReadFirst, Blocking, Facts, KeyTypeOK
<1>2. PICK f \in Frag : Holding(f) /\ Decoding(ks, rest, n, f, Len(Coming), b)
  BY <1>1, Reads
<1>3. f = <<>>
  BY <1>1, <1>2 DEF Holding
<1>4. CASE b = "etx"
  <2>1. Consume("key", "") /\ dec' = [dec EXCEPT !.running = FALSE]
    BY <1>4 DEF ReadFirst
  <2>2. dec' \in DecType /\ dec'.keys = dec.keys /\ ~dec'.running
    BY <1>1, <2>1 DEF DecType
  <2> QED
    BY <1>1, <2>1, <2>2, Consumed
<1>5. CASE b = "esc"
  <2>1. Consume("escape", "") /\ UNCHANGED dec
    BY <1>5 DEF ReadFirst
  <2>2. reader'.at = "escape"
    BY <1>1, <2>1, ConsumeAt
  <2>3. Got' = dec.keys /\ Holding(Esc)' /\ Esc \in Frag
    BY <2>1, <2>2 DEF Got, Holding, Frag
  <2>4. Place(ks, rest, n, Esc, Len(Coming) - 1)
    BY <1>2, <1>3, <1>5 DEF Decoding
  <2> QED
    BY <1>1, <2>1, <2>3, <2>4, Consumed
<1>6. CASE b \notin {"etx", "esc"}
  <2> DEFINE name == NameOf(b)
  <2>1. Consume("key", name) /\ UNCHANGED dec
    BY <1>6 DEF ReadFirst
  <2>2. reader'.at = "key" /\ reader'.key = name
    BY <1>1, <2>1, ConsumeAt
  <2>3. /\ n + 1 \in 1 .. Len(ks) /\ term.typed[n + 1] \in Named /\ b # ""
        /\ Place(ks, rest, n + 1, <<>>, Len(Coming) - 1) /\ term.typed[n + 1] = name
    BY <1>2, <1>3, <1>6 DEF Decoding
  <2>4. name # ""
    BY <2>3, NamesOf
  <2> HIDE DEF name
  <2>5. Got' = Handled(dec.keys, name) /\ Holding(<<>>)' /\ <<>> \in Frag
    BY <2>1, <2>2 DEF Got, Holding, Frag
  <2>6. Len(Got') = n + 1 /\ Prefix(Got', term.typed)
    BY <1>1, <2>3, <2>4, <2>5, GotMore DEF Facts
  <2> QED
    BY <1>1, <2>1, <2>3, <2>5, <2>6, Consumed
<1> QED
  BY <1>4, <1>5, <1>6

LEMMA ReadSecondKeeps ==
    ASSUME NEW ks, NEW rest, Facts(ks, rest), ReadSecond
    PROVE  Facts(ks, rest)'
<1> DEFINE b == Head(term.tty)
           n == Len(dec.keys)
<1>1. /\ KeyTypeOK /\ dec \in DecType /\ mode = "blocking" /\ dec.running /\ reader.at = "escape"
      /\ UNCHANGED <<mode, dec>> /\ Prefix(dec.keys, term.typed)
  BY DEF ReadSecond, Blocking, Facts, KeyTypeOK
<1>2. CASE Incoming
  <2>1. PICK f \in Frag : Holding(f) /\ Decoding(ks, rest, n, f, Len(Coming), b)
    BY <1>1, <1>2, Reads
  <2>2. f = Esc
    BY <1>1, <2>1 DEF Holding
  <2>3. b = "[" /\ Place(ks, rest, n, Bracket, Len(Coming) - 1)
    BY <2>1, <2>2 DEF Decoding
  <2>4. Consume("bracket", "")
    BY <1>2, <2>3 DEF ReadSecond, Caught
  <2>5. reader'.at = "bracket"
    BY <1>1, <2>4, ConsumeAt
  <2>6. Got' = dec.keys /\ Holding(Bracket)' /\ Bracket \in Frag
    BY <1>1, <2>5 DEF Got, Holding, Frag
  <2> QED
    BY <1>1, <1>2, <2>3, <2>4, <2>6, Consumed
<1>3. CASE ~Incoming
  <2>1. Caught /\ term.eof /\ UNCHANGED term /\ reader' = [reader EXCEPT !.at = "key", !.key = ""]
    BY <1>3 DEF ReadSecond
  <2>2. reader'.at = "key" /\ reader'.key = "" /\ KeyTypeOK'
    BY <1>1, <2>1 DEF KeyTypeOK
  <2>3. Lost' /\ Got' = dec.keys /\ Coming' = Coming
    BY <1>1, <2>1, <2>2 DEF Lost, Caught, Delivered, Incoming, Got, Handled, Coming
  <2>4. History(ks, rest)'
    BY <2>1, SameHistory DEF Facts
  <2> QED
    BY <1>1, <2>1, <2>2, <2>3, <2>4 DEF Facts, Blocked
<1> QED
  BY <1>2, <1>3

LEMMA ReadThirdKeeps ==
    ASSUME NEW ks, NEW rest, Facts(ks, rest), ReadThird
    PROVE  Facts(ks, rest)'
<1> DEFINE b == Head(term.tty)
           n == Len(dec.keys)
<1>1. /\ KeyTypeOK /\ dec \in DecType /\ mode = "blocking" /\ dec.running /\ reader.at = "bracket" /\ Incoming
      /\ UNCHANGED <<mode, dec>> /\ Prefix(dec.keys, term.typed)
  BY DEF ReadThird, Blocking, Facts, KeyTypeOK
<1>2. PICK f \in Frag : Holding(f) /\ Decoding(ks, rest, n, f, Len(Coming), b)
  BY <1>1, Reads
<1>3. f = Bracket
  BY <1>1, <1>2 DEF Holding
<1>4. n + 1 \in 1 .. Len(ks) /\ term.typed[n + 1] \in Named
  BY <1>2 DEF Decoding
<1>5. ASSUME b \in DOMAIN Csi, term.typed[n + 1] = Csi[b],
             Place(ks, rest, n + 1, <<>>, Len(Coming) - 1)
      PROVE  Facts(ks, rest)'
  <2> DEFINE name == Csi[b]
  <2>1. Consume("key", name)
    BY <1>5, Domains DEF ReadThird
  <2>2. reader'.at = "key" /\ reader'.key = name
    BY <1>1, <2>1, ConsumeAt
  <2>3. name # "" /\ name \in Named /\ term.typed[n + 1] = name
    BY <1>4, <1>5, NamesOf
  <2> HIDE DEF name
  <2>4. Got' = Handled(dec.keys, name) /\ Holding(<<>>)' /\ <<>> \in Frag
    BY <1>1, <2>2 DEF Got, Holding, Frag
  <2>5. Len(Got') = n + 1 /\ Prefix(Got', term.typed)
    BY <1>1, <1>4, <2>3, <2>4, GotMore DEF Facts
  <2> QED
    BY <1>1, <1>5, <2>1, <2>3, <2>4, <2>5, Consumed
<1>6. ASSUME b \in DOMAIN Page, Place(ks, rest, n, Paged(b), Len(Coming) - 1)
      PROVE  Facts(ks, rest)'
  <2> DEFINE name == Page[b]
  <2>1. Consume("page", name)
    BY <1>6, Domains DEF ReadThird
  <2>2. reader'.at = "page" /\ reader'.key = name
    BY <1>1, <2>1, ConsumeAt
  <2>0. PICK x \in DOMAIN Page : x = b
    BY <1>6
  <2>3. Holding(Paged(x))' /\ Paged(x) \in Frag /\ Got' = dec.keys
    <3>2. reader'.at = "page" /\ reader'.key = Page[x]
      BY <2>0, <2>2
    <3>3. Holding(Paged(x))'
      BY <3>2 DEF Holding
    <3>4. Paged(x) \in Frag
      BY DEF Frag
    <3>5. Got' = dec.keys
      BY <3>2, <1>1 DEF Got
    <3> QED
      BY <3>3, <3>4, <3>5
  <2>4. name \in Named
    <3>1. PICK k \in Keyboard : Len(k) = 4 /\ k[3] = b
      <4>1. /\ n < Len(ks) /\ 3 <= Len(ks[n + 1])
            /\ \A j \in 1 .. 3 : Paged(b)[j] = ks[n + 1][j]
        <5>1. Len(Paged(b)) = 3 /\ Paged(b) # <<>>
          BY Fragments, Indices, Zenon
        <5> QED
          BY <5>1, <1>6 DEF Place
      <4>2. ks[n + 1] \in Keyboard
        BY <1>4, ElementOfSeq DEF Facts, History
      <4>3. ks[n + 1][3] = b
        BY <4>1, Fragments
      <4>4. b \notin DOMAIN Csi
        BY <1>6, Domains
      <4>5. Len(ks[n + 1]) \in {1, 3, 4} /\ (Len(ks[n + 1]) = 3 => ks[n + 1][3] \in DOMAIN Csi)
        BY <4>2, Shapes
      <4>6. Len(ks[n + 1]) = 4
        BY <4>1, <4>3, <4>4, <4>5
      <4> QED
        BY <4>2, <4>3, <4>6
    <3>2. Name(k) \in Named /\ Name(k) = Page[k[3]]
      BY <3>1, Naming
    <3> QED
      BY <3>1, <3>2
  <2> HIDE DEF name
  <2>5. Prefix(Got', term.typed) /\ Place(ks, rest, Len(Got'), Paged(x), Len(Coming) - 1)
    BY <1>1, <1>6, <2>0, <2>3
  <2>6. /\ "page" \in {"call", "read", "escape", "bracket", "page", "key"}
        /\ name \in Named \cup {""} /\ dec' \in DecType /\ dec'.keys = dec.keys /\ mode' = mode
    BY <1>1, <2>4
  <2> QED
    BY <1>1, <2>1, <2>3, <2>5, <2>6, Consumed
<1> QED
  BY <1>2, <1>3, <1>5, <1>6 DEF Decoding

LEMMA ReadTildeKeeps ==
    ASSUME NEW ks, NEW rest, Facts(ks, rest), ReadTilde
    PROVE  Facts(ks, rest)'
<1> DEFINE n == Len(dec.keys)
<1>1. /\ KeyTypeOK /\ dec \in DecType /\ mode = "blocking" /\ dec.running /\ reader.at = "page" /\ Incoming
      /\ UNCHANGED <<mode, dec>> /\ Prefix(dec.keys, term.typed) /\ Consume("key", reader.key)
  BY DEF ReadTilde, Blocking, Facts, KeyTypeOK
<1>2. PICK f \in Frag : Holding(f) /\ Decoding(ks, rest, n, f, Len(Coming), Head(term.tty))
  BY <1>1, Reads
<1>3. PICK x \in DOMAIN Page : f = Paged(x) /\ reader.key = Page[x]
  BY <1>1, <1>2 DEF Holding
<1>4. /\ n + 1 \in 1 .. Len(ks) /\ term.typed[n + 1] \in Named /\ term.typed[n + 1] = Page[x]
      /\ Place(ks, rest, n + 1, <<>>, Len(Coming) - 1)
  BY <1>2, <1>3 DEF Decoding
<1>5. PICK name \in Named : name = reader.key /\ name # ""
  BY <1>3, <1>4, NamesOf
<1>6. reader'.at = "key" /\ reader'.key = name /\ Consume("key", name)
  BY <1>1, <1>5, ConsumeAt
<1>7. Got' = Handled(dec.keys, name) /\ Holding(<<>>)' /\ <<>> \in Frag
  BY <1>1, <1>6 DEF Got, Holding, Frag
<1>8. Len(Got') = n + 1 /\ Prefix(Got', term.typed)
  BY <1>1, <1>3, <1>4, <1>5, <1>7, GotMore DEF Facts
<1> QED
  BY <1>1, <1>4, <1>6, <1>7, <1>8, Consumed

\* The reader takes no byte.
LEMMA Turned ==
    ASSUME NEW ks, NEW rest, Facts(ks, rest), UNCHANGED <<mode, term>>, mode = "blocking",
           dec' \in DecType, Prefix(dec'.keys, term.typed),
           reader' \in [at : {"call", "read", "escape", "bracket", "page", "key"},
                        key : Named \cup {"", "Escape"}, errno : {"0", "EINTR", "ENOENT"}],
           dec'.running =>
              /\ Prefix(Got', term.typed)
              /\ Lost' \/ \E f \in Frag : Holding(f)' /\ Place(ks, rest, Len(Got'), f, Len(Coming))
    PROVE  Facts(ks, rest)'
<1>1. Coming' = Coming /\ History(ks, rest)'
  BY SameHistory DEF Facts, Coming
<1>2. KeyTypeOK'
  BY DEF Facts, KeyTypeOK
<1>3. dec'.running => Blocked(ks, rest)'
  BY <1>1 DEF Blocked
<1> QED
  BY <1>1, <1>2, <1>3 DEF Facts

LEMMA ReadEofKeeps ==
    ASSUME NEW ks, NEW rest, Facts(ks, rest), ReadEof
    PROVE  Facts(ks, rest)'
<1>1. /\ KeyTypeOK /\ dec \in DecType /\ mode = "blocking" /\ reader.at = "read"
      /\ UNCHANGED <<mode, term>> /\ Caught /\ term.eof
      /\ dec' = [dec EXCEPT !.running = reader.errno = "EINTR"]
      /\ reader' = [reader EXCEPT !.at = "key", !.key = ""]
  BY DEF ReadEof, Blocking, Facts, KeyTypeOK
<1>2. dec' \in DecType /\ dec'.keys = dec.keys
  BY <1>1 DEF DecType
<1>3. /\ reader'.at = "key" /\ reader'.key = ""
      /\ reader' \in [at : {"call", "read", "escape", "bracket", "page", "key"},
                      key : Named \cup {"", "Escape"}, errno : {"0", "EINTR", "ENOENT"}]
  BY <1>1 DEF KeyTypeOK
<1>4. Lost' /\ Got' = dec.keys
  BY <1>1, <1>2, <1>3 DEF Lost, Caught, Delivered, Incoming, Got, Handled
<1>5. Prefix(dec.keys, term.typed)
  BY DEF Facts
<1> QED
  BY <1>1, <1>2, <1>3, <1>4, <1>5, Turned

LEMMA PollTimeoutKeeps ==
    ASSUME NEW ks, NEW rest, Facts(ks, rest), PollTimeout
    PROVE  Facts(ks, rest)'
<1> DEFINE n == Len(dec.keys)
<1>1. /\ KeyTypeOK /\ dec \in DecType /\ mode = "blocking" /\ dec.running /\ reader.at = "escape"
      /\ UNCHANGED <<mode, term, dec>> /\ Caught /\ ~term.eof /\ Blocked(ks, rest)
      /\ reader' = [reader EXCEPT !.at = "key", !.key = "Escape"]
  BY DEF PollTimeout, Blocking, Facts, KeyTypeOK
<1>2. PICK f \in Frag : Holding(f) /\ Place(ks, rest, Len(Got), f, Len(Coming))
  BY <1>1 DEF Blocked, Lost
<1>3. f = Esc /\ Got = dec.keys /\ Len(Coming) = 0
  BY <1>1, <1>2, CaughtMeans DEF Holding, Got
<1>4. /\ n + 1 \in 1 .. Len(ks) /\ Place(ks, rest, n + 1, <<>>, 0)
      /\ term.typed[n + 1] = "Escape" /\ "Escape" \in Named
  BY <1>2, <1>3, LoneEscape DEF Facts
<1>5. /\ reader'.at = "key" /\ reader'.key = "Escape"
      /\ reader' \in [at : {"call", "read", "escape", "bracket", "page", "key"},
                      key : Named \cup {"", "Escape"}, errno : {"0", "EINTR", "ENOENT"}]
  BY <1>1 DEF KeyTypeOK
<1>6. Got' = Handled(dec.keys, "Escape") /\ Holding(<<>>)' /\ <<>> \in Frag
  BY <1>1, <1>5 DEF Got, Holding, Frag
<1>7. Len(Got') = n + 1 /\ Prefix(Got', term.typed)
  BY <1>1, <1>4, <1>6, GotMore DEF Facts
<1>8. Prefix(dec'.keys, term.typed) /\ dec' \in DecType
  BY <1>1 DEF Facts
<1> QED
  BY <1>1, <1>3, <1>4, <1>5, <1>6, <1>7, <1>8, Turned

LEMMA HandleKeyKeeps ==
    ASSUME NEW ks, NEW rest, Facts(ks, rest), HandleKey
    PROVE  Facts(ks, rest)'
<1>1. /\ KeyTypeOK /\ dec \in DecType /\ mode = "blocking" /\ dec.running /\ reader.at = "key"
      /\ UNCHANGED <<mode, term>> /\ Blocked(ks, rest)
      /\ dec' = [dec EXCEPT !.keys = Handled(@, reader.key)]
  BY DEF HandleKey, Blocking, Facts, KeyTypeOK
<1>2. Got = Handled(dec.keys, reader.key)
  BY <1>1 DEF Got
<1>3. Prefix(Got, term.typed)
  BY <1>1 DEF Blocked
<1>4. Got \in Seq(Named)
  <2>1. dec.keys \in Seq(Named) /\ term.typed \in Seq(Named)
    BY <1>1 DEF DecType, KeyTypeOK
  <2>2. CASE reader.key = ""
    BY <2>1, <2>2, <1>2 DEF Handled
  <2>3. CASE reader.key # ""
    <3> DEFINE n == Len(dec.keys)
               S == Named \cup {"Escape"}
    <3>0. dec.keys \in Seq(S) /\ reader.key \in S
      BY <2>1, <2>3, <1>1, SeqMonotonic DEF KeyTypeOK
    <3>1. Got = Append(dec.keys, reader.key)
      BY <2>3, <1>2 DEF Handled
    <3>2. Len(Got) = n + 1 /\ Got[n + 1] = reader.key
      BY <3>0, <3>1, AppendProperties
    <3>3. n \in Nat /\ Len(term.typed) \in Nat
      BY <2>1, LenProperties
    <3>4. n + 1 \in 1 .. Len(Got) /\ n + 1 \in 1 .. Len(term.typed)
      <4>1. n + 1 <= Len(term.typed)
        BY <3>2, <1>3 DEF Prefix
      <4> QED
        BY <4>1, <3>2, <3>3
    <3>5. reader.key = term.typed[n + 1]
      BY <3>2, <3>4, <1>3 DEF Prefix
    <3>6. reader.key \in Named
      BY <3>4, <3>5, <2>1, ElementOfSeq
    <3> QED
      BY <3>1, <3>6, <2>1, AppendProperties
  <2> QED
    BY <2>2, <2>3
<1>5. dec'.keys = Got /\ dec' \in DecType
  BY <1>1, <1>2, <1>4 DEF DecType
<1>6. PICK errno \in {reader.errno} \cup (IF reader.key = "" THEN {} ELSE {"ENOENT"}) :
         reader' = [at |-> "call", key |-> "", errno |-> errno]
  BY DEF HandleKey
<1>7. /\ reader'.at = "call"
      /\ reader' \in [at : {"call", "read", "escape", "bracket", "page", "key"},
                      key : Named \cup {"", "Escape"}, errno : {"0", "EINTR", "ENOENT"}]
  <2>1. errno \in {"0", "EINTR", "ENOENT"}
    BY <1>1 DEF KeyTypeOK
  <2> QED
    BY <2>1, <1>6
<1>8. Got' = Got
  BY <1>5, <1>7 DEF Got
<1>9. Lost => Lost'
  BY <1>1, <1>7 DEF Lost, Caught, Delivered, Incoming
<1>10. \A f : Holding(f) => Holding(f)'
  BY <1>1, <1>7 DEF Holding
<1>11. Lost \/ \E f \in Frag : Holding(f) /\ Place(ks, rest, Len(Got), f, Len(Coming))
  BY <1>1 DEF Blocked
<1>12. Lost' \/ \E f \in Frag : Holding(f)' /\ Place(ks, rest, Len(Got'), f, Len(Coming))
  BY <1>8, <1>9, <1>10, <1>11
<1> QED
  BY <1>1, <1>3, <1>5, <1>7, <1>8, <1>12, Turned

-----------------------------------------------------------------------------
(* A key is typed. *)

\* The record of a history that is one key longer.
Later(ks, rest, seq) ==
    [i \in 0 .. Len(ks) + 1 |-> IF i = Len(ks) + 1 THEN 0 ELSE rest[i] + Len(seq)]

LEMMA LaterFacts ==
    ASSUME NEW ks, NEW rest, History(ks, rest), NEW seq \in Keyboard
    PROVE  /\ Len(ks) \in Nat /\ Len(seq) \in Nat /\ Len(Append(ks, seq)) = Len(ks) + 1
           /\ Append(ks, seq) \in Seq(Keyboard)
           /\ \A i \in 1 .. Len(ks) : Append(ks, seq)[i] = ks[i]
           /\ Append(ks, seq)[Len(ks) + 1] = seq
           /\ Later(ks, rest, seq) \in [0 .. Len(ks) + 1 -> Nat]
           /\ Later(ks, rest, seq)[Len(ks) + 1] = 0
           /\ \A i \in 0 .. Len(ks) : /\ Later(ks, rest, seq)[i] = rest[i] + Len(seq)
                                      /\ rest[i] \in Nat
           /\ rest[Len(ks)] = 0
<1>1. ks \in Seq(Keyboard) /\ Len(ks) \in Nat /\ rest \in [0 .. Len(ks) -> Nat] /\ rest[Len(ks)] = 0
  BY LenProperties DEF History
<1>2. Len(seq) \in Nat
  <2>1. Len(seq) \in {1, 3, 4}
    BY Shapes
  <2> QED
    BY <2>1
<1>3. /\ Len(Append(ks, seq)) = Len(ks) + 1 /\ Append(ks, seq) \in Seq(Keyboard)
      /\ \A i \in 1 .. Len(ks) : Append(ks, seq)[i] = ks[i]
      /\ Append(ks, seq)[Len(ks) + 1] = seq
  BY <1>1, AppendProperties
<1>4. Len(ks) + 1 \in 0 .. Len(ks) + 1
  BY <1>1
<1>5. \A i \in 0 .. Len(ks) : i \in 0 .. Len(ks) + 1 /\ i # Len(ks) + 1 /\ rest[i] \in Nat
  BY <1>1
<1>6. \A i \in 0 .. Len(ks) + 1 : i # Len(ks) + 1 => i \in 0 .. Len(ks)
  BY <1>1
<1>7. \A i \in 0 .. Len(ks) + 1 : (IF i = Len(ks) + 1 THEN 0 ELSE rest[i] + Len(seq)) \in Nat
  BY <1>2, <1>5, <1>6
<1> QED
  BY <1>1, <1>2, <1>3, <1>4, <1>5, <1>7 DEF Later

LEMMA TypeHistory ==
    ASSUME NEW ks, NEW rest, KeyTypeOK, History(ks, rest), NEW seq \in Keyboard,
           term'.typed = Append(term.typed, Name(seq))
    PROVE  History(Append(ks, seq), Later(ks, rest, seq))'
<1> DEFINE k1 == Append(ks, seq)
           r1 == Later(ks, rest, seq)
           L == Len(ks)
<1>1. /\ L \in Nat /\ Len(seq) \in Nat /\ Len(k1) = L + 1 /\ k1 \in Seq(Keyboard)
      /\ \A i \in 1 .. L : k1[i] = ks[i]
      /\ k1[L + 1] = seq
      /\ r1 \in [0 .. L + 1 -> Nat] /\ r1[L + 1] = 0
      /\ \A i \in 0 .. L : r1[i] = rest[i] + Len(seq) /\ rest[i] \in Nat
      /\ rest[L] = 0
  BY LaterFacts
<1>2. term.typed \in Seq(Named) /\ Name(seq) \in Named /\ Len(term.typed) = L
  BY Naming DEF KeyTypeOK, History
<1>3. /\ Len(term'.typed) = L + 1 /\ term'.typed[L + 1] = Name(seq)
      /\ \A i \in 1 .. L : term'.typed[i] = term.typed[i]
  BY <1>2, AppendProperties
<1>4. \A i \in 1 .. L : term.typed[i] = Name(ks[i]) /\ rest[i - 1] = rest[i] + Len(ks[i])
  BY DEF History
<1> HIDE DEF k1, r1, L
<1>5. ASSUME NEW i \in 1 .. L + 1
      PROVE  term'.typed[i] = Name(k1[i]) /\ r1[i - 1] = r1[i] + Len(k1[i])
  <2>1. CASE i = L + 1
    <3>1. i - 1 = L /\ L \in 0 .. L
      BY <2>1, <1>1
    <3>2. r1[L] = Len(seq) /\ r1[i] = 0 /\ k1[i] = seq
      BY <3>1, <2>1, <1>1
    <3>3. r1[i - 1] = r1[i] + Len(k1[i])
      BY <3>1, <3>2, <1>1
    <3> QED
      BY <3>2, <3>3, <2>1, <1>3
  <2>2. CASE i # L + 1
    <3>1. i \in 1 .. L /\ i \in 0 .. L /\ i - 1 \in 0 .. L
      BY <2>2, <1>1
    <3>2. k1[i] = ks[i] /\ r1[i] = rest[i] + Len(seq) /\ r1[i - 1] = rest[i - 1] + Len(seq)
      BY <3>1, <1>1
    <3>3. rest[i - 1] = rest[i] + Len(ks[i]) /\ term'.typed[i] = Name(ks[i])
      BY <3>1, <1>3, <1>4
    <3>4. ks[i] \in Keyboard
      BY <3>1, ElementOfSeq DEF History, L
    <3>5. Len(ks[i]) \in {1, 3, 4} /\ rest[i] \in Nat
      BY <3>1, <3>4, <1>1, Shapes
    <3>6. (rest[i] + Len(ks[i])) + Len(seq) = (rest[i] + Len(seq)) + Len(ks[i])
      BY <3>5, <1>1
    <3> QED
      BY <3>2, <3>3, <3>6
  <2> QED
    BY <2>1, <2>2
<1>6. History(k1, r1)'
  BY <1>1, <1>3, <1>5 DEF History
<1> QED
  BY <1>6 DEF k1, r1

LEMMA TypeSent ==
    ASSUME NEW ks, NEW rest, History(ks, rest), NEW seq \in Keyboard,
           NEW B \in Seq(Byte), Sent(ks, rest, B)
    PROVE  Sent(Append(ks, seq), Later(ks, rest, seq), B \o seq)
<1> DEFINE k1 == Append(ks, seq)
           r1 == Later(ks, rest, seq)
           L == Len(ks)
           m == Len(seq)
           C == B \o seq
<1>1. /\ L \in Nat /\ m \in Nat /\ Len(k1) = L + 1
      /\ \A i \in 1 .. L : k1[i] = ks[i]
      /\ k1[L + 1] = seq
      /\ \A i \in 0 .. L : r1[i] = rest[i] + m /\ rest[i] \in Nat
      /\ rest[L] = 0
  BY LaterFacts
<1>2. seq \in Seq(Byte)
  BY Shapes
<1>3. /\ Len(C) = Len(B) + m /\ Len(B) \in Nat
      /\ \A i \in 1 .. Len(B) : C[i] = B[i]
      /\ \A i \in 1 .. m : C[Len(B) + i] = seq[i]
  BY <1>2, Joined
<1> HIDE DEF k1, r1, L, m, C
<1>4. ASSUME NEW i \in 1 .. L + 1, NEW j \in 1 .. Len(k1[i]), Len(C) + j > r1[i - 1]
      PROVE  C[Len(C) - r1[i - 1] + j] = k1[i][j]
  <2>1. CASE i = L + 1
    <3>1. i - 1 = L /\ L \in 0 .. L
      BY <2>1, <1>1
    <3>2. r1[i - 1] = m /\ k1[i] = seq
      BY <3>1, <2>1, <1>1
    <3>3. j \in 1 .. m /\ Len(C) - r1[i - 1] + j = Len(B) + j
      <4>1. j \in 1 .. m
        BY <3>2 DEF m
      <4> QED
        BY <4>1, <3>2, <1>1, <1>3
    <3> QED
      BY <3>2, <3>3, <1>3
  <2>2. CASE i # L + 1
    <3>1. i \in 1 .. L /\ i \in 0 .. L /\ i - 1 \in 0 .. L
      BY <2>2, <1>1
    <3> DEFINE q == rest[i - 1]
    <3>2. k1[i] = ks[i] /\ r1[i - 1] = q + m /\ q \in Nat /\ rest[i] \in Nat
      BY <3>1, <1>1
    <3>3. q = rest[i] + Len(ks[i]) /\ ks[i] \in Keyboard
      BY <3>1, ElementOfSeq DEF History, L
    <3>4. Len(ks[i]) \in {1, 3, 4} /\ j \in 1 .. Len(ks[i])
      BY <3>2, <3>3, Shapes
    <3>5. j \in Nat /\ j >= 1 /\ j <= q
      BY <3>2, <3>3, <3>4
    <3> HIDE DEF q
    <3>6. Len(B) + j > q
      BY <3>2, <3>5, <1>1, <1>3, <1>4
    <3>7. B[Len(B) - q + j] = ks[i][j]
      BY <3>1, <3>4, <3>6 DEF Sent, q, L
    <3>8. Len(B) - q + j \in 1 .. Len(B) /\ Len(C) - (q + m) + j = Len(B) - q + j
      BY <3>2, <3>5, <3>6, <1>1, <1>3
    <3> QED
      BY <3>2, <3>7, <3>8, <1>3
  <2> QED
    BY <2>1, <2>2
<1>5. Sent(k1, r1, C)
  BY <1>1, <1>4 DEF Sent
<1> QED
  BY <1>5 DEF k1, r1, C

\* The user waits for an Escape, so that no key follows one that may still be
\* the start of another.
LEMMA TypePlace ==
    ASSUME NEW ks, NEW rest, History(ks, rest), NEW seq \in Keyboard,
           NEW n, NEW f, NEW r, Place(ks, rest, n, f, r),
           Len(ks) >= 1 /\ ks[Len(ks)] = Esc => n = Len(ks)
    PROVE  Place(Append(ks, seq), Later(ks, rest, seq), n, f, r + Len(seq))
<1> DEFINE k1 == Append(ks, seq)
           r1 == Later(ks, rest, seq)
           L == Len(ks)
           m == Len(seq)
<1>1. /\ L \in Nat /\ m \in Nat /\ Len(k1) = L + 1
      /\ \A i \in 1 .. L : k1[i] = ks[i]
      /\ \A i \in 0 .. L : r1[i] = rest[i] + m /\ rest[i] \in Nat
  BY LaterFacts
<1>2. /\ n \in 0 .. L /\ f \in Frag /\ r \in Nat /\ rest[n] = Len(f) + r
      /\ f # <<>> => /\ n < L /\ Len(f) <= Len(ks[n + 1])
                     /\ \A j \in 1 .. Len(f) : f[j] = ks[n + 1][j]
      /\ \A i \in 1 .. L - 1 : ks[i] = Esc => i <= n
  BY DEF Place
<1>3. Len(f) \in Nat
  BY <1>2, Fragments DEF Frag
<1>4. L >= 1 /\ ks[L] = Esc => n = L
  OBVIOUS
<1> HIDE DEF k1, r1, L, m
<1>5. n \in 0 .. L + 1 /\ r + m \in Nat /\ r1[n] = Len(f) + (r + m)
  <2>1. r1[n] = (Len(f) + r) + m
    BY <1>1, <1>2
  <2> QED
    BY <2>1, <1>1, <1>2, <1>3
<1>6. ASSUME f # <<>>
      PROVE  /\ n < L + 1 /\ Len(f) <= Len(k1[n + 1])
             /\ \A j \in 1 .. Len(f) : f[j] = k1[n + 1][j]
  <2>1. n + 1 \in 1 .. L /\ n < L + 1
    BY <1>1, <1>2, <1>6
  <2>2. k1[n + 1] = ks[n + 1]
    BY <2>1, <1>1
  <2> QED
    BY <2>1, <2>2, <1>2, <1>6
<1>7. ASSUME NEW i \in 1 .. (L + 1) - 1, k1[i] = Esc PROVE i <= n
  <2>1. i \in 1 .. L /\ L >= 1
    BY <1>1
  <2>2. ks[i] = Esc
    BY <2>1, <1>1, <1>7
  <2>3. CASE i = L
    BY <2>1, <2>2, <2>3, <1>2, <1>4
  <2>4. CASE i # L
    <3>1. i \in 1 .. L - 1
      BY <2>1, <2>4, <1>1
    <3> QED
      BY <3>1, <2>2, <1>2
  <2> QED
    BY <2>3, <2>4
<1>8. Place(k1, r1, n, f, r + m)
  BY <1>1, <1>2, <1>5, <1>6, <1>7 DEF Place
<1> QED
  BY <1>8 DEF k1, r1, m

LEMMA PrefixLonger ==
    ASSUME NEW s, NEW t \in Seq(Named), NEW name \in Named, Prefix(s, t)
    PROVE  Prefix(s, Append(t, name))
<1>1. /\ Len(Append(t, name)) = Len(t) + 1 /\ Len(t) \in Nat
      /\ \A i \in 1 .. Len(t) : Append(t, name)[i] = t[i]
  BY AppendProperties, LenProperties
<1>2. Len(s) <= Len(t) /\ \A i \in 1 .. Len(s) : s[i] = t[i]
  BY DEF Prefix
<1>3. \A i \in 1 .. Len(s) : i \in 1 .. Len(t)
  BY <1>1, <1>2
<1>4. Len(s) <= Len(t) + 1
  BY <1>1, <1>2
<1> QED
  BY <1>1, <1>2, <1>3, <1>4 DEF Prefix

LEMMA TypeKeeps ==
    ASSUME NEW ks, NEW rest, Facts(ks, rest), NEW seq \in Keyboard, Type(seq)
    PROVE  Facts(Append(ks, seq), Later(ks, rest, seq))'
<1> DEFINE k1 == Append(ks, seq)
           r1 == Later(ks, rest, seq)
           L == Len(ks)
           m == Len(seq)
<1>1. /\ KeyTypeOK /\ History(ks, rest) /\ Sent(ks, rest, Coming) /\ Prefix(dec.keys, term.typed)
      /\ term.typed \in Seq(Named) /\ term.tty \in Seq(Byte) /\ dec.keys \in Seq(Named)
  BY DEF Facts, KeyTypeOK, DecType
<1>2. /\ UNCHANGED <<mode, dec, reader>> /\ term.part = <<>> /\ ~term.eof /\ Unhurried
      /\ term' = [term EXCEPT !.part = seq, !.typed = Append(@, Name(seq))]
  BY DEF Type, Delivered, Name
<1>3. /\ term'.part = seq /\ term'.tty = term.tty /\ term'.eof = term.eof
      /\ term'.typed = Append(term.typed, Name(seq))
  BY <1>1, <1>2 DEF KeyTypeOK
<1>4. seq \in Seq(Byte) /\ Name(seq) \in Named
  BY Shapes, Naming
<1>5. Coming = term.tty /\ Coming' = term.tty \o seq
  BY <1>1, <1>2, <1>3, ConcatEmptySeq DEF Coming
<1>6. Len(Coming') = Len(Coming) + m
  BY <1>1, <1>4, <1>5, Joined
<1>7. KeyTypeOK'
  <2>1. Append(term.typed, Name(seq)) \in Seq(Named)
    BY <1>1, <1>4, AppendProperties
  <2> QED
    BY <2>1, <1>1, <1>2, <1>4 DEF KeyTypeOK
<1>8. History(k1, r1)'
  BY <1>1, <1>3, TypeHistory
<1>9. Sent(k1, r1, Coming')
  BY <1>1, <1>5, TypeSent
<1>10. \A s : Prefix(s, term.typed) => Prefix(s, term'.typed)
  BY <1>1, <1>3, <1>4, PrefixLonger
<1>11. L \in Nat /\ Len(term.typed) = L
  BY <1>1, LenProperties DEF History
<1>12. ASSUME L >= 1, ks[L] = Esc PROVE Len(dec.keys) = L
  <2>1. L \in 1 .. L /\ Esc \in Keyboard
    <3>1. L \in 1 .. L
      BY <1>11, <1>12
    <3> QED
      BY <3>1, <1>1, <1>12, ElementOfSeq DEF History
  <2>2. term.typed[L] = Name(Esc)
    BY <2>1, <1>1, <1>12 DEF History
  <2>3. Name(Esc) = "Escape"
    BY <2>1, Fragments, Naming
  <2>4. term.typed # <<>> /\ Last(term.typed) = "Escape"
    BY <2>2, <2>3, <1>11, <1>12, EmptySeq DEF Last
  <2> QED
    BY <2>4, <1>2, <1>11 DEF Unhurried
<1>13. ASSUME NEW n, NEW f, Place(ks, rest, n, f, Len(Coming)), n >= Len(dec.keys)
       PROVE  Place(k1, r1, n, f, Len(Coming'))
  <2>1. n \in 0 .. L
    BY <1>13 DEF Place
  <2>2. L >= 1 /\ ks[L] = Esc => n = L
    BY <2>1, <1>11, <1>12, <1>13
  <2>3. Place(k1, r1, n, f, Len(Coming) + m)
    BY <2>2, <1>1, <1>13, TypePlace
  <2> QED
    BY <2>3, <1>6
<1> HIDE DEF k1, r1, L, m
<1>14. Len(dec.keys) \in Nat
  BY <1>1, LenProperties
<1>15. ASSUME mode = "loop" PROVE Good(k1, r1, dec, Len(Coming))'
  <2>1. Good(ks, rest, dec, Len(Coming))
    BY <1>15 DEF Facts
  <2>2. dec.running => Place(k1, r1, Len(dec.keys), dec.buf, Len(Coming'))
    BY <2>1, <1>13, <1>14 DEF Good
  <2> QED
    BY <2>1, <2>2, <1>2, <1>10 DEF Good
<1>16. ASSUME mode = "blocking", dec.running PROVE Blocked(k1, r1)'
  <2>1. Blocked(ks, rest) /\ ~Lost
    BY <1>2, <1>16 DEF Facts, Lost
  <2>2. PICK f \in Frag : Holding(f) /\ Place(ks, rest, Len(Got), f, Len(Coming))
    BY <2>1 DEF Blocked
  <2>3. Got' = Got /\ Holding(f)'
    BY <2>2, <1>2 DEF Got, Holding
  <2>4. Len(Got) >= Len(dec.keys)
    <3> DEFINE S == Named \cup {"", "Escape"}
    <3>1. dec.keys \in Seq(S) /\ reader.key \in S
      BY <1>1, SeqMonotonic DEF KeyTypeOK
    <3> HIDE DEF S
    <3>2. Len(Append(dec.keys, reader.key)) = Len(dec.keys) + 1
      BY <3>1, AppendProperties
    <3>3. Got = dec.keys \/ Got = Append(dec.keys, reader.key)
      BY DEF Got, Handled
    <3> QED
      BY <3>2, <3>3, <1>14
  <2>5. Place(k1, r1, Len(Got), f, Len(Coming'))
    BY <2>2, <2>4, <1>13
  <2>6. Prefix(Got, term'.typed)
    BY <2>1, <1>10 DEF Blocked
  <2> QED
    BY <2>2, <2>3, <2>5, <2>6 DEF Blocked
<1>17. Facts(k1, r1)'
  BY <1>1, <1>2, <1>7, <1>8, <1>9, <1>10, <1>15, <1>16 DEF Facts
<1> QED
  BY <1>17 DEF k1, r1

-----------------------------------------------------------------------------
(* The theorems. *)

LEMMA NextKeeps == IInv /\ [Next]_vars => IInv'
<1> SUFFICES ASSUME IInv, [Next]_vars PROVE IInv'
  OBVIOUS
<1>1. PICK ks, rest : Facts(ks, rest)
  BY DEF IInv
<1> SUFFICES \E k1, r1 : Facts(k1, r1)'
  BY DEF IInv
<1>2. ASSUME NEW seq \in Keyboard, Type(seq) PROVE \E k1, r1 : Facts(k1, r1)'
  BY <1>1, <1>2, TypeKeeps
<1>3. CASE Deliver
  BY <1>1, <1>3, DeliverKeeps
<1>4. CASE Hangup
  BY <1>1, <1>4, HangupKeeps
<1>5. CASE Resize
  BY <1>1, <1>5, ResizeKeeps
<1>6. CASE TuiStdinReadCallback
  BY <1>1, <1>6, CallbackKeeps
<1>7. CASE CallRead
  BY <1>1, <1>7, CallReadKeeps
<1>8. CASE ReadFirst
  BY <1>1, <1>8, ReadFirstKeeps
<1>9. CASE ReadEof
  BY <1>1, <1>9, ReadEofKeeps
<1>10. CASE ReadSecond
  BY <1>1, <1>10, ReadSecondKeeps
<1>11. CASE ReadThird
  BY <1>1, <1>11, ReadThirdKeeps
<1>12. CASE ReadTilde
  BY <1>1, <1>12, ReadTildeKeeps
<1>13. CASE HandleKey
  BY <1>1, <1>13, HandleKeyKeeps
<1>14. CASE EscTimeoutCallback
  BY <1>1, <1>14, EscTimeoutKeeps
<1>15. CASE PollTimeout
  BY <1>1, <1>15, PollTimeoutKeeps
<1>16. CASE SigwinchCheckCallback \/ UNCHANGED vars
  <2>1. UNCHANGED <<mode, term, dec, reader>>
    BY <1>16 DEF SigwinchCheckCallback, vars
  <2> QED
    BY <2>1, <1>1, StutterKeeps
<1> QED
  BY <1>2, <1>3, <1>4, <1>5, <1>6, <1>7, <1>8, <1>9, <1>10, <1>11, <1>12, <1>13, <1>14, <1>15, <1>16
  DEF Next, Decode, Timeout

\* The bytes not yet decoded are the rest of the key the decoder is inside of,
\* then the keys that were typed and not yet handled; every Escape but the last
\* key is handled, so that none is taken for the start of another key.
THEOREM KeyInvariant == Spec => []IInv
<1>1. IInv /\ [Next]_vars => IInv'
  BY NextKeeps
<1>2. Init => IInv
  BY InitFacts
<1> QED
  BY <1>1, <1>2, PTL DEF Spec

LEMMA InvDecoded == IInv => DecodedIsTyped
<1> SUFFICES ASSUME IInv PROVE DecodedIsTyped
  OBVIOUS
<1>1. /\ dec.keys \in Seq(Named) /\ term.typed \in Seq(Named)
      /\ Prefix(dec.keys, term.typed)
  BY DEF IInv, Facts, KeyTypeOK, DecType
<1> DEFINE s == dec.keys
           t == term.typed
<1>2. s \in Seq(Named) /\ t \in Seq(Named) /\ Len(s) <= Len(t) /\ \A i \in 1 .. Len(s) : s[i] = t[i]
  BY <1>1 DEF Prefix
<1> HIDE DEF s, t
<1>3. Len(s) \in Nat /\ Len(t) \in Nat
  BY <1>2, LenProperties
<1>4. SubSeq(s, 1, Len(s)) = s
  BY <1>2, SubSeqFull
<1>5. \A i \in 1 .. Len(s) : t[i] \in Named
  <2>1. \A i \in 1 .. Len(s) : i \in 1 .. Len(t)
    BY <1>2, <1>3
  <2> QED
    BY <2>1, <1>2, ElementOfSeq
<1>6. /\ SubSeq(t, 1, Len(s)) \in Seq(Named)
      /\ Len(SubSeq(t, 1, Len(s))) = IF 1 <= Len(s) THEN Len(s) - 1 + 1 ELSE 0
      /\ \A i \in 1 .. Len(s) - 1 + 1 : SubSeq(t, 1, Len(s))[i] = t[1 + i - 1]
  BY <1>3, <1>5, SubSeqProperties
<1>7. Len(SubSeq(t, 1, Len(s))) = Len(s)
  BY <1>3, <1>6
<1>8. \A i \in 1 .. Len(s) : SubSeq(t, 1, Len(s))[i] = s[i]
  <2>1. \A i \in 1 .. Len(s) : i \in 1 .. Len(s) - 1 + 1 /\ 1 + i - 1 = i
    BY <1>3
  <2> QED
    BY <2>1, <1>2, <1>6
<1>9. SubSeq(t, 1, Len(s)) = s
  BY <1>2, <1>6, <1>7, <1>8, SeqEqual
<1>10. IsPrefix(s, t)
  BY <1>2, <1>4, <1>9 DEF IsPrefix
<1> QED
  BY <1>10 DEF DecodedIsTyped, s, t

\* However the bytes of the terminal are split into reads and whenever the timer
\* runs, the program is given the keys that were typed (DecodeKeyByte,
\* ReadKeyName, EscTimeoutCallback).
THEOREM DecodedIsTypedHolds == Spec => []DecodedIsTyped
<1>1. IInv => DecodedIsTyped
  BY InvDecoded
<1> QED
  BY <1>1, KeyInvariant, PTL
=============================================================================
