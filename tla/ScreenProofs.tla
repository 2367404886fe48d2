---------------------------- MODULE ScreenProofs ----------------------------
(* Proofs about Screen.  Keyboard: what is typed is what was meant, for any *)
(* board, queue and movement of fingers.  Console: the hardware cursor is   *)
(* where the shown console has its own, for any numbers of consoles and     *)
(* writers, any size of the screen and any texts; and the cursors stay on   *)
(* the screen and the cells of a console with it, for texts that only       *)
(* address the screen.                                                      *)
EXTENDS Screen, SequenceTheorems, TLAPS

-----------------------------------------------------------------------------
(* The decoder as a function: the state after byte b and the call it makes. *)
St(r, p, c) == [recv |-> r, pressed |-> p, caps |-> c]
Prefixes == {"E0", "E1"}
NoBit == "none"

BitOf(r, n) ==
  CASE r = "NORMAL" /\ n \in Shifts -> n
    [] r = "NORMAL" /\ n = "ctrl" -> "lctrl"
    [] r = "NORMAL" /\ n = "alt" -> "lalt"
    [] r = "BEGIN_E0" /\ n = "ctrl" -> "rctrl"
    [] r = "BEGIN_E0" /\ n = "alt" -> "ralt"
    [] OTHER -> NoBit

Bits(p, bit, make) ==
  IF bit = NoBit THEN p ELSE IF make THEN p \cup {bit} ELSE p \ {bit}

Decode(s, b) ==
  IF b.name \in Prefixes
    THEN St(IF b.name = "E0" THEN "BEGIN_E0" ELSE "BEGIN_E1", s.pressed, s.caps)
    ELSE St("NORMAL", Bits(s.pressed, BitOf(s.recv, b.name), b.make),
            IF s.recv = "NORMAL" /\ b.name = "caps" THEN s.caps # b.make ELSE s.caps)

CharacterOf(s, k) ==
  LET c == IF s.pressed \cap Shifts # {} THEN Func(k) ELSE Normal(k)
  IN  IF s.caps THEN OtherCase(c) ELSE c

Silent == Shifts \cup {"caps", "alt", "ctrl", "F9"}
Emitted(s, b) ==
  IF s.recv # "NORMAL" \/ b.name \in Prefixes \cup Silent THEN None
  ELSE IF b.name \in FKeys THEN IF s.pressed \cap Ctrls # {} THEN TtySelect(b.name) ELSE None
  ELSE IF b.make THEN TtyIn(CharacterOf(s, b.name)) ELSE None

Now == St(recv, pressed, caps)
Settled == St("NORMAL", held \cap Modifiers, odd)

(* The call e is what was meant.                                            *)
AsMeant(e, m) == (e # TtyIn(Nul) => e = m) /\ (m # None => e = m)
Sound(s, m) == AsMeant(Emitted(s, m.byte), m.means)

(* Reading the queue q leads from state s to r, and every call on the way   *)
(* is what was meant.                                                       *)
Path(st, q) ==
  \A i \in 1 .. Len(q) : st[i] = Decode(st[i - 1], q[i].byte) /\ Sound(st[i - 1], q[i])
Reads(s, q, r) == \E st : Path(st, q) /\ st[0] = s /\ st[Len(q)] = r

(* The bytes of a key as the keyboard queues them.                          *)
Tag(b, m) == [i \in 1 .. Len(b) |-> [byte |-> b[i], means |-> m]]

(* No key has the name of a byte that is not its own.                       *)
NoKey == {"E0", "E1", "ctrl", "alt"}

Characters == {"a", "A", "1", "!"}
Calls == {None} \cup {TtyIn(c) : c \in Characters} \cup {TtySelect(k) : k \in FKeys}
ByteNames == keys \cup {"E0", "E1", "ctrl", "alt", "lshift", "print", "numlock"}
Queued == [byte : [name : ByteNames, make : BOOLEAN], means : Calls]
KbdTypeOK ==
  /\ queue \in Seq(Queued)
  /\ recv \in {"NORMAL", "BEGIN_E0", "BEGIN_E1"}
  /\ caps \in BOOLEAN /\ odd \in BOOLEAN
  /\ keys \cap NoKey = {}
KbdInv == KbdTypeOK /\ AsMeant(event, meant) /\ Reads(Now, queue, Settled)

-----------------------------------------------------------------------------
(* No byte, no change.                                                      *)
LEMMA ReadsNone == ASSUME NEW s, NEW r PROVE Reads(s, <<>>, r) <=> s = r
<1>1. ASSUME s = r PROVE Reads(s, <<>>, r)
  <2> DEFINE st == [i \in {0} |-> s]
  <2>1. Path(st, <<>>) /\ st[0] = s /\ st[Len(<<>>)] = r
    BY <1>1 DEF Path
  <2> QED  BY <2>1 DEF Reads
<1> QED  BY <1>1 DEF Reads

(* One byte.                                                                *)
LEMMA ReadsOne ==
  ASSUME NEW s, NEW m, Sound(s, m)
  PROVE  Reads(s, <<m>>, Decode(s, m.byte))
<1> DEFINE st == [i \in {0, 1} |-> IF i = 0 THEN s ELSE Decode(s, m.byte)]
<1>1. st[0] = s /\ st[1] = Decode(s, m.byte)
  OBVIOUS
<1> HIDE DEF st
<1>2. Path(st, <<m>>)
  BY <1>1 DEF Path
<1> QED  BY <1>1, <1>2 DEF Reads

(* One queue after the other.                                               *)
LEMMA ReadsConcat ==
  ASSUME NEW S, NEW q \in Seq(S), NEW w \in Seq(S), NEW s, NEW r, NEW u,
         Reads(s, q, r), Reads(r, w, u)
  PROVE  Reads(s, q \o w, u)
<1>1. PICK a : Path(a, q) /\ a[0] = s /\ a[Len(q)] = r
  BY DEF Reads
<1>2. PICK b : Path(b, w) /\ b[0] = r /\ b[Len(w)] = u
  BY DEF Reads
<1> DEFINE n == Len(q)
           st == [i \in 0 .. n + Len(w) |-> IF i <= n THEN a[i] ELSE b[i - n]]
<1>3. /\ n \in Nat /\ Len(w) \in Nat /\ Len(q \o w) = n + Len(w)
      /\ \A i \in 1 .. n + Len(w) : (q \o w)[i] = IF i <= n THEN q[i] ELSE w[i - n]
  OBVIOUS
<1>4. /\ \A i \in 0 .. n : st[i] = a[i]
      /\ \A i \in n .. n + Len(w) : st[i] = b[i - n]
  BY <1>1, <1>2, <1>3
<1> HIDE DEF n, st
<1>5. ASSUME NEW i \in 1 .. n + Len(w)
      PROVE  /\ st[i] = Decode(st[i - 1], (q \o w)[i].byte)
             /\ Sound(st[i - 1], (q \o w)[i])
  <2>1. CASE i <= n
    <3>1. i \in 1 .. Len(q) /\ st[i] = a[i] /\ st[i - 1] = a[i - 1] /\ (q \o w)[i] = q[i]
      BY <1>3, <1>4, <2>1 DEF n
    <3> QED  BY <1>1, <3>1 DEF Path
  <2>2. CASE i > n
    <3>1. /\ i - n \in 1 .. Len(w) /\ i \in n .. n + Len(w) /\ i - 1 \in n .. n + Len(w)
          /\ (q \o w)[i] = w[i - n] /\ (i - 1) - n = (i - n) - 1
      BY <1>3, <2>2
    <3>2. st[i] = b[i - n] /\ st[i - 1] = b[(i - n) - 1]
      BY <1>4, <3>1
    <3> QED  BY <1>2, <3>1, <3>2 DEF Path
  <2> QED  BY <1>3, <2>1, <2>2
<1>6. Path(st, q \o w)
  BY <1>3, <1>5 DEF Path
<1>7. 0 \in 0 .. n /\ n + Len(w) \in n .. n + Len(w) /\ (n + Len(w)) - n = Len(w)
  BY <1>3
<1>8. st[0] = s /\ st[n + Len(w)] = u
  BY <1>1, <1>2, <1>4, <1>7
<1> QED  BY <1>3, <1>6, <1>8 DEF Reads

(* The first byte of a queue is read first.                                 *)
LEMMA ReadsHead ==
  ASSUME NEW S, NEW q \in Seq(S), q # <<>>, NEW s, NEW r, Reads(s, q, r)
  PROVE  Sound(s, Head(q)) /\ Reads(Decode(s, Head(q).byte), Tail(q), r)
<1>1. PICK a : Path(a, q) /\ a[0] = s /\ a[Len(q)] = r
  BY DEF Reads
<1> DEFINE n == Len(q) - 1
           st == [i \in 0 .. n |-> a[i + 1]]
<1>2. /\ n \in Nat /\ Len(Tail(q)) = n /\ Len(q) = n + 1 /\ Head(q) = q[1]
      /\ \A i \in 1 .. n : Tail(q)[i] = q[i + 1]
  OBVIOUS
<1>3. \A i \in 0 .. n : st[i] = a[i + 1]
  OBVIOUS
<1> HIDE DEF n, st
<1>4. 1 \in 1 .. Len(q) /\ a[1] = Decode(s, Head(q).byte) /\ Sound(s, Head(q))
  BY <1>1, <1>2 DEF Path
<1>5. ASSUME NEW i \in 1 .. n
      PROVE  st[i] = Decode(st[i - 1], Tail(q)[i].byte) /\ Sound(st[i - 1], Tail(q)[i])
  <2>1. /\ i + 1 \in 1 .. Len(q) /\ st[i] = a[i + 1] /\ st[i - 1] = a[(i + 1) - 1]
        /\ Tail(q)[i] = q[i + 1]
    BY <1>2, <1>3
  <2> QED  BY <1>1, <2>1 DEF Path
<1>6. Path(st, Tail(q))
  BY <1>2, <1>5 DEF Path
<1>7. st[0] = Decode(s, Head(q).byte) /\ st[Len(Tail(q))] = r
  BY <1>1, <1>2, <1>3, <1>4
<1> QED  BY <1>4, <1>6, <1>7 DEF Reads


(* do_handler_kbd computes Decode and Emitted. *)
LEMMA HandlerDecodes ==
  ASSUME KbdTypeOK, Handler
  PROVE  LET b == Head(queue).byte
         IN  Now' = Decode(Now, b) /\ event' = Emitted(Now, b) /\ recv' \in {"NORMAL", "BEGIN_E0", "BEGIN_E1"}
             /\ caps' \in BOOLEAN /\ meant' = Head(queue).means
<1> DEFINE b == Head(queue).byte
<1>1. Head(queue) \in Queued
  BY DEF KbdTypeOK, Handler
<1>2. b.make \in BOOLEAN
  BY <1>1 DEF Queued
<1>3. meant' = Head(queue).means
  BY DEF Handler
<1>4. \/ /\ b.name \in Prefixes
         /\ recv' = IF b.name = "E0" THEN "BEGIN_E0" ELSE "BEGIN_E1"
         /\ event' = None /\ UNCHANGED <<pressed, caps>>
      \/ /\ b.name \notin Prefixes /\ recv' = "NORMAL" /\ recv = "NORMAL" /\ DoNormalKey(b)
      \/ /\ b.name \notin Prefixes /\ recv' = "NORMAL" /\ recv = "BEGIN_E0" /\ DoE0Key(b)
      \/ /\ b.name \notin Prefixes /\ recv' = "NORMAL" /\ recv = "BEGIN_E1"
         /\ event' = None /\ UNCHANGED <<pressed, caps>>
  BY DEF Handler, KbdTypeOK, Prefixes
<1>5. caps \in BOOLEAN
  BY DEF KbdTypeOK
<1> HIDE DEF b
<1>6. CASE b.name \in Prefixes
  BY <1>3, <1>4, <1>5, <1>6 DEF Now, St, Decode, Emitted, b
<1>7. CASE b.name \notin Prefixes /\ recv = "BEGIN_E1"
  BY <1>3, <1>4, <1>5, <1>7 DEF Now, St, Decode, Emitted, b, BitOf, Bits
<1>8. CASE b.name \notin Prefixes /\ recv = "BEGIN_E0"
  BY <1>3, <1>4, <1>5, <1>8 DEF Now, St, Decode, Emitted, b, BitOf, Bits, DoE0Key, Track, NoBit
<1>9. CASE b.name \notin Prefixes /\ recv = "NORMAL"
  <2>1. recv' = "NORMAL" /\ DoNormalKey(b)
    BY <1>4, <1>9
  <2>2. pressed' = Bits(pressed, BitOf("NORMAL", b.name), b.make)
    BY <2>1 DEF DoNormalKey, Track, Bits, BitOf, NoBit, Shifts, FKeys, DoFxKey
  <2>3. caps' = (IF b.name = "caps" THEN caps # b.make ELSE caps)
    BY <2>1 DEF DoNormalKey, Shifts, FKeys, DoFxKey
  <2>4. event' = Emitted(Now, b)
    BY <1>9, <2>1 DEF DoNormalKey, Shifts, FKeys, DoFxKey, Emitted, Silent, Now, St, CharacterOf,
       Character
  <2>5. caps' \in BOOLEAN
    BY <1>2, <1>5, <2>3
  <2>6. Now' = Decode(Now, b)
    BY <1>9, <2>1, <2>2, <2>3 DEF Now, St, Decode
  <2> QED  BY <1>3, <2>1, <2>4, <2>5, <2>6 DEF b
<1> QED  BY <1>6, <1>7, <1>8, <1>9 DEF KbdTypeOK

(* The bytes of a key one after the other.                                  *)
LEMMA TagPlain ==
  ASSUME NEW n, NEW make, NEW m
  PROVE  Tag(Plain(n, make), m) = <<[byte |-> [name |-> n, make |-> make], means |-> m]>>
BY DEF Tag, Plain

(* Tagging bytes goes piece by piece.                                       *)
LEMMA TagConcat ==
  ASSUME NEW S, NEW a \in Seq(S), NEW b \in Seq(S), NEW m
  PROVE  Tag(a \o b, m) = Tag(a, m) \o Tag(b, m)
<1> DEFINE M == [byte : S, means : {m}]
<1>1. Tag(a, m) \in Seq(M) /\ Tag(b, m) \in Seq(M) /\ Tag(a \o b, m) \in Seq(M)
      /\ Len(Tag(a, m)) = Len(a) /\ Len(Tag(b, m)) = Len(b) /\ Len(Tag(a \o b, m)) = Len(a) + Len(b)
  BY DEF Tag
<1>2. \A i \in 1 .. Len(a) + Len(b) :
        Tag(a \o b, m)[i] = (Tag(a, m) \o Tag(b, m))[i]
  BY DEF Tag
<1> HIDE DEF M
<1>3. Tag(a, m) \o Tag(b, m) \in Seq(M) /\ Len(Tag(a, m) \o Tag(b, m)) = Len(a) + Len(b)
  BY <1>1, ConcatProperties
<1> QED  BY <1>1, <1>2, <1>3, SeqEqual

(* One byte is read.                                                        *)
LEMMA ReadsByte ==
  ASSUME NEW s, NEW n, NEW make, NEW m, AsMeant(Emitted(s, [name |-> n, make |-> make]), m)
  PROVE  Reads(s, Tag(Plain(n, make), m), Decode(s, [name |-> n, make |-> make]))
<1> DEFINE x == [byte |-> [name |-> n, make |-> make], means |-> m]
<1>1. Sound(s, x) /\ x.byte = [name |-> n, make |-> make]
  BY DEF Sound
<1> HIDE DEF x
<1>2. Reads(s, <<x>>, Decode(s, x.byte))
  BY <1>1, ReadsOne
<1> QED  BY <1>1, <1>2, TagPlain DEF x

(* What was meant is right, and so is NUL where nothing was.                *)
LEMMA MeantIsMeant ==
  /\ \A e : AsMeant(e, e)
  /\ AsMeant(TtyIn(Nul), None)
BY DEF AsMeant

(* A prefix is noted; the byte behind it is a modifier, or nothing.         *)
LEMMA ReadsPrefixed ==
  ASSUME NEW p, NEW c, NEW x \in Prefixes, NEW n, n \notin Prefixes, NEW make \in BOOLEAN
  PROVE  Reads(St("NORMAL", p, c), Tag(Prefix(x) \o Plain(n, make), None),
               St("NORMAL", Bits(p, IF x = "E0" THEN BitOf("BEGIN_E0", n) ELSE NoBit, make), c))
<1> DEFINE r == IF x = "E0" THEN "BEGIN_E0" ELSE "BEGIN_E1"
           s == St("NORMAL", p, c)
           u == St(r, p, c)
           v == St("NORMAL", Bits(p, IF x = "E0" THEN BitOf("BEGIN_E0", n) ELSE NoBit, make), c)
<1>1. /\ Emitted(s, [name |-> x, make |-> TRUE]) = None
      /\ Decode(s, [name |-> x, make |-> TRUE]) = u
  BY DEF Emitted, Decode, St, Prefixes
<1>2. /\ Emitted(u, [name |-> n, make |-> make]) = None
      /\ Decode(u, [name |-> n, make |-> make]) = v
  BY DEF Emitted, Decode, St, Prefixes, BitOf
<1> HIDE DEF s, u, v
<1>3. Reads(s, Tag(Prefix(x), None), u)
  BY <1>1, ReadsByte, MeantIsMeant DEF Prefix
<1>4. Reads(u, Tag(Plain(n, make), None), v)
  BY <1>2, ReadsByte, MeantIsMeant
<1> DEFINE S == {[name |-> x, make |-> TRUE], [name |-> n, make |-> make]}
           M == [byte : S, means : {None}]
<1>5. Prefix(x) \in Seq(S) /\ Plain(n, make) \in Seq(S)
  BY DEF Prefix, Plain
<1>6. Tag(Prefix(x), None) \in Seq(M) /\ Tag(Plain(n, make), None) \in Seq(M)
  BY <1>5 DEF Tag
<1> HIDE DEF S, M
<1>7. Tag(Prefix(x) \o Plain(n, make), None) = Tag(Prefix(x), None) \o Tag(Plain(n, make), None)
  BY <1>5, TagConcat
<1> QED  BY <1>3, <1>4, <1>6, <1>7, ReadsConcat DEF s, v

(* Reading what the keyboard sends for key k takes the driver from what was *)
(* held before to what is held after.                                       *)
After(k, make) ==
  St("NORMAL", (IF make THEN held \cup {k} ELSE held \ {k}) \cap Modifiers,
     IF make /\ k = "caps" THEN ~ odd ELSE odd)

(* Every key but those that send a prefix and those that share a byte.      *)
LEMMA PlainKey ==
  ASSUME odd \in BOOLEAN, NEW k, k \notin NoKey \cup Ctrls \cup Alts \cup {"print", "pause"},
         NEW make \in BOOLEAN
  PROVE  Reads(Settled, Tag(Bytes(k, make), Meaning(k, make)), After(k, make))
<1> DEFINE b == [name |-> k, make |-> make]
           p == held \cap Modifiers
<1>1. /\ k \notin Prefixes /\ k # "ctrl" /\ k # "alt" /\ k \notin Ctrls /\ k \notin Alts
      /\ Bytes(k, make) = Plain(k, make)
  BY DEF NoKey, Prefixes, Ctrls, Alts, Bytes
<1>2. /\ p \cap Ctrls = held \cap Ctrls /\ p \cap Shifts = held \cap Shifts
  BY DEF Modifiers
<1>3. Decode(Settled, b) = After(k, make)
  <2>1. Bits(p, BitOf("NORMAL", k), make) = (IF make THEN held \cup {k} ELSE held \ {k}) \cap Modifiers
    <3>1. CASE k \in Shifts
      <4>1. BitOf("NORMAL", k) = k /\ k # NoBit
        BY <3>1 DEF BitOf, Shifts, NoBit
      <4> QED  BY <3>1, <4>1 DEF Bits, Modifiers
    <3>2. CASE k \notin Shifts
      <4>1. BitOf("NORMAL", k) = NoBit /\ k \notin Modifiers
        BY <1>1, <3>2 DEF BitOf, Modifiers
      <4> QED  BY <4>1 DEF Bits
    <3> QED  BY <3>1, <3>2
  <2>2. (IF k = "caps" THEN odd # make ELSE odd) = (IF make /\ k = "caps" THEN ~ odd ELSE odd)
    OBVIOUS
  <2> QED  BY <1>1, <2>1, <2>2 DEF Decode, Settled, St, After
<1>4. AsMeant(Emitted(Settled, b), Meaning(k, make))
  <2> DEFINE e == Emitted(Settled, b)
             m == Meaning(k, make)
  <2>1. CASE k \in FKeys
    <3>1. e = IF held \cap Ctrls # {} THEN TtySelect(k) ELSE None
      BY <1>1, <1>2, <2>1 DEF Emitted, Settled, St, Silent, FKeys, Shifts
    <3>2. m = IF held \cap Ctrls # {} THEN TtySelect(k) ELSE None
      BY <2>1 DEF Meaning, FKeys, Letters
    <3> QED  BY <3>1, <3>2, MeantIsMeant
  <2>2. CASE k \in Letters
    <3>1. e = IF make THEN TtyIn(CharacterOf(Settled, k)) ELSE None
      BY <1>1, <2>2 DEF Emitted, Settled, St, Silent, FKeys, Shifts, Letters
    <3>2. m = IF make THEN TtyIn(CharacterOf(Settled, k)) ELSE None
      BY <1>2, <2>2 DEF Meaning, FKeys, Letters, CharacterOf, Settled, St
    <3> QED  BY <3>1, <3>2, MeantIsMeant
  <2>3. CASE k \notin FKeys \cup Letters
    <3>1. m = None
      BY <2>3 DEF Meaning
    <3>2. CharacterOf(Settled, k) = Nul
      BY <2>3 DEF CharacterOf, Normal, Func, OtherCase, Nul, Letters
    <3>3. e = None \/ e = TtyIn(Nul)
      BY <2>3, <3>2 DEF Emitted
    <3> QED  BY <3>1, <3>3, MeantIsMeant
  <2> QED  BY <2>1, <2>2, <2>3
<1> QED  BY <1>1, <1>3, <1>4, ReadsByte

(* What is read one after the other is read together.                       *)
LEMMA ReadsMore ==
  ASSUME NEW S, NEW a \in Seq(S), NEW b \in Seq(S), NEW m, NEW s, NEW r, NEW u,
         Reads(s, Tag(a, m), r), Reads(r, Tag(b, m), u)
  PROVE  Reads(s, Tag(a \o b, m), u)
<1> DEFINE M == [byte : S, means : {m}]
<1>1. Tag(a, m) \in Seq(M) /\ Tag(b, m) \in Seq(M)
  BY DEF Tag
<1> HIDE DEF M
<1>2. Tag(a \o b, m) = Tag(a, m) \o Tag(b, m)
  BY TagConcat
<1>3. Reads(s, Tag(a, m) \o Tag(b, m), u)
  BY <1>1, ReadsConcat
<1> QED  BY <1>2, <1>3

ByteOf(k) == IF k \in Ctrls THEN "ctrl" ELSE "alt"

(* Ctrl and Alt on the right, whose byte follows a prefix, and on the left. *)
LEMMA SharedKey ==
  ASSUME odd \in BOOLEAN, NEW k \in Ctrls \cup Alts, NEW make \in BOOLEAN
  PROVE  Reads(Settled, Tag(Bytes(k, make), Meaning(k, make)), After(k, make))
<1> DEFINE p == held \cap Modifiers
           n == ByteOf(k)
           h == Bits(p, k, make)
<1>1. /\ Meaning(k, make) = None /\ k # NoBit /\ n \notin Prefixes
      /\ n \in {"ctrl", "alt"}
  BY DEF Meaning, Ctrls, Alts, FKeys, Letters, ByteOf, Prefixes, NoBit
<1>2. After(k, make) = St("NORMAL", h, odd)
  <2>1. h = (IF make THEN held \cup {k} ELSE held \ {k}) \cap Modifiers
    BY <1>1 DEF Bits, Modifiers
  <2>2. k # "caps"
    BY DEF Ctrls, Alts
  <2> QED  BY <2>1, <2>2 DEF After
<1>3. CASE k \in {"lctrl", "lalt"}
  <2> DEFINE b == [name |-> n, make |-> make]
  <2>1. Bytes(k, make) = Plain(n, make) /\ BitOf("NORMAL", n) = k
    BY <1>3 DEF Bytes, ByteOf, Ctrls, Alts, BitOf, Shifts
  <2>2. Emitted(Settled, b) = None
    BY <1>1 DEF Emitted, Silent
  <2>3. Decode(Settled, b) = St("NORMAL", h, odd)
    BY <1>1, <2>1 DEF Decode, Settled, St
  <2> QED  BY <1>1, <1>2, <2>1, <2>2, <2>3, ReadsByte, MeantIsMeant
<1>4. CASE k \in {"rctrl", "ralt"}
  <2>1. Bytes(k, make) = Prefix("E0") \o Plain(n, make) /\ BitOf("BEGIN_E0", n) = k
    BY <1>4 DEF Bytes, ByteOf, Ctrls, Alts, BitOf
  <2>2. "E0" \in Prefixes
    BY DEF Prefixes
  <2> HIDE DEF n
  <2>3. Reads(St("NORMAL", p, odd), Tag(Prefix("E0") \o Plain(n, make), None),
              St("NORMAL", Bits(p, BitOf("BEGIN_E0", n), make), odd))
    BY <1>1, <2>2, ReadsPrefixed
  <2> QED  BY <1>1, <1>2, <2>1, <2>3 DEF Settled
<1> QED  BY <1>3, <1>4 DEF Ctrls, Alts

(* Print Screen pretends that Shift moves, Pause that Ctrl and Num Lock do. *)
LEMMA OddKey ==
  ASSUME odd \in BOOLEAN, NEW k \in {"print", "pause"}, NEW make \in BOOLEAN
  PROVE  Reads(Settled, Tag(Bytes(k, make), Meaning(k, make)), After(k, make))
<1> DEFINE N == {"E0", "E1", "ctrl", "lshift", "print", "numlock"}
           S == [name : N, make : BOOLEAN]
<1>1. \A n \in N, x \in BOOLEAN : Plain(n, x) \in Seq(S) /\ Prefix(n) \in Seq(S)
  BY DEF Plain, Prefix
<1> HIDE DEF S
<1>2. Meaning(k, make) = None /\ After(k, make) = Settled
  <2>1. k \notin Modifiers /\ k # "caps" /\ k \notin FKeys \cup Letters
    BY DEF Modifiers, Shifts, Ctrls, Alts, FKeys, Letters
  <2>2. (IF make THEN held \cup {k} ELSE held \ {k}) \cap Modifiers = held \cap Modifiers
    BY <2>1
  <2> QED  BY <2>1, <2>2 DEF Meaning, After, Settled
<1>3. ASSUME NEW x \in Prefixes, NEW n \in N \ {"E0", "E1"}, NEW y \in BOOLEAN,
             x = "E1" \/ n \notin {"ctrl", "alt"}
      PROVE  Reads(Settled, Tag(Prefix(x) \o Plain(n, y), None), Settled)
  <2>1. n \notin Prefixes /\ (IF x = "E0" THEN BitOf("BEGIN_E0", n) ELSE NoBit) = NoBit
    BY <1>3 DEF Prefixes, BitOf
  <2>2. \A q : Bits(q, NoBit, y) = q
    BY DEF Bits
  <2>3. Reads(St("NORMAL", held \cap Modifiers, odd), Tag(Prefix(x) \o Plain(n, y), None),
              St("NORMAL", Bits(held \cap Modifiers, NoBit, y), odd))
    BY <2>1, ReadsPrefixed
  <2> QED  BY <2>2, <2>3 DEF Settled
<1>4. CASE k = "print"
  <2>1. ASSUME NEW n \in {"lshift", "print"}, NEW v \in {"lshift", "print"}
        PROVE  Reads(Settled, Tag(Prefix("E0") \o Plain(n, make) \o Prefix("E0") \o Plain(v, make), None),
                     Settled)
    <3> DEFINE a == Prefix("E0") \o Plain(n, make)
               b == Prefix("E0") \o Plain(v, make)
    <3>a. /\ "E0" \in Prefixes /\ "E0" \in N /\ make \in BOOLEAN
          /\ n \in N \ {"E0", "E1"} /\ n \notin {"ctrl", "alt"}
          /\ v \in N \ {"E0", "E1"} /\ v \notin {"ctrl", "alt"}
      BY DEF Prefixes
    <3>1. Reads(Settled, Tag(a, None), Settled) /\ Reads(Settled, Tag(b, None), Settled)
      BY <1>3, <3>a
    <3>b. /\ Prefix("E0") \in Seq(S) /\ Plain(v, make) \in Seq(S) /\ Plain(n, make) \in Seq(S)
      BY <1>1, <3>a
    <3>2. /\ a \in Seq(S) /\ b \in Seq(S) /\ Prefix("E0") \in Seq(S) /\ Plain(v, make) \in Seq(S)
      BY <3>b, ConcatProperties
    <3>3. Reads(Settled, Tag(a \o b, None), Settled)
      BY <3>1, <3>2, ReadsMore
    <3> HIDE DEF a
    <3>4. a \o b = a \o Prefix("E0") \o Plain(v, make)
      BY <3>2, ConcatAssociative
    <3> QED  BY <3>3, <3>4 DEF a
  <2>2. CASE make = TRUE
    BY <1>2, <1>4, <2>1, <2>2 DEF Bytes
  <2>3. CASE make = FALSE
    BY <1>2, <1>4, <2>1, <2>3 DEF Bytes
  <2> QED  BY <2>2, <2>3
<1>5. CASE k = "pause" /\ make = FALSE
  <2>1. Bytes(k, make) = <<>> /\ Tag(<<>>, None) = <<>>
    BY <1>5 DEF Bytes, Tag
  <2> QED  BY <1>2, <2>1, ReadsNone
<1>6. CASE k = "pause" /\ make = TRUE
  <2> DEFINE a(y) == Prefix("E1") \o Plain("ctrl", y)
             l(y) == Plain("numlock", y)
  <2>1. ASSUME NEW y \in BOOLEAN
        PROVE  Reads(Settled, Tag(a(y), None), Settled) /\ Reads(Settled, Tag(l(y), None), Settled)
    <3> DEFINE b == [name |-> "numlock", make |-> y]
    <3>a. "E1" \in Prefixes /\ "ctrl" \in N \ {"E0", "E1"}
      BY DEF Prefixes
    <3>1. Reads(Settled, Tag(a(y), None), Settled)
      BY <1>3, <3>a
    <3>2. Decode(Settled, b) = Settled
      BY DEF Decode, Settled, St, BitOf, Bits, Prefixes, Shifts
    <3>3. Emitted(Settled, b) = None \/ Emitted(Settled, b) = TtyIn(Nul)
      BY DEF Emitted, CharacterOf, Normal, Func, OtherCase, Nul, FKeys
    <3> QED  BY <3>1, <3>2, <3>3, ReadsByte, MeantIsMeant
  <2>2. /\ a(TRUE) \in Seq(S) /\ l(TRUE) \in Seq(S) /\ a(FALSE) \in Seq(S) /\ l(FALSE) \in Seq(S)
        /\ Prefix("E1") \in Seq(S) /\ Plain("ctrl", FALSE) \in Seq(S)
    <3>1. /\ Prefix("E1") \in Seq(S)
          /\ \A y \in BOOLEAN : Plain("ctrl", y) \in Seq(S) /\ Plain("numlock", y) \in Seq(S)
      BY <1>1
    <3>2. \A y \in BOOLEAN : a(y) \in Seq(S)
      BY <3>1, ConcatProperties
    <3> QED  BY <3>1, <3>2
  <2> DEFINE c == a(TRUE) \o l(TRUE)
  <2>3. c \in Seq(S) /\ Reads(Settled, Tag(c, None), Settled)
    BY <2>1, <2>2, ConcatProperties, ReadsMore
  <2>4. c \o a(FALSE) \in Seq(S) /\ Reads(Settled, Tag(c \o a(FALSE), None), Settled)
    BY <2>1, <2>2, <2>3, ConcatProperties, ReadsMore
  <2>5. Reads(Settled, Tag(c \o a(FALSE) \o l(FALSE), None), Settled)
    BY <2>1, <2>2, <2>4, ReadsMore
  <2>6. c \o a(FALSE) = c \o Prefix("E1") \o Plain("ctrl", FALSE)
    <3> HIDE DEF c
    <3>1. \A p, q \in Seq(S) : c \o (p \o q) = c \o p \o q
      BY <2>3, ConcatAssociative
    <3> QED  BY <2>2, <3>1
  <2>7. Bytes(k, make) = c \o Prefix("E1") \o Plain("ctrl", FALSE) \o l(FALSE)
    BY <1>6 DEF Bytes
  <2> QED  BY <1>2, <2>5, <2>6, <2>7
<1> QED  BY <1>4, <1>5, <1>6

(* A key moves: what it sends is read after all that is in the queue.       *)
LEMMA KeySent ==
  ASSUME KbdInv, NEW k \in keys, NEW make \in BOOLEAN, Send(k, make),
         held' = (IF make THEN held \cup {k} ELSE held \ {k}),
         odd' = (IF make /\ k = "caps" THEN ~ odd ELSE odd),
         UNCHANGED <<keys, recv, pressed, caps, event, meant>>
  PROVE  KbdInv'
<1> DEFINE w == Tag(Bytes(k, make), Meaning(k, make))
           S == [name : ByteNames, make : BOOLEAN]
<1>1. queue' = queue \o w /\ queue \in Seq(Queued) /\ odd \in BOOLEAN
  BY DEF Send, Tag, KbdInv, KbdTypeOK
<1>2. k \notin NoKey
  BY DEF KbdInv, KbdTypeOK
<1>3. Reads(Settled, w, After(k, make))
  BY <1>1, <1>2, PlainKey, SharedKey, OddKey
<1>4. w \in Seq(Queued)
  <2>1. Meaning(k, make) \in Calls
    <3>1. CASE k \in FKeys
      BY <3>1 DEF Meaning, Calls, FKeys, Letters
    <3>2. CASE k \in Letters
      <4> DEFINE c == IF held \cap Shifts # {} THEN Func(k) ELSE Normal(k)
                 d == IF odd THEN OtherCase(c) ELSE c
      <4>1. c \in Characters
        BY <3>2 DEF Letters, Func, Normal, Characters
      <4> HIDE DEF c
      <4>2. d \in Characters
        BY <4>1 DEF OtherCase, Characters
      <4>3. Meaning(k, make) = None \/ Meaning(k, make) = TtyIn(d)
        BY <3>2 DEF Meaning, Letters, FKeys, c
      <4> HIDE DEF d
      <4> QED  BY <4>2, <4>3 DEF Calls
    <3>3. CASE k \notin FKeys \cup Letters
      BY <3>3 DEF Meaning, Calls
    <3> QED  BY <3>1, <3>2, <3>3
  <2>2. Bytes(k, make) \in Seq(S)
    <3>1. \A n \in ByteNames, x \in BOOLEAN : Plain(n, x) \in Seq(S)
      BY DEF Plain
    <3>2. /\ k \in ByteNames /\ "E0" \in ByteNames /\ "E1" \in ByteNames /\ "ctrl" \in ByteNames
          /\ "alt" \in ByteNames /\ "lshift" \in ByteNames /\ "print" \in ByteNames
          /\ "numlock" \in ByteNames
      BY DEF ByteNames
    <3> HIDE DEF S
    <3>3. \A p, q \in Seq(S) : p \o q \in Seq(S)
      BY ConcatProperties
    <3>4. <<>> \in Seq(S)
      OBVIOUS
    <3>5. CASE k = "print"
      BY <3>1, <3>2, <3>3, <3>5 DEF Bytes, Prefix
    <3>6. CASE k = "pause"
      BY <3>1, <3>2, <3>3, <3>4, <3>6 DEF Bytes, Prefix
    <3>7. CASE k \notin {"print", "pause"}
      BY <3>1, <3>2, <3>3, <3>7 DEF Bytes, Prefix
    <3> QED  BY <3>5, <3>6, <3>7
  <2> HIDE DEF S
  <2>3. \A i \in 1 .. Len(Bytes(k, make)) :
          [byte |-> Bytes(k, make)[i], means |-> Meaning(k, make)] \in Queued
    <3>1. \A x \in S, m \in Calls : [byte |-> x, means |-> m] \in Queued
      BY DEF Queued, S
    <3>2. \A i \in 1 .. Len(Bytes(k, make)) : Bytes(k, make)[i] \in S
      BY <2>2
    <3> QED  BY <2>1, <3>1, <3>2
  <2> QED  BY <2>2, <2>3 DEF Tag
<1> HIDE DEF w
<1>5. Reads(Now, queue \o w, After(k, make))
  BY <1>1, <1>3, <1>4, ReadsConcat DEF KbdInv
<1>6. Now' = Now /\ Settled' = After(k, make)
  BY DEF Now, Settled, After
<1>7. queue' \in Seq(Queued)
  BY <1>1, <1>4, ConcatProperties
<1>8. odd' \in BOOLEAN
  BY <1>1
<1>9. KbdTypeOK'
  BY <1>7, <1>8 DEF KbdInv, KbdTypeOK, Queued, ByteNames
<1>10. Reads(Now, queue, Settled)'
  BY <1>1, <1>5, <1>6 DEF Reads, Path, Sound, AsMeant
<1> QED  BY <1>9, <1>10 DEF KbdInv, AsMeant

(* do_handler_kbd takes the first byte of the queue.                        *)
LEMMA HandlerKbd == ASSUME KbdInv, Handler PROVE KbdInv'
<1> DEFINE b == Head(queue).byte
<1>1. /\ Now' = Decode(Now, b) /\ event' = Emitted(Now, b) /\ meant' = Head(queue).means
      /\ recv' \in {"NORMAL", "BEGIN_E0", "BEGIN_E1"} /\ caps' \in BOOLEAN
  BY HandlerDecodes DEF KbdInv
<1>2. queue # <<>> /\ queue' = Tail(queue) /\ UNCHANGED <<keys, held, odd>>
  BY DEF Handler
<1>3. queue \in Seq(Queued) /\ Reads(Now, queue, Settled)
  BY DEF KbdInv, KbdTypeOK
<1>4. Sound(Now, Head(queue)) /\ Reads(Decode(Now, b), Tail(queue), Settled)
  BY <1>2, <1>3, ReadsHead
<1>5. AsMeant(event', meant')
  BY <1>1, <1>4 DEF Sound
<1>6. KbdTypeOK'
  BY <1>1, <1>2, <1>3 DEF KbdInv, KbdTypeOK, Queued, ByteNames
<1>7. Reads(Now, queue, Settled)'
  BY <1>1, <1>2, <1>4 DEF Reads, Path, Sound, AsMeant, Settled
<1> QED  BY <1>5, <1>6, <1>7 DEF KbdInv, AsMeant

(* kbd_init, and every step of the keyboard and its driver.                 *)
LEMMA KbdInitInv == ASSUME NEW board, board \cap NoKey = {}, KbdInit(board) PROVE KbdInv
<1>1. KbdTypeOK
  <2>1. queue \in Seq(Queued)
    BY DEF KbdInit
  <2>2. caps \in BOOLEAN /\ odd \in BOOLEAN
    BY DEF KbdInit
  <2> QED  BY <2>1, <2>2 DEF KbdInit, KbdTypeOK
<1>2. Now = Settled
  BY DEF KbdInit, Now, Settled
<1> QED  BY <1>1, <1>2, ReadsNone, MeantIsMeant DEF KbdInv, KbdInit

(* Fingers and interrupts.                                                  *)
LEMMA KbdNextInv == ASSUME KbdInv, [KbdNext]_kbdVars PROVE KbdInv'
<1>1. CASE UNCHANGED kbdVars
  BY <1>1 DEF kbdVars, KbdInv, KbdTypeOK, Queued, ByteNames, AsMeant, Now, Settled, Reads, Path, Sound
<1>2. CASE Handler
  BY <1>2, HandlerKbd
<1>3. ASSUME NEW k \in keys, Press(k)
      PROVE  KbdInv'
  BY <1>3, KeySent DEF Press
<1>4. ASSUME NEW k \in keys, Release(k)
      PROVE  KbdInv'
  BY <1>4, KeySent DEF Release
<1> QED  BY <1>1, <1>2, <1>3, <1>4 DEF KbdNext

(* The invariant contains what is claimed.                                  *)
LEMMA KbdHolds == ASSUME KbdInv PROVE KeysAsPressed
<1>1. ASSUME queue = <<>> PROVE recv = "NORMAL" /\ pressed = held \cap Modifiers /\ caps = odd
  <2>1. Now = Settled
    BY <1>1, ReadsNone DEF KbdInv
  <2>2. Now.recv = recv /\ Now.pressed = pressed /\ Now.caps = caps
    BY DEF Now, St
  <2>3. Settled.recv = "NORMAL" /\ Settled.pressed = held \cap Modifiers /\ Settled.caps = odd
    BY DEF Settled, St
  <2>4. recv = "NORMAL" /\ pressed = held \cap Modifiers
    BY <2>1, <2>2, <2>3
  <2>5. caps = odd
    BY <2>1, <2>2, <2>3, Zenon
  <2> QED  BY <2>4, <2>5
<1> QED  BY <1>1 DEF KbdInv, AsMeant, KeysAsPressed

-----------------------------------------------------------------------------
(* The hardware cursor.  A writer that is past its look at the shown        *)
(* console and was not overtaken since holds the position of that console;  *)
(* while one has still to set the cursor, or has yet to look, nothing is    *)
(* said of it.                                                              *)
Busy(i) == \E w \in Writer : At[w] = i /\ pc[w] \in {"feed", "written", "compute", "column", "output"}
Positions ==
  \A w \in Writer :
    /\ pc[w] # "idle" => At[w] \in opened
    /\ pc[w] \in {"compute", "column", "output"} /\ w \notin late => At[w] = shown
    /\ pc[w] = "column" /\ w \notin late => pos[w] = RowAddress(At[w])
    /\ pc[w] = "output" /\ w \notin late => pos[w] = CursorAddress(At[w])
Cursor == ~ blurred /\ ~ Busy(shown) => hw = CursorAddress(shown)
CurTypeOK ==
  /\ DOMAIN con = Con /\ shown \in Con
  /\ DOMAIN pc = Writer /\ DOMAIN pos = Writer
CurInv == CurTypeOK /\ Positions /\ Cursor

(* A step of writer w that leaves the consoles alone: it takes w to place.  *)
LEMMA WriterMoves ==
  ASSUME CurInv, NEW w \in Writer, NEW place, pc' = [pc EXCEPT ![w] = place]
  PROVE  /\ DOMAIN pc' = Writer /\ pc'[w] = place
         /\ \A v \in Writer \ {w} : pc'[v] = pc[v]
BY DEF CurInv, CurTypeOK

(* A character of w is taken into account (console_write): w is past it and *)
(* has yet to look, the others that hold a position of the console are      *)
(* overtaken.                                                               *)
LEMMA EmitCursor ==
  ASSUME CurInv, NEW w \in Writer, NEW ch, Emit(w, ch), NEW place \in {"feed", "written"},
         Goto(w, place), pc[w] \in {"char", "feed"}, UNCHANGED <<opened, shown, hw, pos, blurred>>
  PROVE  CurInv'
<1>1. /\ DOMAIN pc' = Writer /\ pc'[w] = place
      /\ \A v \in Writer \ {w} : pc'[v] = pc[v]
  BY WriterMoves DEF Goto
<1>2. /\ DOMAIN con' = Con /\ \A i \in Con \ {At[w]} : con'[i] = con[i]
      /\ late' = late \cup {v \in Writer \ {w} : At[v] = At[w] /\ pc[v] \in {"column", "output"}}
  BY DEF Emit, Store, CurInv, CurTypeOK
<1>3. \A v \in Writer : At[v] \in Con
  BY ConsoleAssumption DEF Con
<1>4. CurTypeOK'
  BY <1>1, <1>2 DEF CurInv, CurTypeOK
<1>5. \A i \in Con \ {At[w]} :
        RowAddress(i)' = RowAddress(i) /\ CursorAddress(i)' = CursorAddress(i)
  BY <1>2 DEF CursorAddress, RowAddress
<1>6. Positions'
  <2> SUFFICES ASSUME NEW v \in Writer
               PROVE  /\ pc'[v] # "idle" => At[v] \in opened
                      /\ pc'[v] \in {"compute", "column", "output"} /\ v \notin late' => At[v] = shown
                      /\ pc'[v] = "column" /\ v \notin late' => pos[v] = RowAddress(At[v])'
                      /\ pc'[v] = "output" /\ v \notin late' => pos[v] = CursorAddress(At[v])'
    BY DEF Positions
  <2>1. CASE v = w
    BY <1>1, <2>1 DEF CurInv, Positions
  <2>2. CASE v # w
    BY <1>1, <1>2, <1>3, <1>5, <2>2 DEF CurInv, Positions
  <2> QED  BY <2>1, <2>2
<1>7. Cursor'
  <2>1. CASE At[w] = shown
    BY <1>1, <2>1 DEF Cursor, Busy
  <2>2. CASE At[w] # shown
    <3>1. Busy(shown)' <=> Busy(shown)
      BY <1>1, <2>2 DEF Busy
    <3>2. CursorAddress(shown)' = CursorAddress(shown)
      BY <1>2, <2>2 DEF CursorAddress, RowAddress, CurInv, CurTypeOK
    <3> QED  BY <3>1, <3>2 DEF CurInv, Cursor
  <2> QED  BY <2>1, <2>2
<1> QED  BY <1>4, <1>6, <1>7 DEF CurInv

(* The steps of tty_write and of update_cursor_pos.                         *)
LEMMA WriterCursor == ASSUME CurInv, NEW w \in Writer, WriterStep(w) PROVE CurInv'
<1>1. CASE WriteCall(w)
  <2>1. /\ DOMAIN pc' = Writer /\ pc'[w] = "char" /\ pc[w] = "idle" /\ At[w] \in opened
        /\ \A v \in Writer \ {w} : pc'[v] = pc[v]
        /\ UNCHANGED <<con, opened, shown, hw, pos, late, blurred>>
    BY <1>1, WriterMoves DEF WriteCall, Goto
  <2>2. Busy(shown)' <=> Busy(shown)
    BY <2>1 DEF Busy
  <2> QED  BY <2>1, <2>2 DEF CurInv, CurTypeOK, Positions, Cursor, CursorAddress, RowAddress
<1>2. CASE WriteReturn(w)
  BY <1>2, EmitCursor DEF WriteReturn
<1>3. CASE WriteChar(w)
  BY <1>3, EmitCursor DEF WriteChar
<1>4. CASE IsShown(w)
  <2>1. /\ DOMAIN pc' = Writer /\ pc[w] = "written"
        /\ IF At[w] = shown THEN pc'[w] = "compute" ELSE pc'[w] \in {"idle", "char"}
        /\ \A v \in Writer \ {w} : pc'[v] = pc[v]
        /\ UNCHANGED <<con, opened, shown, hw, pos, late, blurred>>
    BY <1>4, WriterMoves DEF IsShown, Goto, Onward
  <2>2. Busy(shown)' <=> Busy(shown)
    BY <2>1 DEF Busy
  <2> QED  BY <2>1, <2>2 DEF CurInv, CurTypeOK, Positions, Cursor, CursorAddress, RowAddress
<1>5. CASE ComputeRow(w)
  <2>1. /\ DOMAIN pc' = Writer /\ pc[w] = "compute" /\ pc'[w] = "column"
        /\ \A v \in Writer \ {w} : pc'[v] = pc[v] /\ pos'[v] = pos[v]
        /\ DOMAIN pos' = Writer /\ pos'[w] = RowAddress(At[w])
        /\ UNCHANGED <<con, opened, shown, hw, late, blurred>>
    BY <1>5, WriterMoves DEF ComputeRow, Goto, CurInv, CurTypeOK
  <2>2. Busy(shown)' <=> Busy(shown)
    BY <2>1 DEF Busy
  <2> QED  BY <2>1, <2>2 DEF CurInv, CurTypeOK, Positions, Cursor, CursorAddress, RowAddress
<1>7. CASE ComputeCol(w)
  <2>1. /\ DOMAIN pc' = Writer /\ pc[w] = "column" /\ pc'[w] = "output"
        /\ \A v \in Writer \ {w} : pc'[v] = pc[v] /\ pos'[v] = pos[v]
        /\ DOMAIN pos' = Writer /\ pos'[w] = pos[w] + con[At[w]].col
        /\ UNCHANGED <<con, opened, shown, hw, late, blurred>>
    BY <1>7, WriterMoves DEF ComputeCol, Goto, CurInv, CurTypeOK
  <2>2. Busy(shown)' <=> Busy(shown)
    BY <2>1 DEF Busy
  <2> QED  BY <2>1, <2>2 DEF CurInv, CurTypeOK, Positions, Cursor, CursorAddress, RowAddress
<1>6. CASE OutputPos(w)
  <2>1. /\ DOMAIN pc' = Writer /\ pc[w] = "output" /\ pc'[w] \in {"idle", "char"}
        /\ \A v \in Writer \ {w} : pc'[v] = pc[v] /\ pos'[v] = pos[v]
        /\ DOMAIN pos' = Writer /\ hw' = pos[w] /\ late' = late \ {w} /\ blurred' = (w \in late)
        /\ UNCHANGED <<con, opened, shown>>
    BY <1>6, WriterMoves DEF OutputPos, Goto, Onward, CurInv, CurTypeOK
  <2>2. Cursor'
    BY <2>1 DEF CurInv, Positions, Cursor, CursorAddress, RowAddress
  <2> QED  BY <2>1, <2>2 DEF CurInv, CurTypeOK, Positions, CursorAddress, RowAddress
<1> QED  BY <1>1, <1>2, <1>3, <1>4, <1>5, <1>6, <1>7 DEF WriterStep

(* tty_select, tty_open and the last close of a terminal.                   *)
LEMMA SelectCursor == ASSUME CurInv, NEW i \in Con, ConsoleSelect(i) PROVE CurInv'
<1>1. /\ DOMAIN con' = Con /\ shown' = i /\ hw' = CursorAddress(i)'
      /\ late' = late \cup {w \in Writer : pc[w] \in {"compute", "column", "output"}}
      /\ UNCHANGED <<opened, pc, pos>>
  BY DEF ConsoleSelect, Reset, CurInv, CurTypeOK
<1>2. Cursor'
  BY <1>1 DEF Cursor, CursorAddress, RowAddress
<1> QED  BY <1>1, <1>2 DEF CurInv, CurTypeOK, Positions

(* tty_open starts the console anew: no writer of it is under way.          *)
LEMMA OpenCursor == ASSUME CurInv, NEW i \in Con, TtyOpen(i) PROVE CurInv'
<1>1. /\ DOMAIN con' = Con /\ (\A j \in Con \ {i} : con'[j] = con[j])
      /\ i \notin opened /\ opened' = opened \cup {i} /\ blurred' = (blurred \/ i = shown)
      /\ UNCHANGED <<shown, hw, pc, pos, late>>
  BY DEF TtyOpen, Reset, CurInv, CurTypeOK
<1>2. \A w \in Writer : At[w] \in Con
  BY ConsoleAssumption DEF Con
<1>3. \A j \in Con \ {i} :
        RowAddress(j)' = RowAddress(j) /\ CursorAddress(j)' = CursorAddress(j)
  BY <1>1 DEF CursorAddress, RowAddress
<1>4. Positions'
  <2> SUFFICES ASSUME NEW v \in Writer
               PROVE  /\ pc[v] # "idle" => At[v] \in opened'
                      /\ pc[v] \in {"compute", "column", "output"} /\ v \notin late => At[v] = shown
                      /\ pc[v] = "column" /\ v \notin late => pos[v] = RowAddress(At[v])'
                      /\ pc[v] = "output" /\ v \notin late => pos[v] = CursorAddress(At[v])'
    BY <1>1 DEF Positions
  <2> QED  BY <1>1, <1>2, <1>3 DEF CurInv, Positions
<1>5. Cursor'
  <2>1. CASE i = shown
    BY <1>1, <2>1 DEF Cursor
  <2>2. CASE i # shown
    BY <1>1, <1>3, <2>2 DEF CurInv, CurTypeOK, Cursor, Busy, CursorAddress, RowAddress
  <2> QED  BY <2>1, <2>2
<1> QED  BY <1>1, <1>4, <1>5 DEF CurInv, CurTypeOK

(* The last close waits for the writers.                                    *)
LEMMA CloseCursor == ASSUME CurInv, NEW i \in Con, TtyClose(i) PROVE CurInv'
<1>1. /\ \A w \in Writer : At[w] = i => pc[w] = "idle"
      /\ opened' = opened \ {i}
      /\ UNCHANGED <<con, shown, hw, pc, pos, late, blurred>>
  BY DEF TtyClose
<1> QED  BY <1>1 DEF CurInv, CurTypeOK, Positions, Cursor, Busy, CursorAddress, RowAddress

(* Console 0 has read its cursor from the hardware.                         *)
LEMMA CursorInit == ConInit => CurInv
<1> SUFFICES ASSUME ConInit
             PROVE  CurInv
  OBVIOUS
<1>1. 0 \in Con /\ Size \in Int /\ Cols \in Int
  BY ConsoleAssumption DEF Con, Size
<1>2. hw = con[0].row * Cols + con[0].col /\ con[0].row \in Int /\ con[0].col \in Int
  <2>1. PICK row \in 0 .. Rows - 1, col \in 0 .. Cols - 1 :
          /\ con[0] = [Fresh EXCEPT !.row = row, !.col = col, !.oldRow = row, !.oldCol = col]
          /\ hw = row * Cols + col
    BY <1>1 DEF ConInit
  <2>2. con[0].row = row /\ con[0].col = col
    BY <2>1 DEF Fresh
  <2> QED  BY <2>1, <2>2
<1>3. CursorAddress(0) = hw
  <2>1. 0 * Size = 0 /\ con[0].row * Cols \in Int
    BY <1>1, <1>2
  <2> QED  BY <1>2, <2>1 DEF CursorAddress, RowAddress
<1>4. CurTypeOK
  BY <1>1 DEF ConInit, CurTypeOK
<1>5. Positions
  BY DEF ConInit, Positions
<1>6. Cursor
  BY <1>3 DEF ConInit, Cursor
<1> QED  BY <1>4, <1>5, <1>6 DEF CurInv

(* Every step of keyboard, writers and opens.                               *)
LEMMA CursorNext == CurInv /\ [ScreenNext]_vars => CurInv'
<1> SUFFICES ASSUME CurInv, [ScreenNext]_vars
             PROVE  CurInv'
  OBVIOUS
<1>1. CASE UNCHANGED conVars
  BY <1>1 DEF conVars, CurInv, CurTypeOK, Positions, Cursor, Busy, CursorAddress, RowAddress
<1>2. \/ UNCHANGED conVars
      \/ \E w \in Writer : WriterStep(w)
      \/ \E i \in Con : ConsoleSelect(i) \/ TtyOpen(i) \/ TtyClose(i)
  BY DEF vars, ScreenNext, Interrupt, Quiet, Selection, Fingers, Writers, Opens
<1> QED  BY <1>1, <1>2, WriterCursor, SelectCursor, OpenCursor, CloseCursor

-----------------------------------------------------------------------------
(* The cursor and the display of a console.  A screen s is sound when its   *)
(* cursors are on it and its parameters in their array; r is s moved when   *)
(* nothing but the cursor, the colours and the own cells have changed.      *)
Own(i) == i * Size .. (i + 1) * Size - 1
ScreenFields == DOMAIN Fresh \cup {"number", "mem"}
Modes == {"NORMAL", "ESC", "SQUARE"}
Typed(s) == DOMAIN s = ScreenFields /\ s.number \in Con
CursorsOn(s) == OnScreen(s.row, s.col) /\ OnScreen(s.oldRow, s.oldCol)
Parameters(s) == s.idx \in 0 .. ParamMax - 1 /\ s.param \in [0 .. ParamMax - 1 -> Nat] /\ s.mode \in Modes
SoundScreen(s) == Typed(s) /\ CursorsOn(s) /\ Parameters(s)
Outside(s, r) ==
  DOMAIN r.mem = DOMAIN s.mem /\ \A a \in DOMAIN s.mem \ Own(s.number) : r.mem[a] = s.mem[a]
Moved(s, r) ==
  /\ Typed(r) /\ r.number = s.number /\ r.oldRow = s.oldRow /\ r.oldCol = s.oldCol
  /\ r.idx = s.idx /\ r.param = s.param /\ r.mode = s.mode
  /\ Outside(s, r)

(* The parser of screen s has read what q has read.                         *)
Agrees(s, q) == s.mode = q.mode /\ (s.mode = "SQUARE" => s.idx = q.idx /\ s.param = q.param)
Zeros == [k \in 0 .. ParamMax - 1 |-> 0]
IsParser(q) == q = [mode |-> q.mode, idx |-> q.idx, param |-> q.param]

(* The sizes of the screen are numbers.                                     *)
LEMMA ScreenSizes ==
  /\ Rows \in Nat /\ Rows >= 1 /\ Cols \in Nat /\ Cols >= 1 /\ Size \in Nat
  /\ NConsole \in Nat /\ ParamMax \in Nat /\ ParamMax >= 2 /\ Big \in Nat /\ Con \subseteq Nat
  /\ \A i \in Con : i * Size \in Nat /\ (i + 1) * Size = i * Size + Size
<1>1. Rows \in Nat /\ Rows >= 1 /\ Cols \in Nat /\ Cols >= 1
      /\ NConsole \in Nat /\ ParamMax \in Nat /\ ParamMax >= 2 /\ Big \in Nat /\ Con \subseteq Nat
  BY ConsoleAssumption DEF Con
<1>2. Size \in Nat
  BY <1>1 DEF Size
<1>3. \A i \in Con : i * Size \in Nat /\ (i + 1) * Size = i * Size + Size
  BY <1>1, <1>2
<1> QED  BY <1>1, <1>2, <1>3

(* The displays of two consoles have no cell in common.                     *)
LEMMA DisplaysApart ==
  ASSUME NEW i \in Con, NEW j \in Con, i # j
  PROVE  Own(i) \cap Own(j) = {}
<1>1. ASSUME NEW a \in Con, NEW b \in Con, a < b
      PROVE  (a + 1) * Size <= b * Size
  <2>1. a \in Nat /\ b \in Nat /\ Size \in Nat /\ a + 1 <= b
    BY <1>1, ScreenSizes
  <2> QED  BY <2>1
<1>2. i \in Nat /\ j \in Nat /\ i * Size \in Nat /\ j * Size \in Nat
      /\ (i + 1) * Size \in Int /\ (j + 1) * Size \in Int
  BY ScreenSizes
<1>3. CASE i < j
  BY <1>1, <1>2, <1>3 DEF Own
<1>4. CASE j < i
  BY <1>1, <1>2, <1>4 DEF Own
<1> QED  BY <1>2, <1>3, <1>4

(* Whole rows of the screen, from row f on up to before row g, are own      *)
(* cells.                                                                   *)
LEMMA RowsOwn ==
  ASSUME NEW s, Typed(s), NEW f \in 0 .. Rows, NEW g \in 0 .. Rows
  PROVE  Address(s, f, 0) .. Address(s, g, 0) - 1 \subseteq Own(s.number)
<1>1. s.number \in Con /\ f \in Nat /\ g \in Nat /\ f <= Rows /\ g <= Rows
  BY ScreenSizes DEF Typed
<1>2. f * Cols \in Nat /\ g * Cols \in Nat /\ g * Cols <= Size /\ 0 <= f * Cols
  BY <1>1, ScreenSizes DEF Size
<1>3. s.number * Size \in Nat /\ (s.number + 1) * Size = s.number * Size + Size /\ Size \in Nat
  BY <1>1, ScreenSizes
<1>4. Address(s, f, 0) = s.number * Size + f * Cols /\ Address(s, g, 0) = s.number * Size + g * Cols
  BY <1>2, <1>3 DEF Address
<1> QED  BY <1>2, <1>3, <1>4 DEF Own

(* erase_rows                                                               *)
LEMMA EraseMoved ==
  ASSUME NEW s, Typed(s), NEW f \in 0 .. Rows - 1, NEW g \in 0 .. Rows - 1
  PROVE  /\ Moved(s, EraseRows(s, f, g))
         /\ EraseRows(s, f, g).row = s.row /\ EraseRows(s, f, g).col = s.col
<1> DEFINE from == Address(s, f, 0)
           to == Address(s, g + 1, 0)
<1>1. from .. to - 1 \subseteq Own(s.number)
  <2>1. f \in 0 .. Rows /\ g + 1 \in 0 .. Rows
    BY ScreenSizes
  <2> QED  BY <2>1, RowsOwn
<1>2. EraseRows(s, f, g) = [s EXCEPT !.mem = Filled(s, from, to)]
  BY DEF EraseRows
<1> HIDE DEF from, to
<1>3. DOMAIN Filled(s, from, to) = DOMAIN s.mem
      /\ \A a \in DOMAIN s.mem \ Own(s.number) : Filled(s, from, to)[a] = s.mem[a]
  BY <1>1 DEF Filled, Typed
<1> QED  BY <1>2, <1>3 DEF Moved, Outside, Typed, ScreenFields, Fresh

(* scroll_up, with the cursor in the row behind the last.                   *)
LEMMA ScrollMoved ==
  ASSUME NEW s, Typed(s)
  PROVE  /\ Moved(s, ScrollUp(s))
         /\ ScrollUp(s).row = s.row - 1 /\ ScrollUp(s).col = s.col
<1> DEFINE base == Address(s, 0, 0)
           up == [a \in DOMAIN s.mem |->
                    IF a \in base .. base + Size - Cols - 1 THEN s.mem[a + Cols] ELSE s.mem[a]]
           r == [s EXCEPT !.mem = up, !.row = @ - 1]
<1>1. base .. base + Size - Cols - 1 \subseteq Own(s.number)
  <2>1. s.number \in Con
    BY DEF Typed
  <2>2. s.number * Size \in Nat /\ (s.number + 1) * Size = s.number * Size + Size
        /\ Size \in Nat /\ Cols \in Nat
    BY <2>1, ScreenSizes
  <2>3. 0 * Cols = 0
    BY <2>2
  <2>4. base = s.number * Size
    BY <2>2, <2>3 DEF Address
  <2> HIDE DEF base
  <2> QED  BY <2>2, <2>4 DEF Own
<1>2. ScrollUp(s) = EraseRows(r, Rows - 1, Rows - 1)
  BY DEF ScrollUp
<1> HIDE DEF base
<1>3. DOMAIN up = DOMAIN s.mem /\ \A a \in DOMAIN s.mem \ Own(s.number) : up[a] = s.mem[a]
  BY <1>1 DEF Typed
<1> HIDE DEF up
<1>4. Moved(s, r) /\ r.row = s.row - 1 /\ r.col = s.col
  BY <1>3 DEF Moved, Outside, Typed, ScreenFields, Fresh
<1>5. Typed(r) /\ Rows - 1 \in 0 .. Rows - 1
  BY <1>4, ScreenSizes DEF Moved, Outside
<1> HIDE DEF r
<1>6. Moved(r, ScrollUp(s)) /\ ScrollUp(s).row = r.row /\ ScrollUp(s).col = r.col
  BY <1>2, <1>5, EraseMoved
<1> QED  BY <1>4, <1>6 DEF Moved, Outside

(* move_next_line                                                           *)
LEMMA NextLineMoved ==
  ASSUME NEW s, Typed(s), OnScreen(s.row, s.col)
  PROVE  Moved(s, MoveNextLine(s)) /\ OnScreen(MoveNextLine(s).row, MoveNextLine(s).col)
<1> DEFINE r == [s EXCEPT !.row = @ + 1]
<1>1. Moved(s, r) /\ r.row = s.row + 1 /\ r.col = s.col
  BY DEF Moved, Outside, Typed, ScreenFields, Fresh
<1>2. s.row \in 0 .. Rows - 1 /\ s.col \in 0 .. Cols - 1 /\ Rows \in Nat
  BY ScreenSizes DEF OnScreen
<1>3. MoveNextLine(s) = IF s.row + 1 >= Rows THEN ScrollUp(r) ELSE r
  BY DEF MoveNextLine
<1>4. Typed(r)
  BY <1>1 DEF Moved, Outside
<1> HIDE DEF r
<1>5. CASE s.row + 1 >= Rows
  <2>1. Moved(r, ScrollUp(r)) /\ ScrollUp(r).row = r.row - 1 /\ ScrollUp(r).col = r.col
    BY <1>4, ScrollMoved
  <2>2. ScrollUp(r).row = s.row /\ ScrollUp(r).col = s.col
    BY <1>1, <1>2, <2>1
  <2> QED  BY <1>1, <1>2, <1>3, <1>5, <2>1, <2>2 DEF Moved, Outside, OnScreen
<1>6. CASE ~ (s.row + 1 >= Rows)
  BY <1>1, <1>2, <1>3, <1>6 DEF OnScreen
<1> QED  BY <1>5, <1>6

(* move_forward                                                             *)
LEMMA ForwardMoved ==
  ASSUME NEW s, Typed(s), OnScreen(s.row, s.col)
  PROVE  Moved(s, MoveForward(s)) /\ OnScreen(MoveForward(s).row, MoveForward(s).col)
<1>1. s.row \in 0 .. Rows - 1 /\ s.col \in 0 .. Cols - 1 /\ Cols \in Nat /\ Cols >= 1
  BY ScreenSizes DEF OnScreen
<1>2. CASE s.col + 1 >= Cols
  <2> DEFINE r == [s EXCEPT !.col = 0]
  <2>1. Moved(s, r) /\ r.row = s.row /\ r.col = 0
    BY DEF Moved, Outside, Typed, ScreenFields, Fresh
  <2>2. MoveForward(s) = MoveNextLine(r)
    BY <1>2 DEF MoveForward
  <2>3. Typed(r) /\ OnScreen(r.row, r.col)
    BY <1>1, <2>1 DEF Moved, Outside, OnScreen
  <2> HIDE DEF r
  <2>4. Moved(r, MoveNextLine(r)) /\ OnScreen(MoveNextLine(r).row, MoveNextLine(r).col)
    BY <2>3, NextLineMoved
  <2> QED  BY <2>1, <2>2, <2>4 DEF Moved, Outside
<1>3. CASE ~ (s.col + 1 >= Cols)
  <2> DEFINE r == [s EXCEPT !.col = @ + 1]
  <2>1. Moved(s, r) /\ r.row = s.row /\ r.col = s.col + 1
    BY DEF Moved, Outside, Typed, ScreenFields, Fresh
  <2>2. MoveForward(s) = r
    BY <1>3 DEF MoveForward
  <2> HIDE DEF r
  <2> QED  BY <1>1, <1>3, <2>1, <2>2 DEF OnScreen
<1> QED  BY <1>2, <1>3

(* move_backword                                                            *)
LEMMA BackwordMoved ==
  ASSUME NEW s, Typed(s), OnScreen(s.row, s.col)
  PROVE  Moved(s, MoveBackword(s)) /\ OnScreen(MoveBackword(s).row, MoveBackword(s).col)
<1>1. s.row \in 0 .. Rows - 1 /\ s.col \in 0 .. Cols - 1 /\ Rows \in Nat /\ Cols \in Nat /\ Cols >= 1
  BY ScreenSizes DEF OnScreen
<1>2. CASE s.col > 0
  <2> DEFINE r == [s EXCEPT !.col = @ - 1]
  <2>1. Moved(s, r) /\ r.row = s.row /\ r.col = s.col - 1
    BY DEF Moved, Outside, Typed, ScreenFields, Fresh
  <2>2. MoveBackword(s) = r
    BY <1>2 DEF MoveBackword
  <2> HIDE DEF r
  <2> QED  BY <1>1, <1>2, <2>1, <2>2 DEF OnScreen
<1>3. CASE ~ (s.col > 0) /\ s.row > 0
  <2> DEFINE r == [s EXCEPT !.row = @ - 1, !.col = Cols - 1]
  <2>1. Moved(s, r) /\ r.row = s.row - 1 /\ r.col = Cols - 1
    BY DEF Moved, Outside, Typed, ScreenFields, Fresh
  <2>2. MoveBackword(s) = r
    BY <1>3 DEF MoveBackword
  <2> HIDE DEF r
  <2> QED  BY <1>1, <1>3, <2>1, <2>2 DEF OnScreen
<1>4. CASE ~ (s.col > 0) /\ ~ (s.row > 0)
  <2>1. MoveBackword(s) = s
    BY <1>4 DEF MoveBackword
  <2> QED  BY <2>1 DEF Moved, Outside
<1> QED  BY <1>2, <1>3, <1>4

(* show_char                                                                *)
LEMMA ShowMoved ==
  ASSUME NEW s, Typed(s), OnScreen(s.row, s.col), NEW ch
  PROVE  Moved(s, ShowChar(s, ch)) /\ OnScreen(ShowChar(s, ch).row, ShowChar(s, ch).col)
<1> DEFINE at == Address(s, s.row, s.col)
           put == [b \in DOMAIN s.mem |-> IF b = at THEN ch ELSE s.mem[b]]
           r == [s EXCEPT !.mem = put]
<1>1. at \in Own(s.number)
  <2>1. s.number \in Con /\ s.row \in Nat /\ s.col \in Nat /\ s.row <= Rows - 1 /\ s.col <= Cols - 1
    BY ScreenSizes DEF Typed, OnScreen
  <2>2. s.row * Cols \in Nat /\ s.row * Cols <= (Rows - 1) * Cols
    BY <2>1, ScreenSizes
  <2>3. (Rows - 1) * Cols = Size - Cols
    BY ScreenSizes DEF Size
  <2>4. s.number * Size \in Nat /\ (s.number + 1) * Size = s.number * Size + Size
        /\ Size \in Nat /\ Cols \in Nat
    BY <2>1, ScreenSizes
  <2>5. at = s.number * Size + s.row * Cols + s.col
    BY DEF Address
  <2> HIDE DEF at
  <2>6. at \in Int /\ at >= s.number * Size /\ at < s.number * Size + Size
    BY <2>1, <2>2, <2>3, <2>4, <2>5
  <2> QED  BY <2>4, <2>6 DEF Own
<1>2. ShowChar(s, ch) = MoveForward(r)
  BY DEF ShowChar
<1> HIDE DEF at
<1>3. DOMAIN put = DOMAIN s.mem /\ \A a \in DOMAIN s.mem \ Own(s.number) : put[a] = s.mem[a]
  BY <1>1 DEF Typed
<1> HIDE DEF put
<1>4. Moved(s, r) /\ r.row = s.row /\ r.col = s.col
  BY <1>3 DEF Moved, Outside, Typed, ScreenFields, Fresh
<1>5. Typed(r) /\ OnScreen(r.row, r.col)
  BY <1>4 DEF Moved, Outside
<1> HIDE DEF r
<1>6. Moved(r, MoveForward(r)) /\ OnScreen(MoveForward(r).row, MoveForward(r).col)
  BY <1>5, ForwardMoved
<1> QED  BY <1>2, <1>4, <1>6 DEF Moved, Outside

(* erase_backword                                                           *)
LEMMA EraseBackMoved ==
  ASSUME NEW s, Typed(s), OnScreen(s.row, s.col)
  PROVE  Moved(s, EraseBackword(s)) /\ OnScreen(EraseBackword(s).row, EraseBackword(s).col)
<1> DEFINE b == MoveBackword(s)
           c == ShowChar(b, Blank)
<1>1. Moved(s, b) /\ OnScreen(b.row, b.col)
  BY BackwordMoved
<1>2. Typed(b)
  BY <1>1 DEF Moved, Outside
<1> HIDE DEF b
<1>3. Moved(b, c) /\ OnScreen(c.row, c.col)
  BY <1>1, <1>2, ShowMoved
<1>4. Typed(c)
  BY <1>3 DEF Moved, Outside
<1> HIDE DEF c
<1>5. Moved(c, MoveBackword(c)) /\ OnScreen(MoveBackword(c).row, MoveBackword(c).col)
  BY <1>3, <1>4, BackwordMoved
<1>6. EraseBackword(s) = IF b # s THEN MoveBackword(c) ELSE s
  BY DEF EraseBackword, b, c
<1>7. CASE b # s
  BY <1>1, <1>3, <1>5, <1>6, <1>7 DEF Moved, Outside
<1>8. CASE b = s
  BY <1>1, <1>6, <1>8
<1> QED  BY <1>7, <1>8

(* A character outside escape sequences (write_normal).                     *)
LEMMA NormalSound ==
  ASSUME NEW s, SoundScreen(s), s.mode = "NORMAL", NEW ch, NEW r, r = WriteNormal(s, ch)
  PROVE  /\ SoundScreen(r) /\ r.number = s.number
         /\ Outside(s, r)
         /\ r.mode = IF ch = "ESC" THEN "ESC" ELSE "NORMAL"
<1>1. Typed(s) /\ OnScreen(s.row, s.col) /\ CursorsOn(s) /\ Parameters(s)
  BY DEF SoundScreen, CursorsOn
<1>2. ASSUME Moved(s, r), OnScreen(r.row, r.col)
      PROVE  SoundScreen(r) /\ r.number = s.number /\ r.mode = "NORMAL"
             /\ Outside(s, r)
  BY <1>1, <1>2 DEF SoundScreen, Moved, CursorsOn, Parameters
<1>3. CASE ch = "ESC"
  <2>1. r = [s EXCEPT !.mode = "ESC"]
    BY <1>3 DEF WriteNormal
  <2> QED  BY <1>1, <1>3, <2>1 DEF Outside, SoundScreen, Typed, ScreenFields, Fresh, CursorsOn, Parameters, Modes
<1>4. CASE ch # "ESC"
  <2>1. CASE ch = "LF"
    BY <1>1, <1>2, <1>4, <2>1, NextLineMoved DEF WriteNormal
  <2>2. CASE ch = "DEL"
    BY <1>1, <1>2, <1>4, <2>2, EraseBackMoved DEF WriteNormal
  <2>3. CASE ch = "BS"
    BY <1>1, <1>2, <1>4, <2>3, BackwordMoved DEF WriteNormal
  <2>4. CASE ch = "CR"
    <3>1. r = [s EXCEPT !.col = 0]
      BY <2>4 DEF WriteNormal
    <3>2. Moved(s, r) /\ r.row = s.row /\ r.col = 0
      BY <1>1, <3>1 DEF Moved, Outside, Typed, ScreenFields, Fresh
    <3>3. OnScreen(r.row, r.col)
      BY <1>1, <3>2, ScreenSizes DEF OnScreen
    <3> QED  BY <1>2, <1>4, <3>2, <3>3
  <2>5. CASE ch = "BEL"
    <3>1. r = s
      BY <2>5 DEF WriteNormal
    <3> QED  BY <1>4, <3>1 DEF Outside
  <2>6. CASE ch \notin {"LF", "DEL", "BS", "CR", "BEL"}
    <3>1. r = ShowChar(s, ch)
      BY <1>4, <2>6 DEF WriteNormal
    <3> QED  BY <1>1, <1>2, <1>4, <3>1, ShowMoved
  <2> QED  BY <2>1, <2>2, <2>3, <2>4, <2>5, <2>6
<1> QED  BY <1>3, <1>4

(* The character behind ESC (write_esc).                                    *)
LEMMA EscSound ==
  ASSUME NEW s, SoundScreen(s), s.mode = "ESC", NEW ch, NEW r, r = WriteEsc(s, ch)
  PROVE  /\ SoundScreen(r) /\ r.number = s.number /\ r.mem = s.mem
         /\ ch = "[" => r.mode = "SQUARE" /\ r.idx = 0 /\ r.param = Zeros
         /\ ch # "[" => r.mode = "NORMAL"
<1>1. Typed(s) /\ CursorsOn(s) /\ Parameters(s)
  BY DEF SoundScreen
<1>2. CASE ch = "7"
  <2>1. r = [s EXCEPT !.oldRow = s.row, !.oldCol = s.col, !.mode = "NORMAL"]
    BY <1>2 DEF WriteEsc
  <2> QED  BY <1>1, <1>2, <2>1 DEF SoundScreen, Typed, ScreenFields, Fresh, CursorsOn, Parameters, Modes
<1>3. CASE ch = "8"
  <2>1. r = [s EXCEPT !.row = s.oldRow, !.col = s.oldCol, !.mode = "NORMAL"]
    BY <1>3 DEF WriteEsc
  <2> QED  BY <1>1, <1>3, <2>1 DEF SoundScreen, Typed, ScreenFields, Fresh, CursorsOn, Parameters, Modes
<1>4. CASE ch = "["
  <2>1. r = [s EXCEPT !.param = Zeros, !.idx = 0, !.mode = "SQUARE"]
    BY <1>4 DEF WriteEsc, Zeros
  <2>2. Zeros \in [0 .. ParamMax - 1 -> Nat] /\ 0 \in 0 .. ParamMax - 1
    BY ScreenSizes DEF Zeros
  <2>3. SoundScreen(r) /\ r.number = s.number /\ r.mem = s.mem
        /\ r.mode = "SQUARE" /\ r.idx = 0 /\ r.param = Zeros
    BY <1>1, <2>1, <2>2 DEF SoundScreen, Typed, ScreenFields, Fresh, CursorsOn, Parameters, Modes
  <2> QED  BY <1>4, <2>3
<1>5. CASE ch \notin {"7", "8", "["}
  <2>1. r = [s EXCEPT !.mode = "NORMAL"]
    BY <1>5 DEF WriteEsc
  <2> QED  BY <1>1, <1>5, <2>1 DEF SoundScreen, Typed, ScreenFields, Fresh, CursorsOn, Parameters, Modes
<1> QED  BY <1>2, <1>3, <1>4, <1>5

(* The commands of a sequence, with an address on the screen.               *)
LEMMA CommandMoved ==
  ASSUME NEW s, SoundScreen(s), NEW ch, ch \in {"f", "H"} => OnScreen(s.param[0], s.param[1]),
         NEW r, r = Command(s, ch)
  PROVE  Moved(s, r) /\ OnScreen(r.row, r.col)
<1>1. Typed(s) /\ OnScreen(s.row, s.col) /\ Parameters(s)
  BY DEF SoundScreen, CursorsOn
<1>2. s.row \in 0 .. Rows - 1 /\ s.col \in 0 .. Cols - 1 /\ Cols \in Nat /\ Cols >= 1
      /\ Rows \in Nat /\ Rows >= 1
  BY <1>1, ScreenSizes DEF OnScreen
<1> DEFINE n == AtLeastOne(s.param[0])
<1>3. n \in Nat
  <2>1. s.param[0] \in Nat
    BY <1>1, ScreenSizes DEF Parameters
  <2> QED  BY <2>1 DEF AtLeastOne
<1> HIDE DEF n
<1>4. CASE ch = "m"
  <2>1. r = [s EXCEPT !.fg = NewForeground(s), !.bg = NewBackground(s)]
    BY <1>4 DEF Command, SetFontStyle
  <2> QED  BY <1>1, <2>1 DEF Moved, Outside, Typed, ScreenFields, Fresh
<1>5. CASE ch = "D"
  <2>1. r = [s EXCEPT !.col = IF @ >= n THEN @ - n ELSE 0]
    BY <1>5 DEF Command, MoveLeft, n
  <2>2. Moved(s, r) /\ r.row = s.row /\ r.col = IF s.col >= n THEN s.col - n ELSE 0
    BY <1>1, <2>1 DEF Moved, Outside, Typed, ScreenFields, Fresh
  <2> QED  BY <1>2, <1>3, <2>2 DEF OnScreen
<1>6. CASE ch = "C"
  <2>1. r = [s EXCEPT !.col = IF @ + n >= Cols THEN Cols - 1 ELSE @ + n]
    BY <1>6 DEF Command, MoveRight, n
  <2>2. Moved(s, r) /\ r.row = s.row /\ r.col = IF s.col + n >= Cols THEN Cols - 1 ELSE s.col + n
    BY <1>1, <2>1 DEF Moved, Outside, Typed, ScreenFields, Fresh
  <2> QED  BY <1>2, <1>3, <2>2 DEF OnScreen
<1>7. CASE ch \in {"f", "H"}
  <2>1. r = [s EXCEPT !.row = s.param[0], !.col = s.param[1]]
    BY <1>7 DEF Command, MoveCursor
  <2>2. Moved(s, r) /\ r.row = s.param[0] /\ r.col = s.param[1]
    BY <1>1, <2>1 DEF Moved, Outside, Typed, ScreenFields, Fresh
  <2> QED  BY <1>7, <2>2
<1>8. CASE ch = "J"
  <2> DEFINE e == EraseRows(s, 0, Rows - 1)
  <2>1. r = IF s.param[0] = 2 THEN [e EXCEPT !.row = 0, !.col = 0] ELSE s
    BY <1>8 DEF Command, EraseInDisplay
  <2>2. Moved(s, e) /\ Typed(e)
    <3>1. 0 \in 0 .. Rows - 1 /\ Rows - 1 \in 0 .. Rows - 1
      BY <1>2
    <3> QED  BY <1>1, <3>1, EraseMoved DEF Moved, Outside
  <2> HIDE DEF e
  <2>3. CASE s.param[0] = 2
    <3>1. r = [e EXCEPT !.row = 0, !.col = 0]
      BY <2>1, <2>3
    <3>2. Moved(s, r) /\ r.row = 0 /\ r.col = 0
      BY <2>2, <3>1 DEF Moved, Outside, Typed, ScreenFields, Fresh
    <3> QED  BY <1>2, <3>2 DEF OnScreen
  <2>4. CASE s.param[0] # 2
    BY <1>1, <2>1, <2>4 DEF Moved, Outside
  <2> QED  BY <2>3, <2>4
<1>9. CASE ch \notin {"m", "D", "C", "f", "H", "J"}
  <2>1. r = s
    BY <1>9 DEF Command
  <2> QED  BY <1>1, <2>1 DEF Moved, Outside
<1> QED  BY <1>4, <1>5, <1>6, <1>7, <1>8, <1>9

(* The separator is no digit.                                               *)
LEMMA NoDigit == ~ IsDigit(";") /\ ~ IsDigit("CR") /\ ~ IsDigit("LF")
<1>1. \A d \in 1 .. 10 : d = 1 \/ d = 2 \/ d = 3 \/ d = 4 \/ d = 5 \/ d = 6 \/ d = 7 \/ d = 8 \/ d = 9 \/ d = 10
  OBVIOUS
<1>2. /\ Digits[1] # ";" /\ Digits[2] # ";" /\ Digits[3] # ";" /\ Digits[4] # ";" /\ Digits[5] # ";"
      /\ Digits[6] # ";" /\ Digits[7] # ";" /\ Digits[8] # ";" /\ Digits[9] # ";" /\ Digits[10] # ";"
  BY DEF Digits
<1>3. /\ Digits[1] # "CR" /\ Digits[2] # "CR" /\ Digits[3] # "CR" /\ Digits[4] # "CR" /\ Digits[5] # "CR"
      /\ Digits[6] # "CR" /\ Digits[7] # "CR" /\ Digits[8] # "CR" /\ Digits[9] # "CR" /\ Digits[10] # "CR"
  BY DEF Digits
<1>4. /\ Digits[1] # "LF" /\ Digits[2] # "LF" /\ Digits[3] # "LF" /\ Digits[4] # "LF" /\ Digits[5] # "LF"
      /\ Digits[6] # "LF" /\ Digits[7] # "LF" /\ Digits[8] # "LF" /\ Digits[9] # "LF" /\ Digits[10] # "LF"
  BY DEF Digits
<1> QED  BY <1>1, <1>2, <1>3, <1>4 DEF IsDigit

(* A character of a sequence (write_esc_square).                            *)
LEMMA SquareSound ==
  ASSUME NEW s, SoundScreen(s), s.mode = "SQUARE", NEW ch, NEW q, q = [mode |-> "SQUARE", idx |-> s.idx, param |-> s.param],
         Fits(q, ch), NEW r, r = WriteEscSquare(s, ch)
  PROVE  /\ SoundScreen(r) /\ r.number = s.number
         /\ Outside(s, r)
         /\ Agrees(r, Parse(q, ch))
<1>1. Typed(s) /\ CursorsOn(s) /\ Parameters(s)
  BY DEF SoundScreen
<1>2. s.idx \in 0 .. ParamMax - 1 /\ s.param \in [0 .. ParamMax - 1 -> Nat] /\ ParamMax \in Nat /\ Big \in Nat
  BY <1>1, ScreenSizes DEF Parameters
<1>3. CASE IsDigit(ch)
  <2> DEFINE x == Min2(s.param[s.idx] * 10 + Value(ch), Big)
             par == [s.param EXCEPT ![s.idx] = x]
  <2>1. ~ Overruns(s, ch)
    BY <1>2 DEF Overruns
  <2>2. r = [s EXCEPT !.param = par]
    <3>1. ch # ";"
      BY <1>3, NoDigit
    <3>2. r = [s EXCEPT !.param[s.idx] = Min2(@ * 10 + Value(ch), Big)]
      BY <1>3, <2>1, <3>1 DEF WriteEscSquare
    <3> QED  BY <3>2
  <2>3. x \in Nat
    <3>1. \E d \in 1 .. 10 : Digits[d] = ch
      BY <1>3 DEF IsDigit
    <3>2. Value(ch) \in 0 .. 9
      BY <3>1 DEF Value
    <3>3. s.param[s.idx] \in Nat
      BY <1>2
    <3>4. ASSUME NEW y \in Nat, NEW z \in 0 .. 9
          PROVE  Min2(y * 10 + z, Big) \in Nat
      BY <1>2 DEF Min2
    <3> QED  BY <3>2, <3>3, <3>4
  <2>4. Parse(q, ch) = [q EXCEPT !.param = par]
    BY <1>3 DEF Parse
  <2> HIDE DEF x
  <2>5. par \in [0 .. ParamMax - 1 -> Nat]
    BY <1>2, <2>3
  <2> HIDE DEF par
  <2> QED  BY <1>1, <2>2, <2>4, <2>5 DEF Outside, SoundScreen, Typed, ScreenFields, Fresh, CursorsOn, Parameters, Agrees
<1>4. CASE ~ IsDigit(ch) /\ ch = ";"
  <2>1. s.idx + 1 < ParamMax
    BY <1>4 DEF Fits
  <2>2. r = [s EXCEPT !.idx = @ + 1]
    <3>1. s.idx < ParamMax
      BY <1>2
    <3> QED  BY <1>4, <3>1 DEF WriteEscSquare
  <2>3. Parse(q, ch) = [q EXCEPT !.idx = @ + 1]
    BY <1>4 DEF Parse
  <2>4. s.idx + 1 \in 0 .. ParamMax - 1
    BY <1>2, <2>1
  <2> QED  BY <1>1, <2>2, <2>3, <2>4 DEF Outside, SoundScreen, Typed, ScreenFields, Fresh, CursorsOn, Parameters, Agrees
<1>5. CASE ~ IsDigit(ch) /\ ch # ";"
  <2> DEFINE c == Command(s, ch)
  <2>1. r = [c EXCEPT !.mode = "NORMAL"]
    BY <1>5 DEF WriteEscSquare
  <2>2. Moved(s, c) /\ OnScreen(c.row, c.col)
    <3>1. ch \in {"f", "H"} => OnScreen(s.param[0], s.param[1])
      BY DEF Fits
    <3> QED  BY <3>1, CommandMoved
  <2>3. Parse(q, ch) = [q EXCEPT !.mode = "NORMAL"]
    BY <1>5 DEF Parse
  <2> HIDE DEF c
  <2>4. /\ DOMAIN r = ScreenFields /\ r.number = s.number /\ r.oldRow = s.oldRow /\ r.oldCol = s.oldCol
        /\ r.idx = s.idx /\ r.param = s.param /\ r.mode = "NORMAL" /\ r.mem = c.mem
        /\ r.row = c.row /\ r.col = c.col
    BY <2>1, <2>2 DEF Moved, Outside, Typed, ScreenFields, Fresh
  <2>5. Outside(s, r)
    BY <2>2, <2>4 DEF Moved, Outside, Typed
  <2>6. SoundScreen(r)
    BY <1>1, <2>2, <2>4, <2>5 DEF SoundScreen, Typed, CursorsOn, Parameters, Modes
  <2>7. Parse(q, ch).mode = "NORMAL"
    BY <2>3
  <2> QED  BY <2>4, <2>5, <2>6, <2>7 DEF Agrees
<1> QED  BY <1>3, <1>4, <1>5

(* The loop of console_write on one character of a text that only addresses *)
(* the screen.                                                              *)
LEMMA WrittenSound ==
  ASSUME NEW s, SoundScreen(s), NEW q, IsParser(q), Agrees(s, q), NEW ch, Fits(q, ch), NEW r, r = Written(s, ch)
  PROVE  /\ SoundScreen(r) /\ r.number = s.number
         /\ Outside(s, r)
         /\ Agrees(r, Parse(q, ch))
<1>1. s.mode \in Modes /\ s.mode = q.mode
  BY DEF SoundScreen, Parameters, Agrees
<1>2. CASE s.mode = "NORMAL"
  <2>1. r = WriteNormal(s, ch)
    BY <1>2 DEF Written
  <2>2. Parse(q, ch) = [q EXCEPT !.mode = IF ch = "ESC" THEN "ESC" ELSE @]
    BY <1>1, <1>2 DEF Parse
  <2>3. Parse(q, ch).mode = IF ch = "ESC" THEN "ESC" ELSE "NORMAL"
    BY <1>1, <1>2, <2>2 DEF IsParser
  <2>4. SoundScreen(r) /\ r.number = s.number /\ Outside(s, r)
        /\ r.mode = IF ch = "ESC" THEN "ESC" ELSE "NORMAL"
    BY <1>2, <2>1, NormalSound
  <2> QED  BY <2>3, <2>4 DEF Agrees
<1>3. CASE s.mode = "ESC"
  <2>1. r = WriteEsc(s, ch)
    BY <1>3 DEF Written
  <2>2. SoundScreen(r) /\ r.number = s.number /\ r.mem = s.mem
        /\ (ch = "[" => r.mode = "SQUARE" /\ r.idx = 0 /\ r.param = Zeros)
        /\ (ch # "[" => r.mode = "NORMAL")
    BY <1>3, <2>1, EscSound
  <2>3. CASE ch = "["
    <3>1. Parse(q, ch) = [mode |-> "SQUARE", idx |-> 0, param |-> Zeros]
      BY <1>1, <1>3, <2>3 DEF Parse, Zeros
    <3> QED  BY <2>2, <2>3, <3>1 DEF Outside, Agrees
  <2>4. CASE ch # "["
    <3>1. Parse(q, ch) = [q EXCEPT !.mode = "NORMAL"]
      BY <1>1, <1>3, <2>4 DEF Parse
    <3>2. Parse(q, ch).mode = "NORMAL"
      BY <3>1 DEF IsParser
    <3> QED  BY <2>2, <2>4, <3>2 DEF Outside, Agrees
  <2> QED  BY <2>3, <2>4
<1>4. CASE s.mode = "SQUARE"
  <2>1. r = WriteEscSquare(s, ch)
    BY <1>4 DEF Written
  <2>2. q = [mode |-> "SQUARE", idx |-> s.idx, param |-> s.param]
    BY <1>4 DEF Agrees, IsParser
  <2> QED  BY <1>4, <2>1, <2>2, SquareSound
<1> QED  BY <1>1, <1>2, <1>3, <1>4 DEF Modes

(* Reading goes on as a parser does.                                        *)
LEMMA ParseParser ==
  ASSUME NEW q, IsParser(q), q.mode \in Modes, NEW ch
  PROVE  IsParser(Parse(q, ch)) /\ Parse(q, ch).mode \in Modes
BY DEF Parse, IsParser, Modes

-----------------------------------------------------------------------------
(* What remains of a text, read from parser q, fits and completes it.       *)
Completes(q, text) ==
  \E seen :
    /\ seen[0] = q /\ seen[Len(text)].mode = "NORMAL"
    /\ \A k \in 1 .. Len(text) : Fits(seen[k - 1], text[k]) /\ seen[k] = Parse(seen[k - 1], text[k])

(* Nothing remains only when the parser is outside sequences.               *)
LEMMA CompletesNone == ASSUME NEW q, Completes(q, <<>>) PROVE q.mode = "NORMAL"
BY DEF Completes

(* The first character is read.                                             *)
LEMMA CompletesHead ==
  ASSUME NEW q, NEW text \in Seq(STRING), text # <<>>, Completes(q, text)
  PROVE  /\ Fits(q, Head(text)) /\ Completes(Parse(q, Head(text)), Tail(text))
         /\ Tail(text) \in Seq(STRING)
<1>1. PICK seen :
         /\ seen[0] = q /\ seen[Len(text)].mode = "NORMAL"
         /\ \A k \in 1 .. Len(text) : Fits(seen[k - 1], text[k]) /\ seen[k] = Parse(seen[k - 1], text[k])
  BY DEF Completes
<1>2. /\ Len(text) \in Nat /\ Len(text) >= 1 /\ Head(text) = text[1]
      /\ Tail(text) \in Seq(STRING) /\ Len(Tail(text)) = Len(text) - 1
      /\ \A k \in 1 .. Len(text) - 1 : Tail(text)[k] = text[k + 1]
  OBVIOUS
<1>3. Fits(seen[0], text[1]) /\ seen[1] = Parse(seen[0], text[1])
  <2>1. 1 \in 1 .. Len(text) /\ 1 - 1 = 0
    BY <1>2
  <2> QED  BY <1>1, <2>1
<1> DEFINE rest == [k \in 0 .. Len(text) - 1 |-> seen[k + 1]]
<1>4. rest[0] = seen[1] /\ rest[Len(Tail(text))] = seen[Len(text)]
  BY <1>2
<1>5. ASSUME NEW k \in 1 .. Len(Tail(text))
      PROVE  Fits(rest[k - 1], Tail(text)[k]) /\ rest[k] = Parse(rest[k - 1], Tail(text)[k])
  <2>1. k + 1 \in 1 .. Len(text) /\ (k + 1) - 1 = k /\ k \in 1 .. Len(text) - 1
        /\ k \in 0 .. Len(text) - 1 /\ k - 1 \in 0 .. Len(text) - 1 /\ (k - 1) + 1 = k
    BY <1>2
  <2>2. rest[k - 1] = seen[k] /\ rest[k] = seen[k + 1] /\ Tail(text)[k] = text[k + 1]
    BY <1>2, <2>1
  <2>3. Fits(seen[k], text[k + 1]) /\ seen[k + 1] = Parse(seen[k], text[k + 1])
    BY <1>1, <2>1
  <2> QED  BY <2>2, <2>3
<1> HIDE DEF rest
<1>6. Completes(seen[1], Tail(text))
  BY <1>1, <1>4, <1>5 DEF Completes
<1> QED  BY <1>1, <1>2, <1>3, <1>6

(* The carriage return that tty_write puts before a line feed ends what the *)
(* line feed would have ended.                                              *)
LEMMA CompletesReturn ==
  ASSUME NEW q, IsParser(q), q.mode \in Modes, NEW text \in Seq(STRING), text # <<>>,
         Head(text) = "LF", Completes(q, text)
  PROVE  /\ Fits(q, "CR") /\ Parse(q, "CR").mode = "NORMAL"
         /\ \E p : IsParser(p) /\ p.mode = "NORMAL" /\ Completes(p, text)
<1>1. PICK seen :
         /\ seen[0] = q /\ seen[Len(text)].mode = "NORMAL"
         /\ \A k \in 1 .. Len(text) : Fits(seen[k - 1], text[k]) /\ seen[k] = Parse(seen[k - 1], text[k])
  BY DEF Completes
<1>2. ~ IsDigit("CR") /\ ~ IsDigit("LF")
  BY NoDigit
<1>3. Parse(q, "CR").mode = "NORMAL" /\ Parse(q, "LF").mode = "NORMAL" /\ Fits(q, "CR")
  BY <1>2 DEF Parse, IsParser, Modes, Fits
<1> DEFINE p == Parse(q, "LF")
<1>4. IsParser(p) /\ p.mode = "NORMAL"
  BY <1>3, ParseParser
<1>5. Len(text) \in Nat /\ Len(text) >= 1 /\ text[1] = "LF"
  OBVIOUS
<1>6. seen[1] = p
  <2>1. 1 \in 1 .. Len(text) /\ 1 - 1 = 0
    BY <1>5
  <2> QED  BY <1>1, <1>5, <2>1
<1> HIDE DEF p
<1> DEFINE again == [k \in 0 .. Len(text) |-> IF k = 0 THEN p ELSE seen[k]]
<1>7. again[0] = p /\ again[Len(text)] = seen[Len(text)]
  BY <1>5
<1>8. ASSUME NEW k \in 1 .. Len(text)
      PROVE  Fits(again[k - 1], text[k]) /\ again[k] = Parse(again[k - 1], text[k])
  <2>1. CASE k = 1
    <3>1. again[k - 1] = p /\ again[k] = p /\ text[k] = "LF"
      BY <1>5, <1>6, <1>7, <2>1
    <3>2. Fits(p, "LF") /\ Parse(p, "LF") = p
      BY <1>4 DEF Fits, Parse, IsParser
    <3> QED  BY <3>1, <3>2
  <2>2. CASE k # 1
    <3>1. again[k - 1] = seen[k - 1] /\ again[k] = seen[k]
      BY <1>5, <2>2
    <3> QED  BY <1>1, <3>1
  <2> QED  BY <2>1, <2>2
<1> HIDE DEF again
<1>9. Completes(p, text)
  BY <1>1, <1>7, <1>8 DEF Completes
<1> QED  BY <1>3, <1>4, <1>9

-----------------------------------------------------------------------------
(* The invariant behind the two results.  A console is inside a sequence    *)
(* only for the writer whose sequence it is, the parser of every writer     *)
(* stands where the rest of its text can be read on, and the cursors are on *)
(* the screen, on every console no sequences were mixed on.                 *)
AddressingTexts == \A text \in Texts : \E seen : Addressing(seen, text)
Working == {"char", "feed", "written", "compute", "column", "output"}
TextTypeOK ==
  /\ DOMAIN con = Con /\ (\A i \in Con : DOMAIN con[i] = DOMAIN Fresh)
  /\ DOMAIN author = Con /\ mixed \subseteq Con
  /\ pc \in [Writer -> Working \cup {"idle"}] /\ out \in [Writer -> Seq(STRING)]
  /\ opened \subseteq ready
  /\ mixed = {} => DOMAIN mem = 0 .. NConsole * Size - 1
SoundConsole(i) ==
  /\ CursorsOn(con[i]) /\ Parameters(con[i])
  /\ con[i].mode = "NORMAL" => author[i] = NoWriter
  /\ con[i].mode # "NORMAL" => author[i] \in Writer /\ At[author[i]] = i /\ pc[author[i]] # "idle"
Midway(w) ==
  \E q : /\ IsParser(q) /\ q.mode \in Modes /\ Completes(q, out[w])
         /\ IF author[At[w]] = w THEN Agrees(con[At[w]], q) ELSE q.mode = "NORMAL"
TextsGoOn ==
  \A w \in Writer : pc[w] # "idle" =>
    /\ At[w] \in opened
    /\ pc[w] \in {"char", "feed"} => out[w] # <<>>
    /\ At[w] \notin mixed => Midway(w)
TextInv ==
  /\ TextTypeOK /\ TextsGoOn /\ (wild => mixed # {})
  /\ \A i \in Con \ mixed : SoundConsole(i)

(* The claim.                                                               *)
LEMMA TextHolds == ASSUME TextInv PROVE CursorOnScreen
BY ScreenSizes DEF TextInv, SoundConsole, CursorsOn, Parameters, CursorOnScreen

(* The parser a writer's text is read on with, as the console has it.       *)
LEMMA WriterParser ==
  ASSUME TextInv, NEW w \in Writer, pc[w] # "idle", At[w] \notin mixed,
         author[At[w]] \in {w, NoWriter}
  PROVE  \E q : IsParser(q) /\ q.mode \in Modes /\ Completes(q, out[w]) /\ Agrees(con[At[w]], q)
<1>1. At[w] \in Con
  BY ConsoleAssumption DEF Con
<1>2. SoundConsole(At[w]) /\ Midway(w)
  BY <1>1 DEF TextInv, TextsGoOn
<1>3. PICK q : /\ IsParser(q) /\ q.mode \in Modes /\ Completes(q, out[w])
               /\ IF author[At[w]] = w THEN Agrees(con[At[w]], q) ELSE q.mode = "NORMAL"
  BY <1>2 DEF Midway
<1>4. CASE author[At[w]] = w
  BY <1>3, <1>4
<1>5. CASE author[At[w]] # w
  <2>1. author[At[w]] = NoWriter /\ NoWriter \notin Writer
    BY <1>5, ConsoleAssumption DEF NoWriter
  <2>2. con[At[w]].mode = "NORMAL"
    BY <1>2, <2>1 DEF SoundConsole
  <2>3. Agrees(con[At[w]], q)
    BY <1>3, <1>5, <2>2 DEF Agrees
  <2> QED  BY <1>3, <2>3
<1> QED  BY <1>4, <1>5

(* The screen of a console that is sound.                                   *)
LEMMA ScreenOf ==
  ASSUME TextInv, NEW i \in Con, NEW s, s = Screen(i)
  PROVE  /\ Typed(s) /\ s.number = i /\ s.mem = mem /\ s.mode = con[i].mode
         /\ s.idx = con[i].idx /\ s.param = con[i].param
         /\ i \notin mixed => SoundScreen(s)
<1>1. DOMAIN con[i] = DOMAIN Fresh
  BY DEF TextInv, TextTypeOK
<1>2. DOMAIN s = ScreenFields /\ s.number = i /\ s.mem = mem
  BY DEF Screen, ScreenFields
<1>3. \A f \in DOMAIN Fresh : s[f] = con[i][f]
  BY DEF Screen, Fresh
<1>4. /\ s.row = con[i].row /\ s.col = con[i].col /\ s.oldRow = con[i].oldRow /\ s.oldCol = con[i].oldCol
      /\ s.mode = con[i].mode /\ s.idx = con[i].idx /\ s.param = con[i].param
  BY <1>3 DEF Fresh
<1>5. Typed(s)
  BY <1>2 DEF Typed
<1>6. ASSUME i \notin mixed PROVE SoundScreen(s)
  <2>1. SoundConsole(i)
    BY <1>6 DEF TextInv
  <2> QED  BY <1>4, <1>5, <2>1 DEF SoundScreen, SoundConsole, CursorsOn, Parameters
<1> QED  BY <1>2, <1>4, <1>5, <1>6

(* A character of w on a console where nothing was mixed.                   *)
LEMMA EmitSound ==
  ASSUME TextInv, NEW w \in Writer, NEW ch, Emit(w, ch), NEW i, i = At[w],
         i \notin mixed, author[i] \in {w, NoWriter},
         NEW q, IsParser(q), Agrees(con[i], q), Fits(q, ch)
  PROVE  /\ CursorsOn(con'[i]) /\ Parameters(con'[i]) /\ Agrees(con'[i], Parse(q, ch))
         /\ author'[i] = IF con'[i].mode = "NORMAL" THEN NoWriter ELSE w
         /\ mixed' = mixed /\ (wild' => wild)
         /\ DOMAIN mem' = DOMAIN mem /\ \A a \in DOMAIN mem \ Own(i) : mem'[a] = mem[a]
<1> DEFINE s == Screen(i)
           r == Written(s, ch)
<1>1. i \in Con
  BY ConsoleAssumption DEF Con
<1>2. SoundScreen(s) /\ s.number = i /\ s.mem = mem /\ s.mode = con[i].mode
      /\ s.idx = con[i].idx /\ s.param = con[i].param
  BY <1>1, ScreenOf
<1>3. /\ con' = [con EXCEPT ![i] = [f \in DOMAIN Fresh |-> r[f]]]
      /\ mem' = r.mem
      /\ author' = [author EXCEPT ![i] = IF r.mode = "NORMAL" THEN NoWriter
                                         ELSE IF con[i].mode = "NORMAL" THEN w ELSE author[i]]
      /\ mixed' = (IF author[i] \notin {w, NoWriter} THEN mixed \cup {i} ELSE mixed)
      /\ wild' = (wild \/ Overruns(s, ch))
  BY DEF Emit, Store
<1> HIDE DEF s
<1>4. Agrees(s, q)
  BY <1>2 DEF Agrees
<1>5. SoundScreen(r) /\ Outside(s, r) /\ Agrees(r, Parse(q, ch))
  BY <1>2, <1>4, WrittenSound
<1>6. ~ Overruns(s, ch)
  BY <1>2, ScreenSizes DEF Overruns, SoundScreen, Parameters
<1> HIDE DEF r
<1>7. DOMAIN con = Con /\ DOMAIN author = Con
  BY DEF TextInv, TextTypeOK
<1>8. \A f \in DOMAIN Fresh : con'[i][f] = r[f]
  BY <1>1, <1>3, <1>7
<1>9. /\ con'[i].row = r.row /\ con'[i].col = r.col
      /\ con'[i].oldRow = r.oldRow /\ con'[i].oldCol = r.oldCol
      /\ con'[i].mode = r.mode /\ con'[i].idx = r.idx /\ con'[i].param = r.param
  BY <1>8 DEF Fresh
<1>10. CursorsOn(con'[i]) /\ Parameters(con'[i]) /\ Agrees(con'[i], Parse(q, ch))
  BY <1>5, <1>9 DEF SoundScreen, CursorsOn, Parameters, Agrees
<1>11. DOMAIN mem' = DOMAIN mem /\ \A a \in DOMAIN mem \ Own(i) : mem'[a] = mem[a]
  BY <1>2, <1>3, <1>5 DEF Outside
<1>12. author'[i] = IF con'[i].mode = "NORMAL" THEN NoWriter ELSE w
  <2>1. con[i].mode = "NORMAL" \/ author[i] = w
    <3>1. SoundConsole(i)
      BY <1>1 DEF TextInv
    <3>2. NoWriter \notin Writer
      BY ConsoleAssumption DEF NoWriter
    <3> QED  BY <3>1, <3>2 DEF SoundConsole
  <2> QED  BY <1>1, <1>3, <1>7, <1>9, <2>1
<1> QED  BY <1>3, <1>6, <1>10, <1>11, <1>12

(* The others' consoles and texts when w's character is taken into account; *)
(* what becomes of w itself is for the caller to show.                      *)
LEMMA EmitText ==
  ASSUME TextInv, NEW w \in Writer, NEW ch, Emit(w, ch), NEW place \in {"feed", "written"}, Goto(w, place),
         pc[w] \in {"char", "feed"}, UNCHANGED <<opened, ready>>,
         out' \in [Writer -> Seq(STRING)], \A v \in Writer \ {w} : out'[v] = out[v],
         place = "feed" => out'[w] # <<>>,
         \A q : IsParser(q) /\ q.mode \in Modes /\ Completes(q, out[w]) =>
                  /\ Fits(q, ch)
                  /\ \E p : /\ IsParser(p) /\ p.mode \in Modes /\ Completes(p, out'[w])
                            /\ p = Parse(q, ch) \/ (Parse(q, ch).mode = "NORMAL" /\ p.mode = "NORMAL")
  PROVE  TextInv'
<1> DEFINE i == At[w]
<1>1. i \in Con /\ i \in opened /\ NoWriter \notin Writer
  <2>1. At[w] \in Con /\ NoWriter \notin Writer
    BY ConsoleAssumption DEF Con, NoWriter
  <2> QED  BY <2>1 DEF TextInv, TextsGoOn
<1> HIDE DEF i
<1>2. /\ pc' \in [Writer -> Working \cup {"idle"}] /\ pc'[w] = place
      /\ \A v \in Writer \ {w} : pc'[v] = pc[v]
  <2>1. pc' = [pc EXCEPT ![w] = place] /\ pc \in [Writer -> Working \cup {"idle"}]
    BY DEF Goto, TextInv, TextTypeOK
  <2> QED  BY <2>1 DEF Working
<1>3. /\ DOMAIN con' = Con /\ (\A j \in Con \ {i} : con'[j] = con[j]) /\ DOMAIN con'[i] = DOMAIN Fresh
      /\ DOMAIN author' = Con /\ (\A j \in Con \ {i} : author'[j] = author[j])
      /\ mixed' = (IF author[i] \notin {w, NoWriter} THEN mixed \cup {i} ELSE mixed)
  BY <1>1 DEF Emit, Store, TextInv, TextTypeOK, i
<1>4. mixed \subseteq mixed' /\ mixed' \subseteq Con
  BY <1>1, <1>3 DEF TextInv, TextTypeOK
<1>5. \A j \in Con : DOMAIN con'[j] = DOMAIN Fresh
  BY <1>3 DEF TextInv, TextTypeOK
<1>6. ASSUME i \notin mixed'
      PROVE  /\ CursorsOn(con'[i]) /\ Parameters(con'[i])
             /\ author'[i] = IF con'[i].mode = "NORMAL" THEN NoWriter ELSE w
             /\ (wild' => wild) /\ DOMAIN mem' = DOMAIN mem
             /\ author[i] \in {w, NoWriter}
             /\ Midway(w)'
  <2>1. i \notin mixed /\ author[i] \in {w, NoWriter}
    BY <1>3, <1>6
  <2>2. PICK q : IsParser(q) /\ q.mode \in Modes /\ Completes(q, out[w]) /\ Agrees(con[i], q)
    BY <2>1, WriterParser DEF i
  <2>3. Fits(q, ch)
    BY <2>2
  <2>4. PICK p : /\ IsParser(p) /\ p.mode \in Modes /\ Completes(p, out'[w])
                 /\ p = Parse(q, ch) \/ (Parse(q, ch).mode = "NORMAL" /\ p.mode = "NORMAL")
    BY <2>2
  <2>5. /\ CursorsOn(con'[i]) /\ Parameters(con'[i]) /\ Agrees(con'[i], Parse(q, ch))
        /\ author'[i] = IF con'[i].mode = "NORMAL" THEN NoWriter ELSE w
        /\ (wild' => wild) /\ DOMAIN mem' = DOMAIN mem
    BY <2>1, <2>2, <2>3, EmitSound DEF i
  <2>6. Agrees(con'[i], p)
    <3>1. CASE p = Parse(q, ch)
      BY <2>5, <3>1
    <3>2. CASE Parse(q, ch).mode = "NORMAL" /\ p.mode = "NORMAL"
      BY <2>5, <3>2 DEF Agrees
    <3> QED  BY <2>4, <3>1, <3>2
  <2>7. author'[i] # w => p.mode = "NORMAL"
    BY <2>5, <2>6 DEF Agrees
  <2>8. Midway(w)'
    BY <2>4, <2>6, <2>7 DEF Midway, i
  <2> QED  BY <2>1, <2>5, <2>8
<1>7. TextTypeOK'
  <2>1. mixed' = {} => DOMAIN mem' = 0 .. NConsole * Size - 1
    BY <1>4, <1>6 DEF TextInv, TextTypeOK
  <2> QED  BY <1>2, <1>3, <1>4, <1>5, <2>1 DEF TextInv, TextTypeOK
<1>8. wild' => mixed' # {}
  BY <1>4, <1>6 DEF TextInv
<1>9. ASSUME NEW j \in Con, j \notin mixed'
      PROVE  SoundConsole(j)'
  <2>1. CASE j = i
    BY <1>2, <1>6, <1>9, <2>1 DEF SoundConsole, i
  <2>2. CASE j # i
    <3>1. SoundConsole(j) /\ con'[j] = con[j] /\ author'[j] = author[j]
      BY <1>3, <1>4, <1>9, <2>2 DEF TextInv
    <3>2. author[j] \in Writer /\ At[author[j]] = j => pc'[author[j]] = pc[author[j]]
      BY <1>2, <2>2 DEF i
    <3> QED  BY <3>1, <3>2 DEF SoundConsole
  <2> QED  BY <2>1, <2>2
<1>10. TextsGoOn'
  <2> SUFFICES ASSUME NEW v \in Writer, pc'[v] # "idle"
               PROVE  /\ At[v] \in opened
                      /\ pc'[v] \in {"char", "feed"} => out'[v] # <<>>
                      /\ At[v] \notin mixed' => Midway(v)'
    BY DEF TextsGoOn
  <2>1. CASE v = w
    BY <1>1, <1>2, <1>6, <2>1 DEF i
  <2>2. CASE v # w
    <3>1. pc'[v] = pc[v] /\ out'[v] = out[v]
      BY <1>2, <2>2
    <3>2. At[v] \in opened /\ (pc[v] \in {"char", "feed"} => out[v] # <<>>) /\ (At[v] \notin mixed => Midway(v))
      BY <3>1 DEF TextInv, TextsGoOn
    <3>3. ASSUME At[v] \notin mixed'
          PROVE  Midway(v)'
      <4>1. Midway(v) /\ At[v] \in Con
        BY <1>4, <3>2, <3>3, ConsoleAssumption DEF Con
      <4>2. CASE At[v] # i
        <5>1. con'[At[v]] = con[At[v]] /\ author'[At[v]] = author[At[v]]
          BY <1>3, <4>1, <4>2
        <5> QED  BY <3>1, <4>1, <5>1 DEF Midway
      <4>3. CASE At[v] = i
        <5>1. author[i] # v /\ author'[i] # v
          BY <1>1, <1>6, <2>2, <3>3, <4>3
        <5> QED  BY <3>1, <4>1, <4>3, <5>1 DEF Midway
      <4> QED  BY <4>2, <4>3
    <3> QED  BY <3>1, <3>2, <3>3
  <2> QED  BY <2>1, <2>2
<1> QED  BY <1>7, <1>8, <1>9, <1>10 DEF TextInv

(* A step of writer w that touches neither consoles nor authors.            *)
LEMMA QuietText ==
  ASSUME TextInv, NEW w \in Writer, NEW place \in Working \cup {"idle"}, Goto(w, place),
         UNCHANGED <<con, mem, ready, opened, author, mixed, wild>>,
         out' \in [Writer -> Seq(STRING)], \A v \in Writer \ {w} : out'[v] = out[v],
         place # "idle" => /\ At[w] \in opened
                           /\ place \in {"char", "feed"} => out'[w] # <<>>
                           /\ At[w] \notin mixed => Midway(w)',
         place = "idle" => pc[w] # "idle" /\ out[w] = <<>>
  PROVE  TextInv'
<1>1. /\ pc' \in [Writer -> Working \cup {"idle"}] /\ pc'[w] = place
      /\ \A v \in Writer \ {w} : pc'[v] = pc[v]
  <2>1. pc' = [pc EXCEPT ![w] = place] /\ pc \in [Writer -> Working \cup {"idle"}]
    BY DEF Goto, TextInv, TextTypeOK
  <2> QED  BY <2>1
<1>2. At[w] \in Con /\ NoWriter \notin Writer
  BY ConsoleAssumption DEF Con, NoWriter
<1>3. ASSUME place = "idle", At[w] \notin mixed
      PROVE  author[At[w]] # w
  <2>1. Midway(w) /\ SoundConsole(At[w])
    BY <1>2, <1>3 DEF TextInv, TextsGoOn
  <2>2. PICK q : Completes(q, out[w]) /\ (IF author[At[w]] = w THEN Agrees(con[At[w]], q) ELSE q.mode = "NORMAL")
    BY <2>1 DEF Midway
  <2>3. q.mode = "NORMAL"
    BY <1>3, <2>2, CompletesNone
  <2> QED  BY <1>2, <2>1, <2>2, <2>3 DEF Agrees, SoundConsole
<1>4. TextTypeOK'
  BY <1>1 DEF TextInv, TextTypeOK
<1>5. ASSUME NEW j \in Con, j \notin mixed
      PROVE  SoundConsole(j)'
  <2>1. SoundConsole(j)
    BY <1>5 DEF TextInv
  <2>2. ASSUME con[j].mode # "NORMAL"
        PROVE  pc'[author[j]] # "idle"
    <3>1. author[j] \in Writer /\ At[author[j]] = j /\ pc[author[j]] # "idle"
      BY <2>1, <2>2 DEF SoundConsole
    <3>2. CASE author[j] = w
      BY <1>1, <1>3, <1>5, <3>1, <3>2
    <3>3. CASE author[j] # w
      BY <1>1, <3>1, <3>3
    <3> QED  BY <3>2, <3>3
  <2> QED  BY <2>1, <2>2 DEF SoundConsole
<1>6. TextsGoOn'
  <2> SUFFICES ASSUME NEW v \in Writer, pc'[v] # "idle"
               PROVE  /\ At[v] \in opened
                      /\ pc'[v] \in {"char", "feed"} => out'[v] # <<>>
                      /\ At[v] \notin mixed => Midway(v)'
    BY DEF TextsGoOn
  <2>1. CASE v = w
    BY <1>1, <2>1
  <2>2. CASE v # w
    BY <1>1, <2>2 DEF TextInv, TextsGoOn, Midway
  <2> QED  BY <2>1, <2>2
<1>7. (wild' => mixed' # {}) /\ mixed' = mixed
  BY DEF TextInv
<1> QED  BY <1>4, <1>5, <1>6, <1>7 DEF TextInv

(* tty_write and update_cursor_pos.                                         *)
LEMMA WriterText == ASSUME AddressingTexts, TextInv, NEW w \in Writer, WriterStep(w) PROVE TextInv'
<1>1. out \in [Writer -> Seq(STRING)] /\ pc \in [Writer -> Working \cup {"idle"}]
      /\ At[w] \in Con /\ NoWriter \notin Writer
  BY ConsoleAssumption DEF TextInv, TextTypeOK, Con, NoWriter
<1>2. CASE WriteCall(w)
  <2>1. PICK text \in Texts : out' = [out EXCEPT ![w] = text]
    BY <1>2 DEF WriteCall
  <2>2. text \in Seq(STRING) /\ text # <<>>
    BY ConsoleAssumption
  <2>3. PICK seen : Addressing(seen, text)
    BY DEF AddressingTexts
  <2>4. Completes(Started, text) /\ IsParser(Started) /\ Started.mode = "NORMAL"
    BY <2>3 DEF Addressing, Completes, IsParser, Started
  <2>5. out' \in [Writer -> Seq(STRING)] /\ out'[w] = text /\ \A v \in Writer \ {w} : out'[v] = out[v]
    BY <1>1, <2>1, <2>2
  <2>6. /\ pc[w] = "idle" /\ At[w] \in opened /\ Goto(w, "char")
        /\ UNCHANGED <<con, mem, ready, opened, author, mixed, wild>>
    BY <1>2 DEF WriteCall
  <2>7. ASSUME At[w] \notin mixed PROVE Midway(w)'
    <3>1. SoundConsole(At[w])
      BY <1>1, <2>7 DEF TextInv
    <3>2. author[At[w]] # w
      BY <1>1, <2>6, <3>1 DEF SoundConsole
    <3>3. author'[At[w]] # w
      BY <2>6, <3>2
    <3> QED  BY <2>4, <2>5, <3>3 DEF Midway, Modes
  <2>8. "char" \in Working
    BY DEF Working
  <2> QED  BY <2>2, <2>5, <2>6, <2>7, <2>8, QuietText
<1>3. CASE WriteReturn(w)
  <2>1. /\ pc[w] = "char" /\ Head(out[w]) = "LF" /\ Emit(w, "CR") /\ Goto(w, "feed")
        /\ UNCHANGED <<ready, opened, out>>
    BY <1>3 DEF WriteReturn
  <2>2. out[w] \in Seq(STRING) /\ out[w] # <<>>
    BY <1>1, <2>1 DEF TextInv, TextsGoOn
  <2>3. ASSUME NEW q, IsParser(q) /\ q.mode \in Modes /\ Completes(q, out[w])
        PROVE  /\ Fits(q, "CR")
               /\ \E p : /\ IsParser(p) /\ p.mode \in Modes /\ Completes(p, out'[w])
                         /\ p = Parse(q, "CR") \/ (Parse(q, "CR").mode = "NORMAL" /\ p.mode = "NORMAL")
    <3>1. Fits(q, "CR") /\ Parse(q, "CR").mode = "NORMAL"
          /\ \E p : IsParser(p) /\ p.mode = "NORMAL" /\ Completes(p, out[w])
      BY <2>1, <2>2, <2>3, CompletesReturn
    <3>2. PICK p : IsParser(p) /\ p.mode = "NORMAL" /\ Completes(p, out[w])
      BY <3>1
    <3>3. p.mode \in Modes /\ Completes(p, out'[w])
      BY <2>1, <3>2 DEF Modes
    <3> QED  BY <3>1, <3>2, <3>3
  <2>4. out' \in [Writer -> Seq(STRING)] /\ out'[w] # <<>> /\ \A v \in Writer \ {w} : out'[v] = out[v]
    BY <1>1, <2>1, <2>2
  <2> QED  BY <2>1, <2>3, <2>4, EmitText
<1>4. CASE WriteChar(w)
  <2> DEFINE ch == Head(out[w])
  <2>1. /\ pc[w] \in {"char", "feed"} /\ Emit(w, ch) /\ Goto(w, "written")
        /\ out' = [out EXCEPT ![w] = Tail(@)] /\ UNCHANGED <<ready, opened>>
    BY <1>4 DEF WriteChar
  <2>2. out[w] \in Seq(STRING) /\ out[w] # <<>>
    BY <1>1, <2>1 DEF TextInv, TextsGoOn
  <2>3. out'[w] = Tail(out[w]) /\ Tail(out[w]) \in Seq(STRING)
    BY <1>1, <2>1, <2>2
  <2>4. ASSUME NEW q, IsParser(q) /\ q.mode \in Modes /\ Completes(q, out[w])
        PROVE  /\ Fits(q, ch)
               /\ \E p : /\ IsParser(p) /\ p.mode \in Modes /\ Completes(p, out'[w])
                         /\ p = Parse(q, ch) \/ (Parse(q, ch).mode = "NORMAL" /\ p.mode = "NORMAL")
    <3>1. Fits(q, ch) /\ Completes(Parse(q, ch), out'[w])
      BY <2>2, <2>3, <2>4, CompletesHead
    <3>2. IsParser(Parse(q, ch)) /\ Parse(q, ch).mode \in Modes
      BY <2>4, ParseParser
    <3> QED  BY <3>1, <3>2
  <2>5. out' \in [Writer -> Seq(STRING)] /\ \A v \in Writer \ {w} : out'[v] = out[v]
    BY <1>1, <2>1, <2>3
  <2> HIDE DEF ch
  <2> QED  BY <2>1, <2>4, <2>5, EmitText
<1>5. ASSUME Onward(w), pc[w] \in {"written", "output"},
             UNCHANGED <<con, mem, ready, opened, out, author, mixed, wild>>
      PROVE  TextInv'
  <2>1. At[w] \in opened /\ (At[w] \notin mixed => Midway(w))
    BY <1>5 DEF TextInv, TextsGoOn
  <2>2. At[w] \notin mixed => Midway(w)'
    BY <1>5, <2>1 DEF Midway
  <2>3. CASE out[w] = <<>>
    <3>1. Goto(w, "idle")
      BY <1>5, <2>3 DEF Onward
    <3> QED  BY <1>1, <1>5, <2>3, <3>1, QuietText
  <2>4. CASE out[w] # <<>>
    <3>1. Goto(w, "char") /\ "char" \in Working
      BY <1>5, <2>4 DEF Onward, Working
    <3> QED  BY <1>1, <1>5, <2>1, <2>2, <2>4, <3>1, QuietText
  <2> QED  BY <2>3, <2>4
<1>6. ASSUME NEW place \in {"compute", "column", "output"}, Goto(w, place),
             pc[w] \in {"written", "compute", "column"},
             UNCHANGED <<con, mem, ready, opened, out, author, mixed, wild>>
      PROVE  TextInv'
  <2>1. At[w] \in opened /\ (At[w] \notin mixed => Midway(w))
    BY <1>6 DEF TextInv, TextsGoOn
  <2>2. At[w] \notin mixed => Midway(w)'
    BY <1>6, <2>1 DEF Midway
  <2>3. place \in Working
    BY DEF Working
  <2> QED  BY <1>1, <1>6, <2>1, <2>2, <2>3, QuietText
<1>7. CASE IsShown(w)
  <2>1. CASE At[w] = shown
    BY <1>6, <1>7, <2>1 DEF IsShown
  <2>2. CASE At[w] # shown
    BY <1>5, <1>7, <2>2 DEF IsShown
  <2> QED  BY <2>1, <2>2
<1>8. CASE ComputeRow(w) \/ ComputeCol(w)
  BY <1>6, <1>8 DEF ComputeRow, ComputeCol
<1>9. CASE OutputPos(w)
  BY <1>5, <1>9 DEF OutputPos
<1> QED  BY <1>2, <1>3, <1>4, <1>7, <1>8, <1>9 DEF WriterStep

(* A console starts anew: nobody writes to it.                              *)
LEMMA ResetText ==
  ASSUME TextInv, NEW i \in Con, i \notin opened, Reset(i), opened' \subseteq opened \cup {i},
         opened \subseteq opened', UNCHANGED <<pc, out, mixed, wild>>
  PROVE  TextInv'
<1>1. /\ DOMAIN con' = Con /\ con'[i] = Fresh /\ (\A j \in Con \ {i} : con'[j] = con[j])
      /\ DOMAIN author' = Con /\ author'[i] = NoWriter /\ (\A j \in Con \ {i} : author'[j] = author[j])
      /\ ready' = ready \cup {i}
  BY DEF Reset, TextInv, TextTypeOK
<1>2. DOMAIN mem' = DOMAIN mem
  BY DEF Reset, Filled
<1>3. ASSUME NEW w \in Writer, At[w] = i
      PROVE  pc[w] = "idle"
  BY <1>3 DEF TextInv, TextsGoOn
<1>4. TextTypeOK'
  <2>1. opened' \subseteq ready'
    BY <1>1 DEF TextInv, TextTypeOK
  <2>2. \A j \in Con : DOMAIN con'[j] = DOMAIN Fresh
    BY <1>1 DEF TextInv, TextTypeOK
  <2> QED  BY <1>1, <1>2, <2>1, <2>2 DEF TextInv, TextTypeOK
<1>5. ASSUME NEW j \in Con, j \notin mixed
      PROVE  SoundConsole(j)'
  <2>1. CASE j = i
    <3>1. /\ con'[i].row = 0 /\ con'[i].col = 0 /\ con'[i].oldRow = 0 /\ con'[i].oldCol = 0
          /\ con'[i].mode = "NORMAL" /\ con'[i].idx = 0 /\ con'[i].param = Zeros
      BY <1>1 DEF Fresh, Zeros
    <3>2. Zeros \in [0 .. ParamMax - 1 -> Nat] /\ 0 \in 0 .. ParamMax - 1
          /\ 0 \in 0 .. Rows - 1 /\ 0 \in 0 .. Cols - 1
      BY ScreenSizes DEF Zeros
    <3> QED  BY <1>1, <2>1, <3>1, <3>2 DEF SoundConsole, CursorsOn, OnScreen, Parameters, Modes
  <2>2. CASE j # i
    BY <1>1, <1>5, <2>2 DEF TextInv, SoundConsole
  <2> QED  BY <2>1, <2>2
<1>6. TextsGoOn'
  <2> SUFFICES ASSUME NEW v \in Writer, pc[v] # "idle"
               PROVE  /\ At[v] \in opened'
                      /\ pc[v] \in {"char", "feed"} => out[v] # <<>>
                      /\ At[v] \notin mixed => Midway(v)'
    BY DEF TextsGoOn
  <2>1. At[v] # i /\ At[v] \in Con
    BY <1>3, ConsoleAssumption DEF Con
  <2>2. con'[At[v]] = con[At[v]] /\ author'[At[v]] = author[At[v]]
    BY <1>1, <2>1
  <2>3. At[v] \in opened /\ (pc[v] \in {"char", "feed"} => out[v] # <<>>) /\ (At[v] \notin mixed => Midway(v))
    BY DEF TextInv, TextsGoOn
  <2> QED  BY <2>2, <2>3 DEF Midway
<1> QED  BY <1>4, <1>5, <1>6 DEF TextInv

(* console_select, tty_open and the last close.                             *)
LEMMA SelectText == ASSUME TextInv, NEW i \in Con, ConsoleSelect(i) PROVE TextInv'
<1>1. CASE i \in ready
  <2>1. UNCHANGED <<con, mem, ready, author, opened, pc, out, mixed, wild>>
    BY <1>1 DEF ConsoleSelect
  <2> QED  BY <2>1 DEF TextInv, TextTypeOK, TextsGoOn, SoundConsole, Midway
<1>2. CASE i \notin ready
  <2>1. i \notin opened /\ Reset(i) /\ UNCHANGED <<opened, pc, out, mixed, wild>>
    BY <1>2 DEF ConsoleSelect, TextInv, TextTypeOK
  <2> QED  BY <2>1, ResetText
<1> QED  BY <1>1, <1>2

(* The first open.                                                          *)
LEMMA OpenText == ASSUME TextInv, NEW i \in Con, TtyOpen(i) PROVE TextInv'
<1>1. i \notin opened /\ Reset(i) /\ opened' = opened \cup {i} /\ UNCHANGED <<pc, out, mixed, wild>>
  BY DEF TtyOpen
<1> QED  BY <1>1, ResetText

(* The last close.                                                          *)
LEMMA CloseText == ASSUME TextInv, NEW i \in Con, TtyClose(i) PROVE TextInv'
<1>1. /\ \A w \in Writer : At[w] = i => pc[w] = "idle"
      /\ opened' = opened \ {i}
      /\ UNCHANGED <<con, mem, ready, author, pc, out, mixed, wild>>
  BY DEF TtyClose
<1>2. TextsGoOn'
  BY <1>1 DEF TextInv, TextsGoOn, Midway
<1> QED  BY <1>1, <1>2 DEF TextInv, TextTypeOK, SoundConsole

(* The consoles at boot.                                                    *)
LEMMA TextInit == ASSUME ConInit PROVE TextInv
<1>1. 0 \in Con
  BY ScreenSizes, ConsoleAssumption DEF Con
<1>2. Zeros \in [0 .. ParamMax - 1 -> Nat] /\ 0 \in 0 .. ParamMax - 1
      /\ 0 \in 0 .. Rows - 1 /\ 0 \in 0 .. Cols - 1
  BY ScreenSizes DEF Zeros
<1>3. ASSUME NEW i \in Con
      PROVE  SoundConsole(i) /\ DOMAIN con[i] = DOMAIN Fresh
  <2>1. author[i] = NoWriter
    BY <1>3 DEF ConInit
  <2>2. /\ OnScreen(con[i].row, con[i].col) /\ OnScreen(con[i].oldRow, con[i].oldCol)
        /\ con[i].mode = "NORMAL" /\ con[i].idx = 0 /\ con[i].param = Zeros
        /\ DOMAIN con[i] = DOMAIN Fresh
    <3>1. CASE i # 0
      <4>1. con[i] = Fresh
        BY <1>3, <3>1 DEF ConInit
      <4> QED  BY <1>2, <4>1 DEF Fresh, Zeros, OnScreen
    <3>2. CASE i = 0
      <4>1. PICK row \in 0 .. Rows - 1, col \in 0 .. Cols - 1 :
              con[i] = [Fresh EXCEPT !.row = row, !.col = col, !.oldRow = row, !.oldCol = col]
        BY <1>3, <3>2 DEF ConInit
      <4> QED  BY <4>1 DEF Fresh, Zeros, OnScreen
    <3> QED  BY <3>1, <3>2
  <2> QED  BY <1>2, <2>1, <2>2 DEF SoundConsole, CursorsOn, Parameters, Modes
<1>4. pc \in [Writer -> Working \cup {"idle"}] /\ out \in [Writer -> Seq(STRING)]
  BY DEF ConInit
<1>5. TextTypeOK
  BY <1>3, <1>4 DEF ConInit, TextTypeOK
<1>6. TextsGoOn /\ ~ wild
  BY DEF ConInit, TextsGoOn
<1> QED  BY <1>3, <1>5, <1>6 DEF TextInv

(* Every step.                                                              *)
LEMMA TextNext == ASSUME AddressingTexts, TextInv, [ScreenNext]_vars PROVE TextInv'
<1>1. CASE UNCHANGED conVars
  BY <1>1 DEF conVars, TextInv, TextTypeOK, TextsGoOn, SoundConsole, Midway
<1>2. \/ UNCHANGED conVars
      \/ \E w \in Writer : WriterStep(w)
      \/ \E i \in Con : ConsoleSelect(i) \/ TtyOpen(i) \/ TtyClose(i)
  BY DEF vars, ScreenNext, Interrupt, Quiet, Selection, Fingers, Writers, Opens
<1> QED  BY <1>1, <1>2, WriterText, SelectText, OpenText, CloseText

(* A character on one console leaves the cells of the others alone.         *)
LEMMA EmitOwn ==
  ASSUME TextInv, NEW w \in Writer, NEW ch, Emit(w, ch), pc[w] \in {"char", "feed"}, mixed' = {},
         \A q : IsParser(q) /\ q.mode \in Modes /\ Completes(q, out[w]) => Fits(q, ch),
         NEW j \in Con, j # At[w], NEW a \in Own(j)
  PROVE  mem'[a] = mem[a]
<1> DEFINE i == At[w]
<1>1. i \in Con
  BY ConsoleAssumption DEF Con
<1>2. i \notin mixed /\ author[i] \in {w, NoWriter} /\ mixed = {}
  BY DEF Emit
<1>3. PICK q : IsParser(q) /\ q.mode \in Modes /\ Completes(q, out[w]) /\ Agrees(con[i], q)
  BY <1>2, WriterParser
<1>4. \A b \in DOMAIN mem \ Own(i) : mem'[b] = mem[b]
  BY <1>2, <1>3, EmitSound
<1>5. a \in DOMAIN mem
  <2>1. DOMAIN mem = 0 .. NConsole * Size - 1
    BY <1>2 DEF TextInv, TextTypeOK
  <2>2. j \in Nat /\ NConsole \in Nat /\ Size \in Nat /\ j + 1 <= NConsole /\ j * Size \in Nat
    BY ScreenSizes DEF Con
  <2>3. (j + 1) * Size <= NConsole * Size
    BY <2>2
  <2> QED  BY <2>1, <2>2, <2>3 DEF Own
<1>6. a \notin Own(i)
  BY <1>1, DisplaysApart
<1> QED  BY <1>4, <1>5, <1>6

(* The step of a writer that is taking characters.                          *)
LEMMA WriterOwn ==
  ASSUME TextInv, NEW w \in Writer, pc[w] \in {"char", "feed"}, WriterStep(w), mixed' = {},
         NEW j \in Con, j # At[w], NEW a \in Own(j)
  PROVE  mem'[a] = mem[a]
<1>1. out[w] \in Seq(STRING) /\ out[w] # <<>>
  BY DEF TextInv, TextTypeOK, TextsGoOn
<1>2. CASE WriteReturn(w)
  <2>1. Head(out[w]) = "LF" /\ Emit(w, "CR")
    BY <1>2 DEF WriteReturn
  <2>2. \A q : IsParser(q) /\ q.mode \in Modes /\ Completes(q, out[w]) => Fits(q, "CR")
    BY <1>1, <2>1, CompletesReturn
  <2> QED  BY <2>1, <2>2, EmitOwn
<1>3. CASE WriteChar(w)
  <2>1. Emit(w, Head(out[w]))
    BY <1>3 DEF WriteChar
  <2>2. \A q : IsParser(q) /\ q.mode \in Modes /\ Completes(q, out[w]) => Fits(q, Head(out[w]))
    BY <1>1, CompletesHead
  <2> QED  BY <2>1, <2>2, EmitOwn
<1> QED  BY <1>2, <1>3 DEF WriterStep, WriteCall, IsShown, ComputeRow, ComputeCol, OutputPos

(* Only its own step takes a writer on.                                     *)
LEMMA OwnStep ==
  ASSUME TextInv, [ScreenNext]_vars, NEW w \in Writer, pc'[w] # pc[w]
  PROVE  WriterStep(w)
<1>1. \E v \in Writer : WriterStep(v)
  BY DEF vars, conVars, ScreenNext, Interrupt, Quiet, Selection, Fingers, Writers, Opens,
         ConsoleSelect, TtyOpen, TtyClose
<1>2. PICK v \in Writer : WriterStep(v)
  BY <1>1
<1>3. \E place : pc' = [pc EXCEPT ![v] = place]
  BY <1>2 DEF WriterStep, WriteCall, WriteReturn, WriteChar, IsShown, ComputeRow, ComputeCol, OutputPos, Onward, Goto
<1>4. v = w
  BY <1>3 DEF TextInv, TextTypeOK
<1> QED  BY <1>2, <1>4

(* What one step must not do to the displays.                               *)
LEMMA StepOwn ==
  ASSUME TextInv, [ScreenNext]_vars, NEW i \in Con, mixed' = {},
         \E w \in Writer : At[w] # i /\ pc[w] \in {"char", "feed"} /\ pc'[w] # pc[w],
         NEW a \in i * Size .. (i + 1) * Size - 1
  PROVE  mem'[a] = mem[a]
<1>1. PICK w \in Writer : At[w] # i /\ pc[w] \in {"char", "feed"} /\ pc'[w] # pc[w]
  OBVIOUS
<1>2. WriterStep(w)
  BY <1>1, OwnStep
<1>3. a \in Own(i)
  BY DEF Own
<1> QED  BY <1>1, <1>2, <1>3, WriterOwn

-----------------------------------------------------------------------------
(* The four results, for the keyboard and the consoles together.             *)

(* Every character and every switch of terminals is what the keys that were *)
(* down when the key moved stand for, and the driver has caught up when the *)
(* queue is empty (do_handler_kbd with its three states, and the bits of    *)
(* kbd_stat), for any keys on the board, any capacity of the controller,    *)
(* and any order in which keys move and bytes are read.                     *)
THEOREM SpecKeysAsPressed ==
  ASSUME NEW board, board \cap NoKey = {}
  PROVE  ScreenSpec(board) => []KeysAsPressed
<1>1. ScreenInit(board) => KbdInv
  BY KbdInitInv DEF ScreenInit
<1>2. KbdInv /\ [ScreenNext]_vars => KbdInv'
  <2> SUFFICES ASSUME KbdInv, [ScreenNext]_vars
               PROVE  KbdInv'
    OBVIOUS
  <2>1. [KbdNext]_kbdVars
    BY DEF vars, ScreenNext, Interrupt, Selection, Fingers, Writers, Opens, KbdNext
  <2> QED  BY <2>1, KbdNextInv
<1>3. KbdInv => KeysAsPressed
  BY KbdHolds
<1> QED  BY <1>1, <1>2, <1>3, PTL DEF ScreenSpec

(* When no write is under way the hardware cursor is that of the console    *)
(* that is shown, but for a writer that was overtaken between its look at   *)
(* the cursor and its output and for a shown terminal that was opened anew  *)
(* (update_cursor_pos after the mutex, console_select, tty_open), for any   *)
(* numbers of consoles and writers, any texts and any screen.               *)
THEOREM SpecCursorFollows == ASSUME NEW board PROVE ScreenSpec(board) => []CursorFollows
<1>1. ScreenInit(board) => CurInv
  BY CursorInit DEF ScreenInit
<1>2. CurInv => CursorFollows
  BY DEF CurInv, Cursor, Busy, CursorFollows
<1> QED  BY <1>1, <1>2, CursorNext, PTL DEF ScreenSpec

(* The cursor of a console and its saved cursor stay on the screen, and its *)
(* parameters in esc_param, unless the output of two tasks was mixed within *)
(* an escape sequence (write_normal, write_esc, write_esc_square and what   *)
(* they call), for programs whose texts only address the screen, any number *)
(* of them, any consoles and any size of the screen.                        *)
THEOREM SpecCursorOnScreen ==
  ASSUME NEW board, AddressingTexts
  PROVE  ScreenSpec(board) => []CursorOnScreen
<1>1. ScreenInit(board) => TextInv
  BY TextInit DEF ScreenInit
<1>2. TextInv /\ [ScreenNext]_vars => TextInv'
  BY TextNext
<1>3. TextInv => CursorOnScreen
  BY TextHolds
<1> QED  BY <1>1, <1>2, <1>3, PTL DEF ScreenSpec

(* What is written to one console never reaches the display memory of       *)
(* another (show_char, erase_rows, scroll_up), under the same hypothesis.   *)
THEOREM SpecOwnDisplay ==
  ASSUME NEW board, AddressingTexts
  PROVE  ScreenSpec(board) => OwnDisplay
<1>1. ScreenInit(board) => TextInv
  BY TextInit DEF ScreenInit
<1>2. TextInv /\ [ScreenNext]_vars => TextInv'
  BY TextNext
<1>3. TextInv /\ [ScreenNext]_vars =>
        [\A i \in Con : mixed' = {} /\ (\E w \in Writer : At[w] # i /\ pc[w] \in {"char", "feed"} /\ pc'[w] # pc[w]) =>
           \A a \in i * Size .. (i + 1) * Size - 1 : mem'[a] = mem[a]]_conVars
  BY StepOwn
<1> QED  BY <1>1, <1>2, <1>3, PTL DEF ScreenSpec, OwnDisplay

=============================================================================
