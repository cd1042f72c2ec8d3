------------------------ MODULE Connection_proofs ------------------------
(***************************************************************************)
(* Proofs about Connection: that everything stays within its bounds, that  *)
(* an answer which ends by itself has been heard whole, and that the       *)
(* device hears nothing of an older sentence behind a newer one; for any   *)
(* number of inputs, tool calls and pieces of text. The invariant is an    *)
(* account of the sentence that is current, if nothing of it was given up: *)
(* what was asked for and not heard is in one of the four queues, in the   *)
(* text thread's buffer or in the audio thread's hands, and its LAST is    *)
(* behind all of it.                                                       *)
(***************************************************************************)
EXTENDS Connection, TLAPS

-----------------------------------------------------------------------------
(* Sums along a queue. f[k] is what the first k items come to; that it     *)
(* stands still where nothing is added saves an induction.                 *)

Sums(n, w, s) ==
    \E f \in [0 .. n -> Int] :
        /\ f[0] = 0 /\ f[n] = s
        /\ \A k \in 1 .. n : f[k] = f[k - 1] + w[k]
        /\ \A j, k \in 0 .. n : j <= k /\ (\A m \in j + 1 .. k : w[m] = 0) => f[j] = f[k]

LEMMA SumOfNone == ASSUME NEW w PROVE Sums(0, w, 0)
<1> DEFINE f == [k \in 0 .. 0 |-> 0]
<1>1. /\ f \in [0 .. 0 -> Int] /\ f[0] = 0 /\ \A k \in 1 .. 0 : f[k] = f[k - 1] + w[k]
      /\ \A j, k \in 0 .. 0 : f[j] = f[k]
  OBVIOUS
<1> QED
  BY <1>1 DEF Sums

LEMMA SumIsInt == ASSUME NEW n \in Nat, NEW w, NEW s, Sums(n, w, s) PROVE s \in Int
  BY DEF Sums

LEMMA SumOfZeros ==
  ASSUME NEW n \in Nat, NEW w, NEW s, Sums(n, w, s), \A k \in 1 .. n : w[k] = 0
  PROVE  s = 0
<1>1. PICK f \in [0 .. n -> Int] :
        /\ f[0] = 0 /\ f[n] = s
        /\ \A j, k \in 0 .. n : j <= k /\ (\A m \in j + 1 .. k : w[m] = 0) => f[j] = f[k]
  BY DEF Sums
<1>2. 0 \in 0 .. n /\ n \in 0 .. n /\ 0 <= n /\ \A m \in 0 + 1 .. n : w[m] = 0
  OBVIOUS
<1> QED
  BY <1>1, <1>2

LEMMA SumOfMore ==
  ASSUME NEW n \in Nat, NEW w, NEW s, Sums(n, w, s),
         NEW v, NEW x \in Int, v[n + 1] = x, \A k \in 1 .. n : v[k] = w[k]
  PROVE  Sums(n + 1, v, s + x)
<1>1. PICK f \in [0 .. n -> Int] :
        /\ f[0] = 0 /\ f[n] = s
        /\ \A k \in 1 .. n : f[k] = f[k - 1] + w[k]
        /\ \A j, k \in 0 .. n : j <= k /\ (\A m \in j + 1 .. k : w[m] = 0) => f[j] = f[k]
  BY DEF Sums
<1> DEFINE g == [k \in 0 .. n + 1 |-> IF k = n + 1 THEN s + x ELSE f[k]]
<1>2. g \in [0 .. n + 1 -> Int] /\ g[0] = 0 /\ g[n + 1] = s + x /\ \A k \in 0 .. n : g[k] = f[k]
  BY <1>1
<1>3. \A k \in 1 .. n + 1 : g[k] = g[k - 1] + v[k]
  BY <1>1, <1>2
<1>4. ASSUME NEW j \in 0 .. n + 1, NEW k \in 0 .. n + 1, j <= k, \A m \in j + 1 .. k : v[m] = 0
      PROVE  g[j] = g[k]
  <2>1. CASE k \in 0 .. n
    <3>1. \A m \in j + 1 .. k : w[m] = 0
      BY <1>4, <2>1
    <3> QED
      BY <1>1, <1>2, <1>4, <2>1, <3>1
  <2>2. CASE j \in 0 .. n /\ k = n + 1
    <3>1. (\A m \in j + 1 .. n : w[m] = 0) /\ x = 0
      BY <1>4, <2>2
    <3>2. f[j] = f[n]
      BY <1>1, <2>2, <3>1
    <3> QED
      BY <1>1, <1>2, <2>2, <3>1, <3>2
  <2> QED
    BY <2>1, <2>2, <1>4
<1> HIDE DEF g
<1> QED
  BY <1>2, <1>3, <1>4 DEF Sums

LEMMA SumOfRest ==
  ASSUME NEW l \in Nat, NEW w \in [1 .. l -> Int], NEW s, Sums(l, w, s),
         NEW n \in Nat, l = n + 1, NEW v, \A k \in 1 .. n : v[k] = w[k + 1]
  PROVE  Sums(n, v, s - w[1])
<1>1. PICK f \in [0 .. n + 1 -> Int] :
        /\ f[0] = 0 /\ f[n + 1] = s
        /\ \A k \in 1 .. n + 1 : f[k] = f[k - 1] + w[k]
        /\ \A j, k \in 0 .. n + 1 : j <= k /\ (\A m \in j + 1 .. k : w[m] = 0) => f[j] = f[k]
  BY DEF Sums
<1> DEFINE g == [k \in 0 .. n |-> f[k + 1] - w[1]]
<1>2. f[1] = w[1] /\ s \in Int
  <2>1. 1 \in 1 .. n + 1 /\ 1 - 1 = 0 /\ n + 1 \in 0 .. n + 1
    OBVIOUS
  <2>2. w[1] \in Int
    BY <2>1
  <2> QED
    BY <1>1, <2>1, <2>2
<1>3. g \in [0 .. n -> Int] /\ g[0] = 0 /\ g[n] = s - w[1]
  <2>1. \A k \in 0 .. n : k + 1 \in 0 .. n + 1 /\ f[k + 1] \in Int
    BY <1>1
  <2>2. 0 \in 0 .. n /\ n \in 0 .. n /\ 0 + 1 = 1 /\ 1 \in 1 .. n + 1 /\ w[1] \in Int
    OBVIOUS
  <2>3. g[0] = f[1] - w[1] /\ g[n] = f[n + 1] - w[1]
    BY <2>2
  <2>4. g \in [0 .. n -> Int]
    BY <2>1, <2>2
  <2> QED
    BY <1>1, <1>2, <2>2, <2>3, <2>4
<1>4. \A k \in 1 .. n : g[k] = g[k - 1] + v[k]
  <2> SUFFICES ASSUME NEW k \in 1 .. n PROVE g[k] = g[k - 1] + v[k]
    OBVIOUS
  <2>1. k + 1 \in 1 .. n + 1 /\ (k + 1) - 1 = k /\ k \in 0 .. n /\ k - 1 \in 0 .. n /\ (k - 1) + 1 = k
    OBVIOUS
  <2>2. f[k + 1] = f[k] + v[k] /\ g[k] = f[k + 1] - w[1] /\ g[k - 1] = f[k] - w[1]
    BY <1>1, <2>1
  <2>3. k \in 0 .. n + 1 /\ k + 1 \in 0 .. n + 1 /\ f[k] \in Int /\ f[k + 1] \in Int
    <3>1. k \in 0 .. n + 1 /\ k + 1 \in 0 .. n + 1
      OBVIOUS
    <3> QED
      BY <1>1, <3>1
  <2>4. v[k] \in Int /\ w[1] \in Int
    <3>1. k + 1 \in 1 .. n + 1 /\ 1 \in 1 .. n + 1
      OBVIOUS
    <3> QED
      BY <3>1
  <2> QED
    BY <2>2, <2>3, <2>4
<1>5. ASSUME NEW j \in 0 .. n, NEW k \in 0 .. n, j <= k, \A m \in j + 1 .. k : v[m] = 0
      PROVE  g[j] = g[k]
  <2>1. \A m \in (j + 1) + 1 .. k + 1 : w[m] = 0
    <3> SUFFICES ASSUME NEW m \in (j + 1) + 1 .. k + 1 PROVE w[m] = 0
      OBVIOUS
    <3>1. m - 1 \in j + 1 .. k /\ m - 1 \in 1 .. n /\ (m - 1) + 1 = m
      OBVIOUS
    <3> QED
      BY <3>1, <1>5
  <2>2. f[j + 1] = f[k + 1]
    <3>1. j + 1 \in 0 .. n + 1 /\ k + 1 \in 0 .. n + 1 /\ j + 1 <= k + 1
      BY <1>5
    <3> QED
      BY <1>1, <2>1, <3>1
  <2> QED
    BY <2>2
<1> HIDE DEF g
<1> QED
  BY <1>2, <1>3, <1>4, <1>5 DEF Sums

-----------------------------------------------------------------------------
(* The queues of text and of audio.                                        *)

Texts == [kind : {"FIRST", "TEXT", "LAST"}, id : Ids]
Audios == [kind : {"MIDDLE", "LAST"}, id : Ids, n : Nat]
Packets == [kind : {"MIDDLE"}, id : Ids, n : Nat]

Mentions(q, i) == \E k \in DOMAIN q : q[k].id = i
Has(q, kind, i) == \E k \in DOMAIN q : q[k].kind = kind /\ q[k].id = i
\* Of the sentence there is FIRST, then its text, then LAST.
InTurn(q, i) ==
    \A j, k \in DOMAIN q :
        j < k /\ q[j].id = i /\ q[k].id = i => q[k].kind # "FIRST" /\ q[j].kind # "LAST"

TextWeight(q, i) == [k \in DOMAIN q |-> IF q[k].kind = "TEXT" /\ q[k].id = i THEN 1 ELSE 0]
AudioWeight(q, i) == [k \in DOMAIN q |-> IF q[k].kind = "MIDDLE" /\ q[k].id = i THEN q[k].n ELSE 0]
\* How many pieces of the text of a sentence a queue holds.
TextDue(q, i, s) == Sums(Len(q), TextWeight(q, i), s)
AudioDue(q, i, s) == Sums(Len(q), AudioWeight(q, i), s)

LEMMA Appended ==
  ASSUME NEW S, NEW q \in Seq(S), NEW x \in S
  PROVE  /\ Append(q, x) \in Seq(S) /\ Len(Append(q, x)) = Len(q) + 1 /\ Len(q) \in Nat
         /\ DOMAIN q = 1 .. Len(q) /\ DOMAIN Append(q, x) = 1 .. Len(q) + 1
         /\ Append(q, x)[Len(q) + 1] = x /\ \A k \in 1 .. Len(q) : Append(q, x)[k] = q[k]
         /\ Append(q, x) # <<>>
  OBVIOUS

LEMMA Rest ==
  ASSUME NEW S, NEW q \in Seq(S), q # <<>>
  PROVE  /\ Tail(q) \in Seq(S) /\ Len(q) = Len(Tail(q)) + 1 /\ Len(Tail(q)) \in Nat
         /\ DOMAIN q = 1 .. Len(Tail(q)) + 1 /\ DOMAIN Tail(q) = 1 .. Len(Tail(q))
         /\ Head(q) = q[1] /\ Head(q) \in S
         /\ \A k \in 1 .. Len(Tail(q)) : Tail(q)[k] = q[k + 1]
  OBVIOUS

\* What an item that is appended adds.
LEMMA AppendSays ==
  ASSUME NEW S, NEW q \in Seq(S), NEW x \in S, NEW i
  PROVE  /\ Mentions(Append(q, x), i) <=> Mentions(q, i) \/ x.id = i
         /\ \A kind : Has(Append(q, x), kind, i) <=> Has(q, kind, i) \/ (x.kind = kind /\ x.id = i)
<1> DEFINE p == Append(q, x)
<1>1. /\ Len(q) \in Nat /\ DOMAIN q = 1 .. Len(q) /\ DOMAIN p = 1 .. Len(q) + 1
      /\ p[Len(q) + 1] = x /\ \A k \in 1 .. Len(q) : p[k] = q[k]
  BY Appended
<1> HIDE DEF p
<1>2. \A k \in DOMAIN p : k \in DOMAIN q \/ k = Len(q) + 1
  BY <1>1
<1>3. Mentions(p, i) <=> Mentions(q, i) \/ x.id = i
  BY <1>1, <1>2 DEF Mentions
<1>4. \A kind : Has(p, kind, i) <=> Has(q, kind, i) \/ (x.kind = kind /\ x.id = i)
  BY <1>1, <1>2 DEF Has
<1> QED
  BY <1>3, <1>4 DEF p

LEMMA AppendInTurn ==
  ASSUME NEW S, NEW q \in Seq(S), NEW x \in S, NEW i, InTurn(q, i),
         x.id = i => ~Has(q, "LAST", i) /\ (x.kind = "FIRST" => ~Mentions(q, i))
  PROVE  InTurn(Append(q, x), i)
<1> DEFINE p == Append(q, x)
<1>1. /\ Len(q) \in Nat /\ DOMAIN q = 1 .. Len(q) /\ DOMAIN p = 1 .. Len(q) + 1
      /\ p[Len(q) + 1] = x /\ \A k \in 1 .. Len(q) : p[k] = q[k]
  BY Appended
<1> HIDE DEF p
<1> SUFFICES ASSUME NEW j \in DOMAIN p, NEW k \in DOMAIN p, j < k, p[j].id = i, p[k].id = i
             PROVE  p[k].kind # "FIRST" /\ p[j].kind # "LAST"
  BY DEF InTurn, p
<1>2. CASE k \in DOMAIN q
  <2>1. j \in DOMAIN q
    BY <1>1, <1>2
  <2> QED
    BY <1>1, <1>2, <2>1 DEF InTurn
<1>3. CASE k = Len(q) + 1
  <2>1. j \in DOMAIN q
    BY <1>1, <1>3
  <2> QED
    BY <1>1, <1>3, <2>1 DEF Mentions, Has
<1> QED
  BY <1>1, <1>2, <1>3

LEMMA AppendDue ==
  ASSUME NEW q \in Seq(Texts), NEW x \in Texts, NEW i, NEW s, TextDue(q, i, s)
  PROVE  TextDue(Append(q, x), i, s + (IF x.kind = "TEXT" /\ x.id = i THEN 1 ELSE 0))
<1> DEFINE p == Append(q, x)
           y == IF x.kind = "TEXT" /\ x.id = i THEN 1 ELSE 0
<1>1. /\ Len(q) \in Nat /\ DOMAIN q = 1 .. Len(q) /\ DOMAIN p = 1 .. Len(q) + 1
      /\ p[Len(q) + 1] = x /\ \A k \in 1 .. Len(q) : p[k] = q[k]
      /\ Len(p) = Len(q) + 1
  BY Appended
<1> HIDE DEF p
<1>2. TextWeight(p, i)[Len(q) + 1] = y /\ y \in Int
  BY <1>1 DEF TextWeight
<1>3. \A k \in 1 .. Len(q) : TextWeight(p, i)[k] = TextWeight(q, i)[k]
  BY <1>1 DEF TextWeight
<1> HIDE DEF y
<1>4. Sums(Len(q) + 1, TextWeight(p, i), s + y)
  BY <1>1, <1>2, <1>3, SumOfMore DEF TextDue
<1> QED
  BY <1>1, <1>4 DEF TextDue, p, y

LEMMA AppendAudio ==
  ASSUME NEW S, S \subseteq Audios, NEW q \in Seq(S), NEW x \in S, NEW i, NEW s, AudioDue(q, i, s)
  PROVE  AudioDue(Append(q, x), i, s + (IF x.kind = "MIDDLE" /\ x.id = i THEN x.n ELSE 0))
<1> DEFINE p == Append(q, x)
           y == IF x.kind = "MIDDLE" /\ x.id = i THEN x.n ELSE 0
<1>1. /\ Len(q) \in Nat /\ DOMAIN q = 1 .. Len(q) /\ DOMAIN p = 1 .. Len(q) + 1
      /\ p[Len(q) + 1] = x /\ \A k \in 1 .. Len(q) : p[k] = q[k]
      /\ Len(p) = Len(q) + 1
  BY Appended
<1> HIDE DEF p
<1>2. AudioWeight(p, i)[Len(q) + 1] = y
  BY <1>1 DEF AudioWeight
<1>3. \A k \in 1 .. Len(q) : AudioWeight(p, i)[k] = AudioWeight(q, i)[k]
  BY <1>1 DEF AudioWeight
<1>4. y \in Int
  BY DEF Audios
<1> HIDE DEF y
<1>5. Sums(Len(q) + 1, AudioWeight(p, i), s + y)
  BY <1>1, <1>2, <1>3, <1>4, SumOfMore DEF AudioDue
<1> QED
  BY <1>1, <1>5 DEF AudioDue, p, y

\* What is left behind an item that is taken.
LEMMA TailSays ==
  ASSUME NEW S, NEW q \in Seq(S), q # <<>>, NEW i
  PROVE  /\ Mentions(q, i) <=> Mentions(Tail(q), i) \/ Head(q).id = i
         /\ \A kind : Has(q, kind, i) <=> Has(Tail(q), kind, i) \/ (Head(q).kind = kind /\ Head(q).id = i)
         /\ Head(q) \in S /\ Tail(q) \in Seq(S)
<1> DEFINE p == Tail(q)
<1>1. /\ Len(p) \in Nat /\ DOMAIN q = 1 .. Len(p) + 1 /\ DOMAIN p = 1 .. Len(p)
      /\ Head(q) = q[1] /\ \A k \in 1 .. Len(p) : p[k] = q[k + 1]
      /\ Head(q) \in S /\ p \in Seq(S)
  BY Rest
<1> HIDE DEF p
<1>2. \A k \in DOMAIN q : k = 1 \/ (k - 1 \in DOMAIN p /\ p[k - 1] = q[k])
  BY <1>1
<1>3. 1 \in DOMAIN q /\ \A k \in DOMAIN p : k + 1 \in DOMAIN q /\ p[k] = q[k + 1]
  BY <1>1
<1>4. Mentions(q, i) <=> Mentions(p, i) \/ Head(q).id = i
  <2>1. Mentions(q, i) => Mentions(p, i) \/ Head(q).id = i
    BY <1>1, <1>2 DEF Mentions
  <2>2. Mentions(p, i) \/ Head(q).id = i => Mentions(q, i)
    BY <1>1, <1>3 DEF Mentions
  <2> QED
    BY <2>1, <2>2
<1>5. \A kind : Has(q, kind, i) <=> Has(p, kind, i) \/ (Head(q).kind = kind /\ Head(q).id = i)
  BY <1>1, <1>2, <1>3 DEF Has
<1> QED
  BY <1>1, <1>4, <1>5 DEF p

LEMMA TailInTurn ==
  ASSUME NEW S, NEW q \in Seq(S), q # <<>>, NEW i, InTurn(q, i)
  PROVE  /\ InTurn(Tail(q), i)
         /\ Head(q).id = i => ~Has(Tail(q), "FIRST", i)
         /\ Head(q).id = i /\ Head(q).kind = "LAST" => ~Mentions(Tail(q), i)
<1> DEFINE p == Tail(q)
<1>1. /\ Len(p) \in Nat /\ DOMAIN q = 1 .. Len(p) + 1 /\ DOMAIN p = 1 .. Len(p)
      /\ Head(q) = q[1] /\ \A k \in 1 .. Len(p) : p[k] = q[k + 1]
  BY Rest
<1> HIDE DEF p
<1>2. \A k \in DOMAIN p : k \in Int /\ k + 1 \in DOMAIN q /\ 1 < k + 1 /\ p[k] = q[k + 1]
  BY <1>1
<1>3. 1 \in DOMAIN q /\ \A j, k \in DOMAIN p : j < k => j + 1 < k + 1
  BY <1>1
<1>4. InTurn(p, i)
  BY <1>2, <1>3 DEF InTurn
<1>5. ASSUME Head(q).id = i, NEW k \in DOMAIN p, p[k].id = i
      PROVE  p[k].kind # "FIRST" /\ Head(q).kind # "LAST"
  BY <1>1, <1>2, <1>3, <1>5 DEF InTurn
<1>6. /\ Head(q).id = i => ~Has(p, "FIRST", i)
      /\ Head(q).id = i /\ Head(q).kind = "LAST" => ~Mentions(p, i)
  BY <1>5 DEF Has, Mentions
<1> QED
  BY <1>4, <1>6 DEF p

LEMMA TailDue ==
  ASSUME NEW q \in Seq(Texts), q # <<>>, NEW i, NEW s, TextDue(q, i, s)
  PROVE  /\ TextDue(Tail(q), i, s - (IF Head(q).kind = "TEXT" /\ Head(q).id = i THEN 1 ELSE 0))
         /\ s \in Int
<1> DEFINE p == Tail(q)
<1>1. /\ Len(q) = Len(p) + 1 /\ Len(p) \in Nat /\ DOMAIN q = 1 .. Len(p) + 1
      /\ DOMAIN p = 1 .. Len(p) /\ Head(q) = q[1] /\ \A k \in 1 .. Len(p) : p[k] = q[k + 1]
  BY Rest
<1> HIDE DEF p
<1>2. /\ TextWeight(q, i)[1] = IF Head(q).kind = "TEXT" /\ Head(q).id = i THEN 1 ELSE 0
      /\ TextWeight(q, i)[1] \in Int
  BY <1>1 DEF TextWeight
<1>3. /\ \A k \in 1 .. Len(p) : TextWeight(p, i)[k] = TextWeight(q, i)[k + 1]
      /\ TextWeight(q, i) \in [1 .. Len(q) -> Int]
      /\ Sums(Len(q), TextWeight(q, i), s)
  BY <1>1 DEF TextWeight, TextDue
<1> DEFINE w == TextWeight(q, i)
           v == TextWeight(p, i)
           n == Len(p)
           l == Len(q)
<1>4. Sums(n, v, s - w[1]) /\ s \in Int
  <2>1. n \in Nat /\ l \in Nat /\ l = n + 1 /\ Sums(l, w, s) /\ w \in [1 .. l -> Int]
        /\ \A k \in 1 .. n : v[k] = w[k + 1]
    BY <1>1, <1>3
  <2> HIDE DEF w, v, n, l
  <2>2. s \in Int
    BY <2>1, SumIsInt
  <2>3. Sums(n, v, s - w[1])
    BY <2>1, SumOfRest
  <2> QED
    BY <2>2, <2>3
<1> QED
  BY <1>2, <1>4 DEF TextDue, p

LEMMA TailAudio ==
  ASSUME NEW S, S \subseteq Audios, NEW q \in Seq(S), q # <<>>, NEW i, NEW s, AudioDue(q, i, s)
  PROVE  /\ AudioDue(Tail(q), i, s - (IF Head(q).kind = "MIDDLE" /\ Head(q).id = i THEN Head(q).n ELSE 0))
         /\ s \in Int
<1> DEFINE p == Tail(q)
<1>1. /\ Len(q) = Len(p) + 1 /\ Len(p) \in Nat /\ DOMAIN q = 1 .. Len(p) + 1
      /\ DOMAIN p = 1 .. Len(p) /\ Head(q) = q[1] /\ \A k \in 1 .. Len(p) : p[k] = q[k + 1]
      /\ Head(q) \in S
  BY Rest
<1> HIDE DEF p
<1>2. Head(q).n \in Int
  BY <1>1 DEF Audios
<1>3. /\ AudioWeight(q, i)[1] = IF Head(q).kind = "MIDDLE" /\ Head(q).id = i THEN Head(q).n ELSE 0
      /\ AudioWeight(q, i)[1] \in Int
  BY <1>1, <1>2 DEF AudioWeight
<1>4. /\ \A k \in 1 .. Len(p) : AudioWeight(p, i)[k] = AudioWeight(q, i)[k + 1]
      /\ Sums(Len(q), AudioWeight(q, i), s)
  BY <1>1 DEF AudioWeight, AudioDue
<1>5. AudioWeight(q, i) \in [1 .. Len(q) -> Int]
  BY <1>1 DEF AudioWeight, Audios
<1> DEFINE w == AudioWeight(q, i)
           v == AudioWeight(p, i)
           n == Len(p)
           l == Len(q)
<1>6. Sums(n, v, s - w[1]) /\ s \in Int
  <2>1. n \in Nat /\ l \in Nat /\ l = n + 1 /\ Sums(l, w, s) /\ w \in [1 .. l -> Int]
        /\ \A k \in 1 .. n : v[k] = w[k + 1]
    BY <1>1, <1>4, <1>5
  <2> HIDE DEF w, v, n, l
  <2>2. s \in Int
    BY <2>1, SumIsInt
  <2>3. Sums(n, v, s - w[1])
    BY <2>1, SumOfRest
  <2> QED
    BY <2>2, <2>3
<1> QED
  BY <1>3, <1>6 DEF AudioDue, p

LEMMA EmptySays ==
  ASSUME NEW i
  PROVE  /\ ~Mentions(<<>>, i) /\ (\A kind : ~Has(<<>>, kind, i)) /\ InTurn(<<>>, i)
         /\ TextDue(<<>>, i, 0) /\ AudioDue(<<>>, i, 0)
<1>1. DOMAIN <<>> = {} /\ Len(<<>>) = 0
  OBVIOUS
<1>2. ~Mentions(<<>>, i) /\ (\A kind : ~Has(<<>>, kind, i)) /\ InTurn(<<>>, i)
  BY <1>1 DEF Mentions, Has, InTurn
<1> QED
  BY <1>1, <1>2, SumOfNone DEF TextDue, AudioDue

LEMMA NothingDue ==
  ASSUME NEW S, NEW q \in Seq(S), NEW i, NEW s
  PROVE  /\ TextDue(q, i, s) /\ ~Has(q, "TEXT", i) => s = 0
         /\ AudioDue(q, i, s) /\ ~Has(q, "MIDDLE", i) => s = 0
         /\ ~Has(q, "TEXT", i) => \A k \in 1 .. Len(q) : TextWeight(q, i)[k] = 0
<1>1. Len(q) \in Nat /\ DOMAIN q = 1 .. Len(q)
  OBVIOUS
<1>2. ~Has(q, "TEXT", i) => \A k \in 1 .. Len(q) : TextWeight(q, i)[k] = 0
  BY <1>1 DEF Has, TextWeight
<1>3. ~Has(q, "MIDDLE", i) => \A k \in 1 .. Len(q) : AudioWeight(q, i)[k] = 0
  BY <1>1 DEF Has, AudioWeight
<1> QED
  BY <1>1, <1>2, <1>3, SumOfZeros DEF TextDue, AudioDue

-----------------------------------------------------------------------------
(* The invariant.                                                          *)

Chats == [at : {"idle", "begun", "stream", "tool", "close"}, own : Ids, id : Ids,
          depth : 0 .. MaxDepth, said : 0 .. Pieces]
TextStates == [at : {"idle", "synthesise", "last"}, cur : Ids, buffer : Nat, last : Ids]
Sends == [at : {"idle", "sending", "tail"}, kind : {"NONE", "MIDDLE", "LAST"}, id : Ids, n : Nat]
Senders == [id : Ids, queue : Seq(Packets), alive : BOOLEAN, count : Nat]

InputTypes ==
    /\ abort \in BOOLEAN /\ speaking \in BOOLEAN /\ silent \in BOOLEAN
    /\ asr \in {"idle", "interrupt", "announced"}
    /\ receive \in {"idle", "interrupt", "announced", "abort", "greeted", "reset"}
    /\ sid \in Ids /\ ids \in Ids /\ greeting \in Ids
    /\ submitted \in Nat /\ events \in 0 .. Events
    /\ device \in {"listening", "speaking", "left"}
ThreadTypes == chat \in Chats /\ text \in TextStates /\ send \in Sends /\ ctrl \in Senders
QueueTypes == textq \in Seq(Texts) /\ audioq \in Seq(Audios)
HeardTypes == owed \in [Ids -> Int] /\ latest \in Ids /\ marred \subseteq Ids
Types == InputTypes /\ ThreadTypes /\ QueueTypes /\ HeardTypes

\* Every sentence is paid for with an input, a greeting or the call of a tool.
Bit(b) == IF b THEN 1 ELSE 0
CountInv ==
    ids + submitted + Bit(chat.at \in {"begun", "tool"}) + Bit(asr # "idle")
      + Bit(receive \in {"interrupt", "announced"}) <= events

AllIds(q, n) == \A k \in DOMAIN q : q[k].id <= n
Named(q, plain) == \A k \in DOMAIN q : q[k].kind # plain => q[k].id > 0
\* The current sentence is the newest or none; an abort gives it up.
IdInv ==
    /\ sid \in {0, ids} /\ (abort => sid = 0 \/ sid \in marred)
    /\ \A i \in Ids : i > ids => owed[i] = 0
    /\ greeting <= ids /\ (greeting # 0 <=> receive = "greeted")
    /\ text.cur <= ids /\ text.last <= ids /\ send.id <= ids /\ ctrl.id <= ids /\ latest <= ids
    /\ AllIds(textq, ids) /\ AllIds(audioq, ids)

\* A chat speaks under its own sentence or under one that counts as given up.
ChatInv ==
    /\ chat.at \in {"idle", "begun"} => chat.own = 0 /\ chat.id = 0
    /\ chat.at \in {"stream", "tool", "close"} => chat.own > 0
    /\ chat.at = "tool" => chat.depth < MaxDepth
    /\ chat.own <= ids /\ chat.id <= ids /\ chat.id \in {chat.own} \cup marred

\* What the threads hold goes with where they are.
ThreadInv ==
    /\ text.at = "idle" => text.last = 0
    /\ text.at = "synthesise" => text.buffer > 0
    /\ text.at = "last" => text.last > 0 /\ text.buffer = 0
    /\ Named(textq, "TEXT") /\ Named(audioq, "MIDDLE")
    /\ send.at = "idle" => send.kind = "NONE"
    /\ send.at = "sending" => send.kind # "NONE"
    /\ send.at = "tail" => send.kind = "LAST"
    /\ send.kind = "LAST" => send.id > 0
    /\ ctrl.queue # <<>> => ctrl.count >= PreBuffer
    /\ \A k \in DOMAIN ctrl.queue : ctrl.queue[k].id = ctrl.id

\* What is heard next is not older than what is heard now: latest, the sender's
\* queue, the audio thread, its queue, the text thread.
Before(n) ==
    /\ latest <= n
    /\ ctrl.queue # <<>> => ctrl.id <= n
SendBefore(n) == send.kind = "MIDDLE" => send.id <= n
\* What a queue still has to say is not older, and not newer, than n; and in order.
From(q, n) == \A k \in DOMAIN q : q[k].kind = "MIDDLE" => n <= q[k].id
UpTo(q, n) == \A k \in DOMAIN q : q[k].kind = "MIDDLE" => q[k].id <= n
Sorted(q) ==
    \A j, k \in DOMAIN q :
        j < k /\ q[j].kind = "MIDDLE" /\ q[k].kind = "MIDDLE" => q[j].id <= q[k].id
OrderInv ==
    /\ Before(text.cur) /\ SendBefore(text.cur) /\ UpTo(audioq, text.cur)
    /\ ctrl.queue # <<>> => latest <= ctrl.id /\ From(audioq, ctrl.id)
    /\ send.kind = "MIDDLE" => Before(send.id) /\ From(audioq, send.id)
    /\ From(audioq, latest) /\ Sorted(audioq)

\* Nothing more will be said under the sentence.
Silent(q, own, greet, i) == own # i /\ greet # i /\ ~Mentions(q, i)
\* The sentence is opened before it is spoken, and not spoken behind its LAST.
OpenInv(q, cur, own, greet, i) ==
    /\ InTurn(q, i) /\ (Has(q, "FIRST", i) => cur # i)
    /\ Mentions(q, i) \/ own = i => cur = i \/ Has(q, "FIRST", i)
    /\ Has(q, "LAST", i) => own # i /\ greet # i
    /\ greet = i => cur # i /\ Silent(q, own, 0, i)
LastComes(a, s, i) == Has(a, "LAST", i) \/ (s.kind = "LAST" /\ s.id = i)
CloseInv(q, t, a, s, own, greet, i) ==
    /\ t.last = i \/ LastComes(a, s, i) => Silent(q, own, greet, i)
    /\ LastComes(a, s, i) => t.last # i /\ (t.cur = i => t.buffer = 0)
    /\ InTurn(a, i) /\ (s.kind = "LAST" /\ s.id = i => ~Mentions(a, i))
\* What was asked for and not heard is somewhere on its way.
InBuffer(t, i) == IF t.cur = i THEN t.buffer ELSE 0
InHand(s, i) == IF s.kind = "MIDDLE" /\ s.id = i THEN s.n ELSE 0
Account(q, t, a, s, c, o, i) ==
    \E x, y, z \in Int :
        /\ TextDue(q, i, x) /\ AudioDue(a, i, y) /\ AudioDue(c, i, z)
        /\ o = x + InBuffer(t, i) + y + InHand(s, i) + z
\* The sender that has something of the sentence is alive.
SenderInv(c, i) == c.queue # <<>> /\ c.id = i => c.alive
Sound(q, t, a, s, c, o, own, greet, i) ==
    /\ OpenInv(q, t.cur, own, greet, i) /\ CloseInv(q, t, a, s, own, greet, i)
    /\ Account(q, t, a, s, c.queue, o, i) /\ SenderInv(c, i)

Good == sid # 0 /\ sid \notin marred
GoodInv == Good => Sound(textq, text, audioq, send, ctrl, owed[sid], chat.own, greeting, sid)

IInv == /\ Types /\ CountInv /\ IdInv /\ ChatInv /\ ThreadInv
        /\ OrderInv /\ GoodInv

LEMMA Bounds ==
    Events \in Nat /\ MaxDepth \in Nat /\ Pieces \in Nat \ {0} /\ PreBuffer \in Nat
  BY ConnectionAssumption

-----------------------------------------------------------------------------
(* Types.                                                                  *)

LEMMA TypeFacts ==
  ASSUME Types
  PROVE  /\ 0 \in Ids /\ Ids \subseteq Nat
         /\ ids \in Ids /\ sid \in Ids /\ greeting \in Ids /\ latest \in Ids /\ owed \in [Ids -> Int]
         /\ chat \in Chats /\ chat.own \in Ids /\ chat.id \in Ids
         /\ text \in TextStates /\ text.cur \in Ids /\ text.last \in Ids /\ text.buffer \in Nat
         /\ send \in Sends /\ send.id \in Ids /\ send.n \in Nat
         /\ ctrl \in Senders /\ ctrl.id \in Ids /\ ctrl.queue \in Seq(Packets) /\ ctrl.count \in Nat
         /\ textq \in Seq(Texts) /\ audioq \in Seq(Audios)
<1>1. 0 \in Ids /\ Ids \subseteq Nat
  BY Bounds DEF Ids
<1>2. /\ ids \in Ids /\ sid \in Ids /\ greeting \in Ids /\ latest \in Ids /\ owed \in [Ids -> Int]
      /\ chat \in Chats /\ text \in TextStates /\ send \in Sends /\ ctrl \in Senders
      /\ textq \in Seq(Texts) /\ audioq \in Seq(Audios)
  BY DEF Types, InputTypes, ThreadTypes, HeardTypes, QueueTypes
<1>3. /\ chat.own \in Ids /\ chat.id \in Ids
      /\ text.cur \in Ids /\ text.last \in Ids /\ text.buffer \in Nat
      /\ send.id \in Ids /\ send.n \in Nat
      /\ ctrl.id \in Ids /\ ctrl.queue \in Seq(Packets) /\ ctrl.count \in Nat
  BY <1>2 DEF Chats, TextStates, Sends, Senders
<1> QED
  BY <1>1, <1>2, <1>3

LEMMA InitTypes == Init => Types
<1> SUFFICES ASSUME Init PROVE Types
  OBVIOUS
<1>1. /\ 0 \in Ids /\ Ids \subseteq Nat /\ 0 \in 0 .. MaxDepth /\ 0 \in 0 .. Pieces
      /\ 0 \in 0 .. Events /\ 0 \in Nat
  BY Bounds DEF Ids
<1>2. InputTypes
  <2>1. /\ abort = FALSE /\ speaking = FALSE /\ silent = FALSE /\ asr = "idle" /\ receive = "idle"
        /\ sid = 0 /\ ids = 0 /\ greeting = 0 /\ submitted = 0 /\ events = 0 /\ device = "listening"
    BY DEF Init
  <2> QED
    BY <1>1, <2>1 DEF InputTypes
<1>3. NoChat \in Chats /\ NoSend \in Sends /\ NoSender \in Senders
  BY <1>1 DEF NoChat, Chats, NoSend, Sends, NoSender, Senders
<1>4. ThreadTypes
  BY <1>1, <1>3 DEF Init, ThreadTypes, TextStates
<1>5. QueueTypes /\ HeardTypes
  BY <1>1 DEF Init, QueueTypes, HeardTypes
<1> QED
  BY <1>2, <1>4, <1>5 DEF Types

\* A new sentence has an id.
LEMMA FreshIsId ==
  ASSUME Types, CountInv,
         (chat.at \in {"begun", "tool"} /\ events' = events) \/ events < Events
  PROVE  Fresh \in Ids /\ Fresh = ids + 1 /\ ids \in Nat /\ 0 \in Ids
<1>1. /\ ids \in Nat /\ submitted \in Nat /\ events \in 0 .. Events /\ Events \in Nat
  BY Bounds DEF Types, InputTypes, Ids
<1>2. /\ Bit(asr # "idle") \in Nat /\ Bit(chat.at \in {"begun", "tool"}) \in Nat
      /\ Bit(receive \in {"interrupt", "announced"}) \in Nat
      /\ chat.at \in {"begun", "tool"} => Bit(chat.at \in {"begun", "tool"}) = 1
  BY DEF Bit
<1> QED
  BY <1>1, <1>2 DEF CountInv, Fresh, Ids

\* The greeting is one sentence.
LEMMA GreetingPuts ==
  ASSUME NEW q \in Seq(Texts), NEW i \in Ids
  PROVE  q \o [k \in 1 .. 3 |-> Piece(<<"FIRST", "TEXT", "LAST">>[k], i)] =
           Append(Append(Append(q, Piece("FIRST", i)), Piece("TEXT", i)), Piece("LAST", i))
<1> DEFINE f == Piece("FIRST", i)
           t == Piece("TEXT", i)
           l == Piece("LAST", i)
<1>1. [k \in 1 .. 3 |-> Piece(<<"FIRST", "TEXT", "LAST">>[k], i)] = <<f, t, l>>
  BY DEF Piece
<1>2. f \in Texts /\ t \in Texts /\ l \in Texts
  BY DEF Piece, Texts
<1> HIDE DEF f, t, l
<1>3. q \o <<f, t, l>> = Append(Append(Append(q, f), t), l)
  BY <1>2
<1> QED
  BY <1>1, <1>3 DEF f, t, l

LEMMA HandlerTypes == ASSUME Types, CountInv, Handler PROVE Types'
<1>1. /\ Ids \subseteq Nat /\ 0 \in Ids /\ NoSender \in Senders
      /\ chat.own \in Ids /\ chat.id \in Ids /\ sid \in Ids
  BY Bounds DEF Types, InputTypes, ThreadTypes, Chats, Ids, NoSender, Senders
<1>2. Counts => events' \in 0 .. Events
  BY Bounds DEF Counts, Types, InputTypes
<1>3. ClearsQueues => QueueTypes' /\ ctrl' \in Senders
  BY <1>1 DEF ClearsQueues, QueueTypes
<1>4. CASE Accepts
  BY <1>2, <1>4 DEF Accepts, AtStart, Types, InputTypes, ThreadTypes, QueueTypes, HeardTypes, heard
<1>5. CASE AcceptsAborting
  <2>1. QueueTypes' /\ ctrl' \in Senders /\ marred' \subseteq Ids
    BY <1>1, <1>3, <1>5 DEF AcceptsAborting, Aborts, GivesUpSpeech, Types, HeardTypes
  <2> QED
    BY <1>2, <1>5, <2>1 DEF AcceptsAborting, Aborts, GivesUpSpeech, AtStart, Types, InputTypes, ThreadTypes, HeardTypes, heard
<1>6. CASE Announces
  BY <1>6 DEF Announces, AtStart, Types, InputTypes, ThreadTypes, QueueTypes, HeardTypes, heard
<1>7. CASE Submits
  BY <1>7 DEF Submits, Enqueued, AtStart, Types, InputTypes, ThreadTypes, QueueTypes, HeardTypes, heard
<1>8. CASE Interrupts
  <2>1. QueueTypes' /\ ctrl' \in Senders /\ marred' \subseteq Ids
    BY <1>1, <1>3, <1>8 DEF Interrupts, Aborts, GivesUpSpeech, Types, HeardTypes
  <2> QED
    BY <1>2, <1>8, <2>1 DEF Interrupts, Aborts, GivesUpSpeech, AtReceive, Types, InputTypes, ThreadTypes, HeardTypes
<1>9. CASE AbortReturns
  BY <1>9 DEF AbortReturns, AtReceive, Types, InputTypes, ThreadTypes, QueueTypes, HeardTypes
<1>10. CASE Greets
  <2>1. Fresh \in Ids
    BY <1>10, FreshIsId DEF Greets, Counts
  <2> QED
    BY <1>2, <1>10, <2>1 DEF Greets, AtReceive, Types, InputTypes, ThreadTypes, QueueTypes, HeardTypes
<1>11. CASE GreetingQueued
  <2>1. greeting \in Ids /\ owed \in [Ids -> Int] /\ textq \in Seq(Texts)
    BY DEF Types, InputTypes, HeardTypes, QueueTypes
  <2>2. [i \in 1 .. 3 |-> Piece(<<"FIRST", "TEXT", "LAST">>[i], greeting)] \in Seq(Texts)
    <3>1. \A i \in 1 .. 3 : Piece(<<"FIRST", "TEXT", "LAST">>[i], greeting) \in Texts
      BY <2>1 DEF Piece, Texts
    <3> QED
      BY <3>1
  <2>3. textq' \in Seq(Texts) /\ owed' \in [Ids -> Int]
    BY <1>11, <2>1, <2>2 DEF GreetingQueued
  <2> QED
    BY <1>1, <1>11, <2>3 DEF GreetingQueued, AtReceive, Types, InputTypes, ThreadTypes, QueueTypes, HeardTypes
<1>12. CASE Resets
  <2>1. QueueTypes' /\ ctrl' \in Senders /\ marred' \subseteq Ids
    BY <1>1, <1>3, <1>12 DEF Resets, GivesUpSpeech, Types, HeardTypes
  <2> QED
    BY <1>1, <1>2, <1>12, <2>1 DEF Resets, GivesUpSpeech, AtReceive, Types, InputTypes, ThreadTypes, HeardTypes
<1>13. CASE ResetReturns
  BY <1>13 DEF ResetReturns, AtReceive, history, Types, InputTypes, ThreadTypes, QueueTypes, HeardTypes
<1> QED
  BY <1>4, <1>5, <1>6, <1>7, <1>8, <1>9, <1>10, <1>11, <1>12, <1>13
     DEF Handler, StartReturns, ReceiveReturns

\* What the chat thread puts is text, and what it counts are pieces.
LEMMA ChatPuts ==
  ASSUME Types, NEW i \in Ids
  PROVE  /\ \A kind \in {"FIRST", "TEXT", "LAST"} :
               Piece(kind, i) \in Texts /\ Append(textq, Piece(kind, i)) \in Seq(Texts)
         /\ Asks(i) => owed' \in [Ids -> Int]
         /\ Borrows(i) => marred' \subseteq Ids
<1>1. \A kind \in {"FIRST", "TEXT", "LAST"} : Piece(kind, i) \in Texts
  BY DEF Piece, Texts
<1>2. textq \in Seq(Texts)
  BY DEF Types, QueueTypes
<1>3. Asks(i) => owed' \in [Ids -> Int]
  BY DEF Asks, Types, HeardTypes
<1>4. Borrows(i) => marred' \subseteq Ids
  BY DEF Borrows, Types, HeardTypes
<1> QED
  BY <1>1, <1>2, <1>3, <1>4

\* One step of the response puts one piece of text and LAST, or less.
LEMMA LastPuts ==
  ASSUME Types
  PROVE  /\ Piece("TEXT", chat.id) \in Texts /\ Piece("LAST", chat.own) \in Texts
         /\ chat.depth = 0 => Last = <<Piece("LAST", chat.own)>>
         /\ chat.depth # 0 => Last = <<>>
         /\ \A q \in Seq(Texts) :
               q \o Last = IF chat.depth = 0 THEN Append(q, Piece("LAST", chat.own)) ELSE q
         /\ \A q \in Seq(Texts) :
               q \o <<Piece("TEXT", chat.id)>> \o Last = Append(q, Piece("TEXT", chat.id)) \o Last
<1>1. chat.id \in Ids /\ chat.own \in Ids
  BY DEF Types, ThreadTypes, Chats
<1>2. Piece("TEXT", chat.id) \in Texts /\ Piece("LAST", chat.own) \in Texts
  BY <1>1 DEF Piece, Texts
<1>3. (chat.depth = 0 => Last = <<Piece("LAST", chat.own)>>) /\ (chat.depth # 0 => Last = <<>>)
  BY DEF Last
<1>4. ASSUME NEW q \in Seq(Texts), NEW x \in Texts PROVE q \o <<x>> = Append(q, x) /\ q \o <<>> = q
  OBVIOUS
<1> QED
  BY <1>2, <1>3, <1>4

LEMMA PutsLast ==
  ASSUME Types, NEW q \in Seq(Texts)
  PROVE  /\ q \o Last \in Seq(Texts)
         /\ q \o Last = IF chat.depth = 0 THEN Append(q, Piece("LAST", chat.own)) ELSE q
<1>1. Append(q, Piece("LAST", chat.own)) \in Seq(Texts)
  BY LastPuts, Appended
<1>2. q \o Last = IF chat.depth = 0 THEN Append(q, Piece("LAST", chat.own)) ELSE q
  BY LastPuts
<1> QED
  BY <1>1, <1>2

LEMMA ChatTypes == ASSUME Types, CountInv, ChatInv, Chat PROVE Types'
<1>1. /\ Ids \subseteq Nat /\ 0 \in Ids /\ NoChat \in Chats
      /\ chat \in Chats /\ chat.own \in Ids /\ chat.id \in Ids /\ sid \in Ids /\ textq \in Seq(Texts)
  BY Bounds DEF Types, InputTypes, ThreadTypes, QueueTypes, Chats, Ids, NoChat
<1>2. LeavesCall => chat' \in Chats
  BY <1>1 DEF LeavesCall, Chats
<1>3. CASE ChatBegins
  <2>1. chat' \in Chats /\ submitted' \in Nat
    BY <1>1, <1>3 DEF ChatBegins, NoChat, Chats, Types, InputTypes
  <2> QED
    BY <1>3, <2>1 DEF ChatBegins, AtChat, Types, InputTypes, ThreadTypes, QueueTypes, HeardTypes
<1>4. CASE ChatOpens
  <2>1. Fresh \in Ids
    BY <1>4, FreshIsId DEF ChatOpens, AtChat
  <2>2. chat' \in Chats
    BY <1>1, <1>4, <2>1 DEF ChatOpens, NoChat, Chats
  <2>3. textq' \in Seq(Texts) /\ marred' \subseteq Ids
    BY <1>4, <2>1, ChatPuts DEF ChatOpens, Types, HeardTypes
  <2> QED
    BY <1>4, <2>1, <2>2, <2>3 DEF ChatOpens, AtChat, Types, InputTypes, ThreadTypes, QueueTypes, HeardTypes
<1>5. CASE ChatStreams
  <2>1. chat' \in Chats
    <3>1. chat.said + 1 \in 0 .. Pieces
      BY <1>1, <1>5, Bounds DEF ChatStreams, Chats
    <3> QED
      BY <1>1, <1>5, <3>1 DEF ChatStreams, Chats
  <2>2. textq' \in Seq(Texts) /\ owed' \in [Ids -> Int]
    BY <1>1, <1>5, ChatPuts DEF ChatStreams
  <2> QED
    BY <1>5, <2>1, <2>2 DEF ChatStreams, AtChat, Types, InputTypes, ThreadTypes, QueueTypes, HeardTypes
<1>6. CASE ChatAnswers
  <2>1. textq' \in Seq(Texts) /\ owed' \in [Ids -> Int]
    <3>1. CASE textq' = textq \o Last /\ UNCHANGED owed
      BY <1>1, <3>1, PutsLast DEF Types, HeardTypes
    <3>2. CASE textq' = EmptySaid /\ Asks(chat.id)
      <4>1. Append(textq, Piece("TEXT", chat.id)) \in Seq(Texts)
        BY <1>1, ChatPuts
      <4>2. Append(textq, Piece("TEXT", chat.id)) \o Last \in Seq(Texts)
        BY <4>1, PutsLast
      <4> QED
        BY <1>1, <3>2, <4>2, LastPuts, ChatPuts DEF EmptySaid
    <3> QED
      BY <1>6, <3>1, <3>2 DEF ChatAnswers
  <2> QED
    BY <1>2, <1>6, <2>1 DEF ChatAnswers, AtChat, Types, InputTypes, ThreadTypes, QueueTypes, HeardTypes
<1>7. CASE ChatFails
  <2>1. textq' \in Seq(Texts) /\ owed' \in [Ids -> Int]
    <3>1. Append(textq, Piece("TEXT", chat.id)) \in Seq(Texts)
      BY <1>1, ChatPuts
    <3>2. Append(textq, Piece("TEXT", chat.id)) \o Last \in Seq(Texts)
      BY <3>1, PutsLast
    <3> QED
      BY <1>1, <1>7, <3>2, LastPuts, ChatPuts DEF ChatFails, FailureSaid
  <2> QED
    BY <1>2, <1>7, <2>1 DEF ChatFails, AtChat, Types, InputTypes, ThreadTypes, QueueTypes, HeardTypes
<1>8. CASE ChatAborted
  BY <1>2, <1>8 DEF ChatAborted, AtChat, Types, InputTypes, ThreadTypes, QueueTypes, HeardTypes
<1>9. CASE ChatCalls
  <2>1. chat' \in Chats
    BY <1>1, <1>9 DEF ChatCalls, Chats
  <2>2. events' \in 0 .. Events
    BY <1>9, Bounds DEF ChatCalls, Counts, Types, InputTypes
  <2> QED
    BY <1>9, <2>1, <2>2 DEF ChatCalls, shared, heard, history, Types, InputTypes, ThreadTypes, QueueTypes, HeardTypes
<1>10. CASE ToolSpeaks
  <2> DEFINE i == IF sid = 0 THEN Fresh ELSE sid
  <2>1. i \in Ids /\ Fresh \in Ids
    BY <1>1, <1>10, FreshIsId DEF ToolSpeaks, AtChat
  <2>2. /\ sid' = i /\ ids' = (IF sid = 0 THEN Fresh ELSE ids)
        /\ textq' = Append(textq, Piece("TEXT", i)) /\ Asks(i) /\ Borrows(i)
    BY <1>10 DEF ToolSpeaks
  <2> HIDE DEF i
  <2>3. textq' \in Seq(Texts) /\ owed' \in [Ids -> Int] /\ marred' \subseteq Ids
    BY <2>1, <2>2, ChatPuts
  <2>4. chat' \in Chats /\ sid' \in Ids /\ ids' \in Ids
    BY <1>1, <1>10, <2>1, <2>2 DEF ToolSpeaks, Chats, Types, InputTypes
  <2> QED
    BY <1>10, <2>3, <2>4 DEF ToolSpeaks, AtChat, Types, InputTypes, ThreadTypes, QueueTypes, HeardTypes
<1>11. CASE ToolContinues
  <2>1. marred' \subseteq Ids
    BY <1>1, <1>11, ChatPuts DEF ToolContinues
  <2>2. chat.depth \in 0 .. MaxDepth /\ chat.depth < MaxDepth /\ 0 \in 0 .. Pieces
    BY <1>1, <1>11, Bounds DEF ToolContinues, AtChat, ChatInv, Chats
  <2>3. chat.depth + 1 \in 0 .. MaxDepth
    BY <2>2, Bounds
  <2>4. chat' \in Chats
    BY <1>1, <1>11, <2>2, <2>3 DEF ToolContinues, Chats
  <2> QED
    BY <1>11, <2>1, <2>4 DEF ToolContinues, AtChat, Types, InputTypes, ThreadTypes, QueueTypes, HeardTypes
<1>12. CASE ChatCloses
  <2>1. textq' \in Seq(Texts)
    BY <1>1, <1>12, ChatPuts DEF ChatCloses
  <2> QED
    BY <1>1, <1>12, <2>1 DEF ChatCloses, AtChat, Types, InputTypes, ThreadTypes, QueueTypes, HeardTypes
<1> QED
  BY <1>3, <1>4, <1>5, <1>6, <1>7, <1>8, <1>9, <1>10, <1>11, <1>12 DEF Chat

LEMMA TextTypes == ASSUME Types, Text PROVE Types'
<1>1. /\ text \in TextStates /\ text.cur \in Ids /\ text.buffer \in Nat /\ text.last \in Ids
      /\ textq \in Seq(Texts) /\ audioq \in Seq(Audios) /\ 0 \in Ids /\ 0 \in Nat
  BY Bounds DEF Types, ThreadTypes, QueueTypes, TextStates, Ids
<1>2. CASE TextTakes
  <2>1. textq' \in Seq(Texts) /\ Head(textq) \in Texts
    BY <1>1, <1>2, Rest DEF TextTakes
  <2>2. Head(textq).id \in Ids
    BY <2>1 DEF Texts
  <2>3. text' \in TextStates
    <3>1. CASE UNCHANGED text
      BY <1>1, <3>1
    <3>2. CASE text' = [text EXCEPT !.cur = Head(textq).id, !.buffer = 0]
      BY <1>1, <2>2, <3>2 DEF TextStates
    <3>3. CASE \E at \in {"idle", "synthesise"} : text' = [text EXCEPT !.buffer = @ + 1, !.at = at]
      <4>1. text.buffer + 1 \in Nat
        BY <1>1
      <4> QED
        BY <1>1, <3>3, <4>1 DEF TextStates
    <3>4. CASE text' = [text EXCEPT !.last = Head(textq).id,
                          !.at = IF HasRest THEN "synthesise" ELSE "last"]
      BY <1>1, <2>2, <3>4 DEF TextStates
    <3> QED
      BY <1>2, <3>1, <3>2, <3>3, <3>4 DEF TextTakes
  <2> QED
    BY <1>2, <2>1, <2>3 DEF TextTakes, AtText, shared, heard, Types, InputTypes, ThreadTypes, QueueTypes, HeardTypes
<1>3. CASE Synthesises
  <2>1. text' \in TextStates
    BY <1>1, <1>3 DEF Synthesises, TextStates
  <2>2. audioq' \in Seq(Audios) /\ marred' \subseteq Ids
    <3>1. Audio("MIDDLE", text.cur, text.buffer) \in Audios
      BY <1>1 DEF Audio, Audios
    <3>2. Enqueues => audioq' \in Seq(Audios) /\ marred' \subseteq Ids
      BY <1>1, <3>1 DEF Enqueues, Types, HeardTypes
    <3>3. GivesUp => audioq' \in Seq(Audios) /\ marred' \subseteq Ids
      BY <1>1 DEF GivesUp, Types, HeardTypes
    <3> QED
      BY <1>3, <3>2, <3>3 DEF Synthesises, FromSoundbank, FromProvider
  <2> QED
    BY <1>3, <2>1, <2>2 DEF Synthesises, AtText, shared, heard, Types, InputTypes, ThreadTypes, QueueTypes, HeardTypes
<1>4. CASE TextEnds
  <2>1. Audio("LAST", text.last, 0) \in Audios
    BY <1>1 DEF Audio, Audios
  <2>2. text' \in TextStates
    BY <1>1, <1>4 DEF TextEnds, TextStates
  <2>3. audioq' \in Seq(Audios)
    BY <1>1, <1>4, <2>1, Appended DEF TextEnds
  <2> QED
    BY <1>4, <2>2, <2>3 DEF TextEnds, AtText, shared, heard, Types, InputTypes, ThreadTypes, QueueTypes, HeardTypes
<1> QED
  BY <1>2, <1>3, <1>4 DEF Text

\* What is heard is taken off the account.
LEMMA HearsTypes ==
  ASSUME Types, NEW i \in Ids, NEW n \in Nat, Hears(i, n)
  PROVE  owed' \in [Ids -> Int] /\ latest' = i /\ owed' = [owed EXCEPT ![i] = @ - n]
  BY DEF Hears, Types, HeardTypes

\* The controller of the current sentence.
LEMMA ControllerIs ==
  ASSUME Types
  PROVE  /\ Controller \in Senders /\ (NeedsReset => Controller.queue = <<>> /\ Controller.alive
                                                      /\ Controller.id = sid /\ Controller.count = 0)
         /\ ~NeedsReset => Controller = ctrl /\ ctrl.alive /\ ctrl.id = sid
<1>1. sid \in Ids /\ ctrl \in Senders
  BY DEF Types, InputTypes, ThreadTypes
<1>2. <<>> \in Seq(Packets) /\ 0 \in Nat
  OBVIOUS
<1> QED
  BY <1>1, <1>2 DEF Controller, NeedsReset, Senders

LEMMA PlaybackTypes == ASSUME Types, Playback \/ SenderSends PROVE Types'
<1>1. /\ Ids \subseteq Nat /\ 0 \in Ids /\ NoSend \in Sends /\ NoSender \in Senders
      /\ send \in Sends /\ send.id \in Ids /\ send.n \in Nat /\ ctrl \in Senders
      /\ audioq \in Seq(Audios) /\ Controller \in Senders
  BY Bounds, ControllerIs DEF Types, ThreadTypes, QueueTypes, Sends, Senders, Ids, NoSend, NoSender
<1>2. CASE AudioTakes
  <2>1. audioq' \in Seq(Audios) /\ Head(audioq) \in Audios
    BY <1>1, <1>2, Rest DEF AudioTakes
  <2>2. send' \in Sends
    BY <1>1, <1>2, <2>1 DEF AudioTakes, Audios, Sends
  <2> QED
    BY <1>2, <2>1, <2>2 DEF AudioTakes, AtSend, heard, history, Types, InputTypes, ThreadTypes, QueueTypes, HeardTypes
<1>3. CASE SendSkips
  BY <1>1, <1>3 DEF SendSkips, AtSend, heard, history, Types, InputTypes, ThreadTypes, QueueTypes, HeardTypes
<1>4. CASE SendsAudio
  <2>1. ctrl' \in Senders /\ owed' \in [Ids -> Int] /\ latest' \in Ids
    <3>1. CASE ctrl' = Controller /\ UNCHANGED heard
      BY <1>1, <3>1 DEF heard, Types, HeardTypes
    <3>2. CASE ctrl' = [Controller EXCEPT !.count = @ + 1] /\ Hears(send.id, send.n)
      <4> DEFINE c == Controller
      <4>1. c \in Senders /\ c.count + 1 \in Nat /\ ctrl' = [c EXCEPT !.count = @ + 1]
        BY <1>1, <3>2 DEF Senders
      <4> HIDE DEF c
      <4>2. ctrl' \in Senders
        BY <4>1 DEF Senders
      <4> QED
        BY <1>1, <3>2, <4>2, HearsTypes
    <3>3. CASE /\ ctrl' = [Controller EXCEPT !.queue = Append(@, Audio("MIDDLE", send.id, send.n))]
               /\ UNCHANGED heard
      <4>1. Audio("MIDDLE", send.id, send.n) \in Packets
        BY <1>1 DEF Audio, Packets
      <4>2. Append(Controller.queue, Audio("MIDDLE", send.id, send.n)) \in Seq(Packets)
        BY <1>1, <4>1 DEF Senders
      <4> QED
        BY <1>1, <3>3, <4>2 DEF heard, Types, HeardTypes, Senders
    <3> QED
      BY <1>4, <3>1, <3>2, <3>3 DEF SendsAudio
  <2> QED
    BY <1>1, <1>4, <2>1 DEF SendsAudio, AtSend, history, Types, InputTypes, ThreadTypes, QueueTypes, HeardTypes
<1>5. CASE SendsLast
  <2>1. send' \in Sends
    BY <1>1, <1>5 DEF SendsLast, Sends
  <2> QED
    BY <1>5, <2>1 DEF SendsLast, AtSend, heard, history, Types, InputTypes, ThreadTypes, QueueTypes, HeardTypes
<1>6. CASE Stops
  <2>1. speaking' \in BOOLEAN /\ ctrl' \in Senders /\ device' \in {"listening", "speaking", "left"}
    BY <1>1, <1>6 DEF Stops, Types, InputTypes
  <2> QED
    BY <1>1, <1>6, <2>1 DEF Stops, AtSend, heard, history, Types, InputTypes, ThreadTypes, QueueTypes, HeardTypes
<1>7. CASE SenderSends
  <2>1. /\ ctrl.queue \in Seq(Packets) /\ ctrl.queue # <<>> /\ abort \in BOOLEAN
    BY <1>1, <1>7 DEF SenderSends, Senders, Types, InputTypes
  <2>2. Tail(ctrl.queue) \in Seq(Packets) /\ Head(ctrl.queue) \in Packets
    BY <2>1, Rest
  <2>3. ctrl' \in Senders
    BY <1>1, <1>7, <2>1, <2>2 DEF SenderSends, Senders
  <2>4. owed' \in [Ids -> Int] /\ latest' \in Ids
    <3>1. Head(ctrl.queue).id \in Ids /\ Head(ctrl.queue).n \in Nat
      BY <2>2 DEF Packets
    <3> QED
      BY <1>7, <3>1, HearsTypes DEF SenderSends, heard, Types, HeardTypes
  <2> QED
    BY <1>7, <2>3, <2>4 DEF SenderSends, shared, history, Types, InputTypes, ThreadTypes, QueueTypes, HeardTypes
<1> QED
  BY <1>2, <1>3, <1>4, <1>5, <1>6, <1>7 DEF Playback

-----------------------------------------------------------------------------
(* Identities and positions.                                               *)

LEMMA AppendIds ==
  ASSUME NEW S, NEW q \in Seq(S), NEW x \in S, NEW n
  PROVE  AllIds(Append(q, x), n) <=> AllIds(q, n) /\ x.id <= n
<1> DEFINE p == Append(q, x)
<1>1. /\ Len(q) \in Nat /\ DOMAIN q = 1 .. Len(q) /\ DOMAIN p = 1 .. Len(q) + 1
      /\ p[Len(q) + 1] = x /\ \A k \in 1 .. Len(q) : p[k] = q[k]
  BY Appended
<1> HIDE DEF p
<1>2. /\ \A k \in DOMAIN p : (k \in DOMAIN q /\ p[k] = q[k]) \/ (k = Len(q) + 1 /\ p[k] = x)
      /\ Len(q) + 1 \in DOMAIN p /\ \A k \in DOMAIN q : k \in DOMAIN p /\ p[k] = q[k]
  BY <1>1
<1>3. AllIds(p, n) => AllIds(q, n) /\ x.id <= n
  BY <1>1, <1>2 DEF AllIds
<1>4. AllIds(q, n) /\ x.id <= n => AllIds(p, n)
  BY <1>2 DEF AllIds
<1> QED
  BY <1>3, <1>4 DEF p

LEMMA AppendNames ==
  ASSUME NEW S, NEW q \in Seq(S), NEW x \in S, NEW plain
  PROVE  Named(Append(q, x), plain) <=> Named(q, plain) /\ (x.kind # plain => x.id > 0)
<1> DEFINE p == Append(q, x)
<1>1. /\ Len(q) \in Nat /\ DOMAIN q = 1 .. Len(q) /\ DOMAIN p = 1 .. Len(q) + 1
      /\ p[Len(q) + 1] = x /\ \A k \in 1 .. Len(q) : p[k] = q[k]
  BY Appended
<1> HIDE DEF p
<1>2. /\ \A k \in DOMAIN p : (k \in DOMAIN q /\ p[k] = q[k]) \/ (k = Len(q) + 1 /\ p[k] = x)
      /\ Len(q) + 1 \in DOMAIN p /\ \A k \in DOMAIN q : k \in DOMAIN p /\ p[k] = q[k]
  BY <1>1
<1>3. Named(p, plain) => Named(q, plain) /\ (x.kind # plain => x.id > 0)
  BY <1>1, <1>2 DEF Named
<1>4. Named(q, plain) /\ (x.kind # plain => x.id > 0) => Named(p, plain)
  BY <1>2 DEF Named
<1> QED
  BY <1>3, <1>4 DEF p

LEMMA TailIds ==
  ASSUME NEW S, NEW q \in Seq(S), q # <<>>
  PROVE  /\ \A n : AllIds(q, n) => AllIds(Tail(q), n) /\ Head(q).id <= n
         /\ \A plain : Named(q, plain) => Named(Tail(q), plain) /\ (Head(q).kind # plain => Head(q).id > 0)
<1> DEFINE p == Tail(q)
<1>1. /\ Len(p) \in Nat /\ DOMAIN q = 1 .. Len(p) + 1 /\ DOMAIN p = 1 .. Len(p)
      /\ Head(q) = q[1] /\ \A k \in 1 .. Len(p) : p[k] = q[k + 1]
  BY Rest
<1> HIDE DEF p
<1>2. 1 \in DOMAIN q /\ \A k \in DOMAIN p : k + 1 \in DOMAIN q /\ p[k] = q[k + 1]
  BY <1>1
<1>3. \A n : AllIds(q, n) => AllIds(p, n) /\ Head(q).id <= n
  BY <1>1, <1>2 DEF AllIds
<1>4. \A plain : Named(q, plain) => Named(p, plain) /\ (Head(q).kind # plain => Head(q).id > 0)
  BY <1>1, <1>2 DEF Named
<1> QED
  BY <1>3, <1>4 DEF p

LEMMA EmptyIds == (\A n : AllIds(<<>>, n)) /\ (\A plain : Named(<<>>, plain))
  BY DEF AllIds, Named

LEMMA GreaterIds ==
  ASSUME NEW q \in Seq(Texts) \cup Seq(Audios), NEW n \in Nat, NEW m \in Nat, n <= m, AllIds(q, n)
  PROVE  AllIds(q, m)
<1>1. CASE q \in Seq(Texts)
  <2>1. \A k \in DOMAIN q : q[k] \in Texts
    BY <1>1
  <2> QED
    BY <2>1 DEF AllIds, Texts, Ids
<1>2. CASE q \in Seq(Audios)
  <2>1. \A k \in DOMAIN q : q[k] \in Audios
    BY <1>2
  <2> QED
    BY <2>1 DEF AllIds, Audios, Ids
<1> QED
  BY <1>1, <1>2

LEMMA CountStep ==
  ASSUME Types, CountInv, Next
  PROVE  CountInv'
<1>1. ids \in Nat /\ submitted \in Nat /\ events \in Nat /\ sid \in Nat
  BY DEF Types, InputTypes, Ids
<1> DEFINE c == Bit(chat.at \in {"begun", "tool"})
           a == Bit(asr # "idle")
           b == Bit(receive \in {"interrupt", "announced"})
<1>2. c \in {0, 1} /\ a \in {0, 1} /\ b \in {0, 1} /\ ids + submitted + c + a + b <= events
  BY DEF CountInv, Bit
<1>3. UNCHANGED <<ids, submitted, chat, asr, receive, events>> => CountInv'
  BY DEF CountInv
<1>4. CASE Accepts \/ AcceptsAborting
  <2>1. /\ a + b + 1 = a' + b' /\ c' = c /\ ids' = ids /\ submitted' = submitted /\ events' = events + 1
        /\ a' \in {0, 1} /\ b' \in {0, 1}
    BY <1>4 DEF Accepts, AcceptsAborting, AtStart, Counts, Bit
  <2> QED
    BY <1>1, <1>2, <2>1 DEF CountInv
<1>5. CASE Announces
  <2>1. a' = a /\ b' = b /\ c' = c /\ ids' = ids /\ submitted' = submitted /\ events' = events
    BY <1>5 DEF Announces, AtStart, Bit
  <2> QED
    BY <1>1, <1>2, <2>1 DEF CountInv
<1>6. CASE Submits
  <2>1. /\ a + b = a' + b' + 1 /\ c' = c /\ ids' = ids /\ submitted' = submitted + 1 /\ events' = events
        /\ a' \in {0, 1} /\ b' \in {0, 1}
    BY <1>6 DEF Submits, Enqueued, AtStart, Bit
  <2> QED
    BY <1>1, <1>2, <2>1 DEF CountInv
<1>7. CASE Interrupts \/ Greets \/ Resets
  <2>1. /\ a' \in {0, a} /\ b' = b /\ c' = c /\ ids' \in {ids, ids + 1} /\ submitted' = submitted
        /\ events' = events + 1
    BY <1>7 DEF Interrupts, Greets, Resets, Fresh, AtReceive, Counts, Bit
  <2> QED
    BY <1>1, <1>2, <2>1 DEF CountInv
<1>8. CASE ReceiveReturns
  <2>1. /\ a' \in {0, a} /\ b' = b /\ c' = c /\ ids' = ids /\ submitted' = submitted /\ events' = events
    BY <1>8 DEF ReceiveReturns, AbortReturns, GreetingQueued, ResetReturns, AtReceive, history, Bit
  <2> QED
    BY <1>1, <1>2, <2>1 DEF CountInv
<1>9. CASE ChatBegins
  <2>1. c = 0 /\ c' = 1 /\ a' = a /\ b' = b /\ ids' = ids /\ submitted' = submitted - 1 /\ events' = events
    BY <1>9 DEF ChatBegins, NoChat, AtChat, Bit
  <2> QED
    BY <1>1, <1>2, <2>1 DEF CountInv
<1>10. CASE ChatOpens
  <2>1. c = 1 /\ c' = 0 /\ a' = a /\ b' = b /\ ids' = ids + 1 /\ submitted' = submitted /\ events' = events
    BY <1>10 DEF ChatOpens, Fresh, NoChat, AtChat, Bit
  <2> QED
    BY <1>1, <1>2, <2>1 DEF CountInv
<1>11. CASE ChatStreams \/ ChatAnswers \/ ChatFails \/ ChatAborted \/ ChatCloses
  <2>1. c' = 0 /\ a' = a /\ b' = b /\ ids' = ids /\ submitted' = submitted /\ events' = events
    <3>1. chat'.at \in {"stream", "close", "idle"}
      BY <1>11 DEF Types, ThreadTypes, Chats, ChatStreams, ChatAnswers, ChatFails, ChatAborted, ChatCloses, LeavesCall, NoChat, AtChat
    <3> QED
      BY <1>11, <3>1 DEF ChatStreams, ChatAnswers, ChatFails, ChatAborted, ChatCloses, AtChat, Bit
  <2> QED
    BY <1>1, <1>2, <2>1 DEF CountInv
<1>12. CASE ChatCalls
  <2>1. c' \in {0, 1} /\ c = 0 /\ a' = a /\ b' = b /\ ids' = ids /\ submitted' = submitted /\ events' = events + 1
    BY <1>12 DEF ChatCalls, Counts, Bit
  <2> QED
    BY <1>1, <1>2, <2>1 DEF CountInv
<1>13. CASE ToolSpeaks \/ ToolContinues
  <2>1. c = 1 /\ a' = a /\ b' = b /\ ids' \in {ids, ids + 1} /\ submitted' = submitted /\ events' = events
    BY <1>13 DEF ToolSpeaks, ToolContinues, Fresh, AtChat, Bit
  <2>2. c' = 0
    BY <1>13 DEF Types, ThreadTypes, Chats, ToolSpeaks, ToolContinues, AtChat, Bit
  <2> QED
    BY <1>1, <1>2, <2>1, <2>2 DEF CountInv
<1>14. CASE Text
  BY <1>3, <1>14 DEF Text, TextTakes, Synthesises, TextEnds, AtText
<1>15. CASE Playback
  BY <1>3, <1>15 DEF Playback, AudioTakes, SendSkips, SendsAudio, SendsLast, Stops, AtSend
<1>16. CASE SenderSends
  BY <1>3, <1>16 DEF SenderSends
<1> QED
  BY <1>4, <1>5, <1>6, <1>7, <1>8, <1>9, <1>10, <1>11, <1>12, <1>13, <1>14, <1>15, <1>16
     DEF Next, Handler, StartReturns, Chat

\* A message of a sentence at the end of the queue of text.
LEMMA PutIds ==
  ASSUME NEW q \in Seq(Texts), NEW i \in Ids, NEW kind \in {"FIRST", "TEXT", "LAST"}, NEW n
  PROVE  /\ Piece(kind, i) \in Texts /\ Append(q, Piece(kind, i)) \in Seq(Texts)
         /\ AllIds(Append(q, Piece(kind, i)), n) <=> AllIds(q, n) /\ i <= n
<1>1. Piece(kind, i) \in Texts /\ Piece(kind, i).id = i
  BY DEF Piece, Texts
<1>2. Append(q, Piece(kind, i)) \in Seq(Texts)
  BY <1>1
<1>3. AllIds(Append(q, Piece(kind, i)), n) <=> AllIds(q, n) /\ Piece(kind, i).id <= n
  BY <1>1, AppendIds
<1> QED
  BY <1>1, <1>2, <1>3

\* What is put under a sentence that there is.
LEMMA AskedIds ==
  ASSUME Types, IdInv, NEW i \in Ids, NEW m \in {ids, ids + 1}, i <= m, i \in {sid} \cup 0 .. m
  PROVE  /\ Asks(i) => \A j \in Ids : j > m => owed'[j] = 0
         /\ \A kind : AllIds(textq, m) /\ Piece(kind, i).id = i
<1>1. /\ owed \in [Ids -> Int] /\ ids \in Nat /\ Ids \subseteq Nat /\ textq \in Seq(Texts)
      /\ \A j \in Ids : j > ids => owed[j] = 0
  BY DEF Types, InputTypes, HeardTypes, QueueTypes, Ids, IdInv
<1>2. Asks(i) => \A j \in Ids : j > m => owed'[j] = 0
  BY <1>1 DEF Asks
<1>3. AllIds(textq, m)
  BY <1>1, GreaterIds DEF IdInv
<1> QED
  BY <1>2, <1>3 DEF Piece

LEMMA HandlerIds == ASSUME Types, CountInv, IdInv, Handler PROVE IdInv'
<1>1. /\ ids \in Nat /\ Ids \subseteq Nat /\ 0 \in Ids /\ greeting \in Nat /\ text.cur \in Nat /\ text.last \in Nat
      /\ send.id \in Nat /\ ctrl.id \in Nat /\ latest \in Nat
  BY TypeFacts
<1>2. ClearsQueues => AllIds(textq, ids)' /\ AllIds(audioq, ids)' /\ ctrl'.id = 0
  BY EmptyIds DEF ClearsQueues, NoSender
<1>3. CASE Accepts \/ Announces \/ Submits
  BY <1>3 DEF Accepts, Announces, Submits, AtStart, heard, IdInv
<1>4. CASE AcceptsAborting
  BY <1>1, <1>2, <1>4 DEF AcceptsAborting, Aborts, GivesUpSpeech, AtStart, heard, IdInv
<1>5. CASE Interrupts
  BY <1>1, <1>2, <1>5 DEF Interrupts, Aborts, GivesUpSpeech, AtReceive, heard, IdInv
<1>6. CASE Resets
  BY <1>1, <1>2, <1>6 DEF Resets, GivesUpSpeech, AtReceive, heard, IdInv
<1>7. CASE AbortReturns \/ ResetReturns
  BY <1>1, <1>7 DEF AbortReturns, ResetReturns, AtReceive, heard, history, IdInv
<1>8. CASE Greets
  <2>1. Fresh \in Ids /\ Fresh = ids + 1
    BY <1>8, FreshIsId DEF Greets, Counts
  <2>2. AllIds(textq, Fresh) /\ AllIds(audioq, Fresh)
    BY <1>1, <2>1, GreaterIds DEF Types, QueueTypes, IdInv
  <2>3. /\ receive = "idle" /\ receive' = "greeted" /\ abort' = FALSE /\ sid' = Fresh /\ ids' = Fresh
        /\ greeting' = Fresh /\ UNCHANGED <<textq, audioq, text, send, ctrl, owed, latest, marred>>
    BY <1>8 DEF Greets, AtReceive
  <2> QED
    BY <1>1, <2>1, <2>2, <2>3 DEF IdInv
<1>9. CASE GreetingQueued
  <2>1. greeting \in Ids /\ greeting <= ids /\ textq \in Seq(Texts) /\ AllIds(textq, ids)
    BY DEF Types, InputTypes, QueueTypes, IdInv
  <2> DEFINE q1 == Append(textq, Piece("FIRST", greeting))
             q2 == Append(q1, Piece("TEXT", greeting))
  <2>2. textq' = Append(q2, Piece("LAST", greeting))
    BY <1>9, <2>1, GreetingPuts DEF GreetingQueued
  <2>3. q1 \in Seq(Texts) /\ AllIds(q1, ids)
    BY <2>1, PutIds
  <2>5. q2 \in Seq(Texts) /\ AllIds(q2, ids)
    BY <2>1, <2>3, PutIds
  <2> HIDE DEF q1, q2
  <2>6. AllIds(textq', ids)
    BY <2>1, <2>2, <2>5, PutIds
  <2>7. \A j \in Ids : j > ids => owed'[j] = 0
    BY <1>1, <1>9, <2>1 DEF GreetingQueued, IdInv, Types, HeardTypes
  <2>8. /\ receive' = "idle" /\ greeting' = 0
        /\ UNCHANGED <<abort, sid, ids, audioq, text, send, ctrl, latest, marred>>
    BY <1>9 DEF GreetingQueued, AtReceive, history
  <2> QED
    BY <1>1, <2>6, <2>7, <2>8 DEF IdInv
<1> QED
  BY <1>3, <1>4, <1>5, <1>6, <1>7, <1>8, <1>9 DEF Handler, StartReturns, ReceiveReturns

LEMMA ChatIds == ASSUME Types, CountInv, IdInv, ChatInv, Chat PROVE IdInv'
<1>1. /\ ids \in Nat /\ Ids \subseteq Nat /\ 0 \in Ids /\ greeting \in Nat /\ text.cur \in Nat /\ text.last \in Nat
      /\ send.id \in Nat /\ ctrl.id \in Nat /\ latest \in Nat /\ textq \in Seq(Texts)
      /\ chat.own \in Ids /\ chat.id \in Ids /\ chat.own <= ids /\ chat.id <= ids /\ sid \in Ids /\ sid \in {0, ids}
      /\ AllIds(textq, ids)
  BY TypeFacts DEF IdInv, ChatInv
<1>2. ASSUME NEW i \in Ids, i <= ids, NEW q \in Seq(Texts), AllIds(q, ids), NEW kind \in {"FIRST", "TEXT", "LAST"}
      PROVE  AllIds(Append(q, Piece(kind, i)), ids) /\ Append(q, Piece(kind, i)) \in Seq(Texts)
  BY <1>2, PutIds
<1>3. ASSUME NEW q \in Seq(Texts), AllIds(q, ids) PROVE AllIds(q \o Last, ids)
  BY <1>1, <1>2, <1>3, PutsLast
<1>4. ASSUME NEW i \in Ids, i <= ids, Asks(i) PROVE \A j \in Ids : j > ids => owed'[j] = 0
  BY <1>1, <1>4, AskedIds
<1>5. ASSUME AllIds(textq', ids), \A j \in Ids : j > ids => owed'[j] = 0, marred \subseteq marred',
             UNCHANGED <<sid, ids, greeting, receive, text, audioq, send, ctrl, latest>>,
             abort' => abort
      PROVE  IdInv'
  BY <1>5 DEF IdInv
<1>6. \A j \in Ids : j > ids => owed[j] = 0
  BY DEF IdInv
<1>7. CASE ChatBegins
  BY <1>1, <1>5, <1>6, <1>7 DEF ChatBegins, AtChat
<1>8. CASE ChatOpens
  <2>1. Fresh \in Ids /\ Fresh = ids + 1
    BY <1>8, FreshIsId DEF ChatOpens, AtChat
  <2>2. AllIds(textq, Fresh) /\ AllIds(audioq, Fresh)
    BY <1>1, <2>1, GreaterIds DEF Types, QueueTypes, IdInv
  <2>3. AllIds(textq', Fresh)
    BY <1>1, <1>8, <2>1, <2>2, PutIds DEF ChatOpens
  <2>4. /\ sid' = Fresh /\ ids' = Fresh /\ abort' = abort /\ (abort => Fresh \in marred')
        /\ UNCHANGED <<greeting, receive, audioq, text, send, ctrl, owed, latest>>
    BY <1>8 DEF ChatOpens, AtChat
  <2> QED
    BY <1>1, <2>1, <2>2, <2>3, <2>4 DEF IdInv
<1>9. CASE ChatStreams
  <2>1. AllIds(textq', ids) /\ \A j \in Ids : j > ids => owed'[j] = 0
    BY <1>1, <1>2, <1>4, <1>9 DEF ChatStreams
  <2> QED
    BY <1>5, <1>9, <2>1 DEF ChatStreams, AtChat
<1>10. CASE ChatAnswers
  <2>1. AllIds(textq', ids) /\ \A j \in Ids : j > ids => owed'[j] = 0
    <3>1. CASE textq' = textq \o Last /\ UNCHANGED owed
      BY <1>1, <1>3, <1>6, <3>1
    <3>2. CASE textq' = EmptySaid /\ Asks(chat.id)
      <4>1. /\ AllIds(Append(textq, Piece("TEXT", chat.id)), ids)
            /\ Append(textq, Piece("TEXT", chat.id)) \in Seq(Texts)
        BY <1>1, <1>2
      <4>2. textq' = Append(textq, Piece("TEXT", chat.id)) \o Last
        BY <1>1, <3>2, LastPuts DEF EmptySaid
      <4> QED
        BY <1>1, <1>3, <1>4, <3>2, <4>1, <4>2
    <3> QED
      BY <1>10, <3>1, <3>2 DEF ChatAnswers
  <2> QED
    BY <1>5, <1>10, <2>1 DEF ChatAnswers, AtChat
<1>11. CASE ChatFails
  <2>1. AllIds(textq', ids) /\ \A j \in Ids : j > ids => owed'[j] = 0
    <3>1. /\ AllIds(Append(textq, Piece("TEXT", chat.id)), ids)
          /\ Append(textq, Piece("TEXT", chat.id)) \in Seq(Texts)
      BY <1>1, <1>2
    <3>2. textq' = Append(textq, Piece("TEXT", chat.id)) \o Last
      BY <1>1, <1>11, LastPuts DEF ChatFails, FailureSaid
    <3> QED
      BY <1>1, <1>3, <1>4, <1>11, <3>1, <3>2 DEF ChatFails
  <2> QED
    BY <1>5, <1>11, <2>1 DEF ChatFails, AtChat
<1>12. CASE ChatAborted
  BY <1>1, <1>5, <1>6, <1>12 DEF ChatAborted, AtChat
<1>13. CASE ChatCalls
  BY <1>1, <1>5, <1>6, <1>13 DEF ChatCalls, shared, heard, history
<1>14. CASE ToolSpeaks
  <2> DEFINE i == IF sid = 0 THEN Fresh ELSE sid
             m == IF sid = 0 THEN Fresh ELSE ids
  <2>1. Fresh \in Ids /\ Fresh = ids + 1
    BY <1>14, FreshIsId DEF ToolSpeaks, AtChat
  <2>2. /\ sid' = i /\ ids' = m /\ chat.at = "tool" /\ abort' = abort
        /\ textq' = Append(textq, Piece("TEXT", i)) /\ Asks(i) /\ Borrows(i)
        /\ UNCHANGED <<greeting, receive, audioq, text, send, ctrl, latest>>
    BY <1>14 DEF ToolSpeaks, AtChat
  <2>3. i \in Ids /\ i = m /\ m \in {ids, ids + 1} /\ m \in Nat /\ ids <= m /\ (sid # 0 => m = sid)
    BY <1>1, <2>1
  <2>4. abort => sid' \in marred'
    <3>1. CASE sid = 0
      <4>1. i # chat.own
        BY <1>1, <2>1, <3>1
      <4> QED
        BY <2>2, <4>1 DEF Borrows
    <3>2. CASE sid # 0
      BY <2>2, <3>2 DEF Borrows, IdInv
    <3> QED
      BY <3>1, <3>2
  <2> HIDE DEF i, m
  <2>5. AllIds(textq, m) /\ AllIds(audioq, m)
    BY <1>1, <2>3, GreaterIds DEF Types, QueueTypes, IdInv
  <2>6. AllIds(textq', m)
    BY <1>1, <2>2, <2>3, <2>5, PutIds
  <2>7. \A j \in Ids : j > m => owed'[j] = 0
    BY <1>1, <2>2, <2>3, AskedIds
  <2> QED
    BY <1>1, <2>2, <2>3, <2>4, <2>5, <2>6, <2>7 DEF IdInv
<1>15. CASE ToolContinues
  BY <1>1, <1>5, <1>6, <1>15 DEF ToolContinues, Borrows, AtChat
<1>16. CASE ChatCloses
  <2>1. AllIds(textq', ids)
    BY <1>1, <1>2, <1>16 DEF ChatCloses
  <2> QED
    BY <1>5, <1>6, <1>16, <2>1 DEF ChatCloses, AtChat
<1> QED
  BY <1>7, <1>8, <1>9, <1>10, <1>11, <1>12, <1>13, <1>14, <1>15, <1>16 DEF Chat

LEMMA OtherIds == ASSUME Types, IdInv, ThreadInv, Text \/ Playback \/ SenderSends PROVE IdInv'
<1>1. /\ ids \in Nat /\ Ids \subseteq Nat /\ 0 \in Ids /\ text.cur \in Nat /\ text.last \in Nat
      /\ send.id \in Ids /\ ctrl.id \in Ids /\ latest \in Nat /\ textq \in Seq(Texts) /\ audioq \in Seq(Audios)
      /\ send.n \in Nat /\ owed \in [Ids -> Int] /\ sid \in Nat /\ sid <= ids
      /\ text \in TextStates /\ send \in Sends /\ ctrl \in Senders
  <2>1. sid \in Nat /\ sid <= ids
    BY TypeFacts DEF IdInv
  <2> QED
    BY <2>1, TypeFacts
<1>2. /\ text.cur <= ids /\ text.last <= ids /\ send.id <= ids /\ ctrl.id <= ids /\ latest <= ids
      /\ AllIds(textq, ids) /\ AllIds(audioq, ids) /\ \A j \in Ids : j > ids => owed[j] = 0
  BY DEF IdInv
<1>3. ASSUME UNCHANGED <<sid, ids, abort, greeting, receive>>, marred \subseteq marred',
             text'.cur <= ids, text'.last <= ids, send'.id <= ids, ctrl'.id <= ids, latest' <= ids,
             AllIds(textq', ids), AllIds(audioq', ids), \A j \in Ids : j > ids => owed'[j] = 0
      PROVE  IdInv'
  BY <1>3 DEF IdInv
<1>4. ASSUME NEW i \in Ids, i <= ids, NEW n \in Nat, Hears(i, n)
      PROVE  latest' <= ids /\ \A j \in Ids : j > ids => owed'[j] = 0
  BY <1>1, <1>2, <1>4 DEF Hears
<1>5. CASE TextTakes
  <2>1. AllIds(textq', ids) /\ Head(textq).id <= ids
    BY <1>1, <1>2, <1>5, TailIds DEF TextTakes
  <2>2. text'.cur <= ids /\ text'.last <= ids
    BY <1>1, <1>2, <1>5, <2>1 DEF TextTakes, TextStates
  <2> QED
    BY <1>2, <1>3, <1>5, <2>1, <2>2 DEF TextTakes, AtText, shared, heard
<1>6. CASE Synthesises
  <2>1. text'.cur <= ids /\ text'.last <= ids
    BY <1>1, <1>2, <1>6 DEF Synthesises, TextStates
  <2>2. AllIds(audioq', ids) /\ marred \subseteq marred'
    <3>1. Audio("MIDDLE", text.cur, text.buffer) \in Audios /\ Audio("MIDDLE", text.cur, text.buffer).id = text.cur
      BY <1>1 DEF Audio, Audios, TextStates
    <3>2. Enqueues => AllIds(audioq', ids) /\ marred \subseteq marred'
      BY <1>1, <1>2, <3>1, AppendIds DEF Enqueues
    <3>3. GivesUp => AllIds(audioq', ids) /\ marred \subseteq marred'
      BY <1>2 DEF GivesUp
    <3> QED
      BY <1>6, <3>2, <3>3 DEF Synthesises, FromSoundbank, FromProvider
  <2> QED
    BY <1>2, <1>3, <1>6, <2>1, <2>2 DEF Synthesises, AtText, shared, heard
<1>7. CASE TextEnds
  <2>1. text'.cur <= ids /\ text'.last <= ids
    BY <1>1, <1>2, <1>7 DEF TextEnds, TextStates
  <2>2. Audio("LAST", text.last, 0) \in Audios /\ Audio("LAST", text.last, 0).id = text.last
    BY <1>1 DEF Audio, Audios, TextStates
  <2>3. AllIds(audioq', ids)
    BY <1>1, <1>2, <1>7, <2>2, AppendIds DEF TextEnds
  <2> QED
    BY <1>2, <1>3, <1>7, <2>1, <2>3 DEF TextEnds, AtText, shared, heard
<1>8. CASE AudioTakes
  <2>1. AllIds(audioq', ids) /\ Head(audioq).id <= ids
    BY <1>1, <1>2, <1>8, TailIds DEF AudioTakes
  <2>2. send'.id <= ids
    BY <1>1, <1>8, <2>1 DEF AudioTakes, NoSend
  <2> QED
    BY <1>2, <1>3, <1>8, <2>1, <2>2 DEF AudioTakes, AtSend, heard, history
<1>9. CASE SendSkips
  BY <1>1, <1>2, <1>3, <1>9 DEF SendSkips, NoSend, AtSend, heard, history
<1>10. CASE SendsAudio
  <2>1. send'.id <= ids
    BY <1>1, <1>10 DEF SendsAudio, NoSend
  <2> DEFINE c == Controller
  <2>2. c \in Senders /\ c.id <= ids
    BY <1>1, <1>2, ControllerIs
  <2>3. /\ ctrl' \in {c, [c EXCEPT !.count = @ + 1], [c EXCEPT !.queue = Append(@, Audio("MIDDLE", send.id, send.n))]}
        /\ UNCHANGED heard \/ Hears(send.id, send.n)
    BY <1>10 DEF SendsAudio
  <2> HIDE DEF c
  <2>4. ctrl'.id <= ids
    BY <2>2, <2>3 DEF Senders
  <2>5. latest' <= ids /\ \A j \in Ids : j > ids => owed'[j] = 0
    BY <1>1, <1>2, <1>4, <2>3 DEF heard
  <2> QED
    BY <1>2, <1>3, <1>10, <2>1, <2>4, <2>5 DEF SendsAudio, AtSend, history
<1>11. CASE SendsLast
  BY <1>1, <1>2, <1>3, <1>11 DEF SendsLast, Sends, AtSend, heard, history
<1>12. CASE Stops
  BY <1>1, <1>2, <1>3, <1>12 DEF Stops, NoSend, NoSender, AtSend, heard, history
<1>13. CASE SenderSends
  <2>1. ctrl.queue \in Seq(Packets) /\ ctrl.queue # <<>>
    BY <1>1, <1>13 DEF SenderSends, Senders
  <2>2. 1 \in DOMAIN ctrl.queue /\ Head(ctrl.queue) = ctrl.queue[1] /\ Head(ctrl.queue) \in Packets
    BY <2>1
  <2>3. Head(ctrl.queue).id = ctrl.id /\ Head(ctrl.queue).n \in Nat
    BY <2>2 DEF ThreadInv, Packets
  <2>4. latest' <= ids /\ \A j \in Ids : j > ids => owed'[j] = 0
    BY <1>1, <1>2, <1>4, <1>13, <2>3 DEF SenderSends, heard
  <2>5. ctrl'.id <= ids
    BY <1>1, <1>2, <1>13 DEF SenderSends, Senders
  <2> QED
    BY <1>2, <1>3, <1>13, <2>4, <2>5 DEF SenderSends, shared, history
<1> QED
  BY <1>5, <1>6, <1>7, <1>8, <1>9, <1>10, <1>11, <1>12, <1>13 DEF Text, Playback

-----------------------------------------------------------------------------
(* The chat thread and the positions of the others.                        *)

\* What was given up stays given up, and sentences are only added.
LEMMA Marks ==
  ASSUME Types, CountInv, Next
  PROVE  marred \subseteq marred' /\ ids \in Nat /\ ids' \in {ids, ids + 1}
<1>1. ids \in Nat
  BY TypeFacts
<1>2. ids' \in {ids, ids + 1}
  BY DEF Next, Handler, StartReturns, ReceiveReturns, Accepts, AcceptsAborting, Announces, Submits, Interrupts,
         AbortReturns, Greets, GreetingQueued, Resets, ResetReturns, AtStart, AtReceive, Fresh,
         Chat, ChatBegins, ChatOpens, ChatStreams, ChatAnswers, ChatFails, ChatAborted, ChatCalls,
         ToolSpeaks, ToolContinues, ChatCloses, AtChat, Text, TextTakes, Synthesises, TextEnds, AtText,
         Playback, AudioTakes, SendSkips, SendsAudio, SendsLast, Stops, AtSend, SenderSends
<1>3. Handler => marred \subseteq marred'
  BY DEF Handler, StartReturns, ReceiveReturns, Accepts, AcceptsAborting, Announces, Submits, Interrupts,
         AbortReturns, Greets, GreetingQueued, Resets, ResetReturns, Aborts, GivesUpSpeech, history
<1>4. Chat => marred \subseteq marred'
  BY DEF Chat, ChatBegins, ChatOpens, ChatStreams, ChatAnswers, ChatFails, ChatAborted, ChatCalls,
         ToolSpeaks, ToolContinues, ChatCloses, Borrows, history
<1>5. Text => marred \subseteq marred'
  BY DEF Text, TextTakes, Synthesises, TextEnds, FromSoundbank, FromProvider, Enqueues, GivesUp
<1>6. Playback \/ SenderSends => marred \subseteq marred'
  BY DEF Playback, AudioTakes, SendSkips, SendsAudio, SendsLast, Stops, AtSend, SenderSends, history
<1> QED
  BY <1>1, <1>2, <1>3, <1>4, <1>5, <1>6 DEF Next

LEMMA ChatStep == ASSUME Types, CountInv, IdInv, ChatInv, Next PROVE ChatInv'
<1>1. /\ ids \in Nat /\ ids' \in {ids, ids + 1} /\ marred \subseteq marred'
      /\ chat \in Chats /\ chat.own \in Nat /\ chat.id \in Nat /\ sid \in Nat /\ sid <= ids
  <2>1. chat \in Chats /\ chat.own \in Nat /\ chat.id \in Nat /\ sid \in Nat
    BY TypeFacts
  <2>2. sid <= ids
    BY Marks, <2>1 DEF IdInv
  <2> QED
    BY <2>1, <2>2, Marks
<1>2. CASE UNCHANGED chat
  BY <1>1, <1>2 DEF ChatInv
<1>3. CASE chat' = NoChat
  BY <1>1, <1>3 DEF ChatInv, NoChat
<1>4. CASE LeavesCall /\ chat.at = "stream"
  <2>1. CASE chat.depth = 0
    BY <1>3, <1>4, <2>1 DEF LeavesCall
  <2>2. CASE chat.depth # 0
    <3>1. chat'.at = "close" /\ chat'.own = chat.own /\ chat'.id = chat.id
      BY <1>1, <1>4, <2>2 DEF LeavesCall, Chats
    <3> QED
      BY <1>1, <1>4, <3>1 DEF ChatInv
  <2> QED
    BY <2>1, <2>2
<1>5. CASE Chat
  <2>1. CASE ChatBegins
    <3>1. chat'.at = "begun" /\ chat'.own = 0 /\ chat'.id = 0
      BY <2>1 DEF ChatBegins, NoChat
    <3> QED
      BY <1>1, <3>1 DEF ChatInv
  <2>2. CASE ChatOpens
    <3>1. chat'.at = "stream" /\ chat'.own = ids + 1 /\ chat'.id = ids + 1 /\ ids' = ids + 1
      BY <2>2 DEF ChatOpens, NoChat, Fresh
    <3> QED
      BY <1>1, <3>1 DEF ChatInv
  <2>3. CASE ChatStreams
    <3>1. chat'.at = "stream" /\ chat'.own = chat.own /\ chat'.id = chat.id /\ chat.at = "stream"
      BY <1>1, <2>3 DEF ChatStreams, AtChat, Chats
    <3> QED
      BY <1>1, <3>1 DEF ChatInv
  <2>4. CASE ChatAnswers \/ ChatFails \/ ChatAborted
    BY <1>4, <2>4 DEF ChatAnswers, ChatFails, ChatAborted, AtChat
  <2>5. CASE ChatCalls
    <3>1. /\ chat'.at = "tool" /\ chat'.own = chat.own /\ chat'.id = chat.id /\ chat.at = "stream"
          /\ chat'.depth = chat.depth /\ chat.depth < MaxDepth
      BY <1>1, <2>5 DEF ChatCalls, Chats
    <3> QED
      BY <1>1, <3>1 DEF ChatInv
  <2>6. CASE ToolSpeaks
    <3>1. chat'.at = "close" /\ chat'.own = chat.own /\ chat'.id = chat.id /\ chat.at = "tool"
      BY <1>1, <2>6 DEF ToolSpeaks, AtChat, Chats
    <3> QED
      BY <1>1, <3>1 DEF ChatInv
  <2>7. CASE ToolContinues
    <3>1. chat'.at = "stream" /\ chat'.own = chat.own /\ chat'.id = sid /\ chat.at = "tool"
      BY <1>1, <2>7 DEF ToolContinues, AtChat, Chats
    <3>2. sid \in {chat.own} \cup marred'
      BY <2>7 DEF ToolContinues, Borrows
    <3> QED
      BY <1>1, <3>1, <3>2 DEF ChatInv
  <2>8. CASE ChatCloses
    BY <1>3, <2>8 DEF ChatCloses
  <2> QED
    BY <1>5, <2>1, <2>2, <2>3, <2>4, <2>5, <2>6, <2>7, <2>8 DEF Chat
<1>6. CASE Handler
  BY <1>2, <1>6 DEF Handler, StartReturns, ReceiveReturns, Accepts, AcceptsAborting, Announces, Submits,
         Interrupts, AbortReturns, Greets, GreetingQueued, Resets, ResetReturns, AtStart, AtReceive
<1>7. CASE Text
  BY <1>2, <1>7 DEF Text, TextTakes, Synthesises, TextEnds, AtText
<1>8. CASE Playback \/ SenderSends
  BY <1>2, <1>8 DEF Playback, AudioTakes, SendSkips, SendsAudio, SendsLast, Stops, AtSend, SenderSends
<1> QED
  BY <1>5, <1>6, <1>7, <1>8 DEF Next

\* ThreadInv, by thread.
TextPlace ==
    /\ text.at = "idle" => text.last = 0
    /\ text.at = "synthesise" => text.buffer > 0
    /\ text.at = "last" => text.last > 0 /\ text.buffer = 0
SendPlace ==
    /\ send.at = "idle" => send.kind = "NONE"
    /\ send.at = "sending" => send.kind # "NONE"
    /\ send.at = "tail" => send.kind = "LAST"
    /\ send.kind = "LAST" => send.id > 0
SenderPlace ==
    /\ ctrl.queue # <<>> => ctrl.count >= PreBuffer
    /\ \A k \in DOMAIN ctrl.queue : ctrl.queue[k].id = ctrl.id

LEMMA PutNames ==
  ASSUME NEW q \in Seq(Texts), NEW i \in Ids, NEW kind \in {"FIRST", "TEXT", "LAST"},
         Named(q, "TEXT"), kind # "TEXT" => i > 0
  PROVE  Append(q, Piece(kind, i)) \in Seq(Texts) /\ Named(Append(q, Piece(kind, i)), "TEXT")
<1>1. Piece(kind, i) \in Texts /\ Piece(kind, i).id = i /\ Piece(kind, i).kind = kind
  BY DEF Piece, Texts
<1>2. Append(q, Piece(kind, i)) \in Seq(Texts)
  BY <1>1
<1> QED
  BY <1>1, <1>2, AppendNames

LEMMA TextNamed == ASSUME Types, CountInv, IdInv, ChatInv, ThreadInv, Next PROVE Named(textq, "TEXT")'
<1>1. /\ textq \in Seq(Texts) /\ Named(textq, "TEXT") /\ chat.own \in Ids /\ chat.id \in Ids /\ sid \in Ids
      /\ Ids \subseteq Nat
  BY TypeFacts DEF ThreadInv
<1>2. ASSUME NEW q \in Seq(Texts), Named(q, "TEXT"), chat.own > 0 PROVE Named(q \o Last, "TEXT")
  BY <1>1, <1>2, PutsLast, PutNames
<1>3. CASE UNCHANGED textq
  BY <1>1, <1>3
<1>4. CASE textq' = <<>>
  BY <1>4, EmptyIds
<1>5. CASE Handler
  <2>1. CASE GreetingQueued
    <3>1. greeting \in Ids /\ greeting > 0
      <4>1. greeting \in Ids
        BY TypeFacts
      <4>2. greeting # 0
        BY <2>1 DEF IdInv, GreetingQueued, AtReceive
      <4> QED
        BY <1>1, <4>1, <4>2 DEF Ids
    <3> DEFINE q1 == Append(textq, Piece("FIRST", greeting))
               q2 == Append(q1, Piece("TEXT", greeting))
    <3>2. textq' = Append(q2, Piece("LAST", greeting))
      BY <1>1, <2>1, <3>1, GreetingPuts DEF GreetingQueued
    <3>3. q1 \in Seq(Texts) /\ Named(q1, "TEXT")
      BY <1>1, <3>1, PutNames
    <3>4. q2 \in Seq(Texts) /\ Named(q2, "TEXT")
      BY <3>1, <3>3, PutNames
    <3> HIDE DEF q1, q2
    <3> QED
      BY <3>1, <3>2, <3>4, PutNames
  <2> QED
    BY <1>3, <1>4, <1>5, <2>1 DEF Handler, StartReturns, ReceiveReturns, Accepts, AcceptsAborting, Announces, Submits,
         Interrupts, AbortReturns, Greets, Resets, ResetReturns, AtStart, AtReceive, Aborts, GivesUpSpeech, ClearsQueues
<1>6. CASE Chat
  <2>1. CASE ChatBegins \/ ChatAborted \/ ChatCalls \/ ToolContinues
    BY <1>3, <2>1 DEF ChatBegins, ChatAborted, ChatCalls, ToolContinues
  <2>2. CASE ChatOpens
    <3>1. Fresh \in Ids /\ Fresh > 0
      BY <2>2, FreshIsId DEF ChatOpens, AtChat
    <3> QED
      BY <1>1, <2>2, <3>1, PutNames DEF ChatOpens
  <2>3. CASE ChatStreams
    BY <1>1, <2>3, PutNames DEF ChatStreams
  <2>4. CASE ChatAnswers \/ ChatFails
    <3>1. chat.own > 0
      BY <2>4 DEF ChatAnswers, ChatFails, AtChat, ChatInv
    <3>2. /\ Named(Append(textq, Piece("TEXT", chat.id)), "TEXT")
          /\ Append(textq, Piece("TEXT", chat.id)) \in Seq(Texts)
      BY <1>1, PutNames
    <3>3. textq' \in {textq \o Last, Append(textq, Piece("TEXT", chat.id)) \o Last}
      BY <1>1, <2>4, LastPuts DEF ChatAnswers, ChatFails, EmptySaid, FailureSaid
    <3> QED
      BY <1>1, <1>2, <3>1, <3>2, <3>3
  <2>5. CASE ToolSpeaks
    <3>1. Fresh \in Ids
      BY <2>5, FreshIsId DEF ToolSpeaks, AtChat
    <3>2. PICK j \in Ids : textq' = Append(textq, Piece("TEXT", j))
      BY <1>1, <2>5, <3>1 DEF ToolSpeaks
    <3> QED
      BY <1>1, <3>2, PutNames
  <2>6. CASE ChatCloses
    <3>1. chat.own > 0
      BY <2>6 DEF ChatCloses, AtChat, ChatInv
    <3> QED
      BY <1>1, <2>6, <3>1, PutNames DEF ChatCloses
  <2> QED
    BY <1>6, <2>1, <2>2, <2>3, <2>4, <2>5, <2>6 DEF Chat
<1>7. CASE Text
  <2>1. CASE TextTakes
    BY <1>1, <2>1, TailIds DEF TextTakes
  <2> QED
    BY <1>3, <1>7, <2>1 DEF Text, Synthesises, TextEnds
<1>8. CASE Playback \/ SenderSends
  BY <1>3, <1>8 DEF Playback, AudioTakes, SendSkips, SendsAudio, SendsLast, Stops, AtSend, SenderSends
<1> QED
  BY <1>5, <1>6, <1>7, <1>8 DEF Next

LEMMA TextStays == ASSUME Types, ThreadInv, Text PROVE TextPlace' /\ Named(audioq, "MIDDLE")'
<1>1. /\ text \in TextStates /\ text.buffer \in Nat /\ text.last \in Ids /\ textq \in Seq(Texts)
      /\ audioq \in Seq(Audios) /\ Ids \subseteq Nat /\ text.cur \in Ids
  BY TypeFacts
<1>2. TextPlace /\ Named(audioq, "MIDDLE") /\ Named(textq, "TEXT")
  BY DEF ThreadInv, TextPlace
<1>3. CASE TextTakes
  <2>1. Head(textq).kind = "LAST" => Head(textq).id > 0
    BY <1>1, <1>2, <1>3, TailIds DEF TextTakes
  <2>2. text.at = "idle" /\ text.last = 0
    BY <1>2, <1>3 DEF TextTakes, AtText, TextPlace
  <2>3. UNCHANGED text => TextPlace'
    BY <1>2 DEF TextPlace
  <2>4. text' = [text EXCEPT !.cur = Head(textq).id, !.buffer = 0] => TextPlace'
    BY <1>1, <2>2 DEF TextPlace, TextStates
  <2>5. ASSUME NEW at \in {"idle", "synthesise"}, text' = [text EXCEPT !.buffer = @ + 1, !.at = at]
        PROVE  TextPlace'
    BY <1>1, <2>2, <2>5 DEF TextPlace, TextStates
  <2>6. ASSUME Head(textq).kind = "LAST",
               text' = [text EXCEPT !.last = Head(textq).id, !.at = IF HasRest THEN "synthesise" ELSE "last"]
        PROVE  TextPlace'
    BY <1>1, <2>1, <2>6 DEF TextPlace, TextStates, HasRest
  <2>7. TextPlace'
    BY <1>3, <2>3, <2>4, <2>5, <2>6 DEF TextTakes
  <2> QED
    BY <1>2, <1>3, <2>7 DEF TextTakes
<1>4. CASE Synthesises
  <2>1. TextPlace'
    BY <1>1, <1>4 DEF Synthesises, TextPlace, TextStates
  <2>2. /\ Audio("MIDDLE", text.cur, text.buffer) \in Audios
        /\ Audio("MIDDLE", text.cur, text.buffer).kind = "MIDDLE"
    BY <1>1 DEF Audio, Audios
  <2>3. Enqueues => Named(audioq', "MIDDLE")
    BY <1>1, <1>2, <2>2, AppendNames DEF Enqueues
  <2>4. GivesUp => Named(audioq', "MIDDLE")
    BY <1>2 DEF GivesUp
  <2> QED
    BY <1>4, <2>1, <2>3, <2>4 DEF Synthesises, FromSoundbank, FromProvider
<1>5. CASE TextEnds
  <2>1. text.last > 0
    BY <1>2, <1>5 DEF TextEnds, AtText, TextPlace
  <2>2. TextPlace'
    BY <1>1, <1>5 DEF TextEnds, TextPlace, TextStates
  <2>3. Audio("LAST", text.last, 0) \in Audios /\ Audio("LAST", text.last, 0).id > 0
    BY <1>1, <2>1 DEF Audio, Audios
  <2>4. Named(audioq', "MIDDLE")
    BY <1>1, <1>2, <1>5, <2>3, AppendNames DEF TextEnds
  <2> QED
    BY <2>2, <2>4
<1> QED
  BY <1>3, <1>4, <1>5 DEF Text

LEMMA PlaybackStays ==
  ASSUME Types, ThreadInv, Playback \/ SenderSends
  PROVE  SendPlace' /\ SenderPlace' /\ Named(audioq, "MIDDLE")'
<1>1. /\ send \in Sends /\ ctrl \in Senders /\ ctrl.queue \in Seq(Packets) /\ ctrl.count \in Nat
      /\ audioq \in Seq(Audios) /\ send.id \in Ids /\ send.n \in Nat /\ sid \in Ids /\ ctrl.id \in Ids
  BY TypeFacts
<1>2. SendPlace /\ SenderPlace /\ Named(audioq, "MIDDLE")
  BY DEF ThreadInv, SendPlace, SenderPlace
<1>3. send' = NoSend => SendPlace'
  BY DEF NoSend, SendPlace
<1>4. UNCHANGED ctrl => SenderPlace'
  BY <1>2 DEF SenderPlace
<1>5. UNCHANGED audioq => Named(audioq', "MIDDLE")
  BY <1>2
<1>6. CASE AudioTakes
  <2>1. Named(audioq', "MIDDLE") /\ (Head(audioq).kind # "MIDDLE" => Head(audioq).id > 0)
    BY <1>1, <1>2, <1>6, TailIds DEF AudioTakes
  <2>2. Head(audioq).kind \in {"MIDDLE", "LAST"}
    <3>1. Head(audioq) \in Audios
      BY <1>1, <1>6, Rest DEF AudioTakes
    <3> QED
      BY <3>1 DEF Audios
  <2>3. SendPlace'
    BY <1>3, <1>6, <2>1, <2>2 DEF AudioTakes, SendPlace
  <2> QED
    BY <1>4, <1>6, <2>1, <2>3 DEF AudioTakes
<1>7. CASE SendSkips
  BY <1>3, <1>4, <1>5, <1>7 DEF SendSkips
<1>8. CASE SendsAudio
  <2> DEFINE c == Controller
             x == Audio("MIDDLE", send.id, send.n)
  <2>1. /\ c \in Senders /\ c.count \in Nat /\ c.queue \in Seq(Packets)
        /\ c.queue # <<>> => c.count >= PreBuffer
        /\ \A k \in DOMAIN c.queue : c.queue[k].id = c.id
        /\ c.id = sid
    <3>1. CASE NeedsReset
      BY <3>1, ControllerIs DEF Senders
    <3>2. CASE ~NeedsReset
      BY <1>2, <3>2, ControllerIs DEF Senders, SenderPlace
    <3> QED
      BY <3>1, <3>2
  <2>2. x \in Packets /\ x.id = send.id /\ send.id = sid
    BY <1>1, <1>8 DEF SendsAudio, Stale, Audio, Packets
  <2>3. \/ ctrl' = c
        \/ c.count < PreBuffer /\ ctrl' = [c EXCEPT !.count = @ + 1]
        \/ c.count >= PreBuffer /\ ctrl' = [c EXCEPT !.queue = Append(@, x)]
    BY <1>8 DEF SendsAudio
  <2> HIDE DEF c, x
  <2>4. SenderPlace'
    <3>1. CASE ctrl' = c
      BY <2>1, <3>1 DEF SenderPlace
    <3>2. CASE c.count < PreBuffer /\ ctrl' = [c EXCEPT !.count = @ + 1]
      <4>1. ctrl'.queue = c.queue /\ c.queue = <<>>
        BY <2>1, <3>2, Bounds DEF Senders
      <4> QED
        BY <4>1 DEF SenderPlace
    <3>3. CASE c.count >= PreBuffer /\ ctrl' = [c EXCEPT !.queue = Append(@, x)]
      <4>1. ctrl'.queue = Append(c.queue, x) /\ ctrl'.id = c.id /\ ctrl'.count = c.count
        BY <2>1, <3>3 DEF Senders
      <4>2. \A k \in DOMAIN Append(c.queue, x) : Append(c.queue, x)[k].id = c.id
        <5>1. /\ DOMAIN Append(c.queue, x) = 1 .. Len(c.queue) + 1 /\ DOMAIN c.queue = 1 .. Len(c.queue)
              /\ Append(c.queue, x)[Len(c.queue) + 1] = x /\ Len(c.queue) \in Nat
              /\ \A k \in 1 .. Len(c.queue) : Append(c.queue, x)[k] = c.queue[k]
          BY <2>1, <2>2, Appended
        <5>2. \A k \in 1 .. Len(c.queue) + 1 : k \in 1 .. Len(c.queue) \/ k = Len(c.queue) + 1
          BY <5>1
        <5> QED
          BY <2>1, <2>2, <5>1, <5>2
      <4> QED
        BY <3>3, <4>1, <4>2 DEF SenderPlace
    <3> QED
      BY <2>3, <3>1, <3>2, <3>3
  <2> QED
    BY <1>3, <1>5, <1>8, <2>4 DEF SendsAudio
<1>9. CASE SendsLast
  <2>1. SendPlace'
    BY <1>1, <1>2, <1>9 DEF SendsLast, SendPlace, Sends
  <2> QED
    BY <1>4, <1>5, <1>9, <2>1 DEF SendsLast
<1>10. CASE Stops
  <2>1. SenderPlace'
    BY <1>4, <1>10 DEF Stops, SenderPlace, NoSender
  <2> QED
    BY <1>3, <1>5, <1>10, <2>1 DEF Stops
<1>11. CASE SenderSends
  <2>1. ctrl'.queue = Tail(ctrl.queue) /\ ctrl'.id = ctrl.id /\ ctrl'.count = ctrl.count /\ ctrl.queue # <<>>
    BY <1>1, <1>11 DEF SenderSends, Senders
  <2>2. \A k \in DOMAIN Tail(ctrl.queue) : Tail(ctrl.queue)[k].id = ctrl.id
    <3>1. /\ DOMAIN ctrl.queue = 1 .. Len(Tail(ctrl.queue)) + 1
          /\ DOMAIN Tail(ctrl.queue) = 1 .. Len(Tail(ctrl.queue)) /\ Len(Tail(ctrl.queue)) \in Nat
          /\ \A k \in 1 .. Len(Tail(ctrl.queue)) : Tail(ctrl.queue)[k] = ctrl.queue[k + 1]
      BY <1>1, <2>1, Rest
    <3>2. \A k \in 1 .. Len(Tail(ctrl.queue)) : k + 1 \in 1 .. Len(Tail(ctrl.queue)) + 1
      BY <3>1
    <3> QED
      BY <1>2, <3>1, <3>2 DEF SenderPlace
  <2>3. SenderPlace'
    BY <1>2, <2>1, <2>2 DEF SenderPlace
  <2>4. SendPlace'
    BY <1>2, <1>11 DEF SenderSends, SendPlace
  <2> QED
    BY <1>5, <1>11, <2>3, <2>4 DEF SenderSends
<1> QED
  BY <1>6, <1>7, <1>8, <1>9, <1>10, <1>11 DEF Playback

LEMMA ThreadStep == ASSUME Types, CountInv, IdInv, ChatInv, ThreadInv, Next PROVE ThreadInv'
<1>1. Named(textq, "TEXT")'
  BY TextNamed
<1>2. TextPlace /\ SendPlace /\ SenderPlace /\ Named(audioq, "MIDDLE")
  BY DEF ThreadInv, TextPlace, SendPlace, SenderPlace
<1>3. CASE Handler
  <2>1. UNCHANGED <<text, send>> /\ (UNCHANGED <<audioq, ctrl>> \/ (audioq' = <<>> /\ ctrl' = NoSender))
    BY <1>3 DEF Handler, StartReturns, ReceiveReturns, Accepts, AcceptsAborting, Announces, Submits, Interrupts,
         AbortReturns, Greets, GreetingQueued, Resets, ResetReturns, AtStart, AtReceive, Aborts, GivesUpSpeech, ClearsQueues
  <2>2. TextPlace' /\ SendPlace'
    BY <1>2, <2>1 DEF TextPlace, SendPlace
  <2>3. SenderPlace' /\ Named(audioq', "MIDDLE")
    BY <1>2, <2>1, EmptyIds DEF SenderPlace, NoSender
  <2> QED
    BY <1>1, <2>2, <2>3 DEF ThreadInv, TextPlace, SendPlace, SenderPlace
<1>4. CASE Chat
  <2>1. UNCHANGED <<text, send, audioq, ctrl>>
    BY <1>4 DEF Chat, ChatBegins, ChatOpens, ChatStreams, ChatAnswers, ChatFails, ChatAborted, ChatCalls,
         ToolSpeaks, ToolContinues, ChatCloses, AtChat
  <2> QED
    BY <1>1, <1>2, <2>1 DEF ThreadInv, TextPlace, SendPlace, SenderPlace
<1>5. CASE Text
  <2>1. UNCHANGED <<send, ctrl>>
    BY <1>5 DEF Text, TextTakes, Synthesises, TextEnds, AtText
  <2>2. TextPlace' /\ Named(audioq, "MIDDLE")'
    BY <1>5, TextStays
  <2> QED
    BY <1>1, <1>2, <2>1, <2>2 DEF ThreadInv, TextPlace, SendPlace, SenderPlace
<1>6. CASE Playback \/ SenderSends
  <2>1. UNCHANGED text
    BY <1>6 DEF Playback, AudioTakes, SendSkips, SendsAudio, SendsLast, Stops, AtSend, SenderSends
  <2>2. SendPlace' /\ SenderPlace' /\ Named(audioq, "MIDDLE")'
    BY <1>6, PlaybackStays
  <2> QED
    BY <1>1, <1>2, <2>1, <2>2 DEF ThreadInv, TextPlace, SendPlace, SenderPlace
<1> QED
  BY <1>3, <1>4, <1>5, <1>6 DEF Next

-----------------------------------------------------------------------------
(* The order in which the device hears.                                    *)

LEMMA AppendOrder ==
  ASSUME NEW q \in Seq(Audios), NEW x \in Audios
  PROVE  /\ \A n : From(q, n) /\ (x.kind = "MIDDLE" => n <= x.id) => From(Append(q, x), n)
         /\ \A n : UpTo(q, n) /\ (x.kind = "MIDDLE" => x.id <= n) => UpTo(Append(q, x), n)
         /\ Sorted(q) /\ (x.kind = "MIDDLE" => UpTo(q, x.id)) => Sorted(Append(q, x))
<1> DEFINE p == Append(q, x)
<1>1. /\ Len(q) \in Nat /\ DOMAIN q = 1 .. Len(q) /\ DOMAIN p = 1 .. Len(q) + 1
      /\ p[Len(q) + 1] = x /\ \A k \in 1 .. Len(q) : p[k] = q[k]
  BY Appended
<1> HIDE DEF p
<1>2. \A k \in DOMAIN p : (k \in DOMAIN q /\ p[k] = q[k]) \/ (k = Len(q) + 1 /\ p[k] = x)
  BY <1>1
<1>3. \A n : From(q, n) /\ (x.kind = "MIDDLE" => n <= x.id) => From(p, n)
  BY <1>2 DEF From
<1>4. \A n : UpTo(q, n) /\ (x.kind = "MIDDLE" => x.id <= n) => UpTo(p, n)
  BY <1>2 DEF UpTo
<1>5. ASSUME Sorted(q), x.kind = "MIDDLE" => UpTo(q, x.id), NEW j \in DOMAIN p, NEW k \in DOMAIN p,
             j < k, p[j].kind = "MIDDLE", p[k].kind = "MIDDLE"
      PROVE  p[j].id <= p[k].id
  <2>1. j \in DOMAIN q /\ p[j] = q[j]
    BY <1>1, <1>5
  <2>2. CASE k \in DOMAIN q /\ p[k] = q[k]
    BY <1>5, <2>1, <2>2 DEF Sorted
  <2>3. CASE p[k] = x
    BY <1>5, <2>1, <2>3 DEF UpTo
  <2> QED
    BY <1>2, <2>2, <2>3
<1>6. Sorted(q) /\ (x.kind = "MIDDLE" => UpTo(q, x.id)) => Sorted(p)
  BY <1>5 DEF Sorted
<1> QED
  BY <1>3, <1>4, <1>6 DEF p

LEMMA TailOrder ==
  ASSUME NEW q \in Seq(Audios), q # <<>>
  PROVE  /\ \A n : From(q, n) => From(Tail(q), n) /\ (Head(q).kind = "MIDDLE" => n <= Head(q).id)
         /\ \A n : UpTo(q, n) => UpTo(Tail(q), n) /\ (Head(q).kind = "MIDDLE" => Head(q).id <= n)
         /\ Sorted(q) => Sorted(Tail(q)) /\ (Head(q).kind = "MIDDLE" => From(Tail(q), Head(q).id))
<1> DEFINE p == Tail(q)
<1>1. /\ Len(p) \in Nat /\ DOMAIN q = 1 .. Len(p) + 1 /\ DOMAIN p = 1 .. Len(p)
      /\ Head(q) = q[1] /\ \A k \in 1 .. Len(p) : p[k] = q[k + 1]
  BY Rest
<1> HIDE DEF p
<1>2. /\ 1 \in DOMAIN q /\ \A k \in DOMAIN p : k + 1 \in DOMAIN q /\ p[k] = q[k + 1] /\ 1 < k + 1
      /\ \A j, k \in DOMAIN p : j < k => j + 1 < k + 1
  BY <1>1
<1>3. \A n : From(q, n) => From(p, n) /\ (Head(q).kind = "MIDDLE" => n <= Head(q).id)
  BY <1>1, <1>2 DEF From
<1>4. \A n : UpTo(q, n) => UpTo(p, n) /\ (Head(q).kind = "MIDDLE" => Head(q).id <= n)
  BY <1>1, <1>2 DEF UpTo
<1>5. Sorted(q) => Sorted(p)
  BY <1>2 DEF Sorted
<1>6. Sorted(q) /\ Head(q).kind = "MIDDLE" => From(p, Head(q).id)
  BY <1>1, <1>2 DEF Sorted, From
<1> QED
  BY <1>3, <1>4, <1>5, <1>6 DEF p

LEMMA NothingInOrder == (\A n : From(<<>>, n) /\ UpTo(<<>>, n)) /\ Sorted(<<>>)
  BY DEF From, UpTo, Sorted

\* What is not newer than a sentence is not newer than a newer one.
LEMMA UpToNewer ==
  ASSUME NEW q \in Seq(Audios), NEW n \in Nat, AllIds(q, n) PROVE UpTo(q, n)
  BY DEF AllIds, UpTo

LEMMA OrderStep == ASSUME Types, CountInv, IdInv, ThreadInv, OrderInv, Next PROVE OrderInv' /\ latest' >= latest
<1>1. /\ latest \in Nat /\ ids \in Nat /\ text.cur \in Nat /\ ctrl.id \in Nat /\ send.id \in Nat /\ sid \in Nat
      /\ audioq \in Seq(Audios) /\ textq \in Seq(Texts) /\ text \in TextStates /\ send \in Sends
      /\ ctrl \in Senders /\ ctrl.queue \in Seq(Packets) /\ text.cur \in Ids /\ text.buffer \in Nat /\ text.last \in Ids
      /\ send.n \in Nat /\ send.id \in Ids
  BY TypeFacts
<1>2. /\ Before(text.cur) /\ SendBefore(text.cur) /\ UpTo(audioq, text.cur)
      /\ ctrl.queue # <<>> => latest <= ctrl.id /\ From(audioq, ctrl.id)
      /\ send.kind = "MIDDLE" => Before(send.id) /\ From(audioq, send.id)
      /\ From(audioq, latest) /\ Sorted(audioq)
  BY DEF OrderInv
<1>3. latest >= latest
  BY <1>1
<1>4. CASE UNCHANGED <<latest, text, send, ctrl>> /\ (UNCHANGED audioq \/ audioq' = <<>>)
  BY <1>2, <1>3, <1>4, NothingInOrder DEF OrderInv, Before, SendBefore
<1>5. CASE Handler
  <2>1. UNCHANGED <<latest, text, send>>
    BY <1>5 DEF Handler, StartReturns, ReceiveReturns, Accepts, AcceptsAborting, Announces, Submits, Interrupts,
         AbortReturns, Greets, GreetingQueued, Resets, ResetReturns, AtStart, AtReceive, heard
  <2>2. CASE UNCHANGED <<audioq, ctrl>>
    BY <1>4, <2>1, <2>2
  <2>3. CASE audioq' = <<>> /\ ctrl' = NoSender
    <3>1. ctrl'.queue = <<>>
      BY <2>3 DEF NoSender
    <3> QED
      BY <1>2, <1>3, <2>1, <2>3, <3>1, NothingInOrder DEF OrderInv, Before, SendBefore
  <2> QED
    BY <1>5, <2>2, <2>3 DEF Handler, StartReturns, ReceiveReturns, Accepts, AcceptsAborting, Announces, Submits,
         Interrupts, AbortReturns, Greets, GreetingQueued, Resets, ResetReturns, Aborts, GivesUpSpeech, ClearsQueues
<1>6. CASE Chat
  BY <1>4, <1>6 DEF Chat, ChatBegins, ChatOpens, ChatStreams, ChatAnswers, ChatFails, ChatAborted, ChatCalls,
         ToolSpeaks, ToolContinues, ChatCloses, AtChat, heard
<1>7. CASE TextTakes
  <2>1. UNCHANGED <<latest, send, ctrl, audioq>>
    BY <1>7 DEF TextTakes, AtText, heard
  <2>2. CASE text'.cur = text.cur
    BY <1>2, <1>3, <2>1, <2>2 DEF OrderInv, Before, SendBefore
  <2>3. CASE Head(textq).kind = "FIRST" /\ Head(textq).id = sid /\ text'.cur = Head(textq).id
    <3>1. Head(textq).id > 0
      BY <1>1, <1>7, <2>3, TailIds DEF TextTakes, ThreadInv
    <3>2. text'.cur = ids
      BY <1>1, <2>3, <3>1 DEF IdInv
    <3>3. /\ latest <= ids /\ ctrl.id <= ids /\ send.id <= ids /\ UpTo(audioq, ids)
      BY <1>1, UpToNewer DEF IdInv
    <3> QED
      BY <1>2, <1>3, <2>1, <3>2, <3>3 DEF OrderInv, Before, SendBefore
  <2> QED
    BY <1>1, <1>7, <2>2, <2>3 DEF TextTakes, Dropped, TextStates
<1>8. CASE Synthesises \/ TextEnds
  <2>1. UNCHANGED <<latest, send, ctrl>> /\ text'.cur = text.cur
    BY <1>1, <1>8 DEF Synthesises, TextEnds, AtText, heard, TextStates
  <2>2. CASE UNCHANGED audioq
    BY <1>2, <1>3, <2>1, <2>2 DEF OrderInv, Before, SendBefore
  <2>3. ASSUME NEW x \in Audios, x.kind = "MIDDLE" => x.id = text.cur, audioq' = Append(audioq, x)
        PROVE  OrderInv'
    <3>1. /\ From(audioq', latest) /\ UpTo(audioq', text.cur) /\ Sorted(audioq')
          /\ ctrl.queue # <<>> => From(audioq', ctrl.id)
          /\ send.kind = "MIDDLE" => From(audioq', send.id)
      <4>1. /\ From(audioq, latest) /\ UpTo(audioq, text.cur) /\ Sorted(audioq) /\ latest <= text.cur
            /\ ctrl.queue # <<>> => From(audioq, ctrl.id) /\ ctrl.id <= text.cur
            /\ send.kind = "MIDDLE" => From(audioq, send.id) /\ send.id <= text.cur
            /\ text.cur <= text.cur
        BY <1>1, <1>2 DEF Before, SendBefore
      <4> QED
        BY <1>1, <2>3, <4>1, AppendOrder
    <3> QED
      BY <1>2, <2>1, <3>1 DEF OrderInv, Before, SendBefore
  <2>4. /\ Audio("MIDDLE", text.cur, text.buffer) \in Audios /\ Audio("MIDDLE", text.cur, text.buffer).id = text.cur
        /\ Audio("LAST", text.last, 0) \in Audios /\ Audio("LAST", text.last, 0).kind # "MIDDLE"
    BY <1>1 DEF Audio, Audios
  <2>5. \/ UNCHANGED audioq \/ audioq' = Append(audioq, Audio("MIDDLE", text.cur, text.buffer))
        \/ audioq' = Append(audioq, Audio("LAST", text.last, 0))
    BY <1>8 DEF Synthesises, TextEnds, FromSoundbank, FromProvider, Enqueues, GivesUp
  <2>6. latest' >= latest
    BY <1>3, <2>1
  <2> QED
    BY <2>2, <2>3, <2>4, <2>5, <2>6
<1>9. CASE AudioTakes
  <2>1. audioq # <<>> /\ audioq' = Tail(audioq) /\ UNCHANGED <<latest, text, ctrl>>
    BY <1>9 DEF AudioTakes, AtSend, heard
  <2>2. /\ From(audioq', latest) /\ UpTo(audioq', text.cur) /\ Sorted(audioq')
        /\ ctrl.queue # <<>> => From(audioq', ctrl.id)
        /\ Head(audioq).kind = "MIDDLE" =>
              /\ latest <= Head(audioq).id /\ Head(audioq).id <= text.cur /\ From(audioq', Head(audioq).id)
              /\ ctrl.queue # <<>> => ctrl.id <= Head(audioq).id
    BY <1>1, <1>2, <2>1, TailOrder
  <2>3. send'.kind = "MIDDLE" => Head(audioq).kind = "MIDDLE" /\ send'.id = Head(audioq).id
    BY <1>9 DEF AudioTakes, NoSend
  <2> QED
    BY <1>2, <1>3, <2>1, <2>2, <2>3 DEF OrderInv, Before, SendBefore
<1>10. CASE SendSkips \/ SendsLast \/ Stops
  <2>1. UNCHANGED <<latest, text, audioq>> /\ send'.kind # "MIDDLE"
    BY <1>1, <1>10 DEF SendSkips, SendsLast, Stops, AtSend, heard, NoSend, Sends
  <2>2. ctrl' = ctrl \/ ctrl'.queue = <<>>
    BY <1>10 DEF SendSkips, SendsLast, Stops, NoSender
  <2> QED
    BY <1>2, <1>3, <2>1, <2>2 DEF OrderInv, Before, SendBefore
<1>11. CASE SendsAudio
  <2> DEFINE c == Controller
             x == Audio("MIDDLE", send.id, send.n)
  <2>1. /\ UNCHANGED <<text, audioq>> /\ send'.kind # "MIDDLE" /\ send.id = sid /\ send.kind = "MIDDLE"
    BY <1>11 DEF SendsAudio, AtSend, NoSend, Stale
  <2>2. /\ c \in Senders /\ c.id = sid /\ c.queue \in Seq(Packets)
        /\ c.queue = <<>> \/ (c = ctrl /\ (c.queue # <<>> => c.count >= PreBuffer))
    <3>1. CASE NeedsReset
      BY <3>1, ControllerIs DEF Senders
    <3>2. CASE ~NeedsReset
      BY <3>2, ControllerIs DEF Senders, ThreadInv
    <3> QED
      BY <3>1, <3>2
  <2>3. /\ latest <= send.id /\ send.id <= text.cur /\ From(audioq, send.id)
    BY <1>2, <2>1 DEF Before, SendBefore
  <2>4. \/ ctrl' = c /\ latest' = latest
        \/ c.count < PreBuffer /\ ctrl' = [c EXCEPT !.count = @ + 1] /\ latest' = send.id
        \/ ctrl' = [c EXCEPT !.queue = Append(@, x)] /\ latest' = latest
    BY <1>11 DEF SendsAudio, Hears, heard
  <2> HIDE DEF c, x
  <2>5. /\ latest' \in {latest, send.id} /\ ctrl'.id = send.id
        /\ latest' = send.id => latest' = latest \/ ctrl'.queue = <<>>
    <3>1. CASE ctrl' = c /\ latest' = latest
      BY <2>1, <2>2, <3>1
    <3>2. CASE c.count < PreBuffer /\ ctrl' = [c EXCEPT !.count = @ + 1] /\ latest' = send.id
      <4>1. c.count \in Nat /\ PreBuffer \in Nat /\ ctrl'.queue = c.queue /\ ctrl'.id = c.id
        BY <2>2, <3>2, Bounds DEF Senders
      <4>2. c.queue = <<>>
        BY <2>2, <3>2, <4>1
      <4> QED
        BY <2>1, <2>2, <3>2, <4>1, <4>2
    <3>3. CASE ctrl' = [c EXCEPT !.queue = Append(@, x)] /\ latest' = latest
      BY <2>1, <2>2, <3>3 DEF Senders
    <3> QED
      BY <2>4, <3>1, <3>2, <3>3
  <2>6. latest' >= latest /\ latest' <= send.id /\ From(audioq, latest')
    BY <1>1, <1>2, <2>3, <2>5
  <2> QED
    BY <1>1, <1>2, <2>1, <2>3, <2>5, <2>6 DEF OrderInv, Before, SendBefore
<1>12. CASE SenderSends
  <2>1. UNCHANGED <<text, audioq, send>> /\ ctrl.queue # <<>> /\ ctrl'.id = ctrl.id
    BY <1>1, <1>12 DEF SenderSends, Senders
  <2>2. Head(ctrl.queue).id = ctrl.id
    <3>1. 1 \in DOMAIN ctrl.queue /\ Head(ctrl.queue) = ctrl.queue[1]
      BY <1>1, <2>1
    <3> QED
      BY <3>1 DEF ThreadInv
  <2>3. latest' \in {latest, ctrl.id}
    BY <1>12, <2>2 DEF SenderSends, Hears, heard
  <2>4. latest' >= latest /\ latest' <= ctrl.id /\ From(audioq, latest')
    BY <1>1, <1>2, <2>1, <2>3
  <2> QED
    BY <1>1, <1>2, <2>1, <2>3, <2>4 DEF OrderInv, Before, SendBefore
<1> QED
  BY <1>5, <1>6, <1>7, <1>8, <1>9, <1>10, <1>11, <1>12 DEF Next, Text, Playback

-----------------------------------------------------------------------------
(* The account of one sentence i, step by step.                            *)

\* A sentence that is newer than everything there is.
LEMMA SumsOfNothing == ASSUME NEW n \in Nat, NEW w, \A k \in 1 .. n : w[k] = 0 PROVE Sums(n, w, 0)
<1> DEFINE f == [k \in 0 .. n |-> 0]
<1>1. /\ f \in [0 .. n -> Int] /\ f[0] = 0 /\ f[n] = 0
      /\ \A k \in 1 .. n : f[k] = f[k - 1] + w[k]
      /\ \A j, k \in 0 .. n : f[j] = f[k]
  OBVIOUS
<1> HIDE DEF f
<1> QED
  BY <1>1 DEF Sums

LEMMA NotMentioned ==
  ASSUME NEW i, NEW q, ~Mentions(q, i)
  PROVE  InTurn(q, i) /\ \A kind : ~Has(q, kind, i)
  BY DEF Mentions, InTurn, Has

LEMMA NoText == ASSUME NEW i, NEW q \in Seq(Texts), ~Mentions(q, i) PROVE TextDue(q, i, 0)
<1>1. Len(q) \in Nat /\ DOMAIN q = 1 .. Len(q)
  OBVIOUS
<1>2. \A k \in 1 .. Len(q) : TextWeight(q, i)[k] = 0
  BY <1>1 DEF TextWeight, Mentions
<1> QED
  BY <1>1, <1>2, SumsOfNothing DEF TextDue

LEMMA NoAudio ==
  ASSUME NEW i, NEW q \in Seq(Audios) \cup Seq(Packets), ~Mentions(q, i) PROVE AudioDue(q, i, 0)
<1>1. Len(q) \in Nat /\ DOMAIN q = 1 .. Len(q)
  OBVIOUS
<1>2. \A k \in 1 .. Len(q) : AudioWeight(q, i)[k] = 0
  BY <1>1 DEF AudioWeight, Mentions
<1> QED
  BY <1>1, <1>2, SumsOfNothing DEF AudioDue

LEMMA NoneDue ==
  ASSUME NEW i
  PROVE  /\ \A x : \A q \in Seq(Texts) : ~Mentions(q, i) /\ TextDue(q, i, x) => x = 0
         /\ \A x : \A q \in Seq(Audios) \cup Seq(Packets) : ~Mentions(q, i) /\ AudioDue(q, i, x) => x = 0
<1>1. ASSUME NEW x, NEW q \in Seq(Texts), ~Mentions(q, i), TextDue(q, i, x) PROVE x = 0
  <2>1. Len(q) \in Nat /\ DOMAIN q = 1 .. Len(q)
    OBVIOUS
  <2>2. \A k \in 1 .. Len(q) : TextWeight(q, i)[k] = 0
    BY <1>1, <2>1 DEF TextWeight, Mentions
  <2> QED
    BY <1>1, <2>1, <2>2, SumOfZeros DEF TextDue
<1>2. ASSUME NEW x, NEW q \in Seq(Audios) \cup Seq(Packets), ~Mentions(q, i), AudioDue(q, i, x) PROVE x = 0
  <2>1. Len(q) \in Nat /\ DOMAIN q = 1 .. Len(q)
    BY <1>2
  <2>2. \A k \in 1 .. Len(q) : AudioWeight(q, i)[k] = 0
    BY <1>2, <2>1 DEF AudioWeight, Mentions
  <2> QED
    BY <1>2, <2>1, <2>2, SumOfZeros DEF AudioDue
<1> QED
  BY <1>1, <1>2

LEMMA NewSentence ==
  ASSUME NEW q \in Seq(Texts), NEW t \in TextStates, NEW a \in Seq(Audios), NEW s \in Sends, NEW c \in Senders,
         NEW own \in Ids, NEW greet \in Ids, NEW i \in Ids, i # 0,
         ~Mentions(q, i), ~Mentions(a, i), ~Mentions(c.queue, i), t.cur # i, t.last # i, s.id # i,
         c.queue # <<>> => c.id # i, own # i
  PROVE  Sound(q, t, a, s, c, 0, own, greet, i)
<1>1. InTurn(q, i) /\ InTurn(a, i) /\ \A kind : ~Has(q, kind, i) /\ ~Has(a, kind, i)
  BY NotMentioned
<1>2. OpenInv(q, t.cur, own, greet, i)
  BY <1>1 DEF OpenInv, Silent
<1>3. CloseInv(q, t, a, s, own, greet, i)
  BY <1>1 DEF CloseInv, LastComes
<1>4. TextDue(q, i, 0) /\ AudioDue(a, i, 0) /\ AudioDue(c.queue, i, 0)
  <2>1. c.queue \in Seq(Packets)
    BY DEF Senders
  <2> QED
    BY <2>1, NoText, NoAudio
<1>5. Account(q, t, a, s, c.queue, 0, i)
  <2>1. InBuffer(t, i) = 0 /\ InHand(s, i) = 0
    BY DEF InBuffer, InHand
  <2> QED
    BY <1>4, <2>1 DEF Account
<1> QED
  BY <1>2, <1>3, <1>5 DEF Sound, SenderInv

\* A message at the end of the queue of text.
Weight(x, i) == IF x.kind = "TEXT" /\ x.id = i THEN 1 ELSE 0
LEMMA AccountPuts ==
  ASSUME NEW q \in Seq(Texts), NEW x \in Texts, NEW t, NEW a, NEW s, NEW c, NEW o, NEW i,
         InBuffer(t, i) \in Int, InHand(s, i) \in Int, Account(q, t, a, s, c, o, i)
  PROVE  Account(Append(q, x), t, a, s, c, o + Weight(x, i), i)
<1>1. PICK u \in Int, y \in Int, z \in Int :
        /\ TextDue(q, i, u) /\ AudioDue(a, i, y) /\ AudioDue(c, i, z)
        /\ o = u + InBuffer(t, i) + y + InHand(s, i) + z
  BY DEF Account
<1>2. TextDue(Append(q, x), i, u + Weight(x, i)) /\ Weight(x, i) \in Int
  BY <1>1, AppendDue DEF Weight
<1>3. o + Weight(x, i) = (u + Weight(x, i)) + InBuffer(t, i) + y + InHand(s, i) + z /\ u + Weight(x, i) \in Int
  <2>1. PICK b \in Int, h \in Int, w \in Int : b = InBuffer(t, i) /\ h = InHand(s, i) /\ w = Weight(x, i)
    BY <1>2
  <2>2. o = u + b + y + h + z
    BY <1>1, <2>1
  <2>3. o + w = (u + w) + b + y + h + z /\ u + w \in Int
    BY <2>2
  <2> QED
    BY <2>1, <2>3
<1> QED
  BY <1>1, <1>2, <1>3 DEF Account

LEMMA HeldIsInt ==
  ASSUME NEW t \in TextStates, NEW s \in Sends, NEW i PROVE InBuffer(t, i) \in Int /\ InHand(s, i) \in Int
  BY DEF InBuffer, InHand, TextStates, Sends

\* FIRST of a new answer.
LEMMA PutsFirst ==
  ASSUME NEW q \in Seq(Texts), NEW t \in TextStates, NEW a \in Seq(Audios), NEW s \in Sends, NEW c \in Senders,
         NEW own \in Ids, NEW greet \in Ids, NEW i \in Ids, i # 0, NEW o \in Int,
         Sound(q, t, a, s, c, o, own, greet, i), ~Mentions(q, i), t.cur # i, greet # i, t.last # i, ~LastComes(a, s, i)
  PROVE  Sound(Append(q, Piece("FIRST", i)), t, a, s, c, o, i, greet, i)
<1> DEFINE x == Piece("FIRST", i)
           p == Append(q, x)
<1>1. x \in Texts /\ x.id = i /\ x.kind = "FIRST"
  BY DEF Piece, Texts
<1> HIDE DEF x
<1>2. ~Has(q, "LAST", i) /\ InTurn(q, i)
  BY NotMentioned
<1>3. InTurn(p, i) /\ Has(p, "FIRST", i) /\ ~Has(p, "LAST", i)
  BY <1>1, <1>2, AppendInTurn, AppendSays
<1>4. OpenInv(p, t.cur, i, greet, i)
  BY <1>3 DEF OpenInv
<1>5. CloseInv(p, t, a, s, i, greet, i)
  BY DEF Sound, CloseInv
<1>6. Account(p, t, a, s, c.queue, o, i)
  <2>1. Weight(x, i) = 0
    BY <1>1 DEF Weight
  <2>2. Account(p, t, a, s, c.queue, o + Weight(x, i), i)
    BY <1>1, HeldIsInt, AccountPuts DEF Sound
  <2> QED
    BY <2>1, <2>2
<1> QED
  BY <1>4, <1>5, <1>6 DEF Sound, x

\* A piece of text, under the sentence of the one who speaks or under another.
LEMMA PutsText ==
  ASSUME NEW q \in Seq(Texts), NEW t \in TextStates, NEW a \in Seq(Audios), NEW s \in Sends, NEW c \in Senders,
         NEW own \in Ids, NEW greet \in Ids, NEW i \in Ids, NEW o \in Int, NEW j \in Ids,
         Sound(q, t, a, s, c, o, own, greet, i), j = i => own = i
  PROVE  Sound(Append(q, Piece("TEXT", j)), t, a, s, c, o + (IF j = i THEN 1 ELSE 0), own, greet, i)
<1> DEFINE x == Piece("TEXT", j)
           p == Append(q, x)
<1>1. x \in Texts /\ x.id = j /\ x.kind = "TEXT"
  BY DEF Piece, Texts
<1> HIDE DEF x
<1>2. /\ Mentions(p, i) <=> Mentions(q, i) \/ j = i
      /\ Has(p, "FIRST", i) <=> Has(q, "FIRST", i)
      /\ Has(p, "LAST", i) <=> Has(q, "LAST", i)
  BY <1>1, AppendSays
<1>3. OpenInv(q, t.cur, own, greet, i) /\ CloseInv(q, t, a, s, own, greet, i)
  BY DEF Sound
<1>4. InTurn(p, i)
  <2>1. InTurn(q, i) /\ (j = i => ~Has(q, "LAST", i))
    BY <1>3 DEF OpenInv
  <2> QED
    BY <1>1, <2>1, AppendInTurn
<1>5. OpenInv(p, t.cur, own, greet, i)
  BY <1>2, <1>3, <1>4 DEF OpenInv, Silent
<1>6. CloseInv(p, t, a, s, own, greet, i)
  BY <1>2, <1>3 DEF CloseInv, Silent
<1>7. Account(p, t, a, s, c.queue, o + (IF j = i THEN 1 ELSE 0), i)
  <2>1. Weight(x, i) = IF j = i THEN 1 ELSE 0
    BY <1>1 DEF Weight
  <2>2. Account(p, t, a, s, c.queue, o + Weight(x, i), i)
    BY <1>1, HeldIsInt, AccountPuts DEF Sound
  <2> QED
    BY <2>1, <2>2
<1> QED
  BY <1>5, <1>6, <1>7 DEF Sound, x

\* LAST, with which the one who speaks leaves the sentence.
LEMMA PutsEnd ==
  ASSUME NEW q \in Seq(Texts), NEW t \in TextStates, NEW a \in Seq(Audios), NEW s \in Sends, NEW c \in Senders,
         NEW own \in Ids, NEW greet \in Ids, NEW i \in Ids, i # 0, NEW o \in Int,
         Sound(q, t, a, s, c, o, own, greet, i)
  PROVE  Sound(Append(q, Piece("LAST", own)), t, a, s, c, o, 0, greet, i)
<1> DEFINE x == Piece("LAST", own)
           p == Append(q, x)
<1>1. x \in Texts /\ x.id = own /\ x.kind = "LAST"
  BY DEF Piece, Texts
<1> HIDE DEF x
<1>2. /\ Mentions(p, i) <=> Mentions(q, i) \/ own = i
      /\ Has(p, "FIRST", i) <=> Has(q, "FIRST", i)
      /\ Has(p, "LAST", i) <=> Has(q, "LAST", i) \/ own = i
  BY <1>1, AppendSays
<1>3. OpenInv(q, t.cur, own, greet, i) /\ CloseInv(q, t, a, s, own, greet, i)
  BY DEF Sound
<1>4. InTurn(p, i)
  <2>1. InTurn(q, i) /\ (own = i => ~Has(q, "LAST", i))
    BY <1>3 DEF OpenInv
  <2> QED
    BY <1>1, <2>1, AppendInTurn
<1>5. OpenInv(p, t.cur, 0, greet, i)
  BY <1>2, <1>3, <1>4 DEF OpenInv, Silent
<1>6. CloseInv(p, t, a, s, 0, greet, i)
  BY <1>2, <1>3 DEF CloseInv, Silent
<1>7. Account(p, t, a, s, c.queue, o, i)
  <2>1. Weight(x, i) = 0
    BY <1>1 DEF Weight
  <2>2. Account(p, t, a, s, c.queue, o + Weight(x, i), i)
    BY <1>1, HeldIsInt, AccountPuts DEF Sound
  <2> QED
    BY <2>1, <2>2
<1> QED
  BY <1>5, <1>6, <1>7 DEF Sound, x

\* The greeting, all at once.
LEMMA PutsGreeting ==
  ASSUME NEW q \in Seq(Texts), NEW t \in TextStates, NEW a \in Seq(Audios), NEW s \in Sends, NEW c \in Senders,
         NEW own \in Ids, NEW greet \in Ids, NEW i \in Ids, i # 0, NEW o \in Int,
         Sound(q, t, a, s, c, o, own, greet, i)
  PROVE  Sound(Append(Append(Append(q, Piece("FIRST", greet)), Piece("TEXT", greet)), Piece("LAST", greet)),
               t, a, s, c, o + (IF greet = i THEN 1 ELSE 0), own, 0, i)
<1> DEFINE f == Piece("FIRST", greet)
           x == Piece("TEXT", greet)
           l == Piece("LAST", greet)
           q1 == Append(q, f)
           q2 == Append(q1, x)
           p == Append(q2, l)
<1>1. /\ f \in Texts /\ f.id = greet /\ f.kind = "FIRST"
      /\ x \in Texts /\ x.id = greet /\ x.kind = "TEXT"
      /\ l \in Texts /\ l.id = greet /\ l.kind = "LAST"
  BY DEF Piece, Texts
<1> HIDE DEF f, x, l
<1>2. q1 \in Seq(Texts) /\ q2 \in Seq(Texts)
  BY <1>1
<1>3. /\ Mentions(q1, i) <=> Mentions(q, i) \/ greet = i
      /\ Has(q1, "FIRST", i) <=> Has(q, "FIRST", i) \/ greet = i
      /\ Has(q1, "LAST", i) <=> Has(q, "LAST", i)
  BY <1>1, AppendSays
<1>4. /\ Mentions(q2, i) <=> Mentions(q, i) \/ greet = i
      /\ Has(q2, "FIRST", i) <=> Has(q, "FIRST", i) \/ greet = i
      /\ Has(q2, "LAST", i) <=> Has(q, "LAST", i)
  <2> HIDE DEF q1
  <2> QED
    BY <1>1, <1>2, <1>3, AppendSays
<1>5. /\ Mentions(p, i) <=> Mentions(q, i) \/ greet = i
      /\ Has(p, "FIRST", i) <=> Has(q, "FIRST", i) \/ greet = i
      /\ Has(p, "LAST", i) <=> Has(q, "LAST", i) \/ greet = i
  <2> HIDE DEF q2
  <2> QED
    BY <1>1, <1>2, <1>4, AppendSays
<1>6. OpenInv(q, t.cur, own, greet, i) /\ CloseInv(q, t, a, s, own, greet, i)
  BY DEF Sound
<1>7. InTurn(p, i)
  <2>1. InTurn(q, i) /\ (greet = i => ~Mentions(q, i))
    BY <1>6 DEF OpenInv, Silent
  <2>2. greet = i => ~Has(q, "LAST", i)
    BY <2>1, NotMentioned
  <2>3. InTurn(q1, i)
    BY <1>1, <2>1, <2>2, AppendInTurn
  <2>4. InTurn(q2, i)
    <3> HIDE DEF q1
    <3> QED
      BY <1>1, <1>2, <1>3, <2>2, <2>3, AppendInTurn
  <2> HIDE DEF q2
  <2> QED
    BY <1>1, <1>2, <1>4, <2>2, <2>4, AppendInTurn
<1>8. Account(p, t, a, s, c.queue, o + (IF greet = i THEN 1 ELSE 0), i)
  <2>1. Weight(f, i) = 0 /\ Weight(x, i) = (IF greet = i THEN 1 ELSE 0) /\ Weight(l, i) = 0
    BY <1>1 DEF Weight
  <2>2. Account(q1, t, a, s, c.queue, o + Weight(f, i), i)
    BY <1>1, HeldIsInt, AccountPuts DEF Sound
  <2>3. Account(q1, t, a, s, c.queue, o, i)
    BY <2>1, <2>2
  <2>4. Account(q2, t, a, s, c.queue, o + Weight(x, i), i)
    <3> HIDE DEF q1
    <3> QED
      BY <1>1, <1>2, <2>3, HeldIsInt, AccountPuts
  <2>5. Account(p, t, a, s, c.queue, (o + Weight(x, i)) + Weight(l, i), i)
    <3> HIDE DEF q2
    <3> QED
      BY <1>1, <1>2, <2>4, HeldIsInt, AccountPuts
  <2> HIDE DEF p
  <2> QED
    BY <2>1, <2>5
<1> HIDE DEF p
<1>9. OpenInv(p, t.cur, own, 0, i)
  BY <1>5, <1>6, <1>7 DEF OpenInv, Silent
<1>10. CloseInv(p, t, a, s, own, 0, i)
  BY <1>5, <1>6 DEF CloseInv, Silent
<1> QED
  BY <1>8, <1>9, <1>10 DEF Sound, p, q2, q1, f, x, l

\* The text thread takes a message of another sentence.
LEMMA TakesOther ==
  ASSUME NEW q \in Seq(Texts), q # <<>>, NEW t \in TextStates, NEW a \in Seq(Audios), NEW s \in Sends,
         NEW c \in Senders, NEW own \in Ids, NEW greet \in Ids, NEW i \in Ids, NEW o \in Int,
         Sound(q, t, a, s, c, o, own, greet, i), Head(q).id # i
  PROVE  Sound(Tail(q), t, a, s, c, o, own, greet, i)
<1> DEFINE p == Tail(q)
<1>1. /\ Mentions(q, i) <=> Mentions(p, i)
      /\ Has(q, "FIRST", i) <=> Has(p, "FIRST", i)
      /\ Has(q, "LAST", i) <=> Has(p, "LAST", i)
  BY TailSays
<1>2. OpenInv(q, t.cur, own, greet, i) /\ CloseInv(q, t, a, s, own, greet, i)
  BY DEF Sound
<1>3. InTurn(p, i)
  BY <1>2, TailInTurn DEF OpenInv
<1>4. PICK u \in Int, y \in Int, z \in Int :
        /\ TextDue(q, i, u) /\ AudioDue(a, i, y) /\ AudioDue(c.queue, i, z)
        /\ o = u + InBuffer(t, i) + y + InHand(s, i) + z
  BY DEF Sound, Account
<1>5. TextDue(p, i, u)
  <2>1. TextDue(p, i, u - (IF Head(q).kind = "TEXT" /\ Head(q).id = i THEN 1 ELSE 0))
    BY <1>4, TailDue
  <2> QED
    BY <2>1
<1> HIDE DEF p
<1>6. OpenInv(p, t.cur, own, greet, i)
  BY <1>1, <1>2, <1>3 DEF OpenInv, Silent
<1>7. CloseInv(p, t, a, s, own, greet, i)
  BY <1>1, <1>2 DEF CloseInv, Silent
<1>8. Account(p, t, a, s, c.queue, o, i)
  BY <1>4, <1>5 DEF Account
<1> QED
  BY <1>6, <1>7, <1>8 DEF Sound, p

\* It takes the next message of the sentence.
LEMMA TakesNext ==
  ASSUME NEW q \in Seq(Texts), q # <<>>, NEW t \in TextStates, NEW a \in Seq(Audios), NEW s \in Sends,
         NEW c \in Senders, NEW own \in Ids, NEW greet \in Ids, NEW i \in Ids, i # 0, NEW o \in Int,
         Sound(q, t, a, s, c, o, own, greet, i), Head(q).id = i, t.last = 0,
         NEW u \in TextStates,
         Head(q).kind = "FIRST" => u.cur = i /\ u.buffer = 0 /\ u.last = t.last,
         Head(q).kind = "TEXT" => u.cur = t.cur /\ u.buffer = t.buffer + 1 /\ u.last = t.last,
         Head(q).kind = "LAST" => u.cur = t.cur /\ u.buffer = t.buffer /\ u.last = i
  PROVE  Sound(Tail(q), u, a, s, c, o, own, greet, i)
<1> DEFINE p == Tail(q)
<1>1. /\ Mentions(q, i)
      /\ Has(q, "FIRST", i) <=> Has(p, "FIRST", i) \/ Head(q).kind = "FIRST"
      /\ Has(q, "LAST", i) <=> Has(p, "LAST", i) \/ Head(q).kind = "LAST"
      /\ Head(q).kind \in {"FIRST", "TEXT", "LAST"}
  <2>1. Head(q) \in Texts
    BY Rest
  <2> QED
    BY <2>1, TailSays DEF Texts
<1>2. OpenInv(q, t.cur, own, greet, i) /\ CloseInv(q, t, a, s, own, greet, i)
  BY DEF Sound
<1>3. InTurn(p, i) /\ ~Has(p, "FIRST", i) /\ (Head(q).kind = "LAST" => ~Mentions(p, i))
  BY <1>2, TailInTurn DEF OpenInv
<1>4. PICK x \in Int, y \in Int, z \in Int :
        /\ TextDue(q, i, x) /\ AudioDue(a, i, y) /\ AudioDue(c.queue, i, z)
        /\ o = x + InBuffer(t, i) + y + InHand(s, i) + z
  BY DEF Sound, Account
<1> DEFINE w == IF Head(q).kind = "TEXT" THEN 1 ELSE 0
<1>5. TextDue(p, i, x - w) /\ w \in Int
  <2>1. TextDue(p, i, x - (IF Head(q).kind = "TEXT" /\ Head(q).id = i THEN 1 ELSE 0))
    BY <1>4, TailDue
  <2> QED
    BY <2>1
<1> HIDE DEF p
<1>6. ~LastComes(a, s, i) /\ greet # i /\ t.last # i
  BY <1>1, <1>2 DEF OpenInv, CloseInv, Silent
<1>7. Head(q).kind = "FIRST" => t.cur # i
  BY <1>1, <1>2 DEF OpenInv
<1>8. Head(q).kind # "FIRST" => t.cur = i
  BY <1>1, <1>2, <1>3 DEF OpenInv
<1>9. u.cur = i
  BY <1>1, <1>8
<1>10. OpenInv(p, u.cur, own, greet, i)
  BY <1>1, <1>2, <1>3, <1>6, <1>9 DEF OpenInv
<1>11. CloseInv(p, u, a, s, own, greet, i)
  <2>1. u.last = i => Head(q).kind = "LAST"
    BY <1>1, <1>6
  <2>2. u.last = i => Silent(p, own, greet, i)
    BY <1>1, <1>2, <1>3, <1>6, <2>1 DEF Silent, OpenInv
  <2> QED
    BY <1>2, <1>6, <2>2 DEF CloseInv
<1>12. Account(p, u, a, s, c.queue, o, i)
  <2>1. InBuffer(u, i) = InBuffer(t, i) + w
    BY <1>1, <1>7, <1>8, <1>9 DEF InBuffer, TextStates
  <2>2. x - w \in Int /\ InBuffer(t, i) \in Int /\ InHand(s, i) \in Int
    BY <1>4, <1>5, HeldIsInt
  <2> HIDE DEF w
  <2>3. o = (x - w) + InBuffer(u, i) + y + InHand(s, i) + z
    BY <1>4, <1>5, <2>1, <2>2
  <2> QED
    BY <1>4, <1>5, <2>2, <2>3 DEF Account
<1> QED
  BY <1>10, <1>11, <1>12 DEF Sound, p

\* A segment becomes audio, or another sentence loses one.
LEMMA Speaks ==
  ASSUME NEW q \in Seq(Texts), NEW t \in TextStates, NEW a \in Seq(Audios), NEW s \in Sends,
         NEW c \in Senders, NEW own \in Ids, NEW greet \in Ids, NEW i \in Ids, i # 0, NEW o \in Int,
         Sound(q, t, a, s, c, o, own, greet, i), t.buffer > 0,
         NEW u \in TextStates, u.cur = t.cur, u.buffer = 0, u.last = t.last
  PROVE  /\ Sound(q, u, Append(a, Audio("MIDDLE", t.cur, t.buffer)), s, c, o, own, greet, i)
         /\ t.cur # i => Sound(q, u, a, s, c, o, own, greet, i)
<1> DEFINE x == Audio("MIDDLE", t.cur, t.buffer)
           b == Append(a, x)
<1>1. x \in Audios /\ x.id = t.cur /\ x.kind = "MIDDLE" /\ x.n = t.buffer
  BY DEF Audio, Audios, TextStates
<1> HIDE DEF x
<1>2. /\ Mentions(b, i) <=> Mentions(a, i) \/ t.cur = i
      /\ Has(b, "LAST", i) <=> Has(a, "LAST", i)
  BY <1>1, AppendSays
<1>3. OpenInv(q, t.cur, own, greet, i) /\ CloseInv(q, t, a, s, own, greet, i)
  BY DEF Sound
<1>4. t.cur = i => ~LastComes(a, s, i)
  BY <1>3 DEF CloseInv, TextStates
<1>5. InTurn(b, i)
  <2>1. InTurn(a, i) /\ (t.cur = i => ~Has(a, "LAST", i))
    BY <1>3, <1>4 DEF CloseInv, LastComes
  <2> QED
    BY <1>1, <2>1, AppendInTurn
<1>6. PICK x1 \in Int, y \in Int, z \in Int :
        /\ TextDue(q, i, x1) /\ AudioDue(a, i, y) /\ AudioDue(c.queue, i, z)
        /\ o = x1 + InBuffer(t, i) + y + InHand(s, i) + z
  BY DEF Sound, Account
<1>7. AudioDue(b, i, y + InBuffer(t, i))
  <2>1. AudioDue(b, i, y + (IF x.kind = "MIDDLE" /\ x.id = i THEN x.n ELSE 0))
    BY <1>1, <1>6, AppendAudio
  <2> QED
    BY <1>1, <2>1 DEF InBuffer
<1> HIDE DEF b
<1>8. OpenInv(q, u.cur, own, greet, i)
  BY <1>3
<1>9. CloseInv(q, u, b, s, own, greet, i)
  BY <1>2, <1>3, <1>4, <1>5 DEF CloseInv, LastComes
<1>10. CloseInv(q, u, a, s, own, greet, i)
  BY <1>3 DEF CloseInv
<1>11. InBuffer(u, i) = 0 /\ InBuffer(t, i) \in Int /\ InHand(s, i) \in Int
  BY HeldIsInt DEF InBuffer
<1>12. Account(q, u, b, s, c.queue, o, i)
  <2>1. o = x1 + InBuffer(u, i) + (y + InBuffer(t, i)) + InHand(s, i) + z /\ y + InBuffer(t, i) \in Int
    BY <1>6, <1>11
  <2> QED
    BY <1>6, <1>7, <2>1 DEF Account
<1>13. t.cur # i => Account(q, u, a, s, c.queue, o, i)
  <2>1. t.cur # i => InBuffer(t, i) = InBuffer(u, i)
    BY <1>11 DEF InBuffer
  <2> QED
    BY <1>6, <2>1 DEF Account
<1> QED
  BY <1>8, <1>9, <1>10, <1>12, <1>13 DEF Sound, b, x

\* LAST goes to the audio thread behind all that was said.
LEMMA Ends ==
  ASSUME NEW q \in Seq(Texts), NEW t \in TextStates, NEW a \in Seq(Audios), NEW s \in Sends,
         NEW c \in Senders, NEW own \in Ids, NEW greet \in Ids, NEW i \in Ids, i # 0, NEW o \in Int,
         Sound(q, t, a, s, c, o, own, greet, i), t.buffer = 0,
         NEW u \in TextStates, u.cur = t.cur, u.buffer = t.buffer, u.last = 0
  PROVE  Sound(q, u, Append(a, Audio("LAST", t.last, 0)), s, c, o, own, greet, i)
<1> DEFINE x == Audio("LAST", t.last, 0)
           b == Append(a, x)
<1>1. x \in Audios /\ x.id = t.last /\ x.kind = "LAST"
  BY DEF Audio, Audios, TextStates
<1> HIDE DEF x
<1>2. /\ Mentions(b, i) <=> Mentions(a, i) \/ t.last = i
      /\ Has(b, "LAST", i) <=> Has(a, "LAST", i) \/ t.last = i
  BY <1>1, AppendSays
<1>3. OpenInv(q, t.cur, own, greet, i) /\ CloseInv(q, t, a, s, own, greet, i)
  BY DEF Sound
<1>4. t.last = i => ~LastComes(a, s, i) /\ Silent(q, own, greet, i)
  BY <1>3 DEF CloseInv
<1>5. InTurn(b, i)
  <2>1. InTurn(a, i) /\ (t.last = i => ~Has(a, "LAST", i))
    BY <1>3, <1>4 DEF CloseInv, LastComes
  <2> QED
    BY <1>1, <2>1, AppendInTurn
<1>6. PICK x1 \in Int, y \in Int, z \in Int :
        /\ TextDue(q, i, x1) /\ AudioDue(a, i, y) /\ AudioDue(c.queue, i, z)
        /\ o = x1 + InBuffer(t, i) + y + InHand(s, i) + z
  BY DEF Sound, Account
<1>7. AudioDue(b, i, y)
  <2>1. AudioDue(b, i, y + (IF x.kind = "MIDDLE" /\ x.id = i THEN x.n ELSE 0))
    BY <1>1, <1>6, AppendAudio
  <2> QED
    BY <1>1, <2>1
<1> HIDE DEF b
<1>8. OpenInv(q, u.cur, own, greet, i)
  BY <1>3
<1>9. CloseInv(q, u, b, s, own, greet, i)
  BY <1>2, <1>3, <1>4, <1>5 DEF CloseInv, LastComes
<1>10. Account(q, u, b, s, c.queue, o, i)
  <2>1. InBuffer(u, i) = InBuffer(t, i)
    BY DEF InBuffer
  <2> QED
    BY <1>6, <1>7, <2>1 DEF Account
<1> QED
  BY <1>8, <1>9, <1>10 DEF Sound, b, x

\* The audio thread takes the next item.
LEMMA TakesAudio ==
  ASSUME NEW q \in Seq(Texts), NEW t \in TextStates, NEW a \in Seq(Audios), a # <<>>, NEW s \in Sends,
         NEW c \in Senders, NEW own \in Ids, NEW greet \in Ids, NEW i \in Ids, i # 0, NEW o \in Int,
         Sound(q, t, a, s, c, o, own, greet, i), s.kind = "NONE",
         NEW r \in Sends, r.kind = Head(a).kind, r.id = Head(a).id, r.n = Head(a).n
  PROVE  Sound(q, t, Tail(a), r, c, o, own, greet, i)
<1> DEFINE b == Tail(a)
<1>1. /\ Mentions(a, i) <=> Mentions(b, i) \/ Head(a).id = i
      /\ Has(a, "LAST", i) <=> Has(b, "LAST", i) \/ (Head(a).kind = "LAST" /\ Head(a).id = i)
  BY TailSays
<1>2. OpenInv(q, t.cur, own, greet, i) /\ CloseInv(q, t, a, s, own, greet, i)
  BY DEF Sound
<1>3. InTurn(b, i) /\ (Head(a).kind = "LAST" /\ Head(a).id = i => ~Mentions(b, i))
  BY <1>2, TailInTurn DEF CloseInv
<1>4. PICK x \in Int, y \in Int, z \in Int :
        /\ TextDue(q, i, x) /\ AudioDue(a, i, y) /\ AudioDue(c.queue, i, z)
        /\ o = x + InBuffer(t, i) + y + InHand(s, i) + z
  BY DEF Sound, Account
<1>5. AudioDue(b, i, y - InHand(r, i))
  <2>1. AudioDue(b, i, y - (IF Head(a).kind = "MIDDLE" /\ Head(a).id = i THEN Head(a).n ELSE 0))
    BY <1>4, TailAudio
  <2> QED
    BY <2>1 DEF InHand
<1> HIDE DEF b
<1>6. LastComes(b, r, i) <=> LastComes(a, s, i)
  BY <1>1 DEF LastComes
<1>7. CloseInv(q, t, b, r, own, greet, i)
  BY <1>2, <1>3, <1>6 DEF CloseInv
<1>8. Account(q, t, b, r, c.queue, o, i)
  <2>1. InHand(s, i) = 0 /\ InHand(r, i) \in Int /\ InBuffer(t, i) \in Int
    BY HeldIsInt DEF InHand
  <2>2. o = x + InBuffer(t, i) + (y - InHand(r, i)) + InHand(r, i) + z /\ y - InHand(r, i) \in Int
    BY <1>4, <2>1
  <2> QED
    BY <1>4, <1>5, <2>2 DEF Account
<1> QED
  BY <1>2, <1>7, <1>8 DEF Sound, b

\* It lays down what is of another sentence; LAST is of no weight.
LEMMA LaysDown ==
  ASSUME NEW q, NEW t, NEW a, NEW s, NEW c, NEW own, NEW greet, NEW i, i # 0, NEW o,
         Sound(q, t, a, s, c, o, own, greet, i), s.id # i
  PROVE  Sound(q, t, a, NoSend, c, o, own, greet, i)
<1>1. InHand(NoSend, i) = InHand(s, i)
  BY DEF InHand, NoSend
<1>2. LastComes(a, NoSend, i) <=> LastComes(a, s, i)
  BY DEF LastComes, NoSend
<1>3. CloseInv(q, t, a, NoSend, own, greet, i)
  BY <1>2 DEF Sound, CloseInv, NoSend
<1>4. Account(q, t, a, NoSend, c.queue, o, i)
  BY <1>1 DEF Sound, Account
<1> QED
  BY <1>3, <1>4 DEF Sound

\* The sender that is started drops nothing of the sentence.
LEMMA Restarts ==
  ASSUME NEW q, NEW t, NEW a, NEW s, NEW c \in Senders, NEW own, NEW greet, NEW i, NEW o,
         Sound(q, t, a, s, c, o, own, greet, i), \A k \in DOMAIN c.queue : c.queue[k].id = c.id,
         NEW d \in Senders, d = c \/ (d.queue = <<>> /\ (~c.alive \/ c.id # i))
  PROVE  Sound(q, t, a, s, d, o, own, greet, i)
<1>1. CASE d = c
  BY <1>1
<1>2. CASE d.queue = <<>> /\ (~c.alive \/ c.id # i)
  <2>1. ~Mentions(c.queue, i)
    BY <1>2 DEF Mentions, Sound, SenderInv
  <2>2. c.queue \in Seq(Packets) /\ <<>> \in Seq(Packets) /\ ~Mentions(<<>>, i)
    BY DEF Senders, Mentions
  <2>3. PICK x \in Int, y \in Int, z \in Int :
          /\ TextDue(q, i, x) /\ AudioDue(a, i, y) /\ AudioDue(c.queue, i, z)
          /\ o = x + InBuffer(t, i) + y + InHand(s, i) + z
    BY DEF Sound, Account
  <2>4. z = 0
    BY <2>1, <2>2, <2>3, NoneDue
  <2>5. AudioDue(d.queue, i, 0)
    BY <1>2, <2>2, NoAudio
  <2>6. Account(q, t, a, s, d.queue, o, i)
    BY <2>3, <2>4, <2>5 DEF Account
  <2> QED
    BY <1>2, <2>6 DEF Sound, SenderInv
<1> QED
  BY <1>1, <1>2

\* The device hears what the audio thread had in hand, at once or from the sender.
LEMMA HearsAtOnce ==
  ASSUME NEW q \in Seq(Texts), NEW t \in TextStates, NEW a \in Seq(Audios), NEW s \in Sends,
         NEW c \in Senders, NEW own \in Ids, NEW greet \in Ids, NEW i \in Ids, i # 0, NEW o \in Int,
         Sound(q, t, a, s, c, o, own, greet, i), s.kind = "MIDDLE", s.id = i, c.alive,
         NEW d \in Senders, d.alive, NEW m \in Int,
         \/ d.queue = c.queue /\ m = s.n
         \/ d.queue = Append(c.queue, Audio("MIDDLE", i, s.n)) /\ m = 0
  PROVE  Sound(q, t, a, NoSend, d, o - m, own, greet, i)
<1>1. PICK x \in Int, y \in Int, z \in Int :
        /\ TextDue(q, i, x) /\ AudioDue(a, i, y) /\ AudioDue(c.queue, i, z)
        /\ o = x + InBuffer(t, i) + y + InHand(s, i) + z
  BY DEF Sound, Account
<1>2. InHand(s, i) = s.n /\ InHand(NoSend, i) = 0 /\ InBuffer(t, i) \in Int /\ s.n \in Int
  BY HeldIsInt DEF InHand, NoSend, Sends
<1>3. CloseInv(q, t, a, NoSend, own, greet, i)
  BY DEF Sound, CloseInv, NoSend, LastComes
<1>4. Account(q, t, a, NoSend, d.queue, o - m, i)
  <2>1. CASE d.queue = c.queue /\ m = s.n
    <3>1. o - m = x + InBuffer(t, i) + y + InHand(NoSend, i) + z
      BY <1>1, <1>2, <2>1
    <3> QED
      BY <1>1, <2>1, <3>1 DEF Account
  <2>2. CASE d.queue = Append(c.queue, Audio("MIDDLE", i, s.n)) /\ m = 0
    <3> DEFINE e == Audio("MIDDLE", i, s.n)
    <3>1. e \in Packets /\ e.kind = "MIDDLE" /\ e.id = i /\ e.n = s.n /\ Packets \subseteq Audios
          /\ c.queue \in Seq(Packets)
      BY DEF Audio, Audios, Packets, Sends, Senders
    <3> HIDE DEF e
    <3>2. AudioDue(Append(c.queue, e), i, z + (IF e.kind = "MIDDLE" /\ e.id = i THEN e.n ELSE 0))
      BY <1>1, <3>1, AppendAudio
    <3>3. AudioDue(d.queue, i, z + s.n)
      BY <2>2, <3>1, <3>2 DEF e
    <3>4. o - m = x + InBuffer(t, i) + y + InHand(NoSend, i) + (z + s.n) /\ z + s.n \in Int
      BY <1>1, <1>2, <2>2
    <3> QED
      BY <1>1, <3>3, <3>4 DEF Account
  <2> QED
    BY <2>1, <2>2
<1> QED
  BY <1>3, <1>4 DEF Sound, SenderInv

\* The sender sends its next packet.
LEMMA HearsLater ==
  ASSUME NEW q, NEW t \in TextStates, NEW a, NEW s \in Sends, NEW c \in Senders, c.queue # <<>>,
         NEW own, NEW greet, NEW i, NEW o \in Int,
         Sound(q, t, a, s, c, o, own, greet, i), NEW d \in Senders, d.alive, d.queue = Tail(c.queue)
  PROVE  Sound(q, t, a, s, d, o - (IF Head(c.queue).id = i THEN Head(c.queue).n ELSE 0), own, greet, i)
<1>1. PICK x \in Int, y \in Int, z \in Int :
        /\ TextDue(q, i, x) /\ AudioDue(a, i, y) /\ AudioDue(c.queue, i, z)
        /\ o = x + InBuffer(t, i) + y + InHand(s, i) + z
  BY DEF Sound, Account
<1> DEFINE m == IF Head(c.queue).id = i THEN Head(c.queue).n ELSE 0
<1>2. /\ c.queue \in Seq(Packets) /\ Head(c.queue) \in Packets /\ Packets \subseteq Audios
      /\ Head(c.queue).kind = "MIDDLE" /\ m \in Int
  <2>1. c.queue \in Seq(Packets)
    BY DEF Senders
  <2>2. Head(c.queue) \in Packets
    BY <2>1, Rest
  <2> QED
    BY <2>1, <2>2 DEF Packets, Audios
<1>3. AudioDue(Tail(c.queue), i, z - m)
  <2>1. AudioDue(Tail(c.queue), i,
                 z - (IF Head(c.queue).kind = "MIDDLE" /\ Head(c.queue).id = i THEN Head(c.queue).n ELSE 0))
    BY <1>1, <1>2, TailAudio
  <2> QED
    BY <1>2, <2>1
<1> HIDE DEF m
<1>4. Account(q, t, a, s, d.queue, o - m, i)
  <2>1. InBuffer(t, i) \in Int /\ InHand(s, i) \in Int
    BY HeldIsInt
  <2>2. o - m = x + InBuffer(t, i) + y + InHand(s, i) + (z - m) /\ z - m \in Int
    BY <1>1, <1>2, <2>1
  <2> QED
    BY <1>1, <1>3, <2>2 DEF Account
<1> QED
  BY <1>4 DEF Sound, SenderInv, m

\* The turn is stopped by its own LAST: it was heard whole.
LEMMA HeardWhole ==
  ASSUME NEW q \in Seq(Texts), NEW t \in TextStates, NEW a \in Seq(Audios), NEW s \in Sends, NEW c \in Senders,
         NEW own, NEW greet, NEW i, NEW o,
         Sound(q, t, a, s, c, o, own, greet, i), s.kind = "LAST", s.id = i, c.queue = <<>>
  PROVE  o = 0
<1>1. LastComes(a, s, i) /\ CloseInv(q, t, a, s, own, greet, i)
  BY DEF LastComes, Sound
<1>2. ~Mentions(q, i) /\ ~Mentions(a, i) /\ ~Mentions(c.queue, i) /\ c.queue \in Seq(Packets)
  BY <1>1 DEF CloseInv, Silent, Mentions, Senders
<1>3. InBuffer(t, i) = 0 /\ InHand(s, i) = 0
  BY <1>1 DEF CloseInv, InBuffer, InHand
<1>4. PICK x \in Int, y \in Int, z \in Int :
        /\ TextDue(q, i, x) /\ AudioDue(a, i, y) /\ AudioDue(c.queue, i, z)
        /\ o = x + InBuffer(t, i) + y + InHand(s, i) + z
  BY DEF Sound, Account
<1>5. x = 0 /\ y = 0 /\ z = 0
  BY <1>2, <1>4, NoneDue
<1> QED
  BY <1>3, <1>4, <1>5

\* And afterwards nothing of it is left.
LEMMA Stopped ==
  ASSUME NEW q \in Seq(Texts), NEW t \in TextStates, NEW a \in Seq(Audios), NEW s \in Sends, NEW c \in Senders,
         NEW own, NEW greet, NEW i, i # 0, NEW o,
         Sound(q, t, a, s, c, o, own, greet, i), s.kind = "LAST", s.id = i, c.queue = <<>>
  PROVE  Sound(q, t, a, NoSend, NoSender, o, own, greet, i)
<1>1. /\ OpenInv(q, t.cur, own, greet, i) /\ CloseInv(q, t, a, s, own, greet, i)
      /\ Account(q, t, a, s, c.queue, o, i)
  BY DEF Sound
<1>2. ~Mentions(a, i)
  BY <1>1 DEF CloseInv
<1>3. ~Has(a, "LAST", i) /\ ~LastComes(a, NoSend, i) /\ t.last # i
  BY <1>1, <1>2, NotMentioned DEF LastComes, NoSend, CloseInv
<1>4. CloseInv(q, t, a, NoSend, own, greet, i)
  BY <1>1, <1>3 DEF CloseInv, NoSend
<1>5. InHand(NoSend, i) = InHand(s, i) /\ NoSender.queue = c.queue /\ NoSender.queue = <<>>
  BY DEF InHand, NoSend, NoSender
<1>6. Account(q, t, a, NoSend, NoSender.queue, o, i)
  BY <1>1, <1>5 DEF Account
<1> QED
  BY <1>1, <1>4, <1>5, <1>6 DEF Sound, SenderInv

-----------------------------------------------------------------------------
(* The account in every step.                                              *)

After ==
    Sound(textq', text', audioq', send', ctrl', owed'[sid'], chat'.own, greeting', sid')

LEMMA GoodFacts ==
  ASSUME IInv
  PROVE  /\ Types /\ CountInv /\ IdInv /\ ChatInv /\ ThreadInv
         /\ ids \in Nat /\ sid \in Ids /\ owed[sid] \in Int /\ Ids \subseteq Nat
         /\ Good => Sound(textq, text, audioq, send, ctrl, owed[sid], chat.own, greeting, sid)
         /\ Good => ~abort
<1>1. Types /\ CountInv /\ IdInv /\ ChatInv /\ ThreadInv
  BY DEF IInv
<1>2. /\ ids \in Nat /\ sid \in Ids /\ owed \in [Ids -> Int] /\ Ids \subseteq Nat
  BY <1>1, TypeFacts
<1>3. Good => ~abort
  BY <1>1 DEF Good, IdInv
<1>4. Good => Sound(textq, text, audioq, send, ctrl, owed[sid], chat.own, greeting, sid)
  BY DEF IInv, GoodInv
<1> QED
  BY <1>1, <1>2, <1>3, <1>4

\* Nothing is known of the next sentence.
LEMMA FreshIsNew ==
  ASSUME IInv, Fresh \in Ids
  PROVE  /\ Fresh # 0 /\ ~Mentions(textq, Fresh) /\ ~Mentions(audioq, Fresh) /\ ~Mentions(ctrl.queue, Fresh)
         /\ text.cur # Fresh /\ text.last # Fresh /\ send.id # Fresh /\ ctrl.id # Fresh
         /\ chat.own # Fresh /\ greeting # Fresh /\ owed[Fresh] = 0
<1>1. /\ ids \in Nat /\ Fresh = ids + 1 /\ text.cur \in Nat /\ text.last \in Nat /\ send.id \in Nat
      /\ ctrl.id \in Nat /\ chat.own \in Nat /\ greeting \in Nat
  BY TypeFacts DEF IInv, Fresh
<1>2. /\ AllIds(textq, ids) /\ AllIds(audioq, ids) /\ text.cur <= ids /\ text.last <= ids /\ send.id <= ids
      /\ ctrl.id <= ids /\ chat.own <= ids /\ greeting <= ids /\ \A j \in Ids : j > ids => owed[j] = 0
      /\ \A k \in DOMAIN ctrl.queue : ctrl.queue[k].id = ctrl.id
  BY DEF IInv, IdInv, ChatInv, ThreadInv
<1>3. ~Mentions(textq, Fresh) /\ ~Mentions(audioq, Fresh) /\ ~Mentions(ctrl.queue, Fresh)
  BY <1>1, <1>2 DEF AllIds, Mentions
<1> QED
  BY <1>1, <1>2, <1>3

LEMMA HandlerGood == ASSUME IInv, Handler, Good' PROVE After
<1>1. /\ textq \in Seq(Texts) /\ text \in TextStates /\ audioq \in Seq(Audios) /\ send \in Sends /\ ctrl \in Senders
      /\ chat.own \in Ids /\ greeting \in Ids /\ owed \in [Ids -> Int] /\ 0 \in Ids
  BY TypeFacts DEF IInv
<1>2. sid' # 0 /\ sid' \notin marred'
  BY DEF Good
<1>3. ASSUME UNCHANGED <<sid, textq, text, audioq, send, ctrl, owed, chat, greeting, marred>> PROVE After
  <2>1. Good
    BY <1>2, <1>3 DEF Good
  <2> QED
    BY <1>3, <2>1, GoodFacts DEF After
<1>4. CASE Accepts \/ Announces \/ Submits \/ AbortReturns \/ ResetReturns
  BY <1>3, <1>4 DEF Accepts, Announces, Submits, AbortReturns, ResetReturns, AtStart, AtReceive, heard, history
<1>5. CASE AcceptsAborting \/ Interrupts \/ Resets
  BY <1>2, <1>5 DEF AcceptsAborting, Interrupts, Resets, Aborts, GivesUpSpeech, AtStart
<1>6. CASE Greets
  <2>1. Fresh \in Ids
    BY <1>6, FreshIsId DEF IInv, Greets, Counts
  <2>2. /\ sid' = Fresh /\ greeting' = Fresh
        /\ UNCHANGED <<textq, text, audioq, send, ctrl, owed, chat>>
    BY <1>6 DEF Greets, AtReceive
  <2>3. Sound(textq, text, audioq, send, ctrl, 0, chat.own, Fresh, Fresh)
    BY <1>1, <2>1, FreshIsNew, NewSentence
  <2>4. owed[Fresh] = 0
    BY <2>1, FreshIsNew
  <2> QED
    BY <2>2, <2>3, <2>4 DEF After
<1>7. CASE GreetingQueued
  <2>1. /\ sid' = sid /\ greeting' = 0 /\ owed' = [owed EXCEPT ![greeting] = @ + 1]
        /\ UNCHANGED <<text, audioq, send, ctrl, chat, marred>>
        /\ textq' = textq \o [i \in 1 .. 3 |-> Piece(<<"FIRST", "TEXT", "LAST">>[i], greeting)]
    BY <1>7 DEF GreetingQueued, AtReceive
  <2>2. Sound(textq, text, audioq, send, ctrl, owed[sid], chat.own, greeting, sid) /\ sid \in Ids /\ sid # 0
        /\ owed[sid] \in Int
    BY <1>2, <2>1, GoodFacts DEF Good
  <2>3. textq' = Append(Append(Append(textq, Piece("FIRST", greeting)), Piece("TEXT", greeting)),
                        Piece("LAST", greeting))
    BY <1>1, <2>1, GreetingPuts
  <2>4. Sound(textq', text, audioq, send, ctrl, owed[sid] + (IF greeting = sid THEN 1 ELSE 0), chat.own, 0, sid)
    BY <1>1, <2>2, <2>3, PutsGreeting
  <2>5. owed'[sid] = owed[sid] + (IF greeting = sid THEN 1 ELSE 0)
    BY <1>1, <2>1, <2>2
  <2> QED
    BY <2>1, <2>4, <2>5 DEF After
<1> QED
  BY <1>4, <1>5, <1>6, <1>7 DEF Handler, StartReturns, ReceiveReturns

LEMMA ChatGood == ASSUME IInv, Chat, Good' PROVE After
<1>1. /\ textq \in Seq(Texts) /\ text \in TextStates /\ audioq \in Seq(Audios) /\ send \in Sends /\ ctrl \in Senders
      /\ chat \in Chats /\ chat.own \in Ids /\ chat.id \in Ids /\ greeting \in Ids /\ owed \in [Ids -> Int]
      /\ 0 \in Ids /\ sid \in Ids /\ owed[sid] \in Int
  BY TypeFacts DEF IInv
<1>2. sid' # 0 /\ sid' \notin marred'
  BY DEF Good
<1>3. UNCHANGED <<text, audioq, send, ctrl, greeting>>
  BY DEF Chat, ChatBegins, ChatOpens, ChatStreams, ChatAnswers, ChatFails, ChatAborted, ChatCalls,
         ToolSpeaks, ToolContinues, ChatCloses, AtChat
<1>4. marred \subseteq marred'
  BY Marks DEF IInv, Next
<1> DEFINE Holds(q, o, own) == Sound(q, text, audioq, send, ctrl, o, own, greeting, sid)
<1>5. ASSUME sid' = sid PROVE sid # 0 /\ Good /\ Holds(textq, owed[sid], chat.own)
  <2>1. sid # 0 /\ Good
    BY <1>2, <1>4, <1>5 DEF Good
  <2> QED
    BY <2>1, GoodFacts
<1>6. ASSUME sid' = sid, Holds(textq', owed'[sid], chat'.own) PROVE After
  BY <1>3, <1>6 DEF After
<1>7. ASSUME NEW q \in Seq(Texts), sid' = sid, Holds(q, owed'[sid], chat.own), owed'[sid] \in Int,
             chat'.own = (IF chat.depth = 0 THEN 0 ELSE chat.own), textq' = q \o Last
      PROVE  After
  <2>1. CASE chat.depth = 0
    <3>1. textq' = Append(q, Piece("LAST", chat.own)) /\ chat'.own = 0
      BY <1>7, <2>1, PutsLast DEF IInv
    <3>2. Holds(textq', owed'[sid], 0)
      BY <1>1, <1>5, <1>7, <3>1, PutsEnd
    <3> QED
      BY <1>6, <1>7, <3>1, <3>2
  <2>2. CASE chat.depth # 0
    <3>1. textq' = q /\ chat'.own = chat.own
      BY <1>7, <2>2, PutsLast DEF IInv
    <3> QED
      BY <1>6, <1>7, <3>1
  <2> QED
    BY <2>1, <2>2
<1>8. LeavesCall => chat'.own = (IF chat.depth = 0 THEN 0 ELSE chat.own)
  BY <1>1 DEF LeavesCall, NoChat, Chats
<1>9. ASSUME sid' = sid, chat.at = "stream" PROVE chat.id = sid => chat.own = sid
  <2>1. chat.id \in {chat.own} \cup marred
    BY DEF IInv, ChatInv
  <2> QED
    BY <1>5, <1>9, <2>1 DEF Good
<1>10. ASSUME NEW j \in Ids, Asks(j), sid' = sid PROVE owed'[sid] = owed[sid] + (IF j = sid THEN 1 ELSE 0)
  BY <1>1, <1>10 DEF Asks
<1>11. ASSUME NEW j \in Ids, sid' = sid, j = sid => chat.own = sid, Asks(j)
       PROVE  Holds(Append(textq, Piece("TEXT", j)), owed'[sid], chat.own) /\ owed'[sid] \in Int
  <2>1. Holds(Append(textq, Piece("TEXT", j)), owed[sid] + (IF j = sid THEN 1 ELSE 0), chat.own)
    BY <1>1, <1>5, <1>11, PutsText
  <2> QED
    BY <1>1, <1>10, <1>11, <2>1
<1> HIDE DEF Holds
<1>12. CASE ChatBegins
  <2>1. sid' = sid /\ textq' = textq /\ owed' = owed /\ chat'.own = 0 /\ chat.own = 0
    BY <1>12 DEF ChatBegins, NoChat, AtChat, IInv, ChatInv
  <2> QED
    BY <1>5, <1>6, <2>1
<1>13. CASE ChatOpens
  <2>1. Fresh \in Ids
    BY <1>13, FreshIsId DEF IInv, ChatOpens, AtChat
  <2>2. /\ sid' = Fresh /\ chat'.own = Fresh /\ owed' = owed
        /\ textq' = Append(textq, Piece("FIRST", Fresh))
    BY <1>13 DEF ChatOpens, NoChat
  <2>3. ~LastComes(audioq, send, Fresh)
    BY <2>1, FreshIsNew, NotMentioned DEF LastComes
  <2>4. Sound(textq, text, audioq, send, ctrl, 0, chat.own, greeting, Fresh)
    BY <1>1, <2>1, FreshIsNew, NewSentence
  <2>5. Sound(Append(textq, Piece("FIRST", Fresh)), text, audioq, send, ctrl, 0, Fresh, greeting, Fresh)
    <3>1. /\ Fresh # 0 /\ ~Mentions(textq, Fresh) /\ text.cur # Fresh /\ greeting # Fresh /\ text.last # Fresh
          /\ 0 \in Int
      BY <2>1, FreshIsNew
    <3> QED
      BY <1>1, <2>1, <2>3, <2>4, <3>1, PutsFirst
  <2>6. owed[Fresh] = 0
    BY <2>1, FreshIsNew
  <2> QED
    BY <1>3, <2>2, <2>5, <2>6 DEF After
<1>14. CASE ChatStreams
  <2>1. /\ sid' = sid /\ chat.at = "stream" /\ Asks(chat.id) /\ textq' = Append(textq, Piece("TEXT", chat.id))
        /\ chat'.own = chat.own
    BY <1>1, <1>14 DEF ChatStreams, AtChat, Chats
  <2> QED
    BY <1>1, <1>6, <1>9, <1>11, <2>1
<1>15. CASE ChatAnswers \/ ChatFails
  <2>1. sid' = sid /\ chat.at = "stream" /\ LeavesCall
    BY <1>15 DEF ChatAnswers, ChatFails, AtChat
  <2>2. CASE textq' = textq \o Last /\ UNCHANGED owed
    BY <1>1, <1>5, <1>7, <1>8, <2>1, <2>2
  <2>3. CASE textq' = textq \o <<Piece("TEXT", chat.id)>> \o Last /\ Asks(chat.id)
    <3>1. textq' = Append(textq, Piece("TEXT", chat.id)) \o Last
      BY <1>1, <2>3, LastPuts DEF IInv
    <3>2. Append(textq, Piece("TEXT", chat.id)) \in Seq(Texts)
      BY <1>1, PutIds
    <3> QED
      BY <1>1, <1>7, <1>8, <1>9, <1>11, <2>1, <2>3, <3>1, <3>2
  <2> QED
    BY <1>15, <2>2, <2>3 DEF ChatAnswers, ChatFails, EmptySaid, FailureSaid
<1>16. CASE ChatAborted
  <2>1. sid' = sid /\ abort
    BY <1>16 DEF ChatAborted
  <2> QED
    BY <1>5, <2>1, GoodFacts
<1>17. CASE ChatCalls \/ ToolContinues
  <2>1. sid' = sid /\ textq' = textq /\ owed' = owed /\ chat'.own = chat.own
    BY <1>1, <1>17 DEF ChatCalls, ToolContinues, AtChat, shared, heard, Chats
  <2> QED
    BY <1>5, <1>6, <2>1
<1>18. CASE ToolSpeaks
  <2>1. sid # 0
    <3>1. ASSUME sid = 0 PROVE FALSE
      <4>1. Fresh \in Ids
        BY <1>18, FreshIsId DEF IInv, ToolSpeaks, AtChat
      <4>2. sid' = Fresh /\ Borrows(Fresh) /\ chat.own # Fresh
        BY <1>18, <3>1, <4>1, FreshIsNew DEF ToolSpeaks
      <4> QED
        BY <1>2, <4>2 DEF Borrows
    <3> QED
      BY <3>1
  <2>2. /\ sid' = sid /\ textq' = Append(textq, Piece("TEXT", sid)) /\ Asks(sid) /\ Borrows(sid)
        /\ chat'.own = chat.own
    BY <1>1, <1>18, <2>1 DEF ToolSpeaks, Chats
  <2>3. chat.own = sid
    BY <1>2, <2>2 DEF Borrows
  <2> QED
    BY <1>1, <1>6, <1>11, <2>2, <2>3
<1>19. CASE ChatCloses
  <2>1. sid' = sid /\ textq' = Append(textq, Piece("LAST", chat.own)) /\ owed' = owed /\ chat'.own = 0
    BY <1>19 DEF ChatCloses, NoChat
  <2>2. Holds(textq', owed[sid], 0)
    BY <1>1, <1>5, <2>1, PutsEnd DEF Holds
  <2> QED
    BY <1>6, <2>1, <2>2
<1> QED
  BY <1>12, <1>13, <1>14, <1>15, <1>16, <1>17, <1>18, <1>19 DEF Chat

LEMMA TextGood == ASSUME IInv, Text, Good' PROVE After
<1>1. /\ textq \in Seq(Texts) /\ text \in TextStates /\ audioq \in Seq(Audios) /\ send \in Sends /\ ctrl \in Senders
      /\ chat.own \in Ids /\ greeting \in Ids /\ sid \in Ids /\ owed[sid] \in Int
  BY TypeFacts DEF IInv
<1>2. Types'
  BY TextTypes DEF IInv
<1>3. text' \in TextStates
  BY <1>2 DEF Types, ThreadTypes
<1>4. UNCHANGED <<sid, send, ctrl, owed, chat, greeting>>
  BY DEF Text, TextTakes, Synthesises, TextEnds, AtText, shared, heard
<1>5. marred \subseteq marred'
  BY Marks DEF IInv, Next
<1>6. sid # 0 /\ sid \notin marred' /\ Good
  BY <1>4, <1>5 DEF Good
<1>7. Sound(textq, text, audioq, send, ctrl, owed[sid], chat.own, greeting, sid) /\ ~abort /\ ThreadInv
  BY <1>6, GoodFacts
<1>8. ASSUME Sound(textq', text', audioq', send, ctrl, owed[sid], chat.own, greeting, sid) PROVE After
  BY <1>4, <1>8 DEF After
<1>9. CASE TextTakes
  <2>1. textq # <<>> /\ textq' = Tail(textq) /\ audioq' = audioq /\ text.at = "idle" /\ text.last = 0
    BY <1>7, <1>9 DEF TextTakes, AtText, ThreadInv
  <2>2. CASE Head(textq).id # sid
    <3>1. text' = text
      BY <1>9, <2>2 DEF TextTakes, Dropped
    <3> QED
      BY <1>1, <1>7, <1>8, <2>1, <2>2, <3>1, TakesOther
  <2>3. CASE Head(textq).id = sid
    <3>1. ~Dropped(Head(textq))
      BY <1>7, <2>3 DEF Dropped
    <3>2. Head(textq).kind = "FIRST" => text'.cur = sid /\ text'.buffer = 0 /\ text'.last = text.last
      BY <1>1, <1>9, <2>3, <3>1 DEF TextTakes, TextStates
    <3>3. Head(textq).kind = "TEXT" => text'.cur = text.cur /\ text'.buffer = text.buffer + 1 /\ text'.last = text.last
      BY <1>1, <1>9, <2>3, <3>1 DEF TextTakes, TextStates
    <3>4. Head(textq).kind = "LAST" => text'.cur = text.cur /\ text'.buffer = text.buffer /\ text'.last = sid
      BY <1>1, <1>9, <2>3, <3>1 DEF TextTakes, TextStates
    <3> QED
      BY <1>1, <1>3, <1>6, <1>7, <1>8, <2>1, <2>3, <3>2, <3>3, <3>4, TakesNext
  <2> QED
    BY <2>2, <2>3
<1>10. CASE Synthesises
  <2>1. /\ text.buffer > 0 /\ textq' = textq
        /\ text'.cur = text.cur /\ text'.buffer = 0 /\ text'.last = text.last
    BY <1>1, <1>7, <1>10 DEF Synthesises, AtText, ThreadInv, TextStates
  <2>2. \/ audioq' = Append(audioq, Audio("MIDDLE", text.cur, text.buffer))
        \/ audioq' = audioq /\ text.cur \in marred'
    BY <1>10 DEF Synthesises, FromSoundbank, FromProvider, Enqueues, GivesUp
  <2>3. /\ Sound(textq, text', Append(audioq, Audio("MIDDLE", text.cur, text.buffer)), send, ctrl, owed[sid],
                 chat.own, greeting, sid)
        /\ text.cur # sid => Sound(textq, text', audioq, send, ctrl, owed[sid], chat.own, greeting, sid)
    BY <1>1, <1>3, <1>6, <1>7, <2>1, Speaks
  <2> QED
    BY <1>6, <1>8, <2>1, <2>2, <2>3
<1>11. CASE TextEnds
  <2>1. /\ text.buffer = 0 /\ textq' = textq /\ audioq' = Append(audioq, Audio("LAST", text.last, 0))
        /\ text'.cur = text.cur /\ text'.buffer = text.buffer /\ text'.last = 0
    BY <1>1, <1>7, <1>11 DEF TextEnds, AtText, ThreadInv, TextStates
  <2>2. Sound(textq, text', Append(audioq, Audio("LAST", text.last, 0)), send, ctrl, owed[sid],
              chat.own, greeting, sid)
    BY <1>1, <1>3, <1>6, <1>7, <2>1, Ends
  <2> QED
    BY <1>8, <2>1, <2>2
<1> QED
  BY <1>9, <1>10, <1>11 DEF Text

LEMMA PlaybackGood == ASSUME IInv, Playback \/ SenderSends, Good' PROVE After
<1>1. /\ textq \in Seq(Texts) /\ text \in TextStates /\ audioq \in Seq(Audios) /\ send \in Sends /\ ctrl \in Senders
      /\ chat.own \in Ids /\ greeting \in Ids /\ sid \in Ids /\ owed \in [Ids -> Int] /\ owed[sid] \in Int
      /\ send.n \in Int /\ send.id \in Ids
  BY TypeFacts DEF IInv
<1>2. Types'
  BY PlaybackTypes DEF IInv
<1>3. send' \in Sends /\ ctrl' \in Senders
  BY <1>2 DEF Types, ThreadTypes
<1>4. UNCHANGED <<sid, marred, textq, text, chat, greeting>>
  BY DEF Playback, AudioTakes, SendSkips, SendsAudio, SendsLast, Stops, AtSend, SenderSends, history, shared
<1>5. sid # 0 /\ Good
  BY <1>4 DEF Good
<1>6. Sound(textq, text, audioq, send, ctrl, owed[sid], chat.own, greeting, sid) /\ ~abort /\ ThreadInv /\ Types
  BY <1>5, GoodFacts
<1>7. ASSUME Sound(textq, text, audioq', send', ctrl', owed'[sid], chat.own, greeting, sid) PROVE After
  BY <1>4, <1>7 DEF After
<1>8. CASE AudioTakes
  <2>1. /\ send.kind = "NONE" /\ audioq # <<>> /\ audioq' = Tail(audioq) /\ ctrl' = ctrl /\ owed' = owed
        /\ send'.kind = Head(audioq).kind /\ send'.id = Head(audioq).id /\ send'.n = Head(audioq).n
    BY <1>6, <1>8 DEF AudioTakes, AtSend, ThreadInv, heard
  <2> QED
    BY <1>1, <1>3, <1>5, <1>6, <1>7, <2>1, TakesAudio
<1>9. CASE SendSkips
  <2>1. send.id # sid /\ send' = NoSend /\ audioq' = audioq /\ ctrl' = ctrl /\ owed' = owed
    BY <1>9 DEF SendSkips, Stale, heard
  <2> QED
    BY <1>5, <1>6, <1>7, <2>1, LaysDown
<1>10. CASE SendsAudio
  <2> DEFINE c == Controller
             x == Audio("MIDDLE", send.id, send.n)
  <2>1. send.id = sid /\ send.kind = "MIDDLE" /\ send' = NoSend /\ audioq' = audioq
    BY <1>10 DEF SendsAudio, Stale
  <2>2. c \in Senders /\ c.alive /\ (c = ctrl \/ (c.queue = <<>> /\ (~ctrl.alive \/ ctrl.id # sid)))
    <3>1. CASE NeedsReset
      BY <1>6, <3>1, ControllerIs DEF NeedsReset
    <3>2. CASE ~NeedsReset
      BY <1>6, <3>2, ControllerIs
    <3> QED
      BY <3>1, <3>2
  <2>3. \/ ctrl' = [c EXCEPT !.count = @ + 1] /\ owed' = [owed EXCEPT ![send.id] = @ - send.n]
        \/ ctrl' = [c EXCEPT !.queue = Append(@, x)] /\ owed' = owed
    BY <1>6, <1>10 DEF SendsAudio, Hears, heard
  <2> HIDE DEF c
  <2>4. Sound(textq, text, audioq, send, c, owed[sid], chat.own, greeting, sid)
    <3>1. \A k \in DOMAIN ctrl.queue : ctrl.queue[k].id = ctrl.id
      BY <1>6 DEF ThreadInv
    <3> QED
      BY <1>1, <1>6, <2>2, <3>1, Restarts
  <2>5. CASE ctrl' = [c EXCEPT !.count = @ + 1] /\ owed' = [owed EXCEPT ![send.id] = @ - send.n]
    <3>1. ctrl'.queue = c.queue /\ ctrl'.alive /\ owed'[sid] = owed[sid] - send.n
      BY <1>1, <2>1, <2>2, <2>5 DEF Senders
    <3>2. Sound(textq, text, audioq, NoSend, ctrl', owed[sid] - send.n, chat.own, greeting, sid)
      BY <1>1, <1>3, <1>5, <2>1, <2>2, <2>4, <3>1, HearsAtOnce
    <3> QED
      BY <1>7, <2>1, <3>1, <3>2
  <2>6. CASE ctrl' = [c EXCEPT !.queue = Append(@, x)] /\ owed' = owed
    <3>1. ctrl'.queue = Append(c.queue, Audio("MIDDLE", sid, send.n)) /\ ctrl'.alive
      BY <1>1, <2>1, <2>2, <2>6 DEF Senders
    <3> DEFINE m == 0
    <3>2. m \in Int /\ m = 0
      OBVIOUS
    <3> HIDE DEF m
    <3>3. Sound(textq, text, audioq, NoSend, ctrl', owed[sid] - m, chat.own, greeting, sid)
      BY <1>1, <1>3, <1>5, <2>1, <2>2, <2>4, <3>1, <3>2, HearsAtOnce
    <3>4. owed[sid] - m = owed'[sid]
      BY <1>1, <2>6, <3>2
    <3> QED
      BY <1>7, <2>1, <3>3, <3>4
  <2> QED
    BY <2>3, <2>5, <2>6
<1>11. CASE SendsLast
  <2>1. /\ audioq' = audioq /\ ctrl' = ctrl /\ owed' = owed
        /\ send'.kind = send.kind /\ send'.id = send.id /\ send'.n = send.n
    BY <1>1, <1>11 DEF SendsLast, heard, Sends
  <2>2. Sound(textq, text, audioq, send', ctrl, owed[sid], chat.own, greeting, sid)
    BY <1>6, <2>1 DEF Sound, CloseInv, LastComes, Account, InHand
  <2> QED
    BY <1>7, <2>1, <2>2
<1>12. CASE Stops
  <2>1. send' = NoSend /\ audioq' = audioq /\ owed' = owed /\ ctrl.queue = <<>> /\ send.kind = "LAST"
    BY <1>6, <1>12 DEF Stops, AtSend, heard, ThreadInv
  <2>2. CASE send.id # sid
    <3>1. ctrl' = ctrl
      BY <1>12, <2>2 DEF Stops, Stale
    <3> QED
      BY <1>5, <1>6, <1>7, <2>1, <2>2, <3>1, LaysDown
  <2>3. CASE send.id = sid
    <3>1. ctrl' = NoSender
      BY <1>12, <2>3 DEF Stops, Stale
    <3> QED
      BY <1>1, <1>5, <1>6, <1>7, <2>1, <2>3, <3>1, Stopped
  <2> QED
    BY <2>2, <2>3
<1>13. CASE SenderSends
  <2>1. /\ ctrl.queue # <<>> /\ ctrl'.queue = Tail(ctrl.queue) /\ ctrl'.alive /\ audioq' = audioq /\ send' = send
        /\ owed' = [owed EXCEPT ![Head(ctrl.queue).id] = @ - Head(ctrl.queue).n]
    BY <1>1, <1>6, <1>13 DEF SenderSends, Hears, Senders
  <2>2. Head(ctrl.queue).id \in Ids /\ Head(ctrl.queue).n \in Int
    <3>1. ctrl.queue \in Seq(Packets)
      BY <1>1 DEF Senders
    <3>2. Head(ctrl.queue) \in Packets
      BY <2>1, <3>1, Rest
    <3> QED
      BY <3>2 DEF Packets
  <2>3. owed'[sid] = owed[sid] - (IF Head(ctrl.queue).id = sid THEN Head(ctrl.queue).n ELSE 0)
    BY <1>1, <2>1, <2>2
  <2>4. Sound(textq, text, audioq, send, ctrl',
              owed[sid] - (IF Head(ctrl.queue).id = sid THEN Head(ctrl.queue).n ELSE 0), chat.own, greeting, sid)
    BY <1>1, <1>3, <1>6, <2>1, HearsLater
  <2> QED
    BY <1>7, <2>1, <2>3, <2>4
<1> QED
  BY <1>8, <1>9, <1>10, <1>11, <1>12, <1>13 DEF Playback

-----------------------------------------------------------------------------
(* The theorems.                                                           *)

LEMMA InitInv == Init => IInv
<1> SUFFICES ASSUME Init PROVE IInv
  OBVIOUS
<1>1. Types
  BY InitTypes
<1>2. /\ sid = 0 /\ ids = 0 /\ greeting = 0 /\ submitted = 0 /\ events = 0 /\ asr = "idle" /\ receive = "idle"
      /\ textq = <<>> /\ audioq = <<>> /\ latest = 0 /\ marred = {} /\ abort = FALSE
      /\ owed = [i \in Ids |-> 0]
  BY DEF Init
<1>3. chat.at = "idle" /\ chat.own = 0 /\ chat.id = 0
  BY DEF Init, NoChat
<1>4. text.at = "idle" /\ text.cur = 0 /\ text.buffer = 0 /\ text.last = 0
  BY DEF Init
<1>5. send.at = "idle" /\ send.kind = "NONE" /\ send.id = 0 /\ ctrl.queue = <<>> /\ ctrl.id = 0
  BY DEF Init, NoSend, NoSender
<1>6. CountInv
  BY <1>2, <1>3 DEF CountInv, Bit
<1>7. IdInv
  BY <1>2, <1>4, <1>5, EmptyIds DEF IdInv
<1>8. ChatInv
  BY <1>2, <1>3 DEF ChatInv
<1>9. ThreadInv
  BY <1>2, <1>4, <1>5, EmptyIds DEF ThreadInv
<1>10. OrderInv
  BY <1>2, <1>4, <1>5, NothingInOrder DEF OrderInv, Before, SendBefore
<1>11. GoodInv
  BY <1>2 DEF GoodInv, Good
<1> QED
  BY <1>1, <1>6, <1>7, <1>8, <1>9, <1>10, <1>11 DEF IInv

LEMMA NextInv == IInv /\ [Next]_vars => IInv'
<1> SUFFICES ASSUME IInv, [Next]_vars PROVE IInv'
  OBVIOUS
<1>1. Types /\ CountInv /\ IdInv /\ ChatInv /\ ThreadInv /\ OrderInv
  BY DEF IInv
<1>2. CASE Next
  <2>1. Types'
    BY <1>1, <1>2, HandlerTypes, ChatTypes, TextTypes, PlaybackTypes DEF Next
  <2>2. CountInv'
    BY <1>1, <1>2, CountStep
  <2>3. IdInv'
    BY <1>1, <1>2, HandlerIds, ChatIds, OtherIds DEF Next
  <2>4. ChatInv' /\ ThreadInv' /\ OrderInv'
    BY <1>1, <1>2, ChatStep, ThreadStep, OrderStep
  <2>5. GoodInv'
    <3> SUFFICES ASSUME Good' PROVE After
      BY DEF GoodInv, After
    <3> QED
      BY <1>2, HandlerGood, ChatGood, TextGood, PlaybackGood DEF Next
  <2> QED
    BY <2>1, <2>2, <2>3, <2>4, <2>5 DEF IInv
<1>3. CASE UNCHANGED vars
  <2>1. UNCHANGED <<abort, sid, speaking, asr, receive, greeting, submitted, chat, textq, text, audioq, send,
                    ctrl, device, events, ids, owed, latest, marred, silent>>
    BY <1>3 DEF vars, shared, heard, history
  <2>2. Types' /\ CountInv'
    BY <1>1, <2>1 DEF Types, InputTypes, ThreadTypes, QueueTypes, HeardTypes, CountInv
  <2>3. IdInv' /\ ChatInv' /\ ThreadInv'
    BY <1>1, <2>1 DEF IdInv, ChatInv, ThreadInv
  <2>4. OrderInv'
    BY <1>1, <2>1 DEF OrderInv, Before, SendBefore
  <2>5. GoodInv'
    BY <2>1 DEF IInv, GoodInv, Good
  <2> QED
    BY <2>2, <2>3, <2>4, <2>5 DEF IInv
<1> QED
  BY <1>2, <1>3

\* The invariant of the connection.
THEOREM Invariance == Spec => []IInv
<1>1. Init => IInv
  BY InitInv
<1>2. IInv /\ [Next]_vars => IInv'
  BY NextInv
<1> QED
  BY <1>1, <1>2, PTL DEF Spec

\* The flags, the queues and the threads' positions are those the code can
\* store; no more queries wait than there were inputs, and no more sentences
\* were given out than there were causes for one.
THEOREM TypeCorrect == Spec => []TypeOK
<1>1. IInv => TypeOK
  <2> SUFFICES ASSUME IInv PROVE TypeOK
    OBVIOUS
  <2>1. Types /\ CountInv
    BY DEF IInv
  <2>2. submitted \in 0 .. Events
    <3>1. ids \in Nat /\ submitted \in Nat /\ events \in 0 .. Events /\ Events \in Nat
      BY <2>1, Bounds DEF Types, InputTypes, Ids
    <3>2. /\ Bit(chat.at \in {"begun", "tool"}) \in Nat /\ Bit(asr # "idle") \in Nat
          /\ Bit(receive \in {"interrupt", "announced"}) \in Nat
      BY DEF Bit
    <3> QED
      BY <2>1, <3>1, <3>2 DEF CountInv
  <2>3. InputTypes /\ ThreadTypes /\ QueueTypes /\ HeardTypes
    BY <2>1 DEF Types
  <2> QED
    BY <2>2, <2>3 DEF TypeOK, InputTypes, ThreadTypes, QueueTypes, HeardTypes, Chats, TextStates, Sends, Senders,
                      Texts, Audios, Packets
<1> QED
  BY <1>1, Invariance, PTL

\* An answer that ends by itself has been heard whole: when the audio thread
\* stops the turn of the current sentence, and nothing of that sentence was
\* aborted, failed or was spoken over, every piece of text that was asked for
\* under it has gone to the device.
THEOREM AnswersAreWhole == Spec => WholeAnswer
<1>1. IInv /\ [Next]_vars =>
        [Stops /\ ~Stale /\ send.id \notin marred => owed[send.id] = 0]_vars
  <2> SUFFICES ASSUME IInv, Stops, ~Stale, send.id \notin marred PROVE owed[send.id] = 0
    OBVIOUS
  <2>1. send.kind = "LAST" /\ send.id > 0 /\ ctrl.queue = <<>> /\ send.id = sid
    BY DEF Stops, AtSend, IInv, ThreadInv, Stale
  <2>2. Good
    <3>1. send.id \in Nat
      BY TypeFacts DEF IInv
    <3> QED
      BY <2>1, <3>1 DEF Good
  <2>3. Sound(textq, text, audioq, send, ctrl, owed[sid], chat.own, greeting, sid)
    BY <2>2, GoodFacts
  <2>4. /\ textq \in Seq(Texts) /\ text \in TextStates /\ audioq \in Seq(Audios) /\ send \in Sends
        /\ ctrl \in Senders
    BY TypeFacts DEF IInv
  <2> QED
    BY <2>1, <2>3, <2>4, HeardWhole
<1> QED
  BY <1>1, Invariance, PTL DEF Spec, WholeAnswer

\* Once the device has heard a sentence, it hears nothing of an older one,
\* whatever is aborted, greeted or reset in between.
THEOREM NothingOlder == Spec => NeverBack
<1>1. IInv /\ [Next]_vars => [latest' >= latest]_vars
  <2> SUFFICES ASSUME IInv, Next PROVE latest' >= latest
    BY DEF vars
  <2> QED
    BY OrderStep DEF IInv
<1> QED
  BY <1>1, Invariance, PTL DEF Spec, NeverBack

\* Answers are heard whole, and in their order.
THEOREM InOrder == Spec => HeardInOrder
  BY AnswersAreWhole, NothingOlder DEF HeardInOrder
=====
