------------------------- MODULE RequestTextsProofs -------------------------
(***************************************************************************)
(* The texts requests are known by, for texts of any length over any       *)
(* characters and windows of any number.                                   *)
(*                                                                         *)
(* A derived id is "req:", a segment, ":" and a token.  Neither of the two *)
(* holds a colon, so an id can be read one way only (ComposedOnce), and a  *)
(* segment is as long as the name it stands for but for its colon, so that *)
(* a name whose id is short enough is short enough (SegmentOfSender).      *)
(*                                                                         *)
(* The name of a window is written and read by recursion on its number and *)
(* on its digits.  What a recursive function returns is proved by          *)
(* induction as a fact about the set of the numbers it holds of            *)
(* (SetInduction): WindowIsRead is the one such fact the project needs.    *)
(***************************************************************************)
EXTENDS RequestTexts, SequenceTheorems, FiniteSetTheorems, TLAPS

SegmentChar == Alphanumeric \cup {"_"}
IdChar == Alphanumeric \cup {".", "_", "-", ":"}

-----------------------------------------------------------------------------
(* Induction. *)

\* A set of numbers that is not empty has a least one.  The beginnings 0..t
\* of the set are finite sets, which the strict subset relation orders.
LEMMA LeastNatural ==
    ASSUME NEW T \in SUBSET Nat, T # {}
    PROVE  \E x \in T : \A y \in T : x <= y
<1> DEFINE below(t) == T \cap 0..t
           family == {below(t) : t \in T}
<1>1. \A t \in T : t \in below(t) /\ below(t) \in FiniteSubsetsOf(Nat)
  <2>1. \A t \in T : IsFiniteSet(0..t)
    BY FS_Interval
  <2>2. \A t \in T : IsFiniteSet(below(t))
    BY <2>1, FS_Subset
  <2> QED BY <2>2 DEF FiniteSubsetsOf
<1>2. family \subseteq FiniteSubsetsOf(Nat) /\ family # {}
  BY <1>1
<1>3. PICK least \in family : \A other \in family : <<other, least>> \notin StrictSubsetOrdering(Nat)
  <2> HIDE DEF family
  <2> QED BY <1>2, FS_StrictSubsetOrderingWellFounded, WFMin
<1>4. PICK x \in T : least = below(x)
  OBVIOUS
<1>5. ASSUME NEW y \in T, y < x PROVE FALSE
  <2>1. below(y) \subseteq below(x) /\ below(y) # below(x)
    BY <1>1, <1>5
  <2>2. <<below(y), below(x)>> \in StrictSubsetOrdering(Nat)
    BY <1>1, <2>1 DEF StrictSubsetOrdering, FiniteSubsetsOf
  <2> QED BY <1>3, <1>4, <2>2
<1> QED BY <1>5

\* A set that holds 0 and, with a number, the next one, holds all of them.
LEMMA SetInduction ==
    ASSUME NEW S, 0 \in S, \A n \in Nat : n \in S => n + 1 \in S
    PROVE  Nat \subseteq S
<1> DEFINE T == Nat \ S
<1> SUFFICES ASSUME T # {} PROVE FALSE
  OBVIOUS
<1>1. PICK x \in T : \A y \in T : x <= y
  BY LeastNatural
<1>2. x - 1 \in Nat /\ x - 1 \in S
  BY <1>1
<1> QED BY <1>2

-----------------------------------------------------------------------------
(* Texts. *)

\* A text that begins with one character.
LEMMA FirstOf ==
    ASSUME NEW S, NEW c, NEW text \in Seq(S), IsPrefix(<<c>>, text)
    PROVE  Len(text) >= 1 /\ text[1] = c
<1> DEFINE one == <<c>>
<1>1. Len(one) = 1 /\ one[1] = c /\ one \in Seq({c})
  OBVIOUS
<1> HIDE DEF one
<1>2. Len(text) >= 1 /\ SubSeq(one, 1, 1) = SubSeq(text, 1, 1)
  <2>1. Len(one) <= Len(text) /\ SubSeq(one, 1, Len(one)) = SubSeq(text, 1, Len(one))
    BY Zenon DEF IsPrefix, one
  <2> QED BY <1>1, <2>1
<1>3. Len(text) \in Nat
  BY LenProperties
<1>4. SubSeq(one, 1, 1)[1] = one[1]
  BY <1>1, SubSeqProperties
<1>5. SubSeq(text, 1, 1)[1] = text[1]
  BY <1>2, <1>3, SubSeqProperties
<1> QED BY <1>1, <1>2, <1>4, <1>5

\* A text that is one and then another.
Parts(text, s, t) ==
    /\ Len(text) = Len(s) + Len(t)
    /\ \A i \in 1..Len(s) : text[i] = s[i]
    /\ \A i \in 1..Len(t) : text[i + Len(s)] = t[i]

\* Where the parts of a joined text lie.
LEMMA Joining ==
    ASSUME NEW S, NEW s \in Seq(S), NEW t \in Seq(S)
    PROVE  s \o t \in Seq(S) /\ Parts(s \o t, s, t)
  <1> DEFINE joined == s \o t
  <1>1. /\ joined \in Seq(S)
        /\ Len(joined) = Len(s) + Len(t)
        /\ \A i \in 1..Len(s) + Len(t) :
             joined[i] = IF i <= Len(s) THEN s[i] ELSE t[i - Len(s)]
    BY ConcatProperties
  <1>2. Len(s) \in Nat /\ Len(t) \in Nat
    BY LenProperties
  <1> HIDE DEF joined
  <1>3. ASSUME NEW i \in 1..Len(s) PROVE joined[i] = s[i]
    BY <1>1, <1>2
  <1>4. ASSUME NEW i \in 1..Len(t) PROVE joined[i + Len(s)] = t[i]
    <2>1. i + Len(s) \in 1..Len(s) + Len(t) /\ ~(i + Len(s) <= Len(s)) /\ (i + Len(s)) - Len(s) = i
      BY <1>2
    <2> QED BY Zenon, <1>1, <2>1
  <1> QED BY Zenon, <1>1, <1>3, <1>4 DEF joined, Parts

\* How long a joined text is.
LEMMA JoinedLength ==
    ASSUME NEW S, NEW s \in Seq(S), NEW t \in Seq(S)
    PROVE  s \o t \in Seq(S) /\ Len(s \o t) = Len(s) + Len(t)
BY ConcatProperties

\* The beginning of a joined text, and what comes after it.
LEMMA Beginning ==
    ASSUME NEW S, NEW s \in Seq(S), NEW t \in Seq(S)
    PROVE  IsPrefix(s, s \o t) /\ After(s \o t, Len(s)) = t
<1> DEFINE joined == s \o t
<1>1. Len(s) \in Nat /\ Len(t) \in Nat
  OBVIOUS
<1>2. /\ joined \in Seq(S)
      /\ Len(joined) = Len(s) + Len(t)
      /\ \A i \in 1..Len(s) + Len(t) :
           joined[i] = IF i <= Len(s) THEN s[i] ELSE t[i - Len(s)]
  BY ConcatProperties
<1> HIDE DEF joined
<1>3. SubSeq(s, 1, Len(s)) = SubSeq(joined, 1, Len(s))
  <2>1. \A i \in 1..Len(s) : s[i] \in S /\ joined[i] \in S
    BY <1>1, <1>2
  <2>2. /\ SubSeq(s, 1, Len(s)) \in Seq(S)
        /\ Len(SubSeq(s, 1, Len(s))) = IF 1 <= Len(s) THEN Len(s) - 1 + 1 ELSE 0
        /\ \A i \in 1..Len(s) - 1 + 1 : SubSeq(s, 1, Len(s))[i] = s[1 + i - 1]
    BY <1>1, <2>1, SubSeqProperties
  <2>3. /\ SubSeq(joined, 1, Len(s)) \in Seq(S)
        /\ Len(SubSeq(joined, 1, Len(s))) = IF 1 <= Len(s) THEN Len(s) - 1 + 1 ELSE 0
        /\ \A i \in 1..Len(s) - 1 + 1 : SubSeq(joined, 1, Len(s))[i] = joined[1 + i - 1]
    BY <1>1, <2>1, SubSeqProperties
  <2> DEFINE a == SubSeq(s, 1, Len(s))
             b == SubSeq(joined, 1, Len(s))
  <2>4. Len(a) = Len(s) /\ Len(b) = Len(s)
    BY <1>1, <2>2, <2>3
  <2>5. ASSUME NEW i \in 1..Len(s) PROVE a[i] = b[i]
    <3>1. i \in 1..Len(s) - 1 + 1 /\ 1 + i - 1 = i /\ i \in 1..Len(s) + Len(t) /\ i <= Len(s)
      BY <1>1
    <3>2. joined[i] = s[i]
      BY Zenon, <1>2, <3>1
    <3> QED BY Zenon, <2>2, <2>3, <3>1, <3>2
  <2>6. a \in Seq(S) /\ b \in Seq(S)
    BY <2>2, <2>3
  <2> HIDE DEF a, b
  <2>7. a = b
    BY Zenon, <2>4, <2>5, <2>6, SeqEqual
  <2> QED BY <2>7 DEF a, b
<1>4. SubSeq(joined, Len(s) + 1, Len(joined)) = t
  <2> DEFINE a == SubSeq(joined, Len(s) + 1, Len(joined))
             m == Len(s) + 1
             n == Len(joined)
  <2>1. m \in Int /\ n \in Int /\ \A i \in m..n : joined[i] \in S
    BY <1>1, <1>2
  <2>2. /\ SubSeq(joined, m, n) \in Seq(S)
        /\ Len(SubSeq(joined, m, n)) = IF m <= n THEN n - m + 1 ELSE 0
        /\ \A i \in 1..n - m + 1 : SubSeq(joined, m, n)[i] = joined[m + i - 1]
    <3> HIDE DEF m, n
    <3> QED BY <2>1, SubSeqProperties
  <2>3. n - m + 1 = Len(t) /\ (IF m <= n THEN n - m + 1 ELSE 0) = Len(t)
    BY <1>1, <1>2
  <2>4. a \in Seq(S) /\ Len(a) = Len(t)
    <3> HIDE DEF m, n
    <3> QED BY Zenon, <2>2, <2>3 DEF m, n
  <2>5. ASSUME NEW i \in 1..Len(t) PROVE a[i] = t[i]
    <3>1. i \in 1..n - m + 1
      BY <2>3
    <3>2. m + i - 1 \in 1..Len(s) + Len(t) /\ ~(m + i - 1 <= Len(s)) /\ (m + i - 1) - Len(s) = i
      BY <1>1
    <3>3. joined[m + i - 1] = t[i]
      <4> HIDE DEF m
      <4> QED BY Zenon, <1>2, <3>2
    <3> QED BY Zenon, <2>2, <3>1, <3>3
  <2> HIDE DEF a
  <2>6. a = t
    BY Zenon, <2>4, <2>5, SeqEqual
  <2> QED BY <2>6 DEF a
<1>5. Len(s) <= Len(joined)
  BY <1>1, <1>2
<1> QED BY Zenon, <1>3, <1>4, <1>5 DEF joined, IsPrefix, After

HasNoBlank(S) == " " \notin S

\* Trim leaves a text as it is that has no blank in it.
LEMMA Solid ==
    ASSUME NEW S, HasNoBlank(S), NEW text \in Seq(S)
    PROVE  Trim(text) = text
<1> DEFINE solid == {i \in DOMAIN text : text[i] # " "}
           n == Len(text)
<1>1. n \in Nat /\ DOMAIN text = 1..n /\ \A i \in 1..n : text[i] \in S
  OBVIOUS
<1>2. solid = 1..n
  BY Zenon, <1>1 DEF HasNoBlank
<1> HIDE DEF solid
<1>3. CASE n = 0
  <2>1. text = <<>> /\ 1..n = {}
    BY <1>1, <1>3
  <2> QED BY Zenon, <1>2, <2>1 DEF Trim, solid
<1>4. CASE n >= 1
  <2>1. Min(1..n) = 1 /\ Max(1..n) = n
    BY <1>1, <1>4 DEF Min, Max
  <2>2. 1..n # {}
    BY <1>1, <1>4
  <2>3. Trim(text) = SubSeq(text, 1, n)
    BY Zenon, <1>2, <2>1, <2>2 DEF Trim, solid
  <2>4. SubSeq(text, 1, n) = text
    BY <1>1 
  <2> QED BY <2>3, <2>4
<1> QED BY <1>1, <1>3, <1>4

-----------------------------------------------------------------------------
(* Segments and ids. *)

\* A colon is in no segment; all that is in one may be in an id, like a colon.
LEMMA Characters ==
    /\ ":" \notin SegmentChar
    /\ Alphanumeric \subseteq SegmentChar
    /\ Alphanumeric \cup {".", "_", "-"} \subseteq IdChar
    /\ ":" \in IdChar
BY Zenon, TextsAssumption DEF SegmentChar, IdChar

\* A sender may be as long as an id.
LEMMA Limits ==
    MaxRequestIdLen \in Nat /\ MaxSenderLen \in Nat /\ MaxRequestIdLen <= MaxSenderLen
BY Zenon, TextsAssumption

\* A segment is a text as long as the name it stands for without its colon,
\* and the name begins with a colon and holds what a name may hold.
LEMMA SegmentOfSender ==
    ASSUME NEW S, NEW sender \in Seq(S), SenderToHandleSegment(sender) # Refused
    PROVE  /\ SenderToHandleSegment(sender) \in Seq(SegmentChar)
           /\ Len(SenderToHandleSegment(sender)) = Len(sender) - 1
           /\ IsPrefix(<<":">>, sender)
           /\ AllIn(sender, IdChar)
  <1> DEFINE body == After(sender, 1)
             Letter(c) == IF c \in Alphanumeric THEN c ELSE "_"
             segment == SenderToHandleSegment(sender)
  <1>1. /\ IsPrefix(<<":">>, sender)
        /\ body # <<>>
        /\ AllIn(body, IdChar)
        /\ segment = [i \in DOMAIN body |-> Letter(body[i])]
    <2>1. /\ IsPrefix(<<":">>, sender)
          /\ body # <<>>
          /\ AllIn(body, Alphanumeric \cup {".", "_", "-"})
          /\ segment = [i \in DOMAIN body |-> Letter(body[i])]
      BY Zenon DEF SenderToHandleSegment
    <2> QED BY Zenon, <2>1, Characters DEF AllIn
  <1>2. \A c : Letter(c) \in SegmentChar
    BY Zenon DEF SegmentChar
  <1> HIDE DEF Letter, segment
  <1>3. sender[1] = ":" /\ Len(sender) \in Nat /\ Len(sender) >= 1
    BY <1>1, FirstOf, LenProperties
  <1>4. /\ body \in Seq(S)
        /\ Len(body) = Len(sender) - 1
        /\ \A i \in 1..Len(body) : body[i] = sender[i + 1]
    <2>1. body = SubSeq(sender, 2, Len(sender))
      BY DEF After
    <2>2. \A i \in 2..Len(sender) : sender[i] \in S
      BY <1>3
    <2>3. /\ SubSeq(sender, 2, Len(sender)) \in Seq(S)
          /\ Len(SubSeq(sender, 2, Len(sender))) =
               IF 2 <= Len(sender) THEN Len(sender) - 2 + 1 ELSE 0
          /\ \A i \in 1..Len(sender) - 2 + 1 :
               SubSeq(sender, 2, Len(sender))[i] = sender[2 + i - 1]
      BY <1>3, <2>2, SubSeqProperties
    <2> HIDE DEF body
    <2>4. body \in Seq(S) /\ Len(body) = Len(sender) - 1
      <3>1. (IF 2 <= Len(sender) THEN Len(sender) - 2 + 1 ELSE 0) = Len(sender) - 1
        BY <1>3
      <3> QED BY Zenon, <2>1, <2>3, <3>1
    <2>5. ASSUME NEW i \in 1..Len(body) PROVE body[i] = sender[i + 1]
      <3>1. i \in 1..Len(sender) - 2 + 1 /\ 2 + i - 1 = i + 1
        BY <1>3, <2>4
      <3> QED BY Zenon, <2>1, <2>3, <3>1
    <2> QED BY <2>4, <2>5
  <1> HIDE DEF body
  <1>5. segment \in Seq(SegmentChar) /\ Len(segment) = Len(sender) - 1
    <2>1. Len(body) \in Nat /\ DOMAIN body = 1..Len(body)
      BY <1>4, LenProperties
    <2>2. [i \in 1..Len(body) |-> Letter(body[i])] \in [1..Len(body) -> SegmentChar]
      BY <1>2
    <2>3. segment \in Seq(SegmentChar) /\ DOMAIN segment = 1..Len(body)
      BY <1>1, <2>1, <2>2
    <2> QED BY <1>3, <1>4, <2>1, <2>3, LenProperties
  <1>6. AllIn(sender, IdChar)
    <2> SUFFICES ASSUME NEW i \in 1..Len(sender) PROVE sender[i] \in IdChar
      BY LenProperties DEF AllIn
    <2>1. CASE i = 1
      BY <1>3, <2>1, Characters
    <2>2. CASE i # 1
      <3>1. i - 1 \in 1..Len(body) /\ (i - 1) + 1 = i
        BY <1>3, <1>4, <2>2
      <3>2. i - 1 \in DOMAIN body /\ body[i - 1] = sender[i]
        BY <1>4, <3>1, LenProperties
      <3> QED BY <1>1, <3>2 DEF AllIn
    <2> QED BY <2>1, <2>2
  <1> QED BY Zenon, <1>1, <1>5, <1>6 DEF segment

\* Where the parts of a composed id lie.
LEMMA ComposedId ==
    ASSUME NEW segment \in Seq(SegmentChar), NEW token \in Seq(SegmentChar)
    PROVE  /\ Len(ComposeId(segment, token)) = Len(segment) + Len(token) + 5
           /\ \A i \in 1..Len(segment) : ComposeId(segment, token)[i + 4] = segment[i]
           /\ ComposeId(segment, token)[Len(segment) + 5] = ":"
           /\ \A i \in 1..Len(token) :
                ComposeId(segment, token)[i + (Len(segment) + 5)] = token[i]
  <1> DEFINE All == SegmentChar \cup {"r", "e", "q", ":"}
             colon == <<":">>
             opening == RequestIdPrefix \o segment
             front == opening \o colon
             id == front \o token
  <1>1. RequestIdPrefix \in Seq(All) /\ Len(RequestIdPrefix) = 4
    <2> HIDE DEF SegmentChar
    <2> QED BY DEF RequestIdPrefix
  <1>2. /\ segment \in Seq(All) /\ token \in Seq(All)
        /\ colon \in Seq(All) /\ Len(colon) = 1 /\ colon[1] = ":"
    <2> HIDE DEF SegmentChar
    <2> QED OBVIOUS
  <1>3. Len(segment) \in Nat /\ Len(token) \in Nat
    BY <1>2, LenProperties
  <1>4. id = ComposeId(segment, token)
    BY Zenon DEF ComposeId
  <1>5. opening \in Seq(All) /\ Parts(opening, RequestIdPrefix, segment)
    <2> HIDE DEF All
    <2> QED BY Zenon, <1>1, <1>2, Joining
  <1>6. front \in Seq(All) /\ Parts(front, opening, colon)
    <2> HIDE DEF All, opening, colon
    <2> QED BY Zenon, <1>2, <1>5, Joining
  <1>7. Parts(id, front, token)
    <2> HIDE DEF All, front
    <2> QED BY Zenon, <1>2, <1>6, Joining
  <1> HIDE DEF All, colon, opening, front, id
  <1>8. Len(opening) = Len(segment) + 4 /\ Len(front) = Len(segment) + 5
    BY <1>1, <1>2, <1>3, <1>5, <1>6 DEF Parts
  <1>9. Len(id) = Len(segment) + Len(token) + 5
    BY <1>3, <1>7, <1>8 DEF Parts
  <1>10. ASSUME NEW i \in 1..Len(segment) PROVE id[i + 4] = segment[i]
    <2>1. i + 4 \in 1..Len(opening) /\ i + 4 \in 1..Len(front)
      BY <1>3, <1>8
    <2>2. opening[i + 4] = segment[i]
      BY Zenon, <1>1, <1>5 DEF Parts
    <2> QED BY Zenon, <1>6, <1>7, <2>1, <2>2 DEF Parts
  <1>11. id[Len(segment) + 5] = ":"
    <2>1. 1 \in 1..Len(colon) /\ 1 + Len(opening) = Len(segment) + 5
      BY <1>2, <1>3, <1>8
    <2>2. front[Len(segment) + 5] = ":"
      BY Zenon, <1>2, <1>6, <2>1 DEF Parts
    <2>3. Len(segment) + 5 \in 1..Len(front)
      BY <1>3, <1>8
    <2> QED BY Zenon, <1>7, <2>2, <2>3 DEF Parts
  <1>12. ASSUME NEW i \in 1..Len(token) PROVE id[i + (Len(segment) + 5)] = token[i]
    BY Zenon, <1>7, <1>8 DEF Parts
  <1> QED BY Zenon, <1>4, <1>9, <1>10, <1>11, <1>12

\* An id is made of one segment and one token only.
LEMMA ComposedOnce ==
    ASSUME NEW s1 \in Seq(SegmentChar), NEW t1 \in Seq(SegmentChar),
           NEW s2 \in Seq(SegmentChar), NEW t2 \in Seq(SegmentChar),
           ComposeId(s1, t1) = ComposeId(s2, t2)
    PROVE  s1 = s2 /\ t1 = t2
  <1> DEFINE id == ComposeId(s1, t1)
  <1>1. /\ Len(id) = Len(s1) + Len(t1) + 5
        /\ \A i \in 1..Len(s1) : id[i + 4] = s1[i]
        /\ id[Len(s1) + 5] = ":"
        /\ \A i \in 1..Len(t1) : id[i + (Len(s1) + 5)] = t1[i]
    BY Zenon, ComposedId
  <1>2. /\ Len(id) = Len(s2) + Len(t2) + 5
        /\ \A i \in 1..Len(s2) : id[i + 4] = s2[i]
        /\ id[Len(s2) + 5] = ":"
        /\ \A i \in 1..Len(t2) : id[i + (Len(s2) + 5)] = t2[i]
    <2>1. id = ComposeId(s2, t2)
      OBVIOUS
    <2> HIDE DEF id
    <2> QED BY Zenon, <2>1, ComposedId
  <1> HIDE DEF id
  <1>3. Len(s1) \in Nat /\ Len(s2) \in Nat /\ Len(t1) \in Nat /\ Len(t2) \in Nat
    OBVIOUS
  <1>4. ~(Len(s1) < Len(s2))
    <2> SUFFICES ASSUME Len(s1) < Len(s2) PROVE FALSE
      OBVIOUS
    <2>1. Len(s1) + 1 \in 1..Len(s2) /\ (Len(s1) + 1) + 4 = Len(s1) + 5
      BY <1>3
    <2>2. s2[Len(s1) + 1] = ":"
      BY <1>1, <1>2, <2>1
    <2>3. ":" \in SegmentChar
      BY Zenon, <2>1, <2>2, ElementOfSeq
    <2> QED BY Zenon, <2>3, Characters
  <1>5. ~(Len(s2) < Len(s1))
    <2> SUFFICES ASSUME Len(s2) < Len(s1) PROVE FALSE
      OBVIOUS
    <2>1. Len(s2) + 1 \in 1..Len(s1) /\ (Len(s2) + 1) + 4 = Len(s2) + 5
      BY <1>3
    <2>2. s1[Len(s2) + 1] = ":"
      BY <1>1, <1>2, <2>1
    <2>3. ":" \in SegmentChar
      BY Zenon, <2>1, <2>2, ElementOfSeq
    <2> QED BY Zenon, <2>3, Characters
  <1>6. Len(s1) = Len(s2) /\ Len(t1) = Len(t2)
    BY <1>1, <1>2, <1>3, <1>4, <1>5
  <1>7. \A i \in 1..Len(s1) : s1[i] = s2[i]
    BY <1>1, <1>2, <1>6
  <1>8. \A i \in 1..Len(t1) : t1[i] = t2[i]
    BY <1>1, <1>2, <1>6
  <1> QED BY Zenon, <1>6, <1>7, <1>8, SeqEqual

\* What an id is derived from: the segment of the sender and a token that is
\* part of a path, and they compose to an id that is valid.
LEMMA WhatIsDerived ==
    ASSUME NEW S, NEW T, NEW sender \in Seq(S), NEW token \in Seq(T),
           NEW handle,
           handle = [base |-> "request", parts |-> <<SenderToHandleSegment(sender), token>>],
           DeriveRequestId(sender, handle).result = "ok"
    PROVE  /\ SenderToHandleSegment(sender) # Refused
           /\ token \in Seq(SegmentChar)
           /\ DeriveRequestId(sender, handle).id =
                ComposeId(SenderToHandleSegment(sender), token)
           /\ IsValidRequestId(DeriveRequestId(sender, handle).id)
  <1> DEFINE segment == SenderToHandleSegment(sender)
  <1>1. handle.base = "request" /\ handle.parts = <<segment, token>>
    OBVIOUS
  <1>2. handle.parts[1] = segment /\ handle.parts[2] = token
    BY <1>1
  <1> HIDE DEF segment
  <1>3. /\ IsRequestHandle(handle)
        /\ segment # Refused
        /\ IsValidRequestId(ComposeId(segment, token))
        /\ DeriveRequestId(sender, handle) = [result |-> "ok", id |-> ComposeId(segment, token)]
    BY <1>2 DEF DeriveRequestId, segment
  <1>4. AllIn(token, SegmentChar)
    <2>1. 2 \in 1..2
      OBVIOUS
    <2> QED BY Zenon, <1>2, <1>3, <2>1 DEF IsRequestHandle, IsValidPathSegment, SegmentChar
  <1>5. token \in Seq(SegmentChar)
    BY <1>4, LenProperties DEF AllIn
  <1> QED BY <1>3, <1>5 DEF segment

-----------------------------------------------------------------------------
(* Digits. *)

Printed == {"0", "1", "2", "3", "4", "5", "6", "7", "8", "9", "a", "b", "c", "d", "e", "f"}

\* Sixteen digits are printed.
LEMMA DigitsPrinted ==
    /\ \A k \in 1..16 : HexDigit[k] \in Printed
    /\ Len(HexDigit) = 16
BY SMT DEF HexDigit, Printed

\* No two of them are the same.
LEMMA DigitsDiffer == \A i, j \in 1..16 : HexDigit[i] = HexDigit[j] => i = j
BY SMT DEF HexDigit

\* They are not read as capitals.
LEMMA LowerCase == \A k \in 1..16 : HexDigit[k] \notin DOMAIN UpperDigit
<1>1. DOMAIN UpperDigit = {"A", "B", "C", "D", "E", "F"}
  BY SMT DEF UpperDigit
<1>2. Printed \cap {"A", "B", "C", "D", "E", "F"} = {}
  BY Zenon DEF Printed
<1> QED BY Zenon, <1>1, <1>2, DigitsPrinted

\* A printed digit is read as its own value.
LEMMA DigitRead == \A k \in 1..16 : DigitValue(HexDigit[k]) = k - 1
<1> TAKE k \in 1..16
<1> DEFINE I == {i \in 1..Len(HexDigit) : HexDigit[i] = HexDigit[k]}
<1>1. I = {k}
  BY DigitsPrinted, DigitsDiffer
<1>2. Min({k}) = k
  BY DEF Min
<1>3. DigitValue(HexDigit[k]) = Min(I) - 1
  BY <1>1, LowerCase, Zenon DEF DigitValue, SelectInSeq
<1> QED BY <1>1, <1>2, <1>3

\* What the value of the first i digits is made of.
ValueStep(digits, v, i) == IF i = 0 THEN 0 ELSE 16 * v[i - 1] + DigitValue(digits[i])
IsValue(digits, v) == v = [i \in 0..Len(digits) |-> ValueStep(digits, v, i)]

\* There is a function that satisfies the definition of DigitsValue.
LEMMA ValueExists ==
    ASSUME NEW digits
    PROVE  \A k \in Nat : \E v : v = [i \in 0..k |-> ValueStep(digits, v, i)]
<1> DEFINE S == {k \in Nat : \E v : v = [i \in 0..k |-> ValueStep(digits, v, i)]}
<1>1. 0 \in S
  <2> DEFINE v == [i \in 0..0 |-> 0]
  <2>1. \A i \in 0..0 : ValueStep(digits, v, i) = 0
    BY DEF ValueStep
  <2>2. v = [i \in 0..0 |-> ValueStep(digits, v, i)]
    BY <2>1, Zenon
  <2> QED BY <2>2
<1>2. ASSUME NEW k \in Nat, k \in S PROVE k + 1 \in S
  <2>1. PICK v : v = [i \in 0..k |-> ValueStep(digits, v, i)]
    BY <1>2
  <2> DEFINE w == [i \in 0..(k + 1) |-> IF i <= k THEN v[i] ELSE ValueStep(digits, v, k + 1)]
  <2>2. \A i \in 0..k : w[i] = v[i]
    OBVIOUS
  <2>3. \A i \in 0..k : v[i] = ValueStep(digits, v, i)
    BY <2>1, Zenon
  <2>4. w[k + 1] = ValueStep(digits, v, k + 1)
    OBVIOUS
  <2>5. w = [i \in 0..(k + 1) |-> w[i]]
    OBVIOUS
  <2> HIDE DEF w
  <2>6. \A i \in 0..(k + 1) : ValueStep(digits, w, i) = ValueStep(digits, v, i)
    <3> TAKE i \in 0..(k + 1)
    <3>1. CASE i = 0
      BY <3>1 DEF ValueStep
    <3>2. CASE i # 0
      <4>1. i - 1 \in 0..k
        BY <3>2
      <4>2. w[i - 1] = v[i - 1]
        BY <2>2, <4>1
      <4> QED BY <4>2, Zenon DEF ValueStep
    <3> QED BY <3>1, <3>2
  <2>7. \A i \in 0..(k + 1) : w[i] = ValueStep(digits, w, i)
    <3> TAKE i \in 0..(k + 1)
    <3>1. CASE i \in 0..k
      BY <2>2, <2>3, <2>6, <3>1
    <3>2. CASE i = k + 1
      BY <2>4, <2>6, <3>2
    <3> QED BY <3>1, <3>2
  <2>8. w = [i \in 0..(k + 1) |-> ValueStep(digits, w, i)]
    BY <2>5, <2>7, Zenon
  <2> QED BY <2>8
<1> HIDE DEF S
<1>3. Nat \subseteq S
  BY <1>1, <1>2, SetInduction
<1> QED BY <1>3 DEF S

\* The values of the beginnings of a text, up to that of its first n digits.
Sums(v, digits, n) ==
    /\ v[0] = 0
    /\ \A i \in 1..n : v[i] = 16 * v[i - 1] + DigitValue(digits[i])

\* A text is worth what its digits sum up to.
LEMMA ValueShape ==
    ASSUME NEW S, NEW digits \in Seq(S)
    PROVE  \E v : DigitsValue(digits, 16) = v[Len(digits)] /\ Sums(v, digits, Len(digits))
<1> DEFINE v == CHOOSE v : IsValue(digits, v)
<1>1. Len(digits) \in Nat
  OBVIOUS
<1>2. \E w : IsValue(digits, w)
  BY <1>1, ValueExists DEF IsValue
<1>3. IsValue(digits, v)
  BY <1>2, Zenon
<1>4. DigitsValue(digits, 16) = v[Len(digits)]
  BY Zenon DEF DigitsValue, ValueStep, IsValue
<1> HIDE DEF v
<1>5. \A i \in 0..Len(digits) : v[i] = ValueStep(digits, v, i)
  BY <1>3, Zenon DEF IsValue
<1>6. v[0] = 0
  <2>1. 0 \in 0..Len(digits)
    BY <1>1
  <2> QED BY <1>5, <2>1, Zenon DEF ValueStep
<1>7. ASSUME NEW i \in 1..Len(digits)
      PROVE  v[i] = 16 * v[i - 1] + DigitValue(digits[i])
  <2>1. i \in 0..Len(digits) /\ i # 0
    BY <1>1
  <2> QED BY <1>5, <2>1, Zenon DEF ValueStep
<1> QED BY <1>4, <1>6, <1>7 DEF Sums

\* Texts that begin with the same digits have the same sums so far.
LEMMA SumsAgree ==
    ASSUME NEW v, NEW w, NEW d, NEW e, NEW n \in Nat,
           \A i \in 1..n : d[i] = e[i],
           Sums(v, d, n), Sums(w, e, n)
    PROVE  v[n] = w[n]
<1> DEFINE S == {i \in Nat : i <= n => v[i] = w[i]}
<1>1. 0 \in S
  BY DEF Sums
<1>2. ASSUME NEW i \in Nat, i \in S PROVE i + 1 \in S
  <2> SUFFICES ASSUME i + 1 <= n PROVE v[i + 1] = w[i + 1]
    OBVIOUS
  <2>1. i + 1 \in 1..n /\ (i + 1) - 1 = i /\ v[i] = w[i]
    BY <1>2
  <2> QED BY <2>1, Zenon DEF Sums
<1> HIDE DEF S
<1>3. n \in S
  BY <1>1, <1>2, SetInduction
<1> QED BY <1>3 DEF S

\* One more digit is a new lowest one.
LEMMA ValueOfAppend ==
    ASSUME NEW S, NEW digits \in Seq(S), NEW c \in S
    PROVE  DigitsValue(Append(digits, c), 16) = 16 * DigitsValue(digits, 16) + DigitValue(c)
<1> DEFINE longer == Append(digits, c)
           n == Len(digits)
<1>1. n \in Nat /\ longer \in Seq(S) /\ Len(longer) = n + 1
  OBVIOUS
<1>2. longer[n + 1] = c /\ \A i \in 1..n : longer[i] = digits[i]
  OBVIOUS
<1> HIDE DEF longer, n
<1>3. PICK v : DigitsValue(digits, 16) = v[n] /\ Sums(v, digits, n)
  BY ValueShape DEF n
<1>4. PICK w : DigitsValue(longer, 16) = w[n + 1] /\ Sums(w, longer, n + 1)
  BY <1>1, ValueShape
<1>5. w[n] = v[n]
  <2>1. \A i \in 1..n : i \in 1..(n + 1)
    BY <1>1
  <2>2. Sums(w, longer, n)
    BY <1>4, <2>1, Zenon DEF Sums
  <2> QED BY <1>1, <1>2, <1>3, <2>2, SumsAgree
<1>6. w[n + 1] = 16 * w[n] + DigitValue(c)
  <2>1. n + 1 \in 1..(n + 1) /\ (n + 1) - 1 = n
    BY <1>1
  <2> QED BY <1>2, <1>4, <2>1, Zenon DEF Sums
<1> QED BY <1>3, <1>4, <1>5, <1>6 DEF longer

\* A text of one digit is worth that digit.
LEMMA ValueOfOne ==
    ASSUME NEW c, DigitValue(c) \in Int
    PROVE  DigitsValue(<<c>>, 16) = DigitValue(c)
<1> DEFINE one == <<c>>
<1>1. one \in Seq({c}) /\ Len(one) = 1 /\ one[1] = c
  OBVIOUS
<1> HIDE DEF one
<1>2. PICK v : DigitsValue(one, 16) = v[1] /\ Sums(v, one, 1)
  BY <1>1, ValueShape
<1>3. v[0] = 0 /\ v[1] = 16 * v[0] + DigitValue(c)
  <2>1. 1 \in 1..1 /\ 1 - 1 = 0
    OBVIOUS
  <2> QED BY <1>1, <1>2, <2>1, Zenon DEF Sums
<1> QED BY <1>2, <1>3 DEF one

-----------------------------------------------------------------------------
(* Windows. *)

\* What the name of n is made of.
HexStep(h, n) == IF n < 16 THEN <<HexDigit[n + 1]>> ELSE Append(h[n \div 16], HexDigit[(n % 16) + 1])

\* Without its lowest digit a number is smaller, and there are sixteen of those.
LEMMA Halves == 
   ASSUME NEW n \in Nat, n >= 16
   PROVE n \div 16 \in 1..(n-1) /\ n % 16 \in 0..15 /\ n = 16 * (n \div 16) + (n % 16)
OBVIOUS

\* A name is made of the one name it is said to be made of.
LEMMA HexLocal ==
    ASSUME NEW n \in Nat, NEW g, NEW h, n >= 16 => g[n \div 16] = h[n \div 16]
    PROVE  HexStep(g, n) = HexStep(h, n)
BY DEF HexStep

\* There is a function that satisfies the definition of Hex.
LEMMA HexExists == \A k \in Nat : \E h : h = [n \in 0..k |-> HexStep(h, n)]
<1> DEFINE S == {k \in Nat : \E h : h = [n \in 0..k |-> HexStep(h, n)]}
<1>1. 0 \in S
  <2> DEFINE h == [n \in 0..0 |-> <<HexDigit[n + 1]>>]
  <2>1. \A n \in 0..0 : HexStep(h, n) = <<HexDigit[n + 1]>>
    BY DEF HexStep
  <2>2. h = [n \in 0..0 |-> HexStep(h, n)]
    BY <2>1, Zenon
  <2> QED BY <2>2
<1>2. ASSUME NEW k \in Nat, k \in S PROVE k + 1 \in S
  <2>1. PICK h : h = [n \in 0..k |-> HexStep(h, n)]
    BY <1>2
  <2> DEFINE g == [n \in 0..(k + 1) |-> IF n <= k THEN h[n] ELSE HexStep(h, k + 1)]
  <2>2. \A n \in 0..k : g[n] = h[n] /\ h[n] = HexStep(h, n)
    <3> TAKE n \in 0..k
    <3>1. g[n] = h[n]
      OBVIOUS
    <3>2. h[n] = HexStep(h, n)
      BY <2>1, Zenon
    <3> QED BY <3>1, <3>2
  <2>3. g[k + 1] = HexStep(h, k + 1)
    OBVIOUS
  <2>4. \A n \in 0..(k + 1) : n >= 16 => n \div 16 \in 0..k
    <3> TAKE n \in 0..(k + 1)
    <3> QED BY Halves
  <2>5. DOMAIN g = 0..(k + 1) /\ g = [n \in 0..(k + 1) |-> g[n]]
    OBVIOUS
  <2> HIDE DEF g
  <2>6. \A n \in 0..(k + 1) : HexStep(g, n) = HexStep(h, n)
    <3> TAKE n \in 0..(k + 1)
    <3>1. n \in Nat /\ (n >= 16 => g[n \div 16] = h[n \div 16])
      BY <2>2, <2>4
    <3> QED BY <3>1, HexLocal
  <2>7. \A n \in 0..(k + 1) : g[n] = HexStep(g, n)
    <3> TAKE n \in 0..(k + 1)
    <3>1. CASE n \in 0..k
      BY <2>2, <2>6, <3>1
    <3>2. CASE n = k + 1
      BY <2>3, <2>6, <3>2
    <3> QED BY <3>1, <3>2
  <2>8. g = [n \in 0..(k + 1) |-> HexStep(g, n)]
    BY <2>5, <2>7, Zenon
  <2> QED BY <2>8
<1> HIDE DEF S
<1>3. Nat \subseteq S
  BY <1>1, <1>2, SetInduction
<1> QED BY <1>3 DEF S

\* Hex satisfies its definition.
LEMMA HexShape == \A n \in WindowId : Hex[n] = HexStep(Hex, n)
<1>1. MaxWindow \in Nat
  BY Zenon, TextsAssumption
<1>2. \E h : h = [n \in WindowId |-> HexStep(h, n)]
  BY <1>1, HexExists DEF WindowId
<1>3. Hex = [n \in WindowId |-> HexStep(Hex, n)]
  BY <1>2, Zenon DEF Hex, HexStep
<1> QED BY <1>3, Zenon

\* The digits of a window are printed ones, and worth the window.
LEMMA HexReadsBack ==
    ASSUME NEW n \in WindowId
    PROVE  Hex[n] \in Seq(Printed) /\ Len(Hex[n]) >= 1 /\ DigitsValue(Hex[n], 16) = n
<1> DEFINE Good(k) == /\ Hex[k] \in Seq(Printed) /\ Len(Hex[k]) >= 1
                      /\ DigitsValue(Hex[k], 16) = k
           S == {m \in Nat : \A k \in WindowId : k <= m => Good(k)}
<1>1. WindowId \subseteq Nat /\ \A k \in WindowId : \A m \in Nat : m <= k => m \in WindowId
  <2>1. MaxWindow \in Nat
    BY Zenon, TextsAssumption
  <2> QED BY <2>1 DEF WindowId
<1>2. ASSUME NEW k \in WindowId, k < 16 PROVE Good(k)
  <2>1. k \in Nat /\ k + 1 \in 1..16
    BY <1>1, <1>2
  <2>2. Hex[k] = <<HexDigit[k + 1]>>
    BY <1>2, HexShape DEF HexStep
  <2>3. HexDigit[k + 1] \in Printed /\ DigitValue(HexDigit[k + 1]) = k
    BY <2>1, DigitsPrinted, DigitRead
  <2>4. DigitsValue(Hex[k], 16) = k
    BY <2>1, <2>2, <2>3, ValueOfOne
  <2>5. \A d \in Printed : <<d>> \in Seq(Printed) /\ Len(<<d>>) = 1
    OBVIOUS
  <2>6. Hex[k] \in Seq(Printed) /\ Len(Hex[k]) = 1
    BY <2>2, <2>3, <2>5, Zenon
  <2> QED BY <2>4, <2>6
<1>3. ASSUME NEW k \in WindowId, k >= 16, Good(k \div 16) PROVE Good(k)
  <2> DEFINE high == k \div 16
             low == k % 16
             digit == HexDigit[low + 1]
  <2>1. k \in Nat /\ high \in Nat /\ low \in 0..15 /\ k = 16 * high + low
    BY <1>1, <1>3, Halves
  <2>2. Hex[k] = Append(Hex[high], digit)
    <3>1. ~(k < 16)
      BY <1>3, <2>1
    <3> QED BY Zenon, <3>1, HexShape DEF HexStep
  <2>3. digit \in Printed /\ DigitValue(digit) = low
    <3>1. low + 1 \in 1..16 /\ (low + 1) - 1 = low
      BY <2>1
    <3> QED BY <3>1, DigitsPrinted, DigitRead
  <2>4. Good(high)
    BY <1>3
  <2> HIDE DEF high, low, digit
  <2>5. DigitsValue(Hex[k], 16) = k
    BY <2>1, <2>2, <2>3, <2>4, ValueOfAppend
  <2>6. Hex[k] \in Seq(Printed) /\ Len(Hex[k]) >= 1
    BY <2>2, <2>3, <2>4, AppendProperties
  <2> QED BY <2>5, <2>6
<1> HIDE DEF Good
<1>4. 0 \in S
  BY <1>1, <1>2
<1>5. ASSUME NEW m \in Nat, m \in S PROVE m + 1 \in S
  <2> SUFFICES ASSUME NEW k \in WindowId, k <= m + 1 PROVE Good(k)
    OBVIOUS
  <2>1. CASE k < 16
    BY <1>2, <2>1
  <2>2. CASE k >= 16
    <3>1. k \div 16 \in 1..k - 1
      BY <1>1, <2>2, Halves
    <3>2. k \div 16 \in WindowId /\ k \div 16 <= m
      BY <1>1, <3>1
    <3> QED BY <1>3, <1>5, <2>2, <3>2
  <2> QED BY <1>1, <2>1, <2>2
<1> HIDE DEF S
<1>6. n \in S
  BY <1>1, <1>4, <1>5, SetInduction
<1> QED BY <1>1, <1>6 DEF S, Good

\* The characters of the name of a window.
NameChar == Printed \cup {"x", ":"}
Scheme == <<"x", "1", "1", ":">>
HexMark == <<"0", "x">>

LEMMA NameChars ==
    /\ HasNoBlank(NameChar)
    /\ "+" \notin NameChar /\ "-" \notin NameChar
    /\ "\t" \notin NameChar /\ "\n" \notin NameChar
BY Zenon DEF HasNoBlank, NameChar, Printed

LEMMA Marks ==
    /\ Scheme \in Seq(NameChar) /\ Len(Scheme) = 4
    /\ HexMark \in Seq(NameChar) /\ Len(HexMark) = 2
    /\ <<"x", "1", "1", ":", "0", "x">> = Scheme \o HexMark
    /\ Printed \subseteq NameChar
BY DEF Scheme, HexMark, NameChar, Printed

\* The name of a window: a scheme, a mark and its digits.
LEMMA NameShape ==
    ASSUME NEW n \in WindowId
    PROVE  /\ Hex[n] \in Seq(NameChar)
           /\ HexMark \o Hex[n] \in Seq(NameChar)
           /\ Len(HexMark \o Hex[n]) >= 3
           /\ ShowParent(X11(n)) = Scheme \o (HexMark \o Hex[n])
           /\ ShowParent(X11(n)) \in Seq(NameChar)
           /\ Len(ShowParent(X11(n))) >= 7
<1> DEFINE marked == HexMark \o Hex[n]
           name == Scheme \o marked
<1>1. Hex[n] \in Seq(NameChar) /\ Len(Hex[n]) >= 1
  BY HexReadsBack, Marks
<1>2. marked \in Seq(NameChar) /\ Len(marked) >= 3
  <2>1. marked \in Seq(NameChar) /\ Len(marked) = Len(HexMark) + Len(Hex[n])
    BY <1>1, Marks, JoinedLength
  <2> HIDE DEF marked
  <2> QED BY <1>1, <2>1, Marks
<1> HIDE DEF marked
<1>3. name \in Seq(NameChar) /\ Len(name) >= 7
  <2>1. name \in Seq(NameChar) /\ Len(name) = Len(Scheme) + Len(marked)
    BY <1>2, Marks, JoinedLength
  <2> HIDE DEF name
  <2> QED BY <1>2, <2>1, Marks
<1>4. ShowParent(X11(n)) = (Scheme \o HexMark) \o Hex[n]
  <2>1. X11(n).window = n
    BY DEF X11
  <2> QED BY Zenon, <2>1, Marks DEF ShowParent
<1>5. (Scheme \o HexMark) \o Hex[n] = name
  <2>1. Scheme \in Seq(NameChar) /\ HexMark \in Seq(NameChar) /\ Hex[n] \in Seq(NameChar)
    BY <1>1, Marks
  <2>2. \A s, t, u \in Seq(NameChar) : (s \o t) \o u = s \o (t \o u)
    BY SMT, ConcatAssociative
  <2> QED BY Zenon, <2>1, <2>2 DEF marked
<1> QED BY <1>1, <1>2, <1>3, <1>4, <1>5, Zenon DEF marked

\* The digits of a window are read as that window.
LEMMA DigitsRead ==
    ASSUME NEW n \in WindowId
    PROVE  Number(Hex[n], 16) = n
<1> DEFINE digits == Hex[n]
<1>1. /\ digits \in Seq(Printed) /\ Len(digits) >= 1
      /\ DigitsValue(digits, 16) = n
  BY HexReadsBack
<1>2. "+" \notin Printed
  BY Zenon DEF Printed
<1>3. ~IsPrefix(<<"+">>, digits)
  <2>1. digits[1] \in Printed
    BY <1>1
  <2> QED BY Zenon, <1>1, <1>2, <2>1, FirstOf
<1>4. \A i \in DOMAIN digits : DigitValue(digits[i]) \in 0..(16 - 1)
  <2>1. \A c \in Printed : \E k \in 1..16 : c = HexDigit[k]
    BY DEF Printed, HexDigit
  <2>2. ASSUME NEW c \in Printed PROVE DigitValue(c) \in 0..15
    <3>1. PICK k \in 1..16 : c = HexDigit[k]
      BY <2>1
    <3> QED BY <3>1, DigitRead
  <2>3. \A i \in DOMAIN digits : digits[i] \in Printed
    BY <1>1
  <2>4. 0..(16 - 1) = 0..15
    OBVIOUS
  <2> QED BY Zenon, <2>2, <2>3, <2>4
<1>5. digits # <<>>
  BY <1>1
<1> HIDE DEF digits
<1> QED BY Zenon, <1>1, <1>3, <1>4, <1>5 DEF Number, digits

\* For every window that there is: its name is read as that window and no other,
\* and cannot be taken for a field without a window.
LEMMA WindowIsRead ==
    ASSUME NEW n \in WindowId
    PROVE  ParseParent(ShowParent(X11(n))) = X11(n)
<1> DEFINE name == ShowParent(X11(n))
           marked == HexMark \o Hex[n]
<1>1. /\ Hex[n] \in Seq(NameChar)
      /\ marked \in Seq(NameChar) /\ Len(marked) >= 3
      /\ name \in Seq(NameChar) /\ Len(name) >= 7
      /\ name = Scheme \o marked
  BY NameShape
<1> HIDE DEF name, marked
<1>2. Trim(name) = name /\ Trim(marked) = marked
  BY Zenon, <1>1, NameChars, Solid
<1>3. IsPrefix(Scheme, name) /\ After(name, 4) = marked
  <2>1. IsPrefix(Scheme, Scheme \o marked) /\ After(Scheme \o marked, Len(Scheme)) = marked
    BY Zenon, <1>1, Marks, Beginning
  <2> QED BY Zenon, <1>1, <2>1, Marks
<1>4. IsPrefix(HexMark, marked) /\ After(marked, 2) = Hex[n]
  <2>1. IsPrefix(HexMark, HexMark \o Hex[n]) /\ After(HexMark \o Hex[n], Len(HexMark)) = Hex[n]
    BY Zenon, <1>1, Marks, Beginning
  <2> QED BY Zenon, <2>1, Marks DEF marked
<1>5. WindowNumber(marked) = n
  <2>1. Number(Hex[n], 16) = n
    BY Zenon, DigitsRead
  <2> QED BY Zenon, <1>2, <1>4, <2>1 DEF WindowNumber, HexMark
<1>6. n # -1 /\ name # <<>>
  <2>1. MaxWindow \in Nat
    BY Zenon, TextsAssumption
  <2> QED BY <1>1, <2>1 DEF WindowId
<1>7. name # NoText
  <2>1. Len(NoText) = 1
    BY DEF NoText
  <2> QED BY <1>1, <2>1
<1> QED BY Zenon, <1>2, <1>3, <1>5, <1>6, <1>7 DEF ParseParent, Scheme, name

\* A text that is read as a window is read as one there is.
LEMMA WindowRead ==
    ASSUME NEW text, ParseParent(text).kind = "x11"
    PROVE  \E n \in WindowId : ParseParent(text) = X11(n)
<1>1. NoWindow.kind # "x11" /\ BadWindow.kind # "x11"
  BY DEF NoWindow, BadWindow
<1>2. \A t, radix : Number(t, radix) \in WindowId \/ Number(t, radix) = -1
  BY Zenon DEF Number
<1>3. \A t : WindowNumber(t) \in WindowId \/ WindowNumber(t) = -1
  BY Zenon, <1>2 DEF WindowNumber
<1> QED BY Zenon, <1>1, <1>3 DEF ParseParent

=============================================================================
