------------------------ MODULE MCRequestTextsProofs ------------------------
(***************************************************************************)
(* What is true of the texts two callers and a window can be made of: the  *)
(* characters and the bounds of MCRequestTexts are constants about which   *)
(* nothing is assumed.                                                     *)
(***************************************************************************)
EXTENDS MCRequestTexts, RequestTextsProofs

\* What is typed stays a text, whatever is typed.
Texts ==
    /\ callers \in [1..2 -> [sender : Seq(SenderChar), token : Seq(TokenChar)]]
    /\ window \in Seq(WindowChar)

\* Nothing is ever typed but characters.
LEMMA TextsTyped == Spec => []Texts
  <1>1. Init => Texts
    <2> SUFFICES ASSUME Init PROVE Texts
      OBVIOUS
    <2>1. <<>> \in Seq(SenderChar) /\ <<>> \in Seq(TokenChar) /\ <<>> \in Seq(WindowChar)
      OBVIOUS
    <2> QED BY <2>1 DEF Init, Texts, Blank
  <1>2. Texts /\ [Next]_texts => Texts'
    <2> SUFFICES ASSUME Texts, [Next]_texts PROVE Texts'
      OBVIOUS
    <2> USE DEF Texts
    <2>1. ASSUME NEW i \in 1..2, TypeSender(i) PROVE Texts'
      <3>1. PICK c \in SenderChar : callers' = [callers EXCEPT ![i].sender = Append(@, c)]
        BY <2>1 DEF TypeSender
      <3>2. Append(callers[i].sender, c) \in Seq(SenderChar)
        OBVIOUS
      <3> QED BY <2>1, <3>1, <3>2 DEF TypeSender
    <2>2. ASSUME NEW i \in 1..2, TypeToken(i) PROVE Texts'
      <3>1. PICK c \in TokenChar : callers' = [callers EXCEPT ![i].token = Append(@, c)]
        BY <2>2 DEF TypeToken
      <3>2. Append(callers[i].token, c) \in Seq(TokenChar)
        OBVIOUS
      <3> QED BY <2>2, <3>1, <3>2 DEF TypeToken
    <2>3. CASE TypeWindow
      BY <2>3 DEF TypeWindow
    <2>4. CASE Clear
      <3>1. <<>> \in Seq(SenderChar) /\ <<>> \in Seq(TokenChar) /\ <<>> \in Seq(WindowChar)
        OBVIOUS
      <3> QED BY <2>4, <3>1 DEF Clear, Blank
    <2>5. CASE UNCHANGED texts
      BY <2>5 DEF texts
    <2> QED BY <2>1, <2>2, <2>3, <2>4, <2>5 DEF Next
  <1> QED BY <1>1, <1>2, PTL DEF Spec

\* Where both callers are texts, what they are given holds.
LEMMA CallerDerived ==
    ASSUME Texts, NEW i \in 1..2, Derived(i).result = "ok"
    PROVE  LET segment == SenderToHandleSegment(callers[i].sender) IN
           /\ callers[i].sender \in Seq(SenderChar)
           /\ segment # Refused
           /\ callers[i].token \in Seq(SegmentChar)
           /\ Derived(i).id = ComposeId(segment, callers[i].token)
           /\ IsValidRequestId(Derived(i).id)
  <1>1. callers[i].sender \in Seq(SenderChar) /\ callers[i].token \in Seq(TokenChar)
    BY DEF Texts
  <1> QED BY <1>1, WhatIsDerived DEF Derived, Handle

\* For every length and every character: an id the dispatcher derives, and the
\* name of its caller, pass the validation in front of the registry (portal.rs
\* derive_request_id, validate.rs validate_request_identity).
THEOREM DerivedHolds == Spec => []DerivedIdentityHolds
  <1>1. Texts => DerivedIdentityHolds
    <2> SUFFICES ASSUME Texts, NEW i \in 1..2, Derived(i).result = "ok"
                 PROVE  ValidIdentity(Derived(i).id, callers[i].sender, NoText)
      BY DEF DerivedIdentityHolds
    <2> DEFINE sender == callers[i].sender
               token == callers[i].token
               segment == SenderToHandleSegment(sender)
    <2>1. /\ sender \in Seq(SenderChar)
          /\ segment # Refused
          /\ token \in Seq(SegmentChar)
          /\ Derived(i).id = ComposeId(segment, token)
          /\ IsValidRequestId(Derived(i).id)
      BY CallerDerived
    <2>2. /\ segment \in Seq(SegmentChar)
          /\ Len(segment) = Len(sender) - 1
          /\ IsPrefix(<<":">>, sender)
          /\ AllIn(sender, IdChar)
      BY <2>1, SegmentOfSender
    <2> HIDE DEF sender, token, segment
    <2>3. Len(Derived(i).id) = Len(segment) + Len(token) + 5
      BY <2>1, <2>2, ComposedId
    <2>4. Len(Derived(i).id) <= MaxRequestIdLen
      BY <2>1 DEF IsValidRequestId
    <2>5. Len(sender) \in Nat /\ Len(token) \in Nat
      BY <2>1
    <2>6. Len(sender) <= MaxSenderLen
      BY <2>2, <2>3, <2>4, <2>5, Limits
    <2>7. IsValidSender(sender)
      BY <2>2, <2>6 DEF IsValidSender, IdChar
    <2> QED BY <2>1, <2>7 DEF ValidIdentity, sender
  <1> QED BY <1>1, TextsTyped, PTL

\* For every length and every character: two callers are given one id only for
\* one segment and one token (portal.rs derive_request_id).
THEOREM DerivedSplits == Spec => []DerivedIdSplits
  <1>1. Texts => DerivedIdSplits
    <2> SUFFICES ASSUME Texts, Derived(1).result = "ok", Derived(2).result = "ok",
                        Derived(1).id = Derived(2).id
                 PROVE  Handle(callers[1]) = Handle(callers[2])
      BY DEF DerivedIdSplits
    <2> DEFINE segment(i) == SenderToHandleSegment(callers[i].sender)
    <2>1. \A i \in 1..2 :
            /\ callers[i].sender \in Seq(SenderChar)
            /\ segment(i) # Refused
            /\ callers[i].token \in Seq(SegmentChar)
            /\ Derived(i).id = ComposeId(segment(i), callers[i].token)
      BY CallerDerived
    <2>2. \A i \in 1..2 : segment(i) \in Seq(SegmentChar)
      BY <2>1, SegmentOfSender
    <2>3. ComposeId(segment(1), callers[1].token) = ComposeId(segment(2), callers[2].token)
      BY <2>1
    <2>4. segment(1) = segment(2) /\ callers[1].token = callers[2].token
      BY <2>1, <2>2, <2>3, ComposedOnce
    <2> QED BY <2>4 DEF Handle
  <1> QED BY <1>1, TextsTyped, PTL

\* For every text of every length, and for windows of every number: a window is
\* read from its own name as that window (window.rs as_str, parse_parent_window).
THEOREM WindowsKeepTheirNames == Spec => []WindowKeepsItsName
  <1>1. WindowKeepsItsName
    <2> DEFINE text == <<"x", "1", "1", ":">> \o window
    <2>1. ASSUME ParseParent(text).kind = "x11"
          PROVE  ParseParent(ShowParent(ParseParent(text))) = ParseParent(text)
      <3> HIDE DEF text
      <3>1. PICK n \in WindowId : ParseParent(text) = X11(n)
        BY <2>1, WindowRead
      <3> QED BY <3>1, WindowIsRead
    <2> QED BY <2>1 DEF WindowKeepsItsName
  <1> QED BY <1>1, PTL

=============================================================================
