---------------------------- MODULE RequestTexts ----------------------------
(***************************************************************************)
(* The texts a request is known by, and what the daemon makes of them: the *)
(* identities it accepts (garwarp/src/validate.rs), the request id derived *)
(* from a D-Bus handle (portal.rs) and the parent window (window.rs).      *)
(*                                                                         *)
(* A text is a sequence of characters, one-letter strings.  All operators  *)
(* are pure; what a text is refused for is a value like any other.         *)
(***************************************************************************)
EXTENDS Integers, Sequences, SequencesExt, FiniteSetsExt

CONSTANTS
    Alphanumeric,    \* the ASCII letters and digits
    MaxRequestIdLen, \* MAX_REQUEST_ID_LEN, in characters as all accepted ones are one byte
    MaxSenderLen,
    MaxAppIdLen,
    MaxWindow        \* the greatest window id, u64::MAX in the code

ASSUME TextsAssumption ==
    /\ {MaxRequestIdLen, MaxSenderLen, MaxAppIdLen, MaxWindow} \subseteq Nat
    /\ MaxRequestIdLen <= MaxSenderLen
    /\ Alphanumeric \cap {".", "_", "-", ":", "/", " ", "+", "\t", "\n"} = {}

Text == Seq(STRING)
AllIn(text, characters) == \A i \in DOMAIN text : text[i] \in characters
After(text, n) == SubSeq(text, n + 1, Len(text))

Trim(text) ==
    LET solid == {i \in DOMAIN text : text[i] # " "} IN
    IF solid = {} THEN <<>> ELSE SubSeq(text, Min(solid), Max(solid))

\* An absent optional value.
NoText == <<"none">>

-----------------------------------------------------------------------------
(* Identities. *)

IsValidRequestId(text) ==
    /\ text # <<>>
    /\ Len(text) <= MaxRequestIdLen
    /\ AllIn(text, Alphanumeric \cup {".", "_", "-", ":"})

IsValidSender(text) ==
    /\ Len(text) <= MaxSenderLen
    /\ IsPrefix(<<":">>, text)
    /\ AllIn(text, Alphanumeric \cup {".", "_", "-", ":"})

\* Variant: an application id needs no dot.
IsValidAppIdUndotted(text) ==
    /\ text # <<>>
    /\ Len(text) <= MaxAppIdLen
    /\ AllIn(text, Alphanumeric \cup {".", "_", "-"})

IsValidAppId(text) ==
    /\ text # <<>>
    /\ Len(text) <= MaxAppIdLen
    /\ Contains(text, ".")
    /\ AllIn(text, Alphanumeric \cup {".", "_", "-"})

\* validate_request_identity
ValidIdentity(id, sender, app_id) ==
    /\ IsValidRequestId(id)
    /\ IsValidSender(sender)
    /\ app_id = NoText \/ IsValidAppId(app_id)

-----------------------------------------------------------------------------
(* The id of a request that came in over D-Bus. *)

Refused == <<"refused">>

IsValidPathSegment(text) == AllIn(text, Alphanumeric \cup {"_"})

\* parse_request_handle.  A handle is where its path begins and what follows,
\* split at the slashes.
IsRequestHandle(handle) ==
    /\ handle.base = "request"
    /\ Len(handle.parts) = 2
    /\ \A i \in 1..2 : handle.parts[i] # <<>> /\ IsValidPathSegment(handle.parts[i])

SenderToHandleSegment(sender) ==
    LET body == After(sender, 1) IN
    IF /\ IsPrefix(<<":">>, sender)
       /\ body # <<>>
       /\ AllIn(body, Alphanumeric \cup {".", "_", "-"})
      THEN [i \in DOMAIN body |-> IF body[i] \in Alphanumeric THEN body[i] ELSE "_"]
      ELSE Refused

RequestIdPrefix == <<"r", "e", "q", ":">>

\* Variant: segment and token are joined by a character either may hold.
ComposeIdUnderscore(segment, token) == RequestIdPrefix \o segment \o <<"_">> \o token
ComposeId(segment, token) == RequestIdPrefix \o segment \o <<":">> \o token

\* Variant: the composed id is not validated.
DeriveRequestIdUnvalidated(sender, handle) ==
    IF ~IsRequestHandle(handle) \/ SenderToHandleSegment(sender) = Refused
      THEN [result |-> "invalid_request"]
    ELSE IF SenderToHandleSegment(sender) # handle.parts[1]
      THEN [result |-> "ownership_mismatch"]
    ELSE [result |-> "ok", id |-> ComposeId(handle.parts[1], handle.parts[2])]

\* derive_request_id_from_handle
DeriveRequestId(sender, handle) ==
    LET segment == SenderToHandleSegment(sender)
        id == ComposeId(segment, handle.parts[2])
    IN IF ~IsRequestHandle(handle) \/ segment = Refused THEN [result |-> "invalid_request"]
       ELSE IF segment # handle.parts[1] THEN [result |-> "ownership_mismatch"]
       ELSE IF ~IsValidRequestId(id) THEN [result |-> "invalid_request"]
       ELSE [result |-> "ok", id |-> id]

-----------------------------------------------------------------------------
(* Parent windows. *)

WindowId == 0..MaxWindow
X11(n) == [kind |-> "x11", window |-> n]
NoWindow == [kind |-> "none"]
BadWindow == [kind |-> "refused"]

HexDigit == <<"0", "1", "2", "3", "4", "5", "6", "7", "8", "9", "a", "b", "c", "d", "e", "f">>
UpperDigit == [A |-> 10, B |-> 11, C |-> 12, D |-> 13, E |-> 14, F |-> 15]
DigitValue(c) ==
    IF c \in DOMAIN UpperDigit THEN UpperDigit[c] ELSE SelectInSeq(HexDigit, LAMBDA d : d = c) - 1

DigitsValue(digits, radix) ==
    LET value[i \in 0..Len(digits)] ==
            IF i = 0 THEN 0 ELSE radix * value[i - 1] + DigitValue(digits[i])
    IN value[Len(digits)]

\* What from_str_radix reads: digits after at most one plus sign, in range.
\* -1 when it fails.
Number(text, radix) ==
    LET digits == IF IsPrefix(<<"+">>, text) THEN After(text, 1) ELSE text
    IN IF digits # <<>> /\ (\A i \in DOMAIN digits : DigitValue(digits[i]) \in 0..(radix - 1))
          /\ DigitsValue(digits, radix) \in WindowId
         THEN DigitsValue(digits, radix) ELSE -1

\* parse_x11_window_id
WindowNumber(text) ==
    LET trimmed == Trim(text) IN
    IF IsPrefix(<<"0", "x">>, trimmed) \/ IsPrefix(<<"0", "X">>, trimmed)
      THEN Number(After(trimmed, 2), 16)
      ELSE Number(trimmed, 10)

\* parse_optional_parent_window, of a text or of none.
ParseParent(text) ==
    LET trimmed == Trim(text)
        number == WindowNumber(After(trimmed, 4))
    IN IF text = NoText \/ trimmed = <<>> THEN NoWindow
       ELSE IF ~IsPrefix(<<"x", "1", "1", ":">>, trimmed) \/ number = -1 THEN BadWindow
       ELSE X11(number)

Hex[n \in WindowId] ==
    IF n < 16 THEN <<HexDigit[n + 1]>> ELSE Append(Hex[n \div 16], HexDigit[(n % 16) + 1])

\* Variant: the digits are hexadecimal and not marked so.
ShowParentUnmarked(parent) == <<"x", "1", "1", ":">> \o Hex[parent.window]

\* ParentWindowContext::as_str
ShowParent(parent) == <<"x", "1", "1", ":", "0", "x">> \o Hex[parent.window]

=============================================================================
