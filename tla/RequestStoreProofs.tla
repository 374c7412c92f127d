------------------------- MODULE RequestStoreProofs -------------------------
(***************************************************************************)
(* RequestStore implements AtomicFile, for every finite set of ids and     *)
(* every set of validated records.                                         *)
(***************************************************************************)
EXTENDS RequestStore, RequestRegistryProofs, RequestTextsProofs

\* A line is a sequence of keys with texts; what the code writes for nothing,
\* for a window and for a state is a text like any other.
Key == {"id", "sender", "app_id", "parent", "state", "torn"}
FieldText == Seq(STRING \cup {"-"} \cup NameChar \cup RequestState)
Line == Seq(Key \X FieldText)

LEMMA TextsAreFieldTexts == Text \subseteq FieldText
BY DEF Text, FieldText

LEMMA DashIsFieldText == Dash \in FieldText
BY DEF Dash, FieldText

\* A validated text has no tab and no end of line in it, and is not the dash.
LEMMA ValidatedTexts ==
    ASSUME NEW id \in RequestId, NEW r \in Storable
    PROVE  /\ ~Contains(id, "\t") /\ ~Contains(id, "\n")
           /\ ~Contains(r.owner.sender, "\t") /\ ~Contains(r.owner.sender, "\n")
           /\ r.owner.app_id # NoText =>
                /\ ~Contains(r.owner.app_id, "\t") /\ ~Contains(r.owner.app_id, "\n")
                /\ r.owner.app_id # Dash
<1>1. /\ id \in Text /\ r.owner.sender \in Text /\ r.owner.app_id \in Text
      /\ ValidIdentity(id, r.owner.sender, r.owner.app_id)
  BY StoreAssumption
<1> DEFINE chars == Alphanumeric \cup {".", "_", "-", ":"}
<1>2. ASSUME NEW text \in Text, AllIn(text, chars)
      PROVE  ~Contains(text, "\t") /\ ~Contains(text, "\n")
  <2>1. "\t" \notin chars /\ "\n" \notin chars
    BY TextsAssumption
  <2> HIDE DEF chars
  <2>2. DOMAIN text = 1..Len(text)
    BY DEF Text
  <2> QED BY <1>2, <2>1, <2>2 DEF AllIn, Contains
<1>3. ~Contains(id, "\t") /\ ~Contains(id, "\n")
  BY <1>1, <1>2 DEF ValidIdentity, IsValidRequestId
<1>4. ~Contains(r.owner.sender, "\t") /\ ~Contains(r.owner.sender, "\n")
  BY <1>1, <1>2 DEF ValidIdentity, IsValidSender
<1>5. ASSUME r.owner.app_id # NoText
      PROVE  /\ ~Contains(r.owner.app_id, "\t") /\ ~Contains(r.owner.app_id, "\n")
             /\ r.owner.app_id # Dash
  <2>1. IsValidAppId(r.owner.app_id)
    BY <1>1, <1>5 DEF ValidIdentity
  <2>2. AllIn(r.owner.app_id, Alphanumeric \cup {".", "_", "-", ":"})
    BY <2>1 DEF IsValidAppId, AllIn
  <2>3. ~Contains(Dash, ".")
    BY DEF Dash, Contains
  <2> QED BY <1>1, <1>2, <2>1, <2>2, <2>3 DEF IsValidAppId
<1> QED BY <1>3, <1>4, <1>5
-----------------------------------------------------------------------------
(* One line. *)

LEMMA ValueAt ==
    ASSUME NEW line, NEW i \in DOMAIN line,
           \A j \in DOMAIN line : line[j][1] = line[i][1] => j = i
    PROVE  HasField(line, line[i][1]) /\ Value(line, line[i][1]) = line[i][2]
BY DEF HasField, Value

\* The name of a window is a text without a tab or an end of line in it; it is
\* not what is written for no window, and is read as that window.
LEMMA WindowName ==
    ASSUME NEW p \in Parent, p # NoWindow
    PROVE  /\ ShowParent(p) \in FieldText
           /\ ShowParent(p) # Dash /\ ShowParent(p) # NoText
           /\ ~Contains(ShowParent(p), "\t") /\ ~Contains(ShowParent(p), "\n")
           /\ ParseParent(ShowParent(p)) = p
           /\ p # BadWindow
<1>1. PICK n \in WindowId : p = X11(n)
  BY Zenon, WindowAssumption
<1>2. /\ ShowParent(p) \in Seq(NameChar)
      /\ Len(ShowParent(p)) >= 7
      /\ ParseParent(ShowParent(p)) = p
  BY <1>1, NameShape, WindowIsRead
<1> DEFINE text == ShowParent(p)
<1> HIDE DEF text
<1>3. text \in FieldText
  BY <1>2 DEF FieldText, text
<1>4. \A i \in 1..Len(text) : text[i] \in NameChar
  BY <1>2 DEF text
<1>5. ~Contains(text, "\t") /\ ~Contains(text, "\n")
  BY Zenon, <1>4, NameChars DEF Contains
<1>6. text # Dash /\ text # NoText
  <2>1. Len(Dash) = 1 /\ Len(NoText) = 1
    BY DEF Dash, NoText
  <2>2. Len(text) # 1
    <3>1. \A l \in Nat : l >= 7 => l # 1
      OBVIOUS
    <3> QED BY <1>2, <3>1, LenProperties DEF text
  <2> QED BY Zenon, <2>1, <2>2
<1>7. p # BadWindow
  BY <1>1 DEF X11, BadWindow
<1> QED BY Zenon, <1>2, <1>3, <1>5, <1>6, <1>7 DEF text

LEMMA WindowText ==
    ASSUME NEW r \in Storable
    PROVE  LET text == ParentField(r)[2] IN
           /\ text \in FieldText
           /\ ~Contains(text, "\t") /\ ~Contains(text, "\n")
           /\ text = Dash => r.parent = NoWindow
           /\ text # Dash => /\ text # NoText
                             /\ ReadParent[text] = r.parent
           /\ ReadParent[NoText] = NoWindow
           /\ r.parent # BadWindow
<1>1. r.parent \in Parent
  BY StoreAssumption DEF RequestRecord
<1>2. ReadParent[NoText] = NoWindow
  BY DEF ReadParent, ParentText, ParseParent
<1>3. NoWindow # BadWindow
  BY DEF NoWindow, BadWindow
<1>4. CASE r.parent = NoWindow
  <2>1. ParentField(r)[2] = Dash
    BY <1>4 DEF ParentField
  <2>2. Len(Dash) = 1 /\ Dash[1] = "-"
    BY DEF Dash
  <2>3. ~Contains(Dash, "\t") /\ ~Contains(Dash, "\n")
    BY <2>2 DEF Contains
  <2> QED BY <1>2, <1>3, <1>4, <2>1, <2>3, DashIsFieldText
<1>5. CASE r.parent # NoWindow
  <2> DEFINE text == ShowParent(r.parent)
  <2>1. ParentField(r)[2] = text
    BY <1>5 DEF ParentField
  <2>2. /\ text \in FieldText
        /\ text # Dash /\ text # NoText
        /\ ~Contains(text, "\t") /\ ~Contains(text, "\n")
        /\ ParseParent(text) = r.parent
        /\ r.parent # BadWindow
    BY Zenon, <1>1, <1>5, WindowName
  <2> HIDE DEF text
  <2>3. text \in Prefixes(text)
    BY <2>2 DEF Prefixes, FieldText
  <2>4. text \in ParentText
    BY <1>1, <1>5, <2>3 DEF ParentText, text
  <2>5. ReadParent[text] = r.parent
    BY <2>2, <2>4 DEF ReadParent
  <2> QED BY <1>2, <2>1, <2>2, <2>5
<1> QED BY <1>4, <1>5

\* The line of a record: five fields, each found by its key.
LEMMA LineShape ==
    ASSUME NEW id \in RequestId, NEW r \in Storable
    PROVE  LET line == FormatRecord(id, r) IN
           /\ line \in Line /\ Len(line) = 5
           /\ line[1] = IdField(id) /\ line[2] = SenderField(r) /\ line[3] = AppField(r)
           /\ line[4] = ParentField(r) /\ line[5] = StateField(r)
<1>1. /\ id \in FieldText /\ r.owner.sender \in FieldText /\ r.owner.app_id \in FieldText
      /\ r.state \in RequestState
  BY StoreAssumption, TextsAreFieldTexts DEF RequestRecord
<1>2. IdField(id) \in Key \X FieldText /\ SenderField(r) \in Key \X FieldText
  BY <1>1 DEF IdField, SenderField, Key
<1>3. AppField(r) \in Key \X FieldText
  BY <1>1, DashIsFieldText DEF AppField, Key
<1>4. ParentField(r) \in Key \X FieldText
  <2>1. ParentField(r)[2] \in FieldText
    BY WindowText
  <2>2. ParentField(r) = <<"parent", ParentField(r)[2]>>
    BY DEF ParentField
  <2>3. "parent" \in Key
    BY DEF Key
  <2> QED BY <2>1, <2>2, <2>3
<1>5. StateField(r) \in Key \X FieldText
  <2>1. <<r.state>> \in FieldText
    BY <1>1 DEF FieldText
  <2> QED BY <2>1 DEF StateField, Key
<1> QED BY <1>2, <1>3, <1>4, <1>5 DEF FormatRecord, Line

LEMMA LineValues ==
    ASSUME NEW id \in RequestId, NEW r \in Storable
    PROVE  LET line == FormatRecord(id, r) IN
           /\ HasField(line, "id") /\ Value(line, "id") = id
           /\ HasField(line, "sender") /\ Value(line, "sender") = r.owner.sender
           /\ HasField(line, "app_id") /\ Value(line, "app_id") = AppField(r)[2]
           /\ HasField(line, "parent") /\ Value(line, "parent") = ParentField(r)[2]
           /\ HasField(line, "state") /\ Value(line, "state") = <<r.state>>
           /\ \A i, j \in DOMAIN line : line[i][1] = line[j][1] => i = j
           /\ \A i \in DOMAIN line : line[i][1] \in {"id", "sender", "app_id", "parent", "state"}
<1> DEFINE line == FormatRecord(id, r)
<1>1. /\ DOMAIN line = 1 .. 5
      /\ line[1] = IdField(id) /\ line[2] = SenderField(r) /\ line[3] = AppField(r)
      /\ line[4] = ParentField(r) /\ line[5] = StateField(r)
  <2>1. line \in Line /\ Len(line) = 5
    BY LineShape
  <2> HIDE DEF line
  <2>2. DOMAIN line = 1 .. 5
    BY <2>1 DEF Line
  <2> QED BY <2>2, LineShape DEF line
<1> HIDE DEF line
<1>2. /\ line[1][1] = "id" /\ line[1][2] = id
      /\ line[2][1] = "sender" /\ line[2][2] = r.owner.sender
      /\ line[3][1] = "app_id" /\ line[3][2] = AppField(r)[2]
      /\ line[4][1] = "parent" /\ line[4][2] = ParentField(r)[2]
      /\ line[5][1] = "state" /\ line[5][2] = <<r.state>>
  BY <1>1 DEF IdField, SenderField, AppField, ParentField, StateField
<1>3. \A i, j \in 1 .. 5 : line[i][1] = line[j][1] => i = j
  BY <1>2
<1>4. /\ HasField(line, "id") /\ Value(line, "id") = id
      /\ HasField(line, "sender") /\ Value(line, "sender") = r.owner.sender
  BY <1>1, <1>2, <1>3, ValueAt
<1>5. /\ HasField(line, "app_id") /\ Value(line, "app_id") = AppField(r)[2]
      /\ HasField(line, "parent") /\ Value(line, "parent") = ParentField(r)[2]
  BY <1>1, <1>2, <1>3, ValueAt
<1>6. HasField(line, "state") /\ Value(line, "state") = <<r.state>>
  <2>1. HasField(line, line[5][1]) /\ Value(line, line[5][1]) = line[5][2]
    BY <1>1, <1>3, ValueAt
  <2> QED BY <1>2, <2>1
<1>7. \A i \in 1 .. 5 : line[i][1] \in {"id", "sender", "app_id", "parent", "state"}
  BY <1>2
<1> QED BY <1>1, <1>3, <1>4, <1>5, <1>6, <1>7 DEF line

\* A validated record comes back from its line as it was.
LEMMA RecordIsRead ==
    ASSUME NEW id \in RequestId, NEW r \in Storable
    PROVE  LET line == FormatRecord(id, r) IN
           IsRecordLine(line) /\ Value(line, "id") = id /\ ParseRecord(line) = r
<1> DEFINE line == FormatRecord(id, r)
<1>1. DOMAIN line = 1 .. 5
  <2>1. line \in Line /\ Len(line) = 5
    BY LineShape
  <2> HIDE DEF line
  <2> QED BY <2>1 DEF Line
<1>2. r \in RequestRecord /\ r.owner \in [sender : Text, app_id : Text]
  BY StoreAssumption
<1>3. OptionalValue(line, "app_id") = r.owner.app_id
  BY LineValues, ValidatedTexts DEF OptionalValue, AppField
<1>4. ReadParent[OptionalValue(line, "parent")] = r.parent /\ r.parent # BadWindow
  BY LineValues, WindowText DEF OptionalValue
<1>5. \A i \in 1 .. 5 : ~Contains(line[i][2], "\t") /\ ~Contains(line[i][2], "\n")
  <2>1. /\ ~Contains(line[1][2], "\t") /\ ~Contains(line[1][2], "\n")
        /\ ~Contains(line[2][2], "\t") /\ ~Contains(line[2][2], "\n")
    BY LineShape, ValidatedTexts DEF IdField, SenderField
  <2>2. ~Contains(Dash, "\t") /\ ~Contains(Dash, "\n")
    <3>1. Len(Dash) = 1 /\ Dash[1] = "-"
      BY DEF Dash
    <3> QED BY <3>1 DEF Contains
  <2>3. ~Contains(line[3][2], "\t") /\ ~Contains(line[3][2], "\n")
    BY <2>2, LineShape, ValidatedTexts DEF AppField
  <2>4. ~Contains(line[4][2], "\t") /\ ~Contains(line[4][2], "\n")
    BY LineShape, WindowText
  <2>5. ~Contains(line[5][2], "\t") /\ ~Contains(line[5][2], "\n")
    <3>1. line[5][2] = <<r.state>> /\ r.state \in RequestState
      BY <1>2, LineShape DEF StateField, RequestRecord
    <3>2. Len(<<r.state>>) = 1 /\ <<r.state>>[1] = r.state
      OBVIOUS
    <3>3. r.state # "\t" /\ r.state # "\n"
      BY <3>1 DEF RequestState, InFlight, Terminal
    <3> QED BY <3>1, <3>2, <3>3 DEF Contains
  <2> HIDE DEF line
  <2> QED BY <2>1, <2>3, <2>4, <2>5
<1>6. IsRecordLine(line)
  <2>1. Value(line, "state") \in {<<s>> : s \in RequestState}
    BY <1>2, LineValues DEF RequestRecord
  <2>2. /\ HasField(line, "id") /\ HasField(line, "sender") /\ HasField(line, "state")
        /\ \A i, j \in DOMAIN line : line[i][1] = line[j][1] => i = j
        /\ \A i \in DOMAIN line : line[i][1] \in {"id", "sender", "app_id", "parent", "state"}
    BY LineValues
  <2> HIDE DEF line
  <2> QED BY <1>1, <1>4, <1>5, <2>1, <2>2 DEF IsRecordLine
<1>7. ParseRecord(line) = r
  <2>1. Value(line, "state")[1] = r.state /\ Value(line, "sender") = r.owner.sender
    BY LineValues
  <2> HIDE DEF line
  <2>2. ParseRecord(line) = [owner |-> [sender |-> r.owner.sender, app_id |-> r.owner.app_id],
                             parent |-> r.parent, state |-> r.state]
    BY <1>3, <1>4, <2>1 DEF ParseRecord
  <2> QED BY <1>2, <2>2 DEF RequestRecord
<1> QED BY <1>6, <1>7, LineValues
-----------------------------------------------------------------------------
(* A whole file. *)

\* The ids of a file are written in some order, each once.
LEMMA IdOrder ==
    ASSUME NEW S, S \subseteq RequestId
    PROVE  LET ids == SetToSeq(S) IN
           /\ ids \in Seq(S)
           /\ \A i, j \in DOMAIN ids : ids[i] = ids[j] => i = j
           /\ \A id \in S : \E i \in DOMAIN ids : ids[i] = id
<1> DEFINE n == Cardinality(S)
           ids == SetToSeq(S)
<1>1. IsFiniteSet(S)
  BY FS_Subset, StoreAssumption
<1>2. n \in Nat /\ ExistsBijection(1..n, S)
  BY <1>1, FS_CardinalityType
<1>3. ids \in [1..n -> S] /\ IsInjective(ids)
  <2>1. PICK f \in [1..n -> S] : IsInjective(f)
    BY <1>2 DEF ExistsBijection, Bijection, Injection
  <2> QED BY <2>1 DEF SetToSeq
<1> HIDE DEF ids, n
<1>4. /\ ids \in Seq(S) /\ DOMAIN ids = 1..n
  BY <1>2, <1>3
<1>5. Range(ids) = S
  <2>1. Range(ids) \subseteq S
    BY <1>3 DEF Range
  <2>2. ids \in Bijection(1..n, Range(ids))
    BY <1>3 DEF Bijection, Injection, Surjection, Range
  <2>3. Cardinality(Range(ids)) = n
    BY <1>2, <2>2, FS_CountingElements DEF ExistsBijection
  <2> QED BY <1>1, <2>1, <2>3, FS_Subset DEF n
<1>6. \A i, j \in DOMAIN ids : ids[i] = ids[j] => i = j
  BY <1>3 DEF IsInjective
<1>7. \A id \in S : \E i \in DOMAIN ids : ids[i] = id
  BY <1>5 DEF Range
<1> QED BY <1>4, <1>6, <1>7 DEF ids

\* What loading finds in a file that can be read.
LEMMA LoadShape ==
    ASSUME NEW file, Readable(file.lines)
    PROVE  /\ Load(file).ok
           /\ DOMAIN Load(file).records = {Value(file.lines[i], "id") : i \in DOMAIN file.lines}
           /\ \A i \in DOMAIN file.lines :
                Load(file).records[Value(file.lines[i], "id")] = ParseRecord(file.lines[i])
           /\ Load(file) = [ok |-> TRUE, records |-> Load(file).records]
           /\ Load(file).records = [id \in DOMAIN Load(file).records |-> Load(file).records[id]]
<1> DEFINE ids == {Value(file.lines[i], "id") : i \in DOMAIN file.lines}
           at(id) == CHOOSE i \in DOMAIN file.lines : Value(file.lines[i], "id") = id
<1>1. Load(file) = [ok |-> TRUE, records |-> [id \in ids |-> ParseRecord(file.lines[at(id)])]]
  BY DEF Load
<1>2. \A i \in DOMAIN file.lines : at(Value(file.lines[i], "id")) = i
  BY DEF Readable
<1> HIDE DEF at
<1> QED BY <1>1, <1>2

LEMMA LoadUnreadable ==
    ASSUME NEW file, ~Readable(file.lines)
    PROVE  Load(file) = [ok |-> FALSE, records |-> Empty]
BY DEF Load

\* A line the store wrote.
IsWhole(line) == \E id \in RequestId, r \in Storable : line = FormatRecord(id, r)

\* What is saved is what is loaded.
LEMMA SavedComesBack ==
    ASSUME NEW records, IsIdMap(records, Storable), NEW file, file.lines = Written(records)
    PROVE  /\ file.lines \in Seq(Line)
           /\ \A i \in DOMAIN file.lines : IsWhole(file.lines[i])
           /\ Load(file) = [ok |-> TRUE, records |-> records]
<1> DEFINE ids == SetToSeq(DOMAIN records)
           lines == file.lines
<1>1. /\ DOMAIN records \subseteq RequestId
      /\ records = [i \in DOMAIN records |-> records[i]]
      /\ \A i \in DOMAIN records : records[i] \in Storable
  BY IdMapMember
<1>2. /\ ids \in Seq(DOMAIN records)
      /\ \A i, j \in DOMAIN ids : ids[i] = ids[j] => i = j
      /\ \A id \in DOMAIN records : \E i \in DOMAIN ids : ids[i] = id
  BY <1>1, IdOrder
<1>3. lines = [i \in DOMAIN ids |-> FormatRecord(ids[i], records[ids[i]])]
  BY DEF Written
<1> HIDE DEF ids, lines
<1>4. \A i \in DOMAIN ids : /\ ids[i] \in RequestId /\ ids[i] \in DOMAIN records
                            /\ records[ids[i]] \in Storable
  BY <1>1, <1>2
<1>5. \A i \in DOMAIN ids : /\ lines[i] \in Line /\ IsWhole(lines[i])
                            /\ IsRecordLine(lines[i]) /\ Value(lines[i], "id") = ids[i]
                            /\ ParseRecord(lines[i]) = records[ids[i]]
  <2> TAKE i \in DOMAIN ids
  <2>1. lines[i] = FormatRecord(ids[i], records[ids[i]])
    BY <1>3
  <2> QED BY <1>4, <2>1, LineShape, RecordIsRead DEF IsWhole
<1>6. DOMAIN lines = DOMAIN ids /\ lines \in Seq(Line)
  <2>1. DOMAIN ids = 1..Len(ids) /\ Len(ids) \in Nat
    BY <1>2
  <2> QED BY <1>3, <1>5, <2>1
<1>7. Readable(lines)
  BY <1>2, <1>5, <1>6 DEF Readable
<1>8. /\ DOMAIN Load(file).records = DOMAIN records
      /\ \A id \in DOMAIN records : Load(file).records[id] = records[id]
  <2>1. /\ DOMAIN Load(file).records = {Value(lines[i], "id") : i \in DOMAIN lines}
        /\ \A i \in DOMAIN lines :
             Load(file).records[Value(lines[i], "id")] = ParseRecord(lines[i])
    BY <1>7, LoadShape DEF lines
  <2>2. {Value(lines[i], "id") : i \in DOMAIN lines} = DOMAIN records
    <3> DEFINE idAt(i) == Value(lines[i], "id")
    <3>1. \A i \in DOMAIN lines : idAt(i) = ids[i] /\ idAt(i) \in DOMAIN records
      BY <1>4, <1>5, <1>6
    <3>2. \A id \in DOMAIN records : \E i \in DOMAIN lines : idAt(i) = id
      <4> TAKE id \in DOMAIN records
      <4>1. PICK i \in DOMAIN ids : ids[i] = id
        BY <1>2
      <4> QED BY <1>6, <3>1, <4>1
    <3> HIDE DEF idAt
    <3>3. {idAt(i) : i \in DOMAIN lines} = DOMAIN records
      BY <3>1, <3>2
    <3> QED BY <3>3 DEF idAt
  <2>3. \A i \in DOMAIN ids : Load(file).records[ids[i]] = records[ids[i]]
    <3> TAKE i \in DOMAIN ids
    <3>1. Load(file).records[Value(lines[i], "id")] = ParseRecord(lines[i])
      BY <1>6, <2>1
    <3> QED BY <1>5, <3>1
  <2> QED BY <1>2, <2>1, <2>2, <2>3
<1>9. /\ Load(file) = [ok |-> TRUE, records |-> Load(file).records]
      /\ Load(file).records = [id \in DOMAIN Load(file).records |-> Load(file).records[id]]
  BY <1>7, LoadShape DEF lines
<1>10. Load(file).records = records
  BY <1>1, <1>8, <1>9
<1> QED BY <1>5, <1>6, <1>9, <1>10 DEF lines
-----------------------------------------------------------------------------
(* What is left of a file when only its beginning is. *)

\* A line without the text of its state.
NoState(line) == \A i \in DOMAIN line : line[i][1] = "state" => line[i][2] = <<>>

LEMMA NoStateNotRead == ASSUME NEW line, NoState(line) PROVE ~IsRecordLine(line)
<1> SUFFICES ASSUME IsRecordLine(line) PROVE FALSE
  OBVIOUS
<1>1. PICK i \in DOMAIN line : line[i][1] = "state"
  BY DEF IsRecordLine, HasField
<1>2. Value(line, "state") = line[i][2]
  BY <1>1 DEF IsRecordLine, Value
<1>3. Value(line, "state") = <<>>
  BY <1>1, <1>2 DEF NoState
<1>4. \A s \in RequestState : <<s>> # <<>>
  OBVIOUS
<1> QED BY <1>3, <1>4 DEF IsRecordLine

LEMMA PrefixTexts ==
    ASSUME NEW text \in FieldText, NEW cut \in Prefixes(text)
    PROVE  /\ cut \in FieldText
           /\ Len(text) <= 1 => cut = <<>> \/ cut = text
<1>1. PICK n \in 0 .. Len(text) : cut = SubSeq(text, 1, n)
  BY DEF Prefixes
<1>2. Len(text) \in Nat
  BY DEF FieldText
<1>3. cut \in FieldText /\ Len(cut) = n /\ \A i \in 1 .. n : cut[i] = text[i]
  BY <1>1, <1>2 DEF FieldText
<1>4. CASE n = 0
  BY <1>3, <1>4 DEF FieldText
<1>5. CASE n = Len(text)
  BY <1>1, <1>3, <1>5 DEF FieldText
<1> QED BY <1>2, <1>3, <1>4, <1>5

\* A cut keeps the fields before it, and a part of the text of the last.
LEMMA CutShape ==
    ASSUME NEW line \in Line, NEW cut \in CutLines(line)
    PROVE  /\ cut \in Line
           /\ \E k \in DOMAIN line :
                /\ Len(cut) \in {k - 1, k}
                /\ \A i \in 1 .. (k - 1) : cut[i] = line[i]
                /\ Len(cut) = k => \/ cut[k] = <<"torn", <<>> >>
                                   \/ /\ cut[k][1] = line[k][1]
                                      /\ cut[k][2] \in Prefixes(line[k][2])
<1>1. PICK k \in DOMAIN line :
        cut \in {SubSeq(line, 1, k), Append(SubSeq(line, 1, k - 1), <<"torn", <<>> >>)}
                \cup {Append(SubSeq(line, 1, k - 1), <<line[k][1], text>>) : text \in Prefixes(line[k][2])}
  BY DEF CutLines
<1> DEFINE head == SubSeq(line, 1, k - 1)
<1>2. k \in 1 .. Len(line) /\ Len(line) \in Nat /\ line[k] \in Key \X FieldText
  BY DEF Line
<1>3. head \in Line /\ Len(head) = k - 1 /\ \A i \in 1 .. (k - 1) : head[i] = line[i]
  BY <1>2 DEF Line
<1> HIDE DEF head
<1>4. ASSUME NEW f \in Key \X FieldText, cut = Append(head, f)
      PROVE  /\ cut \in Line /\ Len(cut) = k
             /\ \A i \in 1 .. (k - 1) : cut[i] = line[i]
             /\ cut[k] = f
  BY <1>2, <1>3, <1>4 DEF Line
<1>5. CASE cut = SubSeq(line, 1, k)
  <2>1. /\ cut \in Line /\ Len(cut) = k
        /\ \A i \in 1 .. k : cut[i] = line[i]
    BY <1>2, <1>5 DEF Line
  <2>2. line[k][2] \in Prefixes(line[k][2])
    BY <1>2 DEF Prefixes, FieldText
  <2> QED BY <1>2, <2>1, <2>2
<1>6. CASE cut = Append(head, <<"torn", <<>> >>)
  <2>1. <<>> \in FieldText
    BY DEF FieldText
  <2>2. <<"torn", <<>> >> \in Key \X FieldText
    BY <2>1 DEF Key
  <2> QED BY <1>2, <1>4, <1>6, <2>2
<1>7. ASSUME NEW text \in Prefixes(line[k][2]), cut = Append(head, <<line[k][1], text>>)
      PROVE  /\ cut \in Line /\ Len(cut) = k
             /\ \A i \in 1 .. (k - 1) : cut[i] = line[i]
             /\ cut[k][1] = line[k][1] /\ cut[k][2] = text
  <2> DEFINE f == <<line[k][1], text>>
  <2>1. line[k][1] \in Key /\ line[k][2] \in FieldText
    BY <1>2
  <2>2. text \in FieldText
    BY <1>7, <2>1, PrefixTexts
  <2>3. f \in Key \X FieldText /\ f[1] = line[k][1] /\ f[2] = text
    BY <2>1, <2>2
  <2>4. cut = Append(head, f)
    BY <1>7
  <2> HIDE DEF f
  <2> QED BY <1>4, <2>3, <2>4
<1>8. CASE \E text \in Prefixes(line[k][2]) : cut = Append(head, <<line[k][1], text>>)
  BY <1>2, <1>7, <1>8
<1> QED BY <1>1, <1>5, <1>6, <1>8 DEF head

LEMMA CutOfBroken ==
    ASSUME NEW line \in Line, NoState(line), NEW cut \in CutLines(line)
    PROVE  cut \in Line /\ NoState(cut)
<1>1. cut \in Line
  BY CutShape
<1>2. PICK k \in DOMAIN line :
        /\ Len(cut) \in {k - 1, k}
        /\ \A i \in 1 .. (k - 1) : cut[i] = line[i]
        /\ Len(cut) = k => \/ cut[k] = <<"torn", <<>> >>
                           \/ /\ cut[k][1] = line[k][1]
                              /\ cut[k][2] \in Prefixes(line[k][2])
  BY CutShape
<1>3. k \in 1 .. Len(line) /\ Len(line) \in Nat /\ line[k] \in Key \X FieldText
  BY DEF Line
<1>4. ASSUME NEW i \in DOMAIN cut, cut[i][1] = "state" PROVE cut[i][2] = <<>>
  <2>1. i \in 1 .. Len(cut)
    BY <1>1 DEF Line
  <2>2. CASE i \in 1 .. (k - 1)
    BY <1>2, <1>3, <1>4, <2>2 DEF NoState, Line
  <2>3. CASE i = k /\ Len(cut) = k
    <3>1. line[k][1] = "state" /\ cut[k][2] \in Prefixes(line[k][2])
      BY <1>2, <1>4, <2>3
    <3>2. line[k][2] = <<>> /\ line[k][2] \in FieldText
      BY <1>3, <3>1 DEF NoState
    <3> QED BY <2>3, <3>1, <3>2, PrefixTexts
  <2> QED BY <1>2, <1>3, <2>1, <2>2, <2>3
<1> QED BY <1>1, <1>4 DEF NoState

LEMMA CutOfWhole ==
    ASSUME NEW line, IsWhole(line), NEW cut \in CutLines(line)
    PROVE  cut \in Line /\ (cut = line \/ NoState(cut))
<1>1. PICK id \in RequestId, r \in Storable : line = FormatRecord(id, r)
  BY DEF IsWhole
<1>2. /\ line \in Line /\ Len(line) = 5 /\ line[5] = StateField(r)
      /\ line[1][1] = "id" /\ line[2][1] = "sender" /\ line[3][1] = "app_id"
      /\ line[4][1] = "parent" /\ line[5][1] = "state"
  BY <1>1, LineShape DEF IdField, SenderField, AppField, ParentField, StateField
<1>3. cut \in Line
  BY <1>2, CutShape
<1>4. PICK k \in DOMAIN line :
        /\ Len(cut) \in {k - 1, k}
        /\ \A i \in 1 .. (k - 1) : cut[i] = line[i]
        /\ Len(cut) = k => \/ cut[k] = <<"torn", <<>> >>
                           \/ /\ cut[k][1] = line[k][1]
                              /\ cut[k][2] \in Prefixes(line[k][2])
  BY <1>2, CutShape
<1>5. k \in 1 .. 5 /\ DOMAIN cut = 1 .. Len(cut) /\ DOMAIN line = 1 .. 5
  BY <1>2, <1>3 DEF Line
<1>6. \A i \in 1 .. 4 : line[i][1] # "state"
  <2> TAKE i \in 1 .. 4
  <2>1. i = 1 \/ i = 2 \/ i = 3 \/ i = 4
    OBVIOUS
  <2> QED BY <1>2, <2>1
<1>7. \A i \in DOMAIN cut : i < k \/ (i = k /\ Len(cut) = k)
  BY <1>4, <1>5
<1>8. ASSUME NEW i \in DOMAIN cut, i < k PROVE cut[i][1] # "state"
  <2>1. i \in 1 .. (k - 1) /\ i \in 1 .. 4
    BY <1>5, <1>8
  <2> QED BY <1>4, <1>6, <2>1
<1>10. CASE Len(cut) = k - 1
  <2>1. \A i \in DOMAIN cut : i < k
    BY <1>5, <1>7, <1>10
  <2> QED BY <1>3, <1>8, <2>1 DEF NoState
<1>11. CASE Len(cut) = k /\ cut[k] = <<"torn", <<>> >>
  <2>1. cut[k][1] # "state"
    BY <1>11
  <2> QED BY <1>3, <1>7, <1>8, <2>1 DEF NoState
<1>12. CASE Len(cut) = k /\ k < 5 /\ cut[k][1] = line[k][1]
  <2>1. cut[k][1] # "state"
    BY <1>5, <1>6, <1>12
  <2> QED BY <1>3, <1>7, <1>8, <2>1 DEF NoState
<1>9. CASE k = 5 /\ Len(cut) = 5 /\ cut[5][1] = "state" /\ cut[5][2] \in Prefixes(line[5][2])
  <2>1. line[5][2] = <<r.state>> /\ Len(line[5][2]) = 1
    BY <1>2 DEF StateField
  <2>2. cut[5] \in Key \X FieldText /\ line[5] \in Key \X FieldText
    <3>1. \A l \in Line : \A i \in DOMAIN l : l[i] \in Key \X FieldText
      BY DEF Line
    <3> QED BY <1>2, <1>3, <1>5, <1>9, <3>1
  <2>3. cut[5][2] = <<>> \/ cut[5][2] = line[5][2]
    <3>1. line[5][2] \in FieldText
      BY <2>2
    <3>2. ASSUME NEW text \in FieldText, Len(text) = 1, NEW part \in Prefixes(text)
          PROVE  part = <<>> \/ part = text
      <4>1. Len(text) <= 1
        BY <3>2
      <4> QED BY <3>2, <4>1, PrefixTexts
    <3> QED BY <1>9, <2>1, <3>1, <3>2
  <2>4. CASE cut[5][2] = <<>>
    BY <1>3, <1>7, <1>8, <1>9, <2>4 DEF NoState
  <2>5. CASE cut[5][2] = line[5][2]
    <3>1. cut[5] = line[5]
      BY <1>2, <1>9, <2>2, <2>5
    <3>2. \A i \in 1 .. 5 : cut[i] = line[i]
      <4> TAKE i \in 1 .. 5
      <4>1. i = 5 \/ i \in 1 .. 4
        OBVIOUS
      <4>2. \A j \in 1 .. 4 : cut[j] = line[j]
        BY <1>4, <1>9
      <4> QED BY <3>1, <4>1, <4>2
    <3>3. cut = line
      <4>1. \A l \in Line : l = [i \in 1 .. Len(l) |-> l[i]]
        BY DEF Line
      <4>2. cut = [i \in 1 .. 5 |-> cut[i]] /\ line = [i \in 1 .. 5 |-> line[i]]
        BY <1>2, <1>3, <1>9, <4>1
      <4> QED BY <3>2, <4>2
    <3> QED BY <1>3, <3>3
  <2> QED BY <2>3, <2>4, <2>5
<1>13. k < 5 \/ k = 5
  BY <1>5
<1>14. CASE k = 5 /\ Len(cut) = k /\ cut[k] # <<"torn", <<>> >>
  <2>1. cut[k][1] = line[k][1] /\ cut[k][2] \in Prefixes(line[k][2])
    BY <1>4, <1>14
  <2>2. cut[5][1] = "state" /\ cut[5][2] \in Prefixes(line[5][2])
    BY <1>2, <1>14, <2>1
  <2> QED BY <1>9, <1>14, <2>2
<1> QED BY <1>4, <1>10, <1>11, <1>12, <1>13, <1>14

-----------------------------------------------------------------------------
(* The cuts of a file whose lines are whole, or without their state. *)

IsLine(line) == line \in Line /\ (IsWhole(line) \/ NoState(line))
IsFile(lines) == lines \in Seq(Line) /\ \A i \in DOMAIN lines : IsLine(lines[i])

LEMMA WholeIsLine == \A line : IsWhole(line) => IsLine(line)
BY LineShape DEF IsWhole, IsLine

\* What is cut are lines like those of the file, and those before the last are its lines.
LEMMA CutsShape ==
    ASSUME NEW lines, IsFile(lines), NEW rest \in Cuts(lines)
    PROVE  /\ IsFile(rest)
           /\ Len(rest) <= Len(lines)
           /\ \A i \in DOMAIN rest : rest[i] = lines[i] \/ NoState(rest[i])
<1>1. Len(lines) \in Nat /\ DOMAIN lines = 1 .. Len(lines) /\ lines \in Seq(Line)
  BY DEF IsFile
<1>2. CASE rest = lines
  BY <1>1, <1>2
<1>3. CASE rest # lines
  <2>1. PICK n \in DOMAIN lines :
          rest \in {SubSeq(lines, 1, n - 1)}
                   \cup {Append(SubSeq(lines, 1, n - 1), cut) : cut \in CutLines(lines[n])}
    BY <1>3 DEF Cuts
  <2> DEFINE head == SubSeq(lines, 1, n - 1)
  <2>2. /\ head \in Seq(Line) /\ Len(head) = n - 1
        /\ \A i \in 1 .. (n - 1) : head[i] = lines[i]
    BY <1>1
  <2> HIDE DEF head
  <2>3. CASE rest = head
    <3>1. DOMAIN rest = 1 .. (n - 1) /\ rest \in Seq(Line) /\ Len(rest) <= Len(lines)
      BY <1>1, <2>2, <2>3
    <3>2. \A i \in DOMAIN rest : i \in DOMAIN lines /\ rest[i] = lines[i]
      BY <1>1, <2>2, <2>3, <3>1
    <3>3. \A i \in DOMAIN rest : IsLine(rest[i])
      <4>1. \A i \in DOMAIN lines : IsLine(lines[i])
        BY DEF IsFile
      <4> QED BY <3>2, <4>1
    <3>4. IsFile(rest)
      BY <3>1, <3>3 DEF IsFile
    <3> QED BY <3>1, <3>2, <3>4
  <2>4. ASSUME NEW cut \in CutLines(lines[n]), rest = Append(head, cut)
        PROVE  /\ IsFile(rest)
               /\ Len(rest) <= Len(lines)
               /\ \A i \in DOMAIN rest : rest[i] = lines[i] \/ NoState(rest[i])
    <3>1. /\ lines[n] \in Line /\ (IsWhole(lines[n]) \/ NoState(lines[n]))
      BY DEF IsFile, IsLine
    <3>2. cut \in Line /\ (cut = lines[n] \/ NoState(cut))
      BY <3>1, CutOfBroken, CutOfWhole
    <3>3. /\ rest \in Seq(Line) /\ Len(rest) = n /\ rest[n] = cut
          /\ \A i \in 1 .. (n - 1) : rest[i] = lines[i]
      BY <1>1, <2>2, <2>4, <3>2
    <3>4. \A i \in DOMAIN rest : i = n \/ i \in 1 .. (n - 1)
      BY <1>1, <3>3
    <3>5. \A i \in DOMAIN rest : rest[i] = lines[i] \/ NoState(rest[i])
      BY <3>2, <3>3, <3>4
    <3>6. \A i \in DOMAIN rest : IsLine(rest[i])
      <4> TAKE i \in DOMAIN rest
      <4>1. i \in DOMAIN lines /\ rest[i] \in Line
        BY <1>1, <3>3
      <4> QED BY <3>5, <4>1 DEF IsFile, IsLine
    <3> QED BY <1>1, <3>3, <3>5, <3>6 DEF IsFile
  <2> QED BY <2>1, <2>3, <2>4 DEF head
<1> QED BY <1>2, <1>3

\* What can be read of a file holds records that a registry can.
LEMMA LoadType ==
    ASSUME NEW file, IsFile(file.lines)
    PROVE  IsIdMap(Load(file).records, Storable)
<1>1. CASE ~Readable(file.lines)
  BY <1>1, LoadUnreadable, EmptyType
<1>2. CASE Readable(file.lines)
  <2> DEFINE lines == file.lines
             records == Load(file).records
  <2>1. \A i \in DOMAIN lines : Value(lines[i], "id") \in RequestId /\ ParseRecord(lines[i]) \in Storable
    <3> TAKE i \in DOMAIN lines
    <3>1. IsWhole(lines[i])
      BY <1>2, NoStateNotRead DEF IsFile, IsLine, Readable
    <3> QED BY <3>1, RecordIsRead DEF IsWhole
  <2>2. /\ DOMAIN records = {Value(lines[i], "id") : i \in DOMAIN lines}
        /\ \A i \in DOMAIN lines : records[Value(lines[i], "id")] = ParseRecord(lines[i])
        /\ records = [id \in DOMAIN records |-> records[id]]
    BY <1>2, LoadShape
  <2> HIDE DEF lines, records
  <2>3. \A id \in DOMAIN records : id \in RequestId /\ records[id] \in Storable
    BY <2>1, <2>2
  <2> QED BY <2>2, <2>3, IdMapMember DEF records
<1> QED BY <1>1, <1>2

\* The beginning of a file costs the records at its end, or all of them.
LEMMA CutIsPart ==
    ASSUME NEW file, IsFile(file.lines), Readable(file.lines),
           NEW rest, rest.lines \in Cuts(file.lines), Readable(rest.lines)
    PROVE  /\ DOMAIN Load(rest).records \subseteq DOMAIN Load(file).records
           /\ \A id \in DOMAIN Load(rest).records :
                Load(rest).records[id] = Load(file).records[id]
           /\ Load(rest).records = Keep(Load(file).records, DOMAIN Load(rest).records)
<1> DEFINE whole == Load(file).records
           part == Load(rest).records
           lines == file.lines
           left == rest.lines
           idAt(i) == Value(lines[i], "id")
           idLeft(i) == Value(left[i], "id")
<1>1. \A i \in DOMAIN left : i \in DOMAIN lines /\ left[i] = lines[i]
  <2>1. /\ left \in Seq(Line) /\ lines \in Seq(Line) /\ Len(left) <= Len(lines)
        /\ \A i \in DOMAIN left : left[i] = lines[i] \/ NoState(left[i])
    BY CutsShape DEF IsFile
  <2>2. \A i \in DOMAIN left : ~NoState(left[i])
    BY NoStateNotRead DEF Readable
  <2> HIDE DEF left, lines
  <2> QED BY <2>1, <2>2
<1>2. /\ DOMAIN whole = {idAt(i) : i \in DOMAIN lines}
      /\ \A i \in DOMAIN lines : whole[idAt(i)] = ParseRecord(lines[i])
  BY LoadShape
<1>3. /\ DOMAIN part = {idLeft(i) : i \in DOMAIN left}
      /\ \A i \in DOMAIN left : part[idLeft(i)] = ParseRecord(left[i])
      /\ part = [id \in DOMAIN part |-> part[id]]
  BY LoadShape
<1>4. \A i \in DOMAIN left : idLeft(i) = idAt(i)
  BY <1>1
<1> HIDE DEF whole, part, lines, left, idAt, idLeft
<1>5. ASSUME NEW id \in DOMAIN part PROVE id \in DOMAIN whole /\ part[id] = whole[id]
  <2>1. PICK i \in DOMAIN left : id = idLeft(i)
    BY <1>3
  <2> QED BY <1>1, <1>2, <1>3, <1>4, <2>1
<1>6. part = Keep(whole, DOMAIN part)
  <2>1. DOMAIN whole \cap DOMAIN part = DOMAIN part
    BY <1>5
  <2> QED BY <1>3, <1>5, <2>1 DEF Keep
<1> QED BY <1>5, <1>6 DEF whole, part

-----------------------------------------------------------------------------
(* The states of the store. *)

FileOK(file) ==
    /\ file \in [present : BOOLEAN, lines : Seq(Line), synced : BOOLEAN]
    /\ IsFile(file.lines)

\* What stands at the path of the store was synced, and so was what is about
\* to: it holds the registry.
StoreInv ==
    /\ IsIdMap(live, Storable)
    /\ pc \in {"down", "idle", "write", "sync", "rename"}
    /\ FileOK(temp) /\ FileOK(store) /\ FileOK(disk)
    /\ store.synced /\ disk.synced
    /\ pc = "rename" => temp.synced
    /\ pc \in {"sync", "rename"} => temp.lines = Written(live)

LEMMA EmptyFile ==
    /\ FileOK(NoFile) /\ NoFile.synced /\ FileOK(NewFile)
    /\ \A file : file.lines = <<>> => Load(file) = [ok |-> TRUE, records |-> Empty]
    /\ NoFile.lines = <<>>
<1>1. IsFile(<<>>)
  BY DEF IsFile
<1>2. <<>> \in Seq(Line)
  OBVIOUS
<1>3. ASSUME NEW file, file.lines = <<>> PROVE Load(file) = [ok |-> TRUE, records |-> Empty]
  <2>1. DOMAIN file.lines = {}
    BY <1>3
  <2>2. Readable(file.lines)
    BY <2>1 DEF Readable
  <2>3. /\ Load(file) = [ok |-> TRUE, records |-> Load(file).records]
        /\ DOMAIN Load(file).records = {}
        /\ Load(file).records = [id \in DOMAIN Load(file).records |-> Load(file).records[id]]
    BY <2>1, <2>2, LoadShape
  <2>4. Empty = [id \in {} |-> Empty[id]] /\ DOMAIN Empty = {}
    BY DEF Empty
  <2>5. Load(file).records = Empty
    BY <2>3, <2>4
  <2> QED BY <2>3, <2>5
<1>4. NoFile.lines = <<>> /\ NewFile.lines = <<>> /\ NoFile.synced
  BY DEF NoFile, NewFile
<1>5. FileOK(NoFile) /\ FileOK(NewFile)
  BY <1>1, <1>2, <1>4 DEF FileOK, NoFile, NewFile
<1> QED BY <1>3, <1>4, <1>5

\* Who reads the lines of a file reads the file.
LEMMA LoadReadsLines == ASSUME NEW f, NEW g, f.lines = g.lines PROVE Load(f) = Load(g)
BY DEF Load

LEMMA PutType ==
    ASSUME NEW V, NEW m, IsIdMap(m, V), NEW id \in RequestId, NEW v \in V
    PROVE  IsIdMap(Put(m, id, v), V)
<1>1. DOMAIN m \subseteq RequestId /\ \A i \in DOMAIN m : m[i] \in V
  BY IdMapMember
<1>2. Put(m, id, v) \in [DOMAIN m \cup {id} -> V]
  BY <1>1 DEF Put
<1> QED BY <1>1, <1>2, IdMapBuild

LEMMA StoreInit == Init => StoreInv
BY EmptyFile, EmptyType DEF Init, StoreInv

LEMMA StoreStep == StoreInv /\ [Next]_vars => StoreInv'
<1> SUFFICES ASSUME StoreInv, [Next]_vars PROVE StoreInv'
  OBVIOUS
<1>1. /\ IsIdMap(live, Storable)
      /\ pc \in {"down", "idle", "write", "sync", "rename"}
      /\ FileOK(temp) /\ FileOK(store) /\ FileOK(disk)
      /\ store.synced /\ disk.synced
      /\ pc = "rename" => temp.synced
      /\ pc \in {"sync", "rename"} => temp.lines = Written(live)
  BY DEF StoreInv
<1>2. FileOK(NoFile) /\ NoFile.synced /\ FileOK(NewFile) /\ IsIdMap(Empty, Storable)
  BY EmptyFile, EmptyType
<1>3. CASE Start
  <2>1. IsIdMap(live', Storable)
    BY <1>1, <1>3, LoadType DEF Start, FileOK
  <2> QED BY <1>1, <1>3, <2>1 DEF Start, StoreInv
<1>4. CASE StartWithoutStore
  BY <1>1, <1>2, <1>4 DEF StartWithoutStore, StoreInv
<1>5. CASE Change
  <2>1. IsIdMap(live', Storable)
    BY <1>1, <1>5, PutType, KeepType DEF Change
  <2> QED BY <1>1, <1>5, <2>1 DEF Change, StoreInv
<1>6. CASE CreateTemp
  BY <1>1, <1>2, <1>6 DEF CreateTemp, StoreInv
<1>7. CASE WriteAll
  <2>1. temp' = [temp EXCEPT !.lines = Written(live)] /\ live' = live /\ pc' = "sync"
    BY <1>7 DEF WriteAll
  <2>2. temp'.lines = Written(live)
    BY <1>1, <2>1 DEF FileOK
  <2>3. IsFile(temp'.lines)
    BY <1>1, <2>2, SavedComesBack, WholeIsLine DEF IsFile
  <2>4. FileOK(temp')
    BY <1>1, <2>1, <2>2, <2>3 DEF FileOK, IsFile
  <2> QED BY <1>1, <1>7, <2>1, <2>2, <2>4 DEF WriteAll, StoreInv
<1>8. CASE SyncTemp
  <2>1. temp' = [temp EXCEPT !.synced = TRUE] /\ live' = live
    BY <1>8 DEF SyncTemp
  <2>2. temp'.synced /\ temp'.lines = temp.lines /\ FileOK(temp')
    BY <1>1, <2>1 DEF FileOK
  <2> QED BY <1>1, <1>8, <2>1, <2>2 DEF SyncTemp, StoreInv
<1>9. CASE RenameTemp
  BY <1>1, <1>2, <1>9 DEF RenameTemp, StoreInv
<1>10. CASE SaveFails
  BY <1>1, <1>2, <1>10 DEF SaveFails, StoreInv
<1>11. CASE Crash
  BY <1>1, <1>2, <1>11 DEF Crash, Down, StoreInv
<1>12. CASE WriteBack
  BY <1>1, <1>12 DEF WriteBack, StoreInv
<1>13. CASE PowerLoss
  <2>1. store' = [disk EXCEPT !.lines = disk.lines, !.synced = TRUE] /\ disk' = store'
    BY <1>1, <1>13 DEF PowerLoss
  <2>2. FileOK(store') /\ store'.synced
    BY <1>1, <2>1 DEF FileOK
  <2> QED BY <1>1, <1>2, <1>13, <2>1, <2>2 DEF PowerLoss, Down, StoreInv
<1>14. CASE Damage
  <2>1. PICK lines \in Cuts(store.lines) : store' = [store EXCEPT !.lines = lines]
    BY <1>14 DEF Damage
  <2>2. IsFile(lines)
    BY <1>1, CutsShape DEF FileOK
  <2>3. FileOK(store') /\ store'.synced
    BY <1>1, <2>1, <2>2 DEF FileOK, IsFile
  <2> QED BY <1>1, <1>14, <2>3 DEF Damage, StoreInv
<1>15. CASE UNCHANGED vars
  BY <1>1, <1>15 DEF vars, StoreInv
<1> QED BY <1>3, <1>4, <1>5, <1>6, <1>7, <1>8, <1>9, <1>10, <1>11, <1>12, <1>13, <1>14, <1>15
        DEF Next

LEMMA StoreHolds == Spec => []StoreInv
BY StoreInit, StoreStep, PTL DEF Spec
-----------------------------------------------------------------------------
(* What holds of them. *)

\* A registry that was loaded holds nothing but records that one can hold,
\* whatever the file went through.
THEOREM TypeCorrect == Spec => []TypeOK
<1>1. StoreInv => TypeOK
  <2> SUFFICES ASSUME StoreInv PROVE TypeOK
    OBVIOUS
  <2>1. ASSUME NEW file, FileOK(file)
        PROVE  /\ file.present \in BOOLEAN /\ file.synced \in BOOLEAN
               /\ IsIdMap(Load(file).records, Storable)
    BY <2>1, LoadType DEF FileOK
  <2>2. FileOK(temp) /\ FileOK(store) /\ FileOK(disk) /\ IsIdMap(live, Storable)
    BY DEF StoreInv
  <2> QED BY <2>1, <2>2 DEF TypeOK, StoreInv
<1> QED BY <1>1, StoreHolds, PTL

\* What is saved is what is loaded: every record comes back from its line.
THEOREM SavedRecordsComeBack == Spec => []SavedIsLoaded
<1>1. StoreInv => SavedIsLoaded
  <2> DEFINE file == [lines |-> Written(live)]
  <2>1. file.lines = Written(live)
    OBVIOUS
  <2> HIDE DEF file
  <2>2. StoreInv => Load(file) = [ok |-> TRUE, records |-> live]
    BY <2>1, SavedComesBack DEF StoreInv
  <2> QED BY <2>2 DEF SavedIsLoaded, file
<1> QED BY <1>1, StoreHolds, PTL

\* A file cut short loses the records at its end and makes none up.
THEOREM CutsAreHarmless == Spec => []CutLosesOnlyTheEnd
<1>1. StoreInv => CutLosesOnlyTheEnd
  <2> SUFFICES ASSUME StoreInv, Load(store).ok,
                      NEW lines \in Cuts(store.lines)
               PROVE  \A id \in DOMAIN Load([lines |-> lines]).records :
                        /\ id \in DOMAIN Load(store).records
                        /\ Load([lines |-> lines]).records[id] = Load(store).records[id]
    BY Zenon DEF CutLosesOnlyTheEnd
  <2> DEFINE rest == [lines |-> lines]
  <2> TAKE id \in DOMAIN Load(rest).records
  <2>1. rest.lines = lines
    OBVIOUS
  <2> HIDE DEF rest
  <2>2. Readable(store.lines) /\ IsFile(store.lines)
    BY LoadUnreadable DEF StoreInv, FileOK
  <2>3. id \in DOMAIN Load(rest).records
    BY DEF rest
  <2>4. Readable(rest.lines)
    BY <2>3, LoadUnreadable, EmptyType
  <2>5. /\ id \in DOMAIN Load(store).records
        /\ Load(rest).records[id] = Load(store).records[id]
    BY <2>1, <2>2, <2>3, <2>4, CutIsPart
  <2> QED BY <2>5 DEF rest
<1> QED BY <1>1, StoreHolds, PTL
-----------------------------------------------------------------------------
(* The refinement. *)

\* Every step of the store is a step of the atomic file or leaves it alone.
LEMMA AtomicStep == StoreInv /\ [Next]_vars => [Atomic!AtomicNext]_(Atomic!avars)
<1> SUFFICES ASSUME StoreInv, [Next]_vars PROVE [Atomic!AtomicNext]_(Atomic!avars)
  OBVIOUS
<1> USE DEF Atomic!AtomicNext, Atomic!avars
<1>1. /\ IsIdMap(live, Storable) /\ FileOK(store) /\ FileOK(disk)
      /\ store.synced /\ disk.synced
      /\ pc \in {"sync", "rename"} => temp.lines = Written(live)
  BY DEF StoreInv
<1>2. CASE Start
  <2>1. Load(store) = [ok |-> TRUE, records |-> Load(store).records]
    <3>1. Readable(store.lines)
      BY <1>2, LoadUnreadable DEF Start
    <3> QED BY <3>1, LoadShape
  <2> QED BY <1>2, <2>1 DEF Start, Atomic!Open, Atomic!Found
<1>3. CASE StartWithoutStore
  <2>1. Load(NoFile) = [ok |-> TRUE, records |-> Empty]
    BY EmptyFile
  <2>2. Load(store)' \in {Load(store), Load(NoFile)} /\ Load(disk)' = Load(disk)
    BY <1>3 DEF StartWithoutStore
  <2> QED BY <1>3, <2>1, <2>2 DEF StartWithoutStore, Atomic!OpenAfresh, Atomic!Found, Atomic!Empty, Empty
<1>4. CASE Change
  BY <1>4 DEF Change, Atomic!Change
<1>5. CASE CreateTemp
  BY <1>5 DEF CreateTemp
<1>6. CASE WriteAll
  BY <1>6 DEF WriteAll
<1>7. CASE SyncTemp
  BY <1>7 DEF SyncTemp
<1>8. CASE RenameTemp
  <2>1. Load(temp) = [ok |-> TRUE, records |-> live]
    BY <1>1, <1>8, SavedComesBack DEF RenameTemp
  <2>2. Load(store)' = Load(temp) /\ Load(disk)' = Load(disk)
    BY <1>8 DEF RenameTemp
  <2> QED BY <1>8, <2>1, <2>2 DEF RenameTemp, Atomic!Replace, Atomic!Found
<1>9. CASE SaveFails
  BY <1>9 DEF SaveFails
<1>10. CASE Crash
  BY <1>10 DEF Crash, Down, Atomic!Close, Atomic!Empty, Empty
<1>11. CASE WriteBack
  BY <1>11 DEF WriteBack, Atomic!Flush
<1>12. CASE PowerLoss
  <2>1. store'.lines = disk.lines /\ disk' = store'
    BY <1>1, <1>12 DEF PowerLoss, FileOK
  <2>2. Load(store)' = Load(disk) /\ Load(disk)' = Load(disk)
    BY <2>1, LoadReadsLines
  <2> QED BY <1>12, <2>2 DEF PowerLoss, Down, Atomic!PowerLoss, Atomic!Empty, Empty
<1>13. CASE Damage
  <2>1. PICK lines \in Cuts(store.lines) : store' = [store EXCEPT !.lines = lines]
    BY <1>13 DEF Damage
  <2>2. store'.lines \in Cuts(store.lines)
    BY <1>1, <2>1 DEF FileOK
  <2>3. Readable(store.lines) /\ IsFile(store.lines)
    BY <1>1, <1>13, LoadUnreadable DEF Damage, FileOK
  <2>4. Load(disk)' = Load(store)' /\ Load(store)' = Load(store')
    BY <1>13 DEF Damage
  <2>5. \/ ~Load(store').ok
        \/ \E S \in SUBSET DOMAIN Load(store).records :
             Load(store') = [ok |-> TRUE, records |-> Keep(Load(store).records, S)]
    <3>1. CASE ~Readable(store'.lines)
      BY <3>1, LoadUnreadable
    <3>2. CASE Readable(store'.lines)
      BY <2>2, <2>3, <3>2, CutIsPart, LoadShape
    <3> QED BY <3>1, <3>2
  <2> QED BY <1>13, <2>4, <2>5 DEF Damage, Atomic!CutShort, Atomic!Found, Atomic!Keep, Keep
<1>14. CASE UNCHANGED vars
  BY <1>14 DEF vars
<1> QED BY <1>2, <1>3, <1>4, <1>5, <1>6, <1>7, <1>8, <1>9, <1>10, <1>11, <1>12, <1>13, <1>14
        DEF Next

\* The store implements the atomic file: after every failed call, crash and
\* power loss who reads it finds the whole of one save.
THEOREM StoreIsAtomic == Spec => ImplementsAtomicFile
<1>1. Init => Atomic!AtomicInit
  BY EmptyFile DEF Init, Atomic!AtomicInit, Atomic!Found, Atomic!Empty, Empty
<1> QED BY <1>1, AtomicStep, StoreHolds, PTL DEF Spec, ImplementsAtomicFile, Atomic!AtomicSpec

=============================================================================
