-------------------------- MODULE FormattingProofs --------------------------
(***************************************************************************)
(* What the merging of settings guarantees, for every set of objects a     *)
(* client may send, and which line decides the indent, for every set of    *)
(* .editorconfig files and any number of directories.                      *)
(***************************************************************************)
EXTENDS Formatting, Recursion

-----------------------------------------------------------------------------
(* The two settings null has a value for.                                  *)
LEMMA NullKeys ==
    /\ DOMAIN NullValue = {"shellcheckArguments", "formatIndentSpaces"}
    /\ NullValue["shellcheckArguments"] = "none" /\ NullValue["formatIndentSpaces"] = 0
BY Zenon DEF NullValue

(* What one object does to one setting: applySettingsObject either decodes *)
(* a value for the key or leaves the setting alone.                        *)
LEMMA AppliedValue ==
    ASSUME NEW o, NEW s, NEW k \in Keys
    PROVE  ApplyObject(o, s)[k] = IF Sets(o, k) THEN SetTo(o, k) ELSE s[k]
<1>1. CASE o.shellcheckPath = Bad \/ o.workspaceScanEnabled = Bad
  BY <1>1 DEF ApplyObject, Sets
<1>2. CASE ~(o.shellcheckPath = Bad \/ o.workspaceScanEnabled = Bad)
  <2>1. Null.is # "value"
    BY DEF Null
  <2>2. CASE o[k].is = "value"
    BY <1>2, <2>1, <2>2 DEF ApplyObject, Sets, SetTo
  <2>3. CASE o[k].is # "value" /\ o[k] = Null /\ k \in DOMAIN NullValue
    BY <1>2, <2>3 DEF ApplyObject, Sets, SetTo
  <2>4. CASE o[k].is # "value" /\ ~(o[k] = Null /\ k \in DOMAIN NullValue)
    BY <1>2, <2>4 DEF ApplyObject, Sets, SetTo
  <2> QED
    BY <2>2, <2>3, <2>4
<1> QED
  BY <1>1, <1>2

(* What one message does to one setting: bashIde before the top.           *)
LEMMA MergedValue ==
    ASSUME NEW m, NEW s, NEW k \in Keys
    PROVE  ParseSettings(m, s)[k] = IF Mentions(m, k) THEN Mentioned(m, k) ELSE s[k]
<1>1. ApplyObject(m.flat, s)[k] = IF Sets(m.flat, k) THEN SetTo(m.flat, k) ELSE s[k]
  BY AppliedValue
<1>2. ParseSettings(m, s)[k] =
        IF Sets(m.nested, k) THEN SetTo(m.nested, k) ELSE ApplyObject(m.flat, s)[k]
  BY AppliedValue DEF ParseSettings
<1> QED
  BY <1>1, <1>2 DEF Mentions, Mentioned

(* The values a setting may have.                                          *)
Legal(k) == IF k = "formatIndentSpaces" THEN Nat \cup {NoIndent} ELSE ValuesOf[k]

(* An object of the client, or the one that says nothing.                  *)
LEMMA ObjectShape ==
    ASSUME NEW o \in Objects \cup {Empty}, NEW k \in Keys, Sets(o, k)
    PROVE  SetTo(o, k) \in ValuesOf[k]
<1>1. CASE o = Empty
  BY <1>1 DEF Sets, Empty, Absent, Null
<1>2. CASE o \in Objects /\ o[k].is = "value"
  BY <1>2, ObjectsAssumption DEF SetTo, Keys
<1>3. CASE o[k].is # "value"
  <2>1. k \in {"shellcheckArguments", "formatIndentSpaces"}
    BY <1>3, NullKeys DEF Sets
  <2>2. SetTo(o, k) = NullValue[k]
    BY <1>3 DEF SetTo
  <2>3. ValuesOf["shellcheckArguments"] = Lists /\ ValuesOf["formatIndentSpaces"] = Nat
    BY Zenon DEF ValuesOf
  <2>4. NullValue["shellcheckArguments"] \in ValuesOf["shellcheckArguments"]
    BY <2>3, NullKeys, DefaultsAssumption
  <2>5. NullValue["formatIndentSpaces"] \in ValuesOf["formatIndentSpaces"]
    BY <2>3, NullKeys
  <2> QED
    BY <2>1, <2>2, <2>4, <2>5
<1> QED
  BY <1>1, <1>2, <1>3

(* Merging keeps every setting legal.                                      *)
LEMMA MergedLegal ==
    ASSUME NEW m \in Messages, NEW s, NEW k \in Keys, s[k] \in Legal(k)
    PROVE  ParseSettings(m, s)[k] \in Legal(k)
<1>1. m.flat \in Objects \cup {Empty} /\ m.nested \in Objects \cup {Empty}
  BY DEF Messages
<1>2. Mentions(m, k) => Mentioned(m, k) \in ValuesOf[k]
  BY <1>1, ObjectShape DEF Mentions, Mentioned
<1>3. ValuesOf[k] \subseteq Legal(k)
  BY DEF Legal, ValuesOf, Keys
<1> QED
  BY <1>2, <1>3, MergedValue

(* The settings keep their keys.                                           *)
LEMMA MergedKeys ==
    ASSUME NEW m, NEW s, DOMAIN s = Keys
    PROVE  DOMAIN ParseSettings(m, s) = Keys
<1>1. \A o, t : DOMAIN t = Keys => DOMAIN ApplyObject(o, t) = Keys
  BY DEF ApplyObject
<1> QED
  BY <1>1 DEF ParseSettings

-----------------------------------------------------------------------------
(* The settings' part of the type invariant, key by key.                   *)
SettingsLegal == DOMAIN settings = Keys /\ \A k \in Keys : settings[k] \in Legal(k)

(* Key by key it says what the type invariant says of the record.           *)
LEMMA SettingsParts ==
    ASSUME DOMAIN settings = Keys
    PROVE  SettingsLegal <=>
             /\ settings.shellcheckPath \in Paths /\ settings.shellcheckArguments \in Lists
             /\ settings.formatIndentSpaces \in Nat \cup {NoIndent}
             /\ settings.workspaceScanEnabled \in BOOLEAN
BY DEF SettingsLegal, Legal, Keys, ValuesOf

(* The defaults have their types.                                           *)
LEMMA TypeInit == Init => TypeOK
<1> SUFFICES ASSUME Init PROVE TypeOK
  OBVIOUS
<1>1. DOMAIN settings = Keys
  BY DEF Init, DefaultSettings, Keys
<1>2. history \in Seq(Messages) /\ Len(history) = 0
  BY DEF Init
<1>3. answer.is \in {"none", "edit", "no edit"}
  BY DEF Init, NoAnswer
<1>4. Len(history) <= MaxChanges
  BY <1>2, BoundsAssumption
<1>5. editorconfig \in [1..Depth -> Files \cup {<<>>}]
  BY DEF Init
<1>6. /\ settings.shellcheckPath \in Paths /\ settings.shellcheckArguments \in Lists
      /\ settings.formatIndentSpaces \in Nat \cup {NoIndent}
      /\ settings.workspaceScanEnabled \in BOOLEAN
  <2>1. /\ settings.shellcheckPath = "shellcheck" /\ settings.shellcheckArguments = "none"
        /\ settings.formatIndentSpaces = NoIndent /\ settings.workspaceScanEnabled = TRUE
    BY Zenon DEF Init, DefaultSettings
  <2>2. settings.workspaceScanEnabled \in BOOLEAN
    BY <2>1
  <2> QED
    BY <2>1, <2>2, DefaultsAssumption
<1> QED
  BY <1>1, <1>2, <1>3, <1>4, <1>5, <1>6 DEF TypeOK

(* Every step keeps the types: merging by MergedLegal, the rest at once.    *)
LEMMA TypeNext == TypeOK /\ [Next]_vars => TypeOK'
<1> SUFFICES ASSUME TypeOK, [Next]_vars PROVE TypeOK'
  OBVIOUS
<1>1. ASSUME NEW opts \in Options, NEW clean \in BOOLEAN, FormatDocument(opts, clean)
      PROVE  TypeOK'
  <2>1. answer'.is \in {"none", "edit", "no edit"}
    BY <1>1 DEF FormatDocument
  <2> QED
    BY <1>1, <2>1 DEF FormatDocument, TypeOK
<1>2. ASSUME NEW m \in Messages, HandleDidChangeConfiguration(m) PROVE TypeOK'
  <2>1. settings' = ParseSettings(m, settings) /\ history' = Append(history, m)
          /\ UNCHANGED editorconfig /\ answer' = NoAnswer /\ Len(history) < MaxChanges
    BY <1>2 DEF HandleDidChangeConfiguration
  <2>2. SettingsLegal
    BY SettingsParts DEF TypeOK
  <2>3. SettingsLegal'
    BY <2>1, <2>2, MergedLegal, MergedKeys DEF SettingsLegal
  <2>4. DOMAIN settings' = Keys
    BY <2>3 DEF SettingsLegal
  <2>5. settings'.shellcheckPath \in Paths /\ settings'.shellcheckArguments \in Lists
          /\ settings'.formatIndentSpaces \in Nat \cup {NoIndent}
          /\ settings'.workspaceScanEnabled \in BOOLEAN
    BY <2>3 DEF SettingsLegal, Legal, Keys, ValuesOf
  <2>6. history' \in Seq(Messages) /\ Len(history') <= MaxChanges
    <3>1. history \in Seq(Messages)
      BY DEF TypeOK
    <3>2. history' = Append(history, m) /\ Len(history) < MaxChanges
      BY <2>1
    <3>3. history' \in Seq(Messages) /\ Len(history') = Len(history) + 1
      BY <3>1, <3>2
    <3> QED
      BY <3>1, <3>2, <3>3, BoundsAssumption
  <2>7. answer'.is \in {"none", "edit", "no edit"}
    BY <2>1 DEF NoAnswer
  <2>8. editorconfig' \in [1..Depth -> Files \cup {<<>>}]
    BY <2>1 DEF TypeOK
  <2> QED
    BY <2>4, <2>5, <2>6, <2>7, <2>8 DEF TypeOK
<1>3. ASSUME NEW d \in 1..Depth, NEW lines \in Files \cup {<<>>}, Write(d, lines) PROVE TypeOK'
  <2>1. editorconfig' \in [1..Depth -> Files \cup {<<>>}]
    BY <1>3 DEF Write, TypeOK
  <2> QED
    BY <1>3, <2>1 DEF Write, TypeOK, NoAnswer
<1>4. CASE UNCHANGED vars
  BY <1>4 DEF vars, TypeOK
<1> QED
  BY <1>1, <1>2, <1>3, <1>4 DEF Next

(* Each setting always has a legal value, whatever well and badly typed    *)
(* objects the client has sent (applySettingsObject, configuration.go).    *)
THEOREM TypeCorrect == Spec => []TypeOK
BY TypeInit, TypeNext, PTL DEF Spec

-----------------------------------------------------------------------------
(* Appending a message moves the last mention of a key only if the message *)
(* mentions it.                                                            *)
LEMMA MentionStep ==
    ASSUME TypeOK, LastMentionCounts, NEW m \in Messages, HandleDidChangeConfiguration(m)
    PROVE  LastMentionCounts'
<1> SUFFICES ASSUME NEW k \in Keys
             PROVE  \/ /\ settings'[k] = DefaultSettings[k]
                       /\ \A i \in DOMAIN history' : ~Mentions(history'[i], k)
                    \/ \E i \in DOMAIN history' :
                         /\ Mentions(history'[i], k) /\ settings'[k] = Mentioned(history'[i], k)
                         /\ \A j \in (i + 1)..Len(history') : ~Mentions(history'[j], k)
  BY DEF LastMentionCounts
<1> DEFINE n == Len(history)
<1>1. /\ n \in Nat /\ DOMAIN history = 1..n
      /\ DOMAIN history' = 1..(n + 1) /\ Len(history') = n + 1
      /\ history'[n + 1] = m /\ \A i \in 1..n : history'[i] = history[i]
  <2>1. history \in Seq(Messages)
    BY DEF TypeOK
  <2>2. history' = Append(history, m)
    BY DEF HandleDidChangeConfiguration
  <2> QED
    BY <2>1, <2>2
<1>2. settings'[k] = IF Mentions(m, k) THEN Mentioned(m, k) ELSE settings[k]
  BY MergedValue DEF HandleDidChangeConfiguration
<1>3. CASE Mentions(m, k)
  <2>1. n + 1 \in DOMAIN history' /\ (n + 1 + 1)..Len(history') = {}
    BY <1>1
  <2> QED
    BY <1>1, <1>2, <1>3, <2>1
<1>4. CASE ~Mentions(m, k)
  <2>1. settings'[k] = settings[k]
    BY <1>2, <1>4
  <2>2. CASE /\ settings[k] = DefaultSettings[k]
             /\ \A i \in DOMAIN history : ~Mentions(history[i], k)
    <3>1. \A i \in 1..(n + 1) : i = n + 1 \/ i \in 1..n
      BY <1>1
    <3> QED
      BY <1>1, <1>4, <2>1, <2>2, <3>1
  <2>3. ASSUME NEW i \in DOMAIN history, Mentions(history[i], k),
               settings[k] = Mentioned(history[i], k),
               \A j \in (i + 1)..Len(history) : ~Mentions(history[j], k)
        PROVE  \E h \in DOMAIN history' :
                 /\ Mentions(history'[h], k) /\ settings'[k] = Mentioned(history'[h], k)
                 /\ \A j \in (h + 1)..Len(history') : ~Mentions(history'[j], k)
    <3>1. i \in DOMAIN history' /\ history'[i] = history[i]
      BY <1>1
    <3>2. \A j \in (i + 1)..(n + 1) : j = n + 1 \/ (j \in (i + 1)..n /\ j \in 1..n)
      BY <1>1
    <3>3. \A j \in (i + 1)..Len(history') : ~Mentions(history'[j], k)
      BY <1>1, <1>4, <2>3, <3>2
    <3> QED
      BY <2>1, <2>3, <3>1, <3>3
  <2> QED
    BY <2>2, <2>3 DEF LastMentionCounts
<1> QED
  BY <1>3, <1>4

(* A setting is explained by the last message that set it: none is lost in *)
(* a later message, valid or not, that does not set it (parseSettings).    *)
THEOREM LastMention == Spec => []LastMentionCounts
<1>1. Init => LastMentionCounts
  <2> SUFFICES ASSUME Init PROVE LastMentionCounts
    OBVIOUS
  <2>1. DOMAIN history = {}
    BY DEF Init
  <2> QED
    BY <2>1 DEF Init, LastMentionCounts
<1>2. TypeOK /\ LastMentionCounts /\ [Next]_vars => LastMentionCounts'
  <2> SUFFICES ASSUME TypeOK, LastMentionCounts, [Next]_vars PROVE LastMentionCounts'
    OBVIOUS
  <2>1. CASE UNCHANGED <<settings, history>>
    BY <2>1 DEF LastMentionCounts
  <2>2. ASSUME NEW m \in Messages, HandleDidChangeConfiguration(m) PROVE LastMentionCounts'
    BY <2>2, MentionStep
  <2> QED
    BY <2>1, <2>2 DEF Next, FormatDocument, Write, vars
<1> QED
  BY <1>1, <1>2, TypeCorrect, PTL DEF Spec

(* No message gives the indent back to .editorconfig and the request's     *)
(* options once one has set it: parseUintPointer never answers nil for a   *)
(* setting that is not nil.                                                *)
THEOREM IndentStays == Spec => IndentNeverUnset
<1>1. TypeOK /\ [Next]_vars =>
        [settings.formatIndentSpaces # NoIndent => settings'.formatIndentSpaces # NoIndent]_vars
  <2> SUFFICES ASSUME TypeOK, [Next]_vars, settings.formatIndentSpaces # NoIndent
               PROVE  settings'.formatIndentSpaces # NoIndent
    OBVIOUS
  <2>1. CASE UNCHANGED settings
    BY <2>1
  <2>2. ASSUME NEW m \in Messages, HandleDidChangeConfiguration(m)
        PROVE  settings'.formatIndentSpaces # NoIndent
    <3> DEFINE k == "formatIndentSpaces"
    <3>1. k \in Keys
      BY DEF Keys
    <3>2. m.flat \in Objects \cup {Empty} /\ m.nested \in Objects \cup {Empty}
      BY DEF Messages
    <3>3. Mentions(m, k) => Mentioned(m, k) \in ValuesOf[k]
      BY <3>1, <3>2, ObjectShape DEF Mentions, Mentioned
    <3>4. NoIndent \notin ValuesOf[k]
      BY DEF NoIndent, ValuesOf
    <3>5. settings'[k] = IF Mentions(m, k) THEN Mentioned(m, k) ELSE settings[k]
      BY <2>2, <3>1, MergedValue DEF HandleDidChangeConfiguration
    <3> QED
      BY <3>3, <3>4, <3>5
  <2> QED
    BY <2>1, <2>2 DEF Next, FormatDocument, Write, vars
<1> QED
  BY <1>1, TypeCorrect, PTL DEF Spec, IndentNeverUnset
-----------------------------------------------------------------------------
(* The loops of editorconfig.go: a value carried through n steps.           *)
Carries(f, n, init, step) ==
    \A i \in 0..n : f[i] = IF i = 0 THEN init ELSE step[<<i, f[i - 1]>>]
Closed(S, n, init, step) ==
    init \in S /\ \A i \in 1..n, s \in S : step[<<i, s>>] \in S

(* There is a function that gives the value after each of the steps.        *)
LEMMA Carried ==
    ASSUME NEW n \in Nat, NEW S, NEW init, NEW step, Closed(S, n, init, step)
    PROVE  \E f \in [0..n -> S] : Carries(f, n, init, step)
  <1> DEFINE X == 0..n
             base == [i \in X |-> init]
             next == [i \in X |-> i - 1]
             size == [i \in X |-> i]
  <1>0. init \in S /\ \A i \in 1..n, s \in S : step[<<i, s>>] \in S
    BY DEF Closed
  <1>1. Descends(X, S, {0}, base, next, step, size)
    <2>1. size \in [X -> Nat]
      OBVIOUS
    <2>2. \A i \in X \ {0} : next[i] \in X /\ size[next[i]] < size[i]
      OBVIOUS
    <2>3. \A i \in X \ {0}, s \in S : step[<<i, s>>] \in S
      <3>1. \A i \in X \ {0} : i \in 1..n
        OBVIOUS
      <3> QED
        BY <1>0, <3>1
    <2>4. \A i \in X : base[i] \in S
      BY <1>0
    <2> HIDE DEF X, base, next, size
    <2> QED
      BY <2>1, <2>2, <2>3, <2>4 DEF Descends
  <1>2. PICK f \in [X -> S] : \A i \in X : f[i] = Step({0}, base, next, step, f, i)
    <2> HIDE DEF X, base, next, size
    <2> QED
      BY <1>1, RecursionExists
  <1>3. ASSUME NEW i \in X PROVE f[i] = IF i = 0 THEN init ELSE step[<<i, f[i - 1]>>]
    <2>1. base[i] = init /\ next[i] = i - 1
      OBVIOUS
    <2> HIDE DEF X, base, next, size
    <2> QED
      BY <1>2, <2>1 DEF Step
  <1> QED
    BY <1>2, <1>3 DEF Carries

-----------------------------------------------------------------------------
(* What a format is made of, and what the reader of a file carries along.   *)
FormatKeys == {"style", "size"}
ValuesFor(k) == IF k = "style" THEN Styles ELSE Int
Formats == {f \in [FormatKeys -> Styles \cup Int] : \A k \in FormatKeys : f[k] \in ValuesFor(k)}
Readers == [matches : BOOLEAN, format : Formats]
Start == [matches |-> FALSE, format |-> NoFormat]

(* A format has the two keys ...                                            *)
LEMMA NoFormatKeys == DOMAIN NoFormat = FormatKeys
  BY Zenon DEF NoFormat, FormatKeys

(* ... and the empty one has a value of each key ...                        *)
LEMMA NoFormatRange == \A k \in FormatKeys : NoFormat[k] \in ValuesFor(k)
  <1>1. NoFormat["style"] = "" /\ NoFormat["size"] = 0
    BY DEF NoFormat
  <1>2. "" \in Styles /\ 0 \in Int
    BY DEF Styles
  <1>3. ValuesFor("style") = Styles /\ ValuesFor("size") = Int
    BY DEF ValuesFor
  <1> QED
    BY <1>1, <1>2, <1>3 DEF FormatKeys

(* ... which makes it a format.                                             *)
LEMMA NoFormatIs == NoFormat \in Formats
  <1>1. NoFormat = [k \in FormatKeys |-> NoFormat[k]]
    <2>1. NoFormat = [k \in {"style", "size"} |-> NoFormat[k]]
      BY DEF NoFormat
    <2> QED
      BY <2>1 DEF FormatKeys
  <1>2. \A k \in FormatKeys : NoFormat[k] \in ValuesFor(k) /\ NoFormat[k] \in Styles \cup Int
    BY NoFormatRange DEF ValuesFor
  <1> QED
    BY <1>1, <1>2 DEF Formats

(* A line that gives a key its value gives it one of its range.             *)
LEMMA LineValue ==
    ASSUME NEW l \in Lines, l.is \in FormatKeys
    PROVE  l.value \in ValuesFor(l.is)
  BY DEF Lines, FormatKeys, ValuesFor

(* A section header matches if it is the header that does.                  *)
LEMMA LineMatches ==
    ASSUME NEW l \in Lines, l.is = "section"
    PROVE  l.matches \in BOOLEAN /\ (l.matches <=> l = [is |-> "section", matches |-> TRUE])
  <1>1. l \in [is : {"section"}, matches : BOOLEAN]
    BY DEF Lines
  <1>2. l = [is |-> "section", matches |-> l.matches] /\ l.matches \in BOOLEAN
    BY <1>1
  <1>3. l.matches => l = [is |-> "section", matches |-> TRUE]
    BY <1>2
  <1>4. l = [is |-> "section", matches |-> TRUE] => l.matches
    OBVIOUS
  <1> QED
    BY <1>2, <1>3, <1>4

(* One line of the loop of editorConfigFormatForFile.                       *)
LEMMA ReadMatches ==
    ASSUME NEW a \in Readers, NEW l \in Lines
    PROVE  Read(a, l).matches = IF l.is = "section" THEN l.matches ELSE a.matches
  BY DEF Read, Readers

(* It changes a key only in a section that matches, to the value it gives.  *)
LEMMA ReadFormat ==
    ASSUME NEW a \in Readers, NEW l \in Lines, NEW k \in FormatKeys
    PROVE  Read(a, l).format[k] =
              IF l.is = k /\ a.matches THEN l.value ELSE a.format[k]
  <1>1. k # "section"
    BY DEF FormatKeys
  <1>2. a.format \in [FormatKeys -> Styles \cup Int]
    BY DEF Readers, Formats
  <1>3. CASE l.is = "section"
    BY <1>1, <1>3 DEF Read, Readers
  <1>4. CASE l.is # "section" /\ l.is \in FormatKeys /\ a.matches
    BY <1>2, <1>4, NoFormatKeys DEF Read, Readers
  <1>5. CASE l.is # "section" /\ ~(l.is \in FormatKeys /\ a.matches)
    BY <1>5, NoFormatKeys DEF Read
  <1> QED
    BY <1>3, <1>4, <1>5

(* It keeps to formats.                                                     *)
LEMMA ReadIs ==
    ASSUME NEW a \in Readers, NEW l \in Lines
    PROVE  Read(a, l) \in Readers
  <1>1. a.format \in Formats /\ a.matches \in BOOLEAN
    BY DEF Readers
  <1>2. CASE l.is = "section"
    BY <1>2, LineMatches DEF Read, Readers
  <1>3. CASE l.is # "section" /\ l.is \in FormatKeys /\ a.matches
    <2> DEFINE g == [a.format EXCEPT ![l.is] = l.value]
    <2>1. l.value \in ValuesFor(l.is)
      BY <1>3, LineValue
    <2>2. l.value \in Styles \cup Int
      BY <2>1 DEF ValuesFor
    <2>3. g \in [FormatKeys -> Styles \cup Int]
      BY <1>1, <2>2 DEF Formats
    <2>4. \A k \in FormatKeys : g[k] \in ValuesFor(k)
      BY <1>1, <1>3, <2>1 DEF Formats
    <2>5. g \in Formats
      BY <2>3, <2>4 DEF Formats
    <2>6. Read(a, l) = [a EXCEPT !.format = g]
      BY <1>3, NoFormatKeys DEF Read
    <2> HIDE DEF g
    <2> QED
      BY <2>5, <2>6 DEF Readers
  <1>4. CASE l.is # "section" /\ ~(l.is \in FormatKeys /\ a.matches)
    BY <1>4, NoFormatKeys DEF Read
  <1> QED
    BY <1>2, <1>3, <1>4
-----------------------------------------------------------------------------
(* A file read line by line.                                               *)
LEMMA FormatWalk ==
    ASSUME NEW lines \in Seq(Lines)
    PROVE  \E read \in [0..Len(lines) -> Readers] :
              /\ FormatForFile(lines) = read[Len(lines)].format
              /\ \A i \in 0..Len(lines) :
                    read[i] = IF i = 0 THEN Start ELSE Read(read[i - 1], lines[i])
  <1> DEFINE n == Len(lines)
             step == [p \in (1..n) \X Readers |-> Read(p[2], lines[p[1]])]
             read[i \in 0..n] == IF i = 0 THEN Start ELSE Read(read[i - 1], lines[i])
  <1>1. n \in Nat /\ Start \in Readers /\ \A i \in 1..n : lines[i] \in Lines
    BY NoFormatIs DEF Start, Readers
  <1>2. ASSUME NEW i \in 1..n, NEW a \in Readers
        PROVE  step[<<i, a>>] = Read(a, lines[i]) /\ Read(a, lines[i]) \in Readers
    <2>1. step[<<i, a>>] = Read(a, lines[i])
      OBVIOUS
    <2> HIDE DEF step, read
    <2> QED
      BY <1>1, <2>1, ReadIs
  <1>3. PICK f \in [0..n -> Readers] : Carries(f, n, Start, step)
    <2> HIDE DEF n, step, read
    <2>1. \A i \in 1..n, a \in Readers : step[<<i, a>>] \in Readers
      BY <1>2
    <2>2. n \in Nat /\ Closed(Readers, n, Start, step)
      BY <1>1, <2>1 DEF Closed
    <2> QED
      BY <2>1, <2>2, Carried
  <1>4. ASSUME NEW i \in 0..n
        PROVE  f[i] = IF i = 0 THEN Start ELSE Read(f[i - 1], lines[i])
    <2>1. CASE i = 0
      BY <1>3, <2>1 DEF Carries
    <2>2. CASE i # 0
      <3>1. i \in 1..n /\ i - 1 \in 0..n
        BY <1>1, <2>2
      <3>2. f[i - 1] \in Readers
        BY <1>3, <3>1
      <3> HIDE DEF n, step, read
      <3> QED
        BY <1>2, <1>3, <2>2, <3>1, <3>2 DEF Carries
    <2> HIDE DEF n, step, read
    <2> QED
      BY <2>1, <2>2
  <1>5. f = [i \in 0..n |-> IF i = 0 THEN Start ELSE Read(f[i - 1], lines[i])]
    <2> HIDE DEF n, step, read
    <2> QED
      BY <1>3, <1>4
  <1>6. read = [i \in 0..n |-> IF i = 0 THEN Start ELSE Read(read[i - 1], lines[i])]
    <2> HIDE DEF n, step
    <2> QED
      BY <1>5
  <1>7. DOMAIN read = 0..n
    <2> HIDE DEF n, step
    <2> QED
      BY <1>6
  <1>8. ASSUME NEW i \in 0..n
        PROVE  read[i] = IF i = 0 THEN Start ELSE Read(read[i - 1], lines[i])
    <2> HIDE DEF n, step
    <2> QED
      BY <1>6
  <1>9. \A i \in 0..n : read[i] \in Readers
    <2> DEFINE P == {i \in 0..n : read[i] \in Readers}
    <2>1. 0 <= n => 0 \in P
      <3> HIDE DEF n, step, read
      <3> QED
        BY <1>1, <1>8
    <2>2. ASSUME NEW i \in 0..(n - 1), i \in P PROVE i + 1 \in P
      <3>1. i + 1 \in 0..n /\ i + 1 \in 1..n /\ i + 1 # 0 /\ (i + 1) - 1 = i
        BY <1>1
      <3>2. read[i + 1] = Read(read[i], lines[i + 1])
        <4> HIDE DEF n, step, read
        <4> QED
          BY <1>8, <3>1
      <3> HIDE DEF n, step, read
      <3> QED
        BY <1>1, <2>2, <3>1, <3>2, ReadIs
    <2>3. 0..n \subseteq P
      <3> HIDE DEF n, step, read, P
      <3>1. Upward(0, n, P)
        BY <2>1, <2>2 DEF Upward
      <3>2. n \in Int /\ 0 \in Int
        BY <1>1
      <3> QED
        BY <3>1, <3>2, UpwardInduction
    <2> QED
      BY <2>3
  <1>10. read \in [0..n -> Readers]
    <2> HIDE DEF n, step, read
    <2> QED
      BY <1>6, <1>7, <1>9
  <1>11. FormatForFile(lines) = read[n].format
    BY DEF FormatForFile, Start
  <1> HIDE DEF n, step, read
  <1>12. /\ FormatForFile(lines) = read[n].format
         /\ \A i \in 0..n : read[i] = IF i = 0 THEN Start ELSE Read(read[i - 1], lines[i])
    BY <1>8, <1>11
  <1> QED
    BY <1>10, <1>12 DEF n

(* The line before matters to a line that is no section header.            *)
LEMMA ConcernsStep ==
    ASSUME NEW lines \in Seq(Lines), NEW i \in 1..Len(lines)
    PROVE  Concerns(lines, i) <=> IF lines[i].is = "section" THEN lines[i].matches
                                                             ELSE Concerns(lines, i - 1)
  <1>1. lines[i] \in Lines /\ i \in Nat /\ i >= 1
    OBVIOUS
  <1>2. CASE lines[i].is = "section"
    <2>1. lines[i].matches <=> lines[i] = [is |-> "section", matches |-> TRUE]
      BY <1>1, <1>2, LineMatches
    <2>2. ASSUME lines[i] = [is |-> "section", matches |-> TRUE] PROVE Concerns(lines, i)
      BY <1>1, <2>2 DEF Concerns
    <2>3. ASSUME Concerns(lines, i) PROVE lines[i] = [is |-> "section", matches |-> TRUE]
      <3>1. PICK h \in 1..i : /\ lines[h] = [is |-> "section", matches |-> TRUE]
                              /\ \A j \in (h + 1)..i : lines[j].is # "section"
        BY <2>3 DEF Concerns
      <3>2. h = i
        BY <1>1, <1>2, <3>1
      <3> QED
        BY <3>1, <3>2
    <2> QED
      BY <1>2, <2>1, <2>2, <2>3
  <1>3. CASE lines[i].is # "section"
    <2>1. ASSUME Concerns(lines, i) PROVE Concerns(lines, i - 1)
      <3>1. PICK h \in 1..i : /\ lines[h] = [is |-> "section", matches |-> TRUE]
                              /\ \A j \in (h + 1)..i : lines[j].is # "section"
        BY <2>1 DEF Concerns
      <3>2. h # i
        BY <1>3, <3>1
      <3>3. h \in 1..(i - 1) /\ \A j \in (h + 1)..(i - 1) : lines[j].is # "section"
        BY <1>1, <3>1, <3>2
      <3> QED
        BY <3>1, <3>3 DEF Concerns
    <2>2. ASSUME Concerns(lines, i - 1) PROVE Concerns(lines, i)
      <3>1. PICK h \in 1..(i - 1) : /\ lines[h] = [is |-> "section", matches |-> TRUE]
                                    /\ \A j \in (h + 1)..(i - 1) : lines[j].is # "section"
        BY <2>2 DEF Concerns
      <3>2. h \in 1..i /\ \A j \in (h + 1)..i : j = i \/ j \in (h + 1)..(i - 1)
        BY <1>1
      <3> QED
        BY <1>3, <3>1, <3>2 DEF Concerns
    <2> QED
      BY <1>3, <2>1, <2>2
  <1> QED
    BY <1>2, <1>3

(* The format of a file has the value of the last line that gives one.      *)
LastOf(lines, i, k, v) ==
    \/ v = NoFormat[k] /\ \A j \in 1..i : ~Gives(lines, j, k)
    \/ \E j \in 1..i : /\ Gives(lines, j, k) /\ lines[j].value = v
                       /\ \A h \in (j + 1)..i : ~Gives(lines, h, k)

(* One more line either gives the key a value or leaves it.                 *)
LEMMA LastOfStep ==
    ASSUME NEW lines, NEW i \in Nat, NEW k, NEW v, NEW w, LastOf(lines, i, k, v),
           w = IF Gives(lines, i + 1, k) THEN lines[i + 1].value ELSE v
    PROVE  LastOf(lines, i + 1, k, w)
  <1>1. \A j \in 1..(i + 1) : j = i + 1 \/ j \in 1..i
    OBVIOUS
  <1>2. CASE Gives(lines, i + 1, k)
    <2>1. i + 1 \in 1..(i + 1) /\ (i + 1 + 1)..(i + 1) = {}
      OBVIOUS
    <2> QED
      BY <1>2, <2>1 DEF LastOf
  <1>3. CASE ~Gives(lines, i + 1, k)
    <2>1. CASE v = NoFormat[k] /\ \A j \in 1..i : ~Gives(lines, j, k)
      BY <1>1, <1>3, <2>1 DEF LastOf
    <2>2. ASSUME NEW j \in 1..i, Gives(lines, j, k), lines[j].value = v,
                 \A h \in (j + 1)..i : ~Gives(lines, h, k)
          PROVE  LastOf(lines, i + 1, k, w)
      <3>1. j \in 1..(i + 1) /\ \A h \in (j + 1)..(i + 1) : h = i + 1 \/ h \in (j + 1)..i
        OBVIOUS
      <3>2. \A h \in (j + 1)..(i + 1) : ~Gives(lines, h, k)
        BY <1>3, <2>2, <3>1
      <3> QED
        BY <1>3, <2>2, <3>1, <3>2 DEF LastOf
    <2> QED
      BY <2>1, <2>2 DEF LastOf
  <1> QED
    BY <1>2, <1>3

(* The loop ends with the value of the last line of the file that gives     *)
(* one.                                                                     *)
LEMMA FileGives ==
    ASSUME NEW lines \in Seq(Lines), NEW k \in FormatKeys
    PROVE  LastOf(lines, Len(lines), k, FormatForFile(lines)[k])
  <1> DEFINE n == Len(lines)
  <1>1. n \in Nat /\ DOMAIN lines = 1..n /\ \A i \in 1..n : lines[i] \in Lines
    OBVIOUS
  <1>2. PICK read \in [0..n -> Readers] :
              /\ FormatForFile(lines) = read[n].format
              /\ \A i \in 0..n : read[i] = IF i = 0 THEN Start ELSE Read(read[i - 1], lines[i])
    BY FormatWalk
  <1> HIDE DEF n
  <1> DEFINE P == {i \in 0..n : /\ read[i].matches <=> Concerns(lines, i)
                                /\ LastOf(lines, i, k, read[i].format[k])}
  <1>3. 0 <= n => 0 \in P
    <2>1. read[0].matches = FALSE /\ read[0].format = NoFormat /\ 1..0 = {} /\ 0 \in 0..n
      BY <1>1, <1>2 DEF Start
    <2>2. ~Concerns(lines, 0) /\ LastOf(lines, 0, k, NoFormat[k])
      BY <2>1 DEF Concerns, LastOf
    <2> QED
      BY <2>1, <2>2
  <1>4. ASSUME NEW i \in 0..(n - 1), i \in P PROVE i + 1 \in P
    <2>1. i + 1 \in 0..n /\ i + 1 \in 1..n /\ i + 1 # 0 /\ (i + 1) - 1 = i /\ i \in 0..n /\ i \in Nat
      BY <1>1
    <2>2. read[i + 1] = Read(read[i], lines[i + 1]) /\ read[i] \in Readers /\ lines[i + 1] \in Lines
      <3> HIDE DEF P
      <3> QED
        BY <1>1, <1>2, <2>1
    <2>3. read[i].matches <=> Concerns(lines, i)
      BY <1>4
    <2>4. LastOf(lines, i, k, read[i].format[k])
      BY <1>4
    <2> HIDE DEF P
    <2>5. read[i + 1].matches = IF lines[i + 1].is = "section" THEN lines[i + 1].matches
                                                               ELSE read[i].matches
      BY <2>2, ReadMatches
    <2>6. Concerns(lines, i + 1) <=> IF lines[i + 1].is = "section" THEN lines[i + 1].matches
                                                                    ELSE Concerns(lines, i)
      BY <2>1, ConcernsStep DEF n
    <2>7. read[i + 1].format[k] =
            IF lines[i + 1].is = k /\ read[i].matches THEN lines[i + 1].value ELSE read[i].format[k]
      BY <2>2, ReadFormat
    <2>8. k # "section"
      BY DEF FormatKeys
    <2>9. Gives(lines, i + 1, k) <=> lines[i + 1].is = k /\ read[i].matches
      BY <1>1, <2>1, <2>3, <2>6, <2>8 DEF Gives
    <2>10. LastOf(lines, i + 1, k, read[i + 1].format[k])
      BY <2>1, <2>4, <2>7, <2>9, LastOfStep
    <2>11. read[i + 1].matches <=> Concerns(lines, i + 1)
      BY <2>3, <2>5, <2>6
    <2> QED
      BY <2>1, <2>10, <2>11 DEF P
  <1>5. 0..n \subseteq P
    <2> HIDE DEF P
    <2> QED
      BY <1>1, <1>3, <1>4, UpwardInduction DEF Upward
  <1>6. n \in P
    BY <1>1, <1>5
  <1> QED
    BY <1>2, <1>6 DEF n
-----------------------------------------------------------------------------
(* A file gives a format.                                                   *)
LEMMA FormatIs ==
    ASSUME NEW lines \in Seq(Lines)
    PROVE  FormatForFile(lines) \in Formats
  <1>1. PICK read \in [0..Len(lines) -> Readers] :
              /\ FormatForFile(lines) = read[Len(lines)].format
              /\ \A i \in 0..Len(lines) :
                    read[i] = IF i = 0 THEN Start ELSE Read(read[i - 1], lines[i])
    BY FormatWalk
  <1>2. Len(lines) \in 0..Len(lines)
    OBVIOUS
  <1>3. read[Len(lines)] \in Readers
    BY <1>1, <1>2
  <1> QED
    BY <1>1, <1>3 DEF Readers

(* The .editorconfig files are sequences of lines.                         *)
Readable == editorconfig \in [1..Depth -> Seq(Lines)]

(* The value the file of a directory contributes, an empty one if none.     *)
FileValue(d, k) ==
    IF d \in EditorConfigFiles THEN FormatForFile(editorconfig[d])[k] ELSE NoFormat[k]

(* What a file contributes, if anything, one of its lines says ...          *)
LEMMA FileSpeaks ==
    ASSUME Readable, NEW d \in 1..Depth, NEW k \in FormatKeys, FileValue(d, k) # NoFormat[k]
    PROVE  \E i \in DOMAIN editorconfig[d] :
              Speaks(d, i, k) /\ editorconfig[d][i].value = FileValue(d, k)
  <1> DEFINE lines == editorconfig[d]
             v == FormatForFile(lines)[k]
  <1>1. lines \in Seq(Lines)
    BY DEF Readable
  <1>2. d \in EditorConfigFiles /\ FileValue(d, k) = v /\ v # NoFormat[k]
    BY DEF FileValue
  <1>3. LastOf(lines, Len(lines), k, v)
    BY <1>1, FileGives
  <1> HIDE DEF v
  <1>4. PICK i \in 1..Len(lines) : /\ Gives(lines, i, k) /\ lines[i].value = v
                                   /\ \A h \in (i + 1)..Len(lines) : ~Gives(lines, h, k)
    BY <1>2, <1>3 DEF LastOf
  <1>5. i \in DOMAIN lines
    BY <1>4 DEF Gives
  <1>6. Speaks(d, i, k)
    BY <1>2, <1>4 DEF Speaks, LastGives
  <1> QED
    BY <1>2, <1>4, <1>5, <1>6

(* ... and a line of it that says something is what it contributes.         *)
LEMMA FileSpoken ==
    ASSUME Readable, NEW d \in 1..Depth, NEW k \in FormatKeys, NEW i, Speaks(d, i, k)
    PROVE  FileValue(d, k) = editorconfig[d][i].value
  <1> DEFINE lines == editorconfig[d]
             v == FormatForFile(lines)[k]
  <1>1. lines \in Seq(Lines)
    BY DEF Readable
  <1>2. d \in EditorConfigFiles /\ FileValue(d, k) = v
    BY DEF FileValue, Speaks
  <1>3. LastOf(lines, Len(lines), k, v)
    BY <1>1, FileGives
  <1>4. LastGives(lines, i, k)
    BY DEF Speaks
  <1> HIDE DEF v
  <1>5. i \in 1..Len(lines) /\ Len(lines) \in Nat
    BY <1>1, <1>4 DEF LastGives, Gives
  <1>6. ~\A j \in 1..Len(lines) : ~Gives(lines, j, k)
    BY <1>4, <1>5 DEF LastGives
  <1>7. PICK j \in 1..Len(lines) : /\ Gives(lines, j, k) /\ lines[j].value = v
                                   /\ \A h \in (j + 1)..Len(lines) : ~Gives(lines, h, k)
    BY <1>3, <1>6 DEF LastOf
  <1>8. ~(i < j) /\ ~(j < i)
    <2>1. i < j => j \in (i + 1)..Len(lines)
      BY <1>5, <1>7
    <2>2. j < i => i \in (j + 1)..Len(lines)
      BY <1>5, <1>7
    <2> QED
      BY <1>4, <1>7, <2>1, <2>2 DEF LastGives
  <1>9. i = j
    BY <1>5, <1>8
  <1> QED
    BY <1>2, <1>7, <1>9

-----------------------------------------------------------------------------
(* From directory a outwards the nearest value counts.                     *)
NearestFrom(a, k, v) ==
    \/ v = NoFormat[k] /\ \A d \in a..Depth : FileValue(d, k) = NoFormat[k]
    \/ \E d \in a..Depth : /\ v = FileValue(d, k) /\ v # NoFormat[k]
                           /\ \A e \in a..(d - 1) : FileValue(e, k) = NoFormat[k]

(* One directory nearer, its own value or what was nearest before it.       *)
LEMMA NearestStep ==
    ASSUME NEW a \in 2..(Depth + 1), NEW k, NEW v, NEW w, NearestFrom(a, k, v),
           w = IF FileValue(a - 1, k) # NoFormat[k] THEN FileValue(a - 1, k) ELSE v
    PROVE  NearestFrom(a - 1, k, w)
  <1>1. /\ a \in Int /\ Depth \in Nat /\ a - 1 \in (a - 1)..Depth
        /\ \A d \in (a - 1)..Depth : d = a - 1 \/ d \in a..Depth
        /\ (a - 1)..((a - 1) - 1) = {}
    BY BoundsAssumption
  <1>2. CASE FileValue(a - 1, k) # NoFormat[k]
    <2>1. \A e \in (a - 1)..((a - 1) - 1) : FileValue(e, k) = NoFormat[k]
      BY <1>1
    <2> QED
      BY <1>1, <1>2, <2>1 DEF NearestFrom
  <1>3. CASE FileValue(a - 1, k) = NoFormat[k]
    <2>1. CASE v = NoFormat[k] /\ \A d \in a..Depth : FileValue(d, k) = NoFormat[k]
      <3>1. \A d \in (a - 1)..Depth : FileValue(d, k) = NoFormat[k]
        BY <1>1, <1>3, <2>1
      <3> QED
        BY <1>3, <2>1, <3>1 DEF NearestFrom
    <2>2. ASSUME NEW d \in a..Depth, v = FileValue(d, k), v # NoFormat[k],
                 \A e \in a..(d - 1) : FileValue(e, k) = NoFormat[k]
          PROVE  NearestFrom(a - 1, k, w)
      <3>1. d \in (a - 1)..Depth /\ \A e \in (a - 1)..(d - 1) : e = a - 1 \/ e \in a..(d - 1)
        BY <1>1
      <3>2. \A e \in (a - 1)..(d - 1) : FileValue(e, k) = NoFormat[k]
        BY <1>3, <2>2, <3>1
      <3> QED
        BY <1>3, <2>2, <3>1, <3>2 DEF NearestFrom
    <2> QED
      BY <2>1, <2>2 DEF NearestFrom
  <1> QED
    BY <1>2, <1>3

(* One directory of the loop of editorConfigIndent.                         *)
Applied(f, d) == IF d \in EditorConfigFiles THEN Apply(f, FormatForFile(editorconfig[d])) ELSE f

(* It keeps to formats ...                                                  *)
LEMMA AppliedIs ==
    ASSUME Readable, NEW d \in 1..Depth, NEW f \in Formats
    PROVE  Applied(f, d) \in Formats
  <1>1. FormatForFile(editorconfig[d]) \in Formats
    BY FormatIs DEF Readable
  <1>2. ASSUME NEW g \in Formats PROVE Apply(f, g) \in Formats
    BY NoFormatKeys DEF Apply, Formats
  <1> QED
    BY <1>1, <1>2 DEF Applied

(* ... and lets the nearer directory win, key by key.                       *)
LEMMA AppliedKey ==
    ASSUME NEW d, NEW f, NEW k \in FormatKeys
    PROVE  Applied(f, d)[k] = IF FileValue(d, k) # NoFormat[k] THEN FileValue(d, k) ELSE f[k]
  <1>1. CASE d \in EditorConfigFiles
    BY <1>1, NoFormatKeys DEF Applied, Apply, FileValue
  <1>2. CASE d \notin EditorConfigFiles
    BY <1>2 DEF Applied, FileValue
  <1> QED
    BY <1>1, <1>2

(* The files applied from the outermost directory inwards.                  *)
LEMMA FormatLoop ==
    ASSUME Readable
    PROVE  \E cfg \in [0..Depth -> Formats] :
              /\ EditorConfigFormat = cfg[Depth]
              /\ \A n \in 0..Depth :
                    cfg[n] = IF n = 0 THEN NoFormat ELSE Applied(cfg[n - 1], Depth + 1 - n)
  <1> DEFINE step == [p \in (1..Depth) \X Formats |-> Applied(p[2], Depth + 1 - p[1])]
             cfg[n \in 0..Depth] ==
                IF n = 0 THEN NoFormat
                ELSE IF Depth + 1 - n \in EditorConfigFiles
                     THEN Apply(cfg[n - 1], FormatForFile(editorconfig[Depth + 1 - n]))
                     ELSE cfg[n - 1]
  <1>1. Depth \in Nat
    BY BoundsAssumption
  <1>2. ASSUME NEW n \in 1..Depth, NEW f \in Formats
        PROVE  step[<<n, f>>] = Applied(f, Depth + 1 - n) /\ Applied(f, Depth + 1 - n) \in Formats
    <2>1. step[<<n, f>>] = Applied(f, Depth + 1 - n)
      OBVIOUS
    <2>2. Depth + 1 - n \in 1..Depth
      BY <1>1
    <2> HIDE DEF step, cfg
    <2> QED
      BY <2>1, <2>2, AppliedIs
  <1>3. PICK f \in [0..Depth -> Formats] : Carries(f, Depth, NoFormat, step)
    <2> HIDE DEF step, cfg
    <2>1. Closed(Formats, Depth, NoFormat, step)
      BY <1>2, NoFormatIs DEF Closed
    <2> QED
      BY <1>1, <2>1, Carried
  <1>4. ASSUME NEW n \in 0..Depth
        PROVE  f[n] = IF n = 0 THEN NoFormat ELSE Applied(f[n - 1], Depth + 1 - n)
    <2>1. CASE n = 0
      BY <1>3, <2>1 DEF Carries
    <2>2. CASE n # 0
      <3>1. n \in 1..Depth /\ n - 1 \in 0..Depth
        BY <1>1, <2>2
      <3>2. f[n - 1] \in Formats
        BY <1>3, <3>1
      <3> HIDE DEF step, cfg
      <3> QED
        BY <1>2, <1>3, <2>2, <3>1, <3>2 DEF Carries
    <2> HIDE DEF step, cfg
    <2> QED
      BY <2>1, <2>2
  <1>5. f = [n \in 0..Depth |->
                IF n = 0 THEN NoFormat
                ELSE IF Depth + 1 - n \in EditorConfigFiles
                     THEN Apply(f[n - 1], FormatForFile(editorconfig[Depth + 1 - n]))
                     ELSE f[n - 1]]
    <2> HIDE DEF step, cfg
    <2> QED
      BY <1>3, <1>4 DEF Applied
  <1>6. cfg = [n \in 0..Depth |->
                IF n = 0 THEN NoFormat
                ELSE IF Depth + 1 - n \in EditorConfigFiles
                     THEN Apply(cfg[n - 1], FormatForFile(editorconfig[Depth + 1 - n]))
                     ELSE cfg[n - 1]]
    <2> HIDE DEF step
    <2> QED
      BY <1>5
  <1>7. ASSUME NEW n \in 0..Depth
        PROVE  cfg[n] = IF n = 0 THEN NoFormat ELSE Applied(cfg[n - 1], Depth + 1 - n)
    <2> HIDE DEF step
    <2> QED
      BY <1>6 DEF Applied
  <1>8. EditorConfigFormat = cfg[Depth]
    BY DEF EditorConfigFormat
  <1>9. DOMAIN cfg = 0..Depth
    <2> HIDE DEF step
    <2> QED
      BY <1>6
  <1> HIDE DEF step
  <1>10. \A n \in 0..Depth : cfg[n] \in Formats
    <2> DEFINE P == {n \in 0..Depth : cfg[n] \in Formats}
    <2> HIDE DEF cfg
    <2>1. 0 <= Depth => 0 \in P
      BY <1>1, <1>7, NoFormatIs
    <2>2. ASSUME NEW n \in 0..(Depth - 1), n \in P PROVE n + 1 \in P
      <3>1. n + 1 \in 0..Depth /\ n + 1 # 0 /\ (n + 1) - 1 = n /\ Depth + 1 - (n + 1) \in 1..Depth
        BY <1>1
      <3>2. cfg[n + 1] = Applied(cfg[n], Depth + 1 - (n + 1))
        BY <1>7, <3>1
      <3> QED
        BY <2>2, <3>1, <3>2, AppliedIs
    <2>3. Upward(0, Depth, P)
      <3> HIDE DEF P
      <3> QED
        BY <2>1, <2>2 DEF Upward
    <2>4. 0..Depth \subseteq P
      <3> HIDE DEF P
      <3>1. Depth \in Int /\ 0 \in Int
        BY <1>1
      <3> QED
        BY <2>3, <3>1, UpwardInduction
    <2> QED
      BY <2>4
  <1>11. cfg \in [0..Depth -> Formats]
    <2>1. cfg = [n \in DOMAIN cfg |-> cfg[n]]
      BY <1>6, <1>9
    <2> HIDE DEF cfg
    <2> QED
      BY <1>9, <1>10, <2>1
  <1> HIDE DEF cfg
  <1>12. /\ EditorConfigFormat = cfg[Depth]
         /\ \A n \in 0..Depth :
               cfg[n] = IF n = 0 THEN NoFormat ELSE Applied(cfg[n - 1], Depth + 1 - n)
    BY <1>7, <1>8
  <1> QED
    BY <1>11, <1>12

(* The loop ends with the nearest value of each key.                        *)
LEMMA FormatNearest ==
    ASSUME Readable, NEW k \in FormatKeys
    PROVE  NearestFrom(1, k, EditorConfigFormat[k])
  <1>1. PICK cfg \in [0..Depth -> Formats] :
              /\ EditorConfigFormat = cfg[Depth]
              /\ \A n \in 0..Depth :
                    cfg[n] = IF n = 0 THEN NoFormat ELSE Applied(cfg[n - 1], Depth + 1 - n)
    BY FormatLoop
  <1> DEFINE P == {n \in 0..Depth : NearestFrom(Depth + 1 - n, k, cfg[n][k])}
  <1>2. Depth \in Nat
    BY BoundsAssumption
  <1>3. 0 <= Depth => 0 \in P
    <2>1. 0 \in 0..Depth /\ cfg[0] = NoFormat /\ (Depth + 1 - 0)..Depth = {}
      BY <1>1, <1>2
    <2>2. NearestFrom(Depth + 1 - 0, k, NoFormat[k])
      BY <2>1 DEF NearestFrom
    <2> QED
      BY <2>1, <2>2
  <1>4. ASSUME NEW n \in 0..(Depth - 1), n \in P PROVE n + 1 \in P
    <2> DEFINE a == Depth + 1 - n
    <2>1. n + 1 \in 0..Depth /\ n + 1 # 0 /\ (n + 1) - 1 = n /\ a \in 2..(Depth + 1)
             /\ Depth + 1 - (n + 1) = a - 1
      BY <1>2
    <2>2. cfg[n + 1] = Applied(cfg[n], a - 1)
      <3> HIDE DEF P, a
      <3> QED
        BY <1>1, <2>1
    <2>3. NearestFrom(a, k, cfg[n][k])
      BY <1>4
    <2> HIDE DEF P, a
    <2>4. cfg[n + 1][k] =
            IF FileValue(a - 1, k) # NoFormat[k] THEN FileValue(a - 1, k) ELSE cfg[n][k]
      BY <2>2, AppliedKey
    <2>5. NearestFrom(a - 1, k, cfg[n + 1][k])
      BY <2>1, <2>3, <2>4, NearestStep
    <2>6. NearestFrom(Depth + 1 - (n + 1), k, cfg[n + 1][k])
      BY <2>1, <2>5
    <2> QED
      BY <2>1, <2>6 DEF P
  <1>5. 0..Depth \subseteq P
    <2> HIDE DEF P
    <2>1. Upward(0, Depth, P)
      BY <1>3, <1>4 DEF Upward
    <2>2. Depth \in Int /\ 0 \in Int
      BY <1>2
    <2> QED
      BY <2>1, <2>2, UpwardInduction
  <1>6. Depth \in P /\ Depth + 1 - Depth = 1
    BY <1>2, <1>5
  <1>7. NearestFrom(Depth + 1 - Depth, k, cfg[Depth][k])
    BY <1>6
  <1> QED
    BY <1>1, <1>6, <1>7
-----------------------------------------------------------------------------
(* What the properties call said is what the loops have computed.          *)
LEMMA SaidIsNearest ==
    ASSUME Readable, NEW k \in FormatKeys, NEW v, Said(k, v)
    PROVE  EditorConfigFormat[k] = v /\ v # NoFormat[k]
  <1>1. PICK d \in 1..Depth : \E i \in DOMAIN editorconfig[d] :
            Counts(d, i, k) /\ editorconfig[d][i].value = v
    BY DEF Said
  <1>2. PICK i \in DOMAIN editorconfig[d] : Counts(d, i, k) /\ editorconfig[d][i].value = v
    BY <1>1
  <1>3. FileValue(d, k) = v /\ v # NoFormat[k]
    <2>1. Speaks(d, i, k)
      BY <1>2 DEF Counts
    <2> QED
      BY <1>2, <2>1, FileSpoken DEF Speaks
  <1>4. ASSUME NEW e \in 1..(d - 1) PROVE FileValue(e, k) = NoFormat[k]
    <2>1. e \in 1..Depth
      BY BoundsAssumption
    <2>2. \A j \in DOMAIN editorconfig[e] : ~Speaks(e, j, k)
      BY <1>2 DEF Counts
    <2> QED
      BY <2>1, <2>2, FileSpeaks
  <1>5. NearestFrom(1, k, EditorConfigFormat[k])
    BY FormatNearest
  <1>6. PICK e \in 1..Depth : /\ EditorConfigFormat[k] = FileValue(e, k)
                              /\ EditorConfigFormat[k] # NoFormat[k]
                              /\ \A g \in 1..(e - 1) : FileValue(g, k) = NoFormat[k]
    BY <1>3, <1>5 DEF NearestFrom
  <1>7. ~(d < e) /\ ~(e < d)
    <2>1. (d < e => d \in 1..(e - 1)) /\ (e < d => e \in 1..(d - 1))
      BY BoundsAssumption
    <2> QED
      BY <1>3, <1>4, <1>6, <2>1
  <1>8. d = e
    BY <1>7, BoundsAssumption
  <1> QED
    BY <1>3, <1>6, <1>8

(* ... and nothing it has computed goes unsaid.                             *)
LEMMA NearestIsSaid ==
    ASSUME Readable, NEW k \in FormatKeys, EditorConfigFormat[k] # NoFormat[k]
    PROVE  Said(k, EditorConfigFormat[k])
  <1>1. NearestFrom(1, k, EditorConfigFormat[k])
    BY FormatNearest
  <1>2. PICK d \in 1..Depth : /\ EditorConfigFormat[k] = FileValue(d, k)
                              /\ \A g \in 1..(d - 1) : FileValue(g, k) = NoFormat[k]
    BY <1>1 DEF NearestFrom
  <1>3. PICK i \in DOMAIN editorconfig[d] :
            Speaks(d, i, k) /\ editorconfig[d][i].value = FileValue(d, k)
    BY <1>2, FileSpeaks
  <1>4. ASSUME NEW e \in 1..(d - 1), NEW j \in DOMAIN editorconfig[e], Speaks(e, j, k)
        PROVE  FALSE
    <2>1. e \in 1..Depth
      BY BoundsAssumption
    <2>2. FileValue(e, k) = editorconfig[e][j].value
      BY <1>4, <2>1, FileSpoken
    <2> QED
      BY <1>2, <1>4, <2>2 DEF Speaks
  <1>5. Counts(d, i, k)
    BY <1>3, <1>4 DEF Counts
  <1> QED
    BY <1>2, <1>3, <1>5 DEF Said

(* The loop computes a format.                                              *)
LEMMA FormatRange ==
    ASSUME Readable
    PROVE  EditorConfigFormat \in Formats
  <1>1. PICK cfg \in [0..Depth -> Formats] : EditorConfigFormat = cfg[Depth]
    BY FormatLoop
  <1>2. Depth \in 0..Depth
    BY BoundsAssumption
  <1> QED
    BY <1>1, <1>2

(* If the size computed is no number of spaces, none was said.              *)
LEMMA NoSizeIs ==
    ASSUME Readable, ~(EditorConfigFormat["size"] > 0)
    PROVE  NoSize
  <1> SUFFICES ASSUME NEW d \in 1..Depth, NEW i \in DOMAIN editorconfig[d], Counts(d, i, "size")
               PROVE  editorconfig[d][i].value <= 0
    BY DEF NoSize
  <1>1. Said("size", editorconfig[d][i].value) /\ "size" \in FormatKeys
    BY DEF Said, FormatKeys
  <1>2. EditorConfigFormat["size"] = editorconfig[d][i].value
    BY <1>1, SaidIsNearest
  <1>3. EditorConfigFormat["size"] \in Int
    BY <1>1, FormatRange DEF Formats, ValuesFor
  <1> QED
    BY <1>2, <1>3

(* What a request is answered with, as far as .editorconfig decides it.     *)
LEMMA IndentIs ==
    ASSUME Readable, NEW opts, settings.formatIndentSpaces = NoIndent
    PROVE  \/ Said("style", "tab") /\ Indent(opts) = 0
           \/ Said("style", "space") /\ Indent(opts) > 0 /\ Said("size", Indent(opts))
           \/ /\ ~Said("style", "tab")
              /\ Said("style", "space") => NoSize
              /\ Indent(opts) = OptionsIndent(opts)
  <1> DEFINE style == EditorConfigFormat["style"]
             size == EditorConfigFormat["size"]
  <1>1. NoFormat["style"] = "" /\ NoFormat["size"] = 0
    BY DEF NoFormat
  <1>2. "style" \in FormatKeys /\ "size" \in FormatKeys
    BY DEF FormatKeys
  <1>3. size \in Int
    BY <1>2, FormatRange DEF Formats, ValuesFor
  <1>4. EditorConfigIndent = IF style = "tab" THEN 0
                             ELSE IF style = "space" /\ size > 0 THEN size ELSE NoIndent
    BY DEF EditorConfigIndent
  <1>5. Indent(opts) = IF EditorConfigIndent # NoIndent THEN EditorConfigIndent
                                                        ELSE OptionsIndent(opts)
    BY DEF Indent
  <1>6. \A v : Said("style", v) => style = v
    BY <1>2, SaidIsNearest
  <1>7. style # "" => Said("style", style)
    BY <1>1, <1>2, NearestIsSaid
  <1>8. size # 0 => Said("size", size)
    BY <1>1, <1>2, NearestIsSaid
  <1>9. ~(size > 0) => NoSize
    BY NoSizeIs
  <1> HIDE DEF style, size
  <1>10. CASE style = "tab"
    <2>1. Indent(opts) = 0
      BY <1>4, <1>5, <1>10 DEF NoIndent
    <2>2. Said("style", "tab")
      BY <1>7, <1>10
    <2> QED
      BY <2>1, <2>2
  <1>11. CASE style = "space" /\ size > 0
    <2>1. Indent(opts) = size /\ size # 0
      BY <1>3, <1>4, <1>5, <1>11 DEF NoIndent
    <2>2. Said("style", "space") /\ Said("size", size)
      BY <1>7, <1>8, <1>11, <2>1
    <2> QED
      BY <1>11, <2>1, <2>2
  <1>12. CASE style # "tab" /\ ~(style = "space" /\ size > 0)
    <2>1. Indent(opts) = OptionsIndent(opts)
      BY <1>4, <1>5, <1>12
    <2>2. ~Said("style", "tab")
      BY <1>6, <1>12
    <2>3. Said("style", "space") => NoSize
      BY <1>6, <1>9, <1>12
    <2> QED
      BY <2>1, <2>2, <2>3
  <1> QED
    BY <1>10, <1>11, <1>12

-----------------------------------------------------------------------------
(* An answer is the indent the settings, the files and its options give     *)
(* now: whatever changes the first two takes the answer away.              *)
AnswerCurrent == answer.is = "edit" => answer.indent = Indent(answer.opts)

(* Every step keeps an answer current.                                      *)
LEMMA AnswerNext == AnswerCurrent /\ [Next]_vars => AnswerCurrent'
  <1> SUFFICES ASSUME AnswerCurrent, [Next]_vars PROVE AnswerCurrent'
    OBVIOUS
  <1>1. ASSUME NEW opts \in Options, NEW clean \in BOOLEAN, FormatDocument(opts, clean)
        PROVE  AnswerCurrent'
    <2>1. UNCHANGED <<settings, editorconfig>>
      BY <1>1 DEF FormatDocument
    <2>2. \A o : Indent(o)' = Indent(o)
      BY <2>1 DEF Indent, EditorConfigIndent, EditorConfigFormat, EditorConfigFiles
    <2>3. CASE clean
      <3>1. answer' = [is |-> "edit", indent |-> Indent(opts), opts |-> opts]
        BY <1>1, <2>3 DEF FormatDocument
      <3> QED
        BY <2>2, <3>1 DEF AnswerCurrent
    <2>4. CASE ~clean
      <3>1. answer' = [is |-> "no edit"]
        BY <1>1, <2>4 DEF FormatDocument
      <3> QED
        BY <3>1 DEF AnswerCurrent
    <2> QED
      BY <2>3, <2>4
  <1>2. ASSUME answer' = NoAnswer PROVE AnswerCurrent'
    BY <1>2 DEF AnswerCurrent, NoAnswer
  <1>3. CASE UNCHANGED vars
    <2>1. UNCHANGED <<settings, editorconfig, answer>>
      BY <1>3 DEF vars
    <2>2. \A o : Indent(o)' = Indent(o)
      BY <2>1 DEF Indent, EditorConfigIndent, EditorConfigFormat, EditorConfigFiles
    <2> QED
      BY <2>1, <2>2 DEF AnswerCurrent
  <1> QED
    BY <1>1, <1>2, <1>3 DEF Next, HandleDidChangeConfiguration, Write

(* A clean document is formatted with the client's indent, else with what   *)
(* the nearest .editorconfig line about it says, for any number of         *)
(* directories and any files, else with the request's options              *)
(* (formatDocument, editorConfigIndent).                                   *)
THEOREM IndentFromNearest == Spec => []IndentExplained
  <1>1. Init => AnswerCurrent
    BY DEF Init, AnswerCurrent, NoAnswer
  <1>2. TypeOK /\ AnswerCurrent => IndentExplained
    <2> SUFFICES ASSUME TypeOK, AnswerCurrent, answer.is = "edit"
                 PROVE  IF settings.formatIndentSpaces # NoIndent
                        THEN answer.indent = settings.formatIndentSpaces
                        ELSE \/ Said("style", "tab") /\ answer.indent = 0
                             \/ Said("style", "space") /\ answer.indent > 0 /\ Said("size", answer.indent)
                             \/ /\ ~Said("style", "tab")
                                /\ Said("style", "space") => NoSize
                                /\ answer.indent = OptionsIndent(answer.opts)
      BY DEF IndentExplained
    <2>1. Readable
      <3>1. <<>> \in Seq(Lines)
        OBVIOUS
      <3>2. \A s \in Files \cup {<<>>} : s \in Seq(Lines)
        <4> HIDE DEF Lines
        <4> QED
          BY <3>1, FilesAssumption
      <3> QED
        BY <3>2 DEF TypeOK, Readable
    <2>2. answer.indent = Indent(answer.opts)
      BY DEF AnswerCurrent
    <2>3. CASE settings.formatIndentSpaces # NoIndent
      BY <2>2, <2>3 DEF Indent
    <2>4. CASE settings.formatIndentSpaces = NoIndent
      BY <2>1, <2>2, <2>4, IndentIs
    <2> QED
      BY <2>3, <2>4
  <1> QED
    BY <1>1, <1>2, AnswerNext, TypeCorrect, PTL DEF Spec
=============================================================================
