----------------------------- MODULE Formatting -----------------------------
(***************************************************************************)
(* Which indent a document is formatted with: the settings the client has  *)
(* merged message by message (configuration.go), the .editorconfig files   *)
(* from the document's directory upwards (editorconfig.go) and the options *)
(* of the request (formatting.go).                                         *)
(*                                                                         *)
(* A JSON value is told apart as absent, null, of the wrong type ("bad"),  *)
(* or a value; a list of arguments is "none" or the name of a list; a nil  *)
(* indent is NoIndent.                                                     *)
(***************************************************************************)
EXTENDS Integers, Sequences

CONSTANTS
    Paths,     \* the values of shellcheckPath
    Lists,     \* the lists of arguments
    Objects,   \* the settings objects a client sends
    Files,     \* the contents an .editorconfig file may have
    Depth,     \* number of directories from the document's (1) to the root
    MaxChanges \* bound: didChangeConfiguration messages

Absent == [is |-> "absent"]
Null == [is |-> "null"]
Bad == [is |-> "bad"]
Value(v) == [is |-> "value", v |-> v]

Keys == {"shellcheckPath", "shellcheckArguments", "formatIndentSpaces", "workspaceScanEnabled"}
NoIndent == -1

(* The values each key may take in an object; the program never sees others. *)
ValuesOf == [shellcheckPath |-> Paths, shellcheckArguments |-> Lists,
             formatIndentSpaces |-> Nat, workspaceScanEnabled |-> BOOLEAN]

Empty == [k \in Keys |-> Absent]

ASSUME DefaultsAssumption == "shellcheck" \in Paths /\ "none" \in Lists
ASSUME ObjectsAssumption ==
    \A o \in Objects : DOMAIN o = Keys /\ \A k \in Keys :
        o[k].is \in {"absent", "null", "bad", "value"}
            /\ (o[k].is = "value" => o[k] = Value(o[k].v) /\ o[k].v \in ValuesOf[k])
ASSUME BoundsAssumption == Depth \in Nat \ {0} /\ MaxChanges \in Nat

VARIABLES
    settings,     \* s.settings
    editorconfig, \* the disk: content of the file of each directory
    answer,       \* the last answer of textDocument/formatting
    history       \* the messages so far; only properties read it

vars == <<settings, editorconfig, answer, history>>
-----------------------------------------------------------------------------
(* configuration.go *)

DefaultSettings == [shellcheckPath |-> "shellcheck", shellcheckArguments |-> "none",
                    formatIndentSpaces |-> NoIndent, workspaceScanEnabled |-> TRUE]

(* What null does to the values that are decoded by hand: the list becomes  *)
(* empty, and the number stays at 0, which is an indent of tabs.            *)
NullValue == [shellcheckArguments |-> "none", formatIndentSpaces |-> 0]

(* Mutants of ApplyObject: null unsets the indent; a number of the wrong    *)
(* sign is taken.                                                           *)
ApplyObject_NullUnsets(o, s) ==
    IF o.shellcheckPath = Bad \/ o.workspaceScanEnabled = Bad THEN s
    ELSE [k \in Keys |-> CASE o[k].is = "value" -> o[k].v
                           [] o[k] = Null /\ k = "formatIndentSpaces" -> NoIndent
                           [] o[k] = Null /\ k = "shellcheckArguments" -> NullValue[k]
                           [] OTHER -> s[k]]

ApplyObject_Negative(o, s) ==
    IF o.shellcheckPath = Bad \/ o.workspaceScanEnabled = Bad THEN s
    ELSE [k \in Keys |-> CASE o[k].is = "value" -> o[k].v
                           [] o[k] = Null /\ k \in DOMAIN NullValue -> NullValue[k]
                           [] o[k] = Bad /\ k = "formatIndentSpaces" -> -2
                           [] OTHER -> s[k]]

(* One bad value among those the decoder checks drops the whole object; a   *)
(* bad list or number leaves only its own setting as it was.                *)
ApplyObject(o, s) ==
    IF o.shellcheckPath = Bad \/ o.workspaceScanEnabled = Bad THEN s
    ELSE [k \in Keys |-> CASE o[k].is = "value" -> o[k].v
                           [] o[k] = Null /\ k \in DOMAIN NullValue -> NullValue[k]
                           [] OTHER -> s[k]]

(* A mutant of ParseSettings: the keys at the top come last.                *)
ParseSettings_NestedFirst(m, s) == ApplyObject(m.flat, ApplyObject(m.nested, s))

(* The keys at the top, then those under bashIde.                           *)
ParseSettings(m, s) == ApplyObject(m.nested, ApplyObject(m.flat, s))
-----------------------------------------------------------------------------
(* editorconfig.go.  A line is a section header, which matches the document *)
(* or not, or gives one of the three keys that matter its value; an absent  *)
(* file is <<>>.  A size that is no positive number is -1, an empty one 0.  *)

Styles == {"", "tab", "space", "unset"}
Lines ==
    [is : {"section"}, matches : BOOLEAN] \cup [is : {"root"}, stop : BOOLEAN]
        \cup [is : {"style"}, value : Styles] \cup [is : {"size"}, value : Int]

ASSUME FilesAssumption == Files \subseteq Seq(Lines)

(* The first root key of the file counts, in whichever section it stands.   *)
EditorConfigRoot(lines) ==
    \E i \in DOMAIN lines :
        lines[i] = [is |-> "root", stop |-> TRUE] /\ \A h \in 1..(i - 1) : lines[h].is # "root"

EditorConfigFiles == {d \in 1..Depth : \A e \in 1..(d - 1) : ~EditorConfigRoot(editorconfig[e])}

NoFormat == [style |-> "", size |-> 0]

Read(acc, l) ==
    IF l.is = "section" THEN [acc EXCEPT !.matches = l.matches]
    ELSE IF l.is \in DOMAIN NoFormat /\ acc.matches THEN [acc EXCEPT !.format[l.is] = l.value]
    ELSE acc

FormatForFile(lines) ==
    LET read[i \in 0..Len(lines)] ==
            IF i = 0 THEN [matches |-> FALSE, format |-> NoFormat]
            ELSE Read(read[i - 1], lines[i])
    IN  read[Len(lines)].format

(* A mutant of Apply: what an outer directory has set stays.                *)
Apply_OuterStays(cfg, next) ==
    [k \in DOMAIN NoFormat |-> IF cfg[k] # NoFormat[k] THEN cfg[k] ELSE next[k]]

Apply(cfg, next) ==
    [k \in DOMAIN NoFormat |-> IF next[k] # NoFormat[k] THEN next[k] ELSE cfg[k]]

(* The files are applied from the outermost directory to the document's.    *)
EditorConfigFormat ==
    LET cfg[n \in 0..Depth] ==
            IF n = 0 THEN NoFormat
            ELSE IF Depth + 1 - n \in EditorConfigFiles
                 THEN Apply(cfg[n - 1], FormatForFile(editorconfig[Depth + 1 - n]))
                 ELSE cfg[n - 1]
    IN  cfg[Depth]

EditorConfigIndent ==
    LET cfg == EditorConfigFormat
    IN  CASE cfg.style = "tab"                   -> 0
          [] cfg.style = "space" /\ cfg.size > 0 -> cfg.size
          [] OTHER                               -> NoIndent
-----------------------------------------------------------------------------
(* formatting.go *)

NoAnswer == [is |-> "none"]
Options == [insertSpaces : BOOLEAN, tabSize : {0, 8}]

OptionsIndent(opts) ==
    IF opts.insertSpaces THEN IF opts.tabSize = 0 THEN 4 ELSE opts.tabSize ELSE 0

Indent(opts) ==
    IF settings.formatIndentSpaces # NoIndent THEN settings.formatIndentSpaces
    ELSE IF EditorConfigIndent # NoIndent THEN EditorConfigIndent
    ELSE OptionsIndent(opts)

(* A document with a syntax error, or one that is not open, gets no edit.   *)
FormatDocument(opts, clean) ==
    /\ answer = NoAnswer
    /\ answer' = IF clean THEN [is |-> "edit", indent |-> Indent(opts), opts |-> opts]
                          ELSE [is |-> "no edit"]
    /\ UNCHANGED <<settings, editorconfig, history>>

HandleDidChangeConfiguration(m) ==
    /\ Len(history) < MaxChanges
    /\ settings' = ParseSettings(m, settings)
    /\ history' = Append(history, m) /\ answer' = NoAnswer
    /\ UNCHANGED editorconfig

(* Somebody writes or removes an .editorconfig file.                        *)
Write(d, lines) ==
    /\ editorconfig' = [editorconfig EXCEPT ![d] = lines] /\ answer' = NoAnswer
    /\ UNCHANGED <<settings, history>>

Messages == [flat : Objects \cup {Empty}, nested : Objects \cup {Empty}]

Init ==
    /\ settings = DefaultSettings /\ history = <<>>
    /\ editorconfig \in [1..Depth -> {<<>>}]
    /\ answer = NoAnswer

Next ==
    \/ \E opts \in Options, clean \in BOOLEAN : FormatDocument(opts, clean)
    \/ \E m \in Messages : HandleDidChangeConfiguration(m)
    \/ \E d \in 1..Depth, lines \in Files \cup {<<>>} : Write(d, lines)

Spec == Init /\ [][Next]_vars
-----------------------------------------------------------------------------
(* Properties *)

(* Type invariant.                                                          *)
TypeOK ==
    /\ settings.shellcheckPath \in Paths /\ settings.shellcheckArguments \in Lists
    /\ settings.formatIndentSpaces \in Nat \cup {NoIndent}
    /\ settings.workspaceScanEnabled \in BOOLEAN /\ DOMAIN settings = Keys
    /\ editorconfig \in [1..Depth -> Files \cup {<<>>}]
    /\ history \in Seq(Messages) /\ Len(history) <= MaxChanges
    /\ answer.is \in {"none", "edit", "no edit"}

(* The decoder takes the object, and it says something about the key.       *)
Sets(o, k) ==
    /\ o.shellcheckPath # Bad /\ o.workspaceScanEnabled # Bad
    /\ o[k].is = "value" \/ (o[k] = Null /\ k \in DOMAIN NullValue)

SetTo(o, k) == IF o[k].is = "value" THEN o[k].v ELSE NullValue[k]

Mentions(m, k) == Sets(m.flat, k) \/ Sets(m.nested, k)
Mentioned(m, k) == IF Sets(m.nested, k) THEN SetTo(m.nested, k) ELSE SetTo(m.flat, k)

(* Each setting has the value of the last message that set it, bashIde      *)
(* before the top, whatever the messages since then said, validly or not,   *)
(* about other settings; one that was never set has its default.            *)
LastMentionCounts ==
    \A k \in Keys :
        \/ /\ settings[k] = DefaultSettings[k]
           /\ \A i \in DOMAIN history : ~Mentions(history[i], k)
        \/ \E i \in DOMAIN history :
             /\ Mentions(history[i], k) /\ settings[k] = Mentioned(history[i], k)
             /\ \A j \in (i + 1)..Len(history) : ~Mentions(history[j], k)

(* Once the client has set an indent no message takes it back, null          *)
(* included: the .editorconfig files and the options are not asked again.   *)
IndentNeverUnset ==
    [][settings.formatIndentSpaces # NoIndent => settings'.formatIndentSpaces # NoIndent]_vars

(* Line i of a file is about the document: the last section header before   *)
(* it matches.                                                              *)
Concerns(lines, i) ==
    \E h \in 1..i : /\ lines[h] = [is |-> "section", matches |-> TRUE]
                    /\ \A j \in (h + 1)..i : lines[j].is # "section"

(* ... and gives a key its value, the last of its file to do so.            *)
Gives(lines, i, k) == i \in DOMAIN lines /\ lines[i].is = k /\ Concerns(lines, i)
LastGives(lines, i, k) ==
    Gives(lines, i, k) /\ \A j \in (i + 1)..Len(lines) : ~Gives(lines, j, k)

(* The file of a directory has a value, not an empty one, for a key, and no *)
(* nearer file marked root hides it.                                        *)
Speaks(d, i, k) ==
    /\ d \in EditorConfigFiles /\ LastGives(editorconfig[d], i, k)
    /\ editorconfig[d][i].value # NoFormat[k]

(* The nearest such file counts, for each key on its own.                   *)
Counts(d, i, k) ==
    /\ Speaks(d, i, k)
    /\ \A e \in 1..(d - 1) : \A j \in DOMAIN editorconfig[e] : ~Speaks(e, j, k)

Said(k, v) ==
    \E d \in 1..Depth : \E i \in DOMAIN editorconfig[d] :
        Counts(d, i, k) /\ editorconfig[d][i].value = v

(* The size that counts, if any, is no number of spaces.                    *)
NoSize ==
    \A d \in 1..Depth : \A i \in DOMAIN editorconfig[d] :
        Counts(d, i, "size") => editorconfig[d][i].value <= 0

(* A clean document is formatted with the indent the client set, else with  *)
(* what the nearest .editorconfig line about it says, style and size each   *)
(* on its own, else with the request's options.                             *)
IndentExplained ==
    answer.is = "edit" =>
        IF settings.formatIndentSpaces # NoIndent
        THEN answer.indent = settings.formatIndentSpaces
        ELSE \/ Said("style", "tab") /\ answer.indent = 0
             \/ Said("style", "space") /\ answer.indent > 0 /\ Said("size", answer.indent)
             \/ /\ ~Said("style", "tab")
                /\ Said("style", "space") => NoSize
                /\ answer.indent = OptionsIndent(answer.opts)
=============================================================================
