------------------------------ MODULE Positions ------------------------------
(***************************************************************************)
(* How the server and its client speak of places in a text.  The client    *)
(* holds a sequence of characters and counts in the negotiated encoding;   *)
(* the server holds the same text as bytes and works with byte offsets;    *)
(* the parser gives 1-based lines and 1-based byte columns in a limited    *)
(* number of bits; ShellCheck counts code points.  Every conversion        *)
(* between the four is modelled by what it does                            *)
(* (internal/util/lsp/position.go, internal/server/positions.go, the edits *)
(* of completion.go and rename.go, the ranges of diagnostics.go), and the  *)
(* client's own reading of an answer is what they are compared with.       *)
(*                                                                         *)
(* Bytes and characters are reduced to the classes the code tells apart.   *)
(***************************************************************************)
EXTENDS Integers, FiniteSets, FiniteSetsExt, Sequences, SequencesExt

CONSTANTS
    Chars,      \* the classes of characters the client types
    MaxLen,     \* bound on the length of a text, in characters
    LineMax,    \* largest line number a parser position can hold
    ColMax      \* largest column number a parser position can hold

(* The UTF-8 bytes of each class of characters.  "id" is a character of an  *)
(* identifier, "dash" one of a word only, "$" and "{" start an expansion,   *)
(* "sp" is any other ASCII character; "c" is a continuation byte.           *)
Encode ==
    [id |-> <<"id">>, dash |-> <<"dash">>, dollar |-> <<"$">>, brace |-> <<"{">>, sp |-> <<"sp">>,
     nl |-> <<"nl">>, crnl |-> <<"cr", "nl">>,
     two |-> <<"l2", "c">>, three |-> <<"l3", "c", "c">>, four |-> <<"l4", "c", "c", "c">>]

ASSUME CharsAssumption == Chars \subseteq DOMAIN Encode
ASSUME BoundsAssumption == MaxLen \in Nat /\ LineMax \in Nat /\ ColMax \in Nat

VARIABLES
    encoding,   \* the negotiated encoding, "" before initialize is answered
    text,       \* the open document, as the client's characters
    answer      \* the answer on its way to the client, with what it is about

vars == <<encoding, text, answer>>

Bytes(chars) == FlattenSeq([i \in DOMAIN chars |-> Encode[chars[i]]])

Position(line, character) == [line |-> line, character |-> character]
-----------------------------------------------------------------------------
(* position.go: byte offsets (0-based: the byte at offset o is src[o + 1]). *)

IsWordChar(b) == b \in {"id", "dash"}

Newlines(src, off) == Cardinality({i \in 1..off : src[i] = "nl"})

(* The offset at which a 0-based line begins, -1 if there are fewer lines.  *)
LineStart(src, line) ==
    LET starts == {off \in 0..Len(src) : Newlines(src, off) = line}
    IN  IF starts = {} THEN -1 ELSE CHOOSE s \in starts : \A off \in starts : s <= off

(* Length in bytes and in UTF-16 units, told by the lead byte alone.        *)
RuneInfo(b) ==
    CASE b = "l2" -> [size |-> 2, u16 |-> 1]
      [] b = "l3" -> [size |-> 3, u16 |-> 1]
      [] b = "l4" -> [size |-> 4, u16 |-> 2]
      [] OTHER    -> [size |-> 1, u16 |-> 1]

UTF16Len(s) ==
    LET from[i \in Nat] ==
            IF i < Len(s) THEN RuneInfo(s[i + 1]).u16 + from[i + RuneInfo(s[i + 1]).size] ELSE 0
    IN  from[0]

(* Nothing stops the sum at the end of the line.                            *)
OffsetForPositionBytes(src, pos) ==
    LET off == LineStart(src, pos.line) + pos.character
    IN  IF LineStart(src, pos.line) < 0 \/ off > Len(src) THEN -1 ELSE off

(* The walk along a line is at an offset, with so many units behind it.     *)
(* A mutant of OffsetForPosition: it does not stop at the end of the line.  *)
OffsetForPosition_NoBreak(src, pos) ==
    LET walk[at \in Nat \X Nat] ==
            IF at[1] < Len(src) /\ at[2] < pos.character
            THEN walk[<<at[1] + RuneInfo(src[at[1] + 1]).size, at[2] + RuneInfo(src[at[1] + 1]).u16>>]
            ELSE at[1]
    IN  IF LineStart(src, pos.line) < 0 THEN -1 ELSE walk[<<LineStart(src, pos.line), 0>>]

OffsetForPosition(src, pos) ==
    LET walk[at \in Nat \X Nat] ==
            IF at[1] < Len(src) /\ at[2] < pos.character /\ src[at[1] + 1] # "nl"
            THEN walk[<<at[1] + RuneInfo(src[at[1] + 1]).size, at[2] + RuneInfo(src[at[1] + 1]).u16>>]
            ELSE at[1]
    IN  IF LineStart(src, pos.line) < 0 THEN -1 ELSE walk[<<LineStart(src, pos.line), 0>>]

(* The word around an offset, as a span of offsets; empty if there is none. *)
WordAtOffset(src, off) ==
    IF off \notin 0..(Len(src) - 1) \/ ~IsWordChar(src[off + 1])
    THEN [start |-> 0, end |-> 0]
    ELSE [start |-> Min({s \in 0..off : \A i \in (s + 1)..off : IsWordChar(src[i])}),
          end   |-> Max({e \in off..Len(src) : \A i \in (off + 1)..e : IsWordChar(src[i])})]
-----------------------------------------------------------------------------
(* positions.go, under the negotiated encoding.                             *)

OffsetFor(src, pos) ==
    IF encoding = "utf-8" THEN OffsetForPositionBytes(src, pos) ELSE OffsetForPosition(src, pos)

(* Length of a stretch of a line in the units of the encoding.              *)
Units(s) == IF encoding = "utf-8" THEN Len(s) ELSE UTF16Len(s)

(* A mutant of PosForOffset: a line begins at its newline.                  *)
PosForOffset_Newline(src, at) ==
    LET off  == IF at < 0 THEN 0 ELSE IF at > Len(src) THEN Len(src) ELSE at
        line == Newlines(src, off)
    IN  Position(line, Units(SubSeq(src, LineStart(src, line) + (IF line = 0 THEN 1 ELSE 0), off)))

PosForOffset(src, at) ==
    LET off  == IF at < 0 THEN 0 ELSE IF at > Len(src) THEN Len(src) ELSE at
        line == Newlines(src, off)
    IN  Position(line, Units(SubSeq(src, LineStart(src, line) + 1, off)))

(* A position of the syntax tree: line and column that do not fit are 0.    *)
NodePos(src, off) ==
    LET line == Newlines(src, off) + 1
        col  == off - LineStart(src, line - 1) + 1
    IN  [offset |-> off, line |-> IF line > LineMax THEN 0 ELSE line,
         col |-> IF col > ColMax THEN 0 ELSE col]

(* Where the parser ends a name whose last byte is before this offset: at   *)
(* the next rune it keeps.  It has skipped the "\r" of a "\r\n" by then and *)
(* ends the name at the "\n".  (It also skips NUL bytes and the backslashes *)
(* that escape in backquotes, which no class of characters stands for.)     *)
ParsedEnd(src, off) ==
    IF off + 1 < Len(src) /\ src[off + 1] = "cr" /\ src[off + 2] = "nl" THEN off + 1 ELSE off

Panic == Position(-1, -1)

(* Mutants of PosToLSP: the length of the text is not looked at; the column *)
(* is given as it is.                                                       *)
PosToLSP_NoBound(src, p) ==
    LET line  == IF p.line > 0 THEN p.line - 1 ELSE p.line
        col   == IF p.col > 0 THEN p.col - 1 ELSE p.col
        start == p.offset - col
    IN  IF encoding = "utf-8" \/ start < 0 THEN Position(line, col)
        ELSE IF start <= p.offset /\ p.offset <= Len(src)
        THEN Position(line, UTF16Len(SubSeq(src, start + 1, p.offset)))
        ELSE Panic

PosToLSP_Column(src, p) ==
    Position(IF p.line > 0 THEN p.line - 1 ELSE p.line, IF p.col > 0 THEN p.col - 1 ELSE p.col)

(* posToLSP of a position of some tree, with the text at hand now.  A slice *)
(* out of bounds would be a panic.                                          *)
PosToLSP(src, p) ==
    LET line  == IF p.line > 0 THEN p.line - 1 ELSE p.line
        col   == IF p.col > 0 THEN p.col - 1 ELSE p.col
        start == p.offset - col
    IN  IF encoding = "utf-8" \/ start < 0 \/ p.offset > Len(src) THEN Position(line, col)
        ELSE IF start <= p.offset /\ p.offset <= Len(src)
        THEN Position(line, UTF16Len(SubSeq(src, start + 1, p.offset)))
        ELSE Panic
-----------------------------------------------------------------------------
(* completion.go: the prefix that ends at the cursor, and whether only      *)
(* variables may follow.  "#" is no word byte, so the test of the prefix    *)
(* for a comment never succeeds and is left out.                            *)

CompletionStart(src, at) ==
    LET off == IF at > Len(src) THEN Len(src) ELSE at
    IN  Min({s \in 0..off : \A i \in (s + 1)..off : IsWordChar(src[i])})

VariablesOnly(src, start) ==
    \/ start > 0 /\ src[start] = "$"
    \/ start > 1 /\ src[start] = "{" /\ src[start - 1] = "$"
-----------------------------------------------------------------------------
(* diagnostics.go: ShellCheck's 1-based lines and code points.              *)

(* The offset after so many code points of a line; -1 past its end.         *)
CodePointOffset(src, line, points) ==
    LET start == LineStart(src, line)
        fits  == {off \in start..Len(src) :
                    /\ Newlines(src, off) = line
                    /\ off = Len(src) \/ src[off + 1] # "c"
                    /\ Cardinality({i \in (start + 1)..off : src[i] # "c"}) = points}
    IN  IF start < 0 \/ fits = {} THEN -1 ELSE Min(fits)

(* A mutant of ShellCheckPosition: code points are taken for units.         *)
ShellCheckPosition_Points(src, line, column) ==
    Position(IF line <= 0 THEN 0 ELSE line - 1, IF column <= 0 THEN 0 ELSE column - 1)

ShellCheckPosition(src, line, column) ==
    LET l   == IF line <= 0 THEN 0 ELSE line - 1
        c   == IF column <= 0 THEN 0 ELSE column - 1
        off == CodePointOffset(src, l, c)
    IN  Position(l, IF off < 0 THEN c ELSE Units(SubSeq(src, LineStart(src, l) + 1, off)))

Before(p, q) == p.line < q.line \/ (p.line = q.line /\ p.character < q.character)

ShellCheckSourceRange(src, line, column, endLine, endColumn) ==
    LET start == ShellCheckPosition(src, line, column)
        end   == ShellCheckPosition(src, IF endLine <= 0 THEN line ELSE endLine,
                                         IF endColumn <= 0 THEN column + 1 ELSE endColumn)
    IN  [start |-> start, end |-> IF Before(end, start) THEN start ELSE end]
-----------------------------------------------------------------------------
(* The client's own reading of a place k between two characters of its      *)
(* text (vendored protocol/basic.go: line ends are not counted, a character *)
(* or a line too large stands for the end of the line or of the document).  *)

Width(c) ==
    IF c \in {"nl", "crnl"} THEN 0
    ELSE IF encoding = "utf-8" THEN Len(Encode[c])
    ELSE IF c = "four" THEN 2 ELSE 1

ClientPosition(chars, k) ==
    LET ends == {i \in 1..k : chars[i] \in {"nl", "crnl"}}
        from == IF ends = {} THEN 0 ELSE Max(ends)
        sum[i \in from..Len(chars)] == IF i = from THEN 0 ELSE Width(chars[i]) + sum[i - 1]
    IN  Position(Cardinality(ends), sum[k])

ClientPlace(chars, pos) ==
    LET last == ClientPosition(chars, Len(chars)).line
        line == IF pos.line > last THEN last ELSE pos.line
        here == {k \in 0..Len(chars) : ClientPosition(chars, k).line = line}
        fits == {k \in here : ClientPosition(chars, k).character <= pos.character}
    IN  IF pos.line > last THEN Len(chars) ELSE Max(fits)

ByteOffset(chars, k) == Len(Bytes(SubSeq(chars, 1, k)))

(* The position lies on the client's text, between two of its characters.   *)
InText(chars, pos) == ClientPosition(chars, ClientPlace(chars, pos)) = pos

(* The bytes a range covers when the client reads it.                       *)
ClientSpan(chars, range) ==
    [start |-> ByteOffset(chars, ClientPlace(chars, range.start)),
     end   |-> ByteOffset(chars, ClientPlace(chars, range.end))]

Exact(chars, range) == InText(chars, range.start) /\ InText(chars, range.end)

(* Where a client puts its cursor: anywhere in the text, and one or two     *)
(* units past the end of a line and of the document.                        *)
Cursors(chars) ==
    {Position(l, c) : l \in 0..(ClientPosition(chars, Len(chars)).line + 1),
                      c \in 0..(Units(Bytes(chars)) + 2)}
-----------------------------------------------------------------------------
NoAnswer == [kind |-> "none"]

Init == encoding = "" /\ text = <<>> /\ answer = NoAnswer

(* A mutant of PickPositionEncoding: whatever the client offers is taken.   *)
PickPositionEncoding_Any(offers) ==
    IF offers = {} THEN "utf-16" ELSE CHOOSE e \in offers : TRUE

(* initialize: utf-8 if the client offers it, utf-16 else.                  *)
PickPositionEncoding(offers) == IF "utf-8" \in offers THEN "utf-8" ELSE "utf-16"

Initialize(offers) ==
    /\ encoding = ""
    /\ encoding' = PickPositionEncoding(offers)
    /\ UNCHANGED <<text, answer>>

(* didOpen with an empty text, then didChange with the whole text.          *)
DidChange(c) ==
    /\ encoding # "" /\ Len(text) < MaxLen
    /\ text' = Append(text, c) /\ answer' = NoAnswer
    /\ UNCHANGED encoding

Ask == encoding # "" /\ answer = NoAnswer /\ UNCHANGED <<encoding, text>>

Completion(pos) ==
    LET src == Bytes(text)
        off == OffsetFor(src, pos)
        start == CompletionStart(src, off)
    IN  /\ Ask /\ off >= 0
        /\ answer' = [kind |-> "completion", pos |-> pos, off |-> off, varsOnly |-> VariablesOnly(src, start),
                      prefix |-> SubSeq(src, start + 1, off),
                      edit |-> [start |-> PosForOffset(src, start), end |-> pos]]

(* isValidIdentifier of a word: no character of a word only.  That it       *)
(* begins with no digit and is not "_" is not told apart.                   *)
IsIdentifier(src, word) ==
    word.start < word.end /\ \A i \in (word.start + 1)..word.end : src[i] = "id"

(* prepareRename, for a word that has a declaration.                        *)
PrepareRename(pos) ==
    LET src == Bytes(text)
        off == OffsetFor(src, pos)
        word == WordAtOffset(src, off)
    IN  /\ Ask /\ off >= 0 /\ IsIdentifier(src, word)
        /\ answer' = [kind |-> "prepareRename", pos |-> pos, off |-> off, word |-> word,
                      edit |-> [start |-> PosForOffset(src, word.start),
                                end |-> PosForOffset(src, word.end)]]

(* The names of a text: stretches of word characters.  The parser decides   *)
(* which of them are names, and a name need not be a whole word: in         *)
(* ${foo-x} it ends at the dash.                                            *)
Names(src) ==
    {name \in [start : 0..Len(src), end : 1..Len(src)] :
       name.start < name.end /\ \A i \in (name.start + 1)..name.end : IsWordChar(src[i])}

(* rangeToLSP of a name the parser reported for the text it saw (an edit of *)
(* rename, a reference, a highlight, a definition, the selection range of a *)
(* symbol), with the text textForURI returns now.                           *)
RangeToLSP(seen, now, name) ==
    [start |-> PosToLSP(now, NodePos(seen, name.start)),
     end   |-> PosToLSP(now, NodePos(seen, ParsedEnd(seen, name.end)))]

Locate(name) ==
    LET src == Bytes(text)
    IN  /\ Ask
        /\ answer' = [kind |-> "name", word |-> name, edit |-> RangeToLSP(src, src, name)]

(* The same for a file that has lost bytes at either end since it was       *)
(* indexed: it may begin and end within a character.                        *)
LocateStale(name, from, to) ==
    LET src == Bytes(text)
    IN  /\ Ask
        /\ answer' = [kind |-> "stale", word |-> name,
                      edit |-> RangeToLSP(src, SubSeq(src, from, to), name)]

(* A comment of ShellCheck: a place of the text, with or without an end.    *)
ShellCheck(line, column, endLine, endColumn) ==
    /\ Ask
    /\ answer' = [kind |-> "shellcheck", from |-> Position(line, column),
                  to |-> Position(endLine, endColumn),
                  edit |-> ShellCheckSourceRange(Bytes(text), line, column, endLine, endColumn)]

(* The client takes the answer.                                             *)
Receive == answer # NoAnswer /\ answer' = NoAnswer /\ UNCHANGED <<encoding, text>>

Next ==
    \/ \E offers \in SUBSET {"utf-8", "utf-16", "utf-32"} : Initialize(offers)
    \/ \E c \in Chars : DidChange(c)
    \/ \E pos \in Cursors(text) : Completion(pos) \/ PrepareRename(pos)
    \/ \E name \in Names(Bytes(text)) :
         Locate(name) \/ \E from, to \in 1..Len(Bytes(text)) : LocateStale(name, from, to)
    \/ \E line \in 0..(Newlines(Bytes(text), Len(Bytes(text))) + 1),
         column, endColumn \in 0..(Len(text) + 1) :
         \E endLine \in {0, line, line + 1} : ShellCheck(line, column, endLine, endColumn)
    \/ Receive

Spec == Init /\ [][Next]_vars
-----------------------------------------------------------------------------
(* Properties.                                                              *)

Ranges == [start : [line : Nat, character : Nat], end : [line : Nat, character : Nat]]

(* Type invariant: one of the two encodings the server knows is chosen,     *)
(* before a text is known.                                                  *)
TypeOK ==
    /\ encoding \in {"", "utf-8", "utf-16"}
    /\ text \in Seq(Chars) /\ Len(text) <= MaxLen
    /\ encoding = "" => text = <<>>
    /\ answer = NoAnswer \/ answer.edit.start \in [line : Int, character : Int]

(* The cursor lies past the end of a line of the text.                      *)
PastEnd(pos) ==
    LET k == ClientPlace(text, pos)
    IN  /\ ClientPosition(text, k).line = pos.line
        /\ ClientPosition(text, k).character < pos.character
        /\ k = Len(text) \/ text[k + 1] \in {"nl", "crnl"}

(* A cursor past the end of a line stands for the end of that line: the     *)
(* completion is for the word that ends there.  (position.go:90-92, and the *)
(* protocol's own comment, vendored protocol/basic.go:51.)                  *)
PastEndIsLineEnd ==
    answer.kind = "completion" /\ PastEnd(answer.pos)
        => answer.off = ByteOffset(text, ClientPlace(text, answer.pos))

UnixLines == \A i \in DOMAIN text : text[i] # "crnl"

(* Accepting a completion replaces the word the cursor is at the end of:    *)
(* the prefix the list was filtered by, all of it, and nothing else,        *)
(* whatever precedes it on the line and whichever encoding was negotiated;  *)
(* in UTF-16 also with the cursor past the end of a line without "\r".      *)
CompletionReplacesPrefix ==
    answer.kind = "completion"
    /\ (InText(text, answer.pos) \/ (encoding = "utf-16" /\ UnixLines /\ PastEnd(answer.pos))) =>
        LET src == Bytes(text)
            span == ClientSpan(text, answer.edit)
        IN  /\ InText(text, answer.edit.start)
            /\ SubSeq(src, span.start + 1, span.end) = answer.prefix
            /\ \A i \in DOMAIN answer.prefix : IsWordChar(answer.prefix[i])
            /\ span.start > 0 => ~IsWordChar(src[span.start])

(* The parser's positions hold the line and the column of this offset.      *)
Holds(src, off) == NodePos(src, off).line > 0 /\ NodePos(src, off).col > 0

(* The range of a name, read by the client, is the name: an edit of rename  *)
(* replaces the identifier and leaves its neighbours alone, as posToLSP's   *)
(* comment has it (positions.go:21-23).                                     *)
EditsReplaceNames ==
    answer.kind = "name" => ClientSpan(text, answer.edit) = answer.word

(* The parser ends the name within the "\r\n" behind it.                    *)
EndsInLineEnd(name) == ParsedEnd(Bytes(text), name.end) # name.end

(* So it is for the range prepareRename marks, and for a name wherever the  *)
(* parser's positions can hold its line and its columns.  Both ends of the  *)
(* range lie on the client's text, but for a name before a "\r\n": there    *)
(* its end is past the end of the line, which the client takes for the end. *)
EditsCoverNames ==
    \/ answer.kind = "prepareRename"
    \/ /\ answer.kind = "name" /\ Holds(Bytes(text), answer.word.start)
       /\ Holds(Bytes(text), ParsedEnd(Bytes(text), answer.word.end))
    => /\ ClientSpan(text, answer.edit) = answer.word
       /\ InText(text, answer.edit.start)
       /\ InText(text, answer.edit.end) \/ (answer.kind = "name" /\ EndsInLineEnd(answer.word))

(* prepareRename finds its range by scanning the text, rename by the syntax *)
(* tree.  For a word of the text both begin at the same place, and end at   *)
(* the same place, except that rename ends one unit further on before a     *)
(* "\r\n"; the client reads the same range in both.                         *)
PrepareMatchesRename ==
    answer.kind = "prepareRename" =>
        LET src   == Bytes(text)
            word  == answer.word
            after == ParsedEnd(src, word.end)
            tree  == RangeToLSP(src, src, word)
        IN  /\ answer.off \in word.start..(word.end - 1)
            /\ Holds(src, word.start) /\ Holds(src, after) =>
                 /\ tree = [answer.edit EXCEPT !.end.character = @ + (after - word.end)]
                 /\ ClientSpan(text, tree) = ClientSpan(text, answer.edit)

(* A name located in a file that has changed since it was indexed yields a  *)
(* range the client can read: in bounds for the server, and not reversed.   *)
StaleRangesOrdered ==
    answer.kind = "stale" /\ Holds(Bytes(text), answer.word.start)
                          /\ Holds(Bytes(text), ParsedEnd(Bytes(text), answer.word.end)) =>
        answer.edit \in Ranges /\ ~Before(answer.edit.end, answer.edit.start)

(* Where ShellCheck sees place k: code points of a line, 1-based.           *)
CodePointPosition(k) ==
    LET line == ClientPosition(text, k).line
    IN  Position(line + 1, 1 + Cardinality({i \in 1..k : /\ ClientPosition(text, i).line = line
                                                         /\ text[i] \notin {"nl", "crnl"}}))

(* A comment of ShellCheck from one place of the text to a later one is     *)
(* shown from the one to the other, and no comment's range is reversed.     *)
ShellCheckFits ==
    answer.kind = "shellcheck" =>
        /\ ~Before(answer.edit.end, answer.edit.start)
        /\ \A j, k \in 0..Len(text) :
             j <= k /\ answer.from = CodePointPosition(j) /\ answer.to = CodePointPosition(k) =>
                /\ Exact(text, answer.edit)
                /\ ClientSpan(text, answer.edit) = [start |-> ByteOffset(text, j), end |-> ByteOffset(text, k)]
=============================================================================
