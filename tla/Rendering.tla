----------------------------- MODULE Rendering ------------------------------
(***************************************************************************)
(* The body of a Matrix message on its way to IRC: matrix_to_irc turns the *)
(* tree of its HTML into text with control codes (src/src/format/mod.rs),  *)
(* wrap_body cuts the text into lines, and body_to_irc sends the lines     *)
(* that are not blank (src/src/bridge/mod.rs).  The tree is walked as the  *)
(* code walks it, an element or a character at a time; a line is read back *)
(* with apply_ctrl, the code's own reading of control codes.  A line is a  *)
(* sequence of characters, those of its colour codes included.             *)
(***************************************************************************)
EXTENDS Lists

CONSTANTS
    Toggles,   \* codes that switch a style: bold, italic, ...
    Colours,   \* colours of a font element
    NoColour,
    HexSize,   \* characters of a hex code for one colour
    DecimalSize,  \* and of a decimal one
    Width,     \* WIDTH, the characters of a line
    MaxNodes,  \* elements, characters and line breaks of a message
    MaxDepth   \* elements inside one another

ASSUME RenderingAssumption ==
    /\ NoColour \notin Colours
    /\ Toggles \cap {"li", "font"} = {}
    /\ {Width, HexSize, DecimalSize} \subseteq Nat \ {0}
    /\ {MaxNodes, MaxDepth} \subseteq Nat

VARIABLES
    open,   \* the elements around the place the walk has reached
    body,   \* the text so far
    tame,   \* the codes can tell apart every element so far
    nodes

renderingVars == <<open, body, tame, nodes>>

-----------------------------------------------------------------------------
\* Styles (what is on, the colours, and how far the reader is in a colour code)
\* and codes.

Colour == Colours \cup {NoColour}
Default == [on |-> {}, fg |-> NoColour, bg |-> NoColour, code |-> 0]

\* A letter (of one byte or of two), a space or a newline, with the style its
\* elements give it; or a character of a code.
Char(c, style) == [char |-> c, style |-> style]
Toggle(t) == [char |-> "toggle", toggle |-> t]
Code(kind, fg, bg, size) ==
    [i \in 1 .. size |-> [char |-> kind, fg |-> fg, bg |-> bg, at |-> i, size |-> size]]
\* `\x04`: a hex colour, and one for the background.  `\x03`: a number, 99 is
\* the default colour.
Hex(fg, bg) == Code("hex", fg, bg, IF bg = NoColour THEN HexSize ELSE 2 * HexSize)
DecimalDefault(size) == Code("decimal", NoColour, NoColour, size)

Letters == {"a", "w"}
Space == Char(" ", Default)
Newline == Char("\n", Default)
Blank == {" ", "\n"}

\* `apply_ctrl`, when the last character of a code has been read: both kinds of
\* colour codes set both colours; a background that is not named is none.  The
\* end of a code whose beginning is not there is text.
Joins(style, c) == c.char \in {"hex", "decimal"} /\ c.at = style.code + 1

Apply(style, c) ==
    CASE c.char = "toggle" ->
           [style EXCEPT !.on = IF c.toggle \in @ THEN @ \ {c.toggle} ELSE @ \cup {c.toggle}]
      [] Joins(style, c) /\ c.at < c.size -> [style EXCEPT !.code = c.at]
      [] Joins(style, c) /\ c.at = c.size -> [style EXCEPT !.fg = c.fg, !.bg = c.bg, !.code = 0]
      [] OTHER -> style

\* The style after reading s from the given one.
ReadFrom(style, s) == FoldLeft(Apply, style, s)

\* `irc_color_code`.  Black stands for 000000; a background alone is set with
\* it, and then the foreground reset.
Black == CHOOSE c \in Colours : TRUE

ColourCode(fg, bg) ==
    CASE fg = NoColour /\ bg = NoColour -> DecimalDefault(2 * DecimalSize)
      [] fg = NoColour /\ bg # NoColour -> Hex(Black, bg) \o DecimalDefault(DecimalSize)
      [] OTHER -> Hex(fg, bg)

-----------------------------------------------------------------------------
\* `transform_m2i`

Plain(tag) == [tag |-> tag, fg |-> NoColour, bg |-> NoColour]
Font(fg, bg) == [tag |-> "font", fg |-> fg, bg |-> bg]
Coloured(e) == e.fg # NoColour \/ e.bg # NoColour

\* A font without colours stands for every tag that renders as its children.
Elements ==
    {Plain(t) : t \in Toggles \cup {"li"}} \cup {Font(fg, bg) : fg, bg \in Colour}

\* The colours in force: those of the innermost coloured element, both.
ColoursIn(es) ==
    LET cs == {i \in DOMAIN es : Coloured(es[i])}
    IN  IF cs = {} THEN Default ELSE es[Max(cs)]

StyleIn(es) ==
    [on |-> Toggles \cap {es[i].tag : i \in DOMAIN es},
     fg |-> ColoursIn(es).fg, bg |-> ColoursIn(es).bg, code |-> 0]

\* What an element of es puts before and after its children.
Before(e, es) ==
    CASE e.tag \in Toggles -> <<Toggle(e.tag)>>
      [] e.tag = "li"      -> <<Char("a", StyleIn(es)), Space>>
      [] Coloured(e)       -> ColourCode(e.fg, e.bg)
      [] OTHER             -> <<>>

\* A plausible bug: the colours are reset, whatever is around the element.
AfterResets(e, es) ==
    CASE e.tag \in Toggles -> <<Toggle(e.tag)>>
      [] e.tag = "li"      -> <<Newline>>
      [] Coloured(e)       -> DecimalDefault(2 * DecimalSize)
      [] OTHER             -> <<>>

After(e, es) ==
    CASE e.tag \in Toggles -> <<Toggle(e.tag)>>
      [] e.tag = "li"      -> <<Newline>>
      [] Coloured(e)       -> ColourCode(ColoursIn(es).fg, ColoursIn(es).bg)
      [] OTHER             -> <<>>

\* Elements the codes can tell apart: none inside another of its own code,
\* none with a background alone.
Tame(es) ==
    /\ \A i, j \in DOMAIN es : i # j => es[i].tag # es[j].tag \/ es[i].tag \notin Toggles
    /\ \A i \in DOMAIN es : es[i].fg = NoColour => es[i].bg = NoColour

RenderingInit == open = <<>> /\ body = <<>> /\ tame = TRUE /\ nodes = 0

Puts(s) == body' = body \o s

Enter(e) ==
    /\ nodes < MaxNodes /\ nodes' = nodes + 1
    /\ Len(open) < MaxDepth
    /\ open' = Append(open, e)
    /\ tame' = (tame /\ Tame(Append(open, e)))
    /\ Puts(Before(e, open))

Leave ==
    /\ open # <<>>
    /\ open' = Front(open)
    /\ Puts(After(Last(open), Front(open)))
    /\ UNCHANGED <<tame, nodes>>

Text(c) ==
    /\ nodes < MaxNodes /\ nodes' = nodes + 1
    /\ Puts(<<Char(c, StyleIn(open))>>)
    /\ UNCHANGED <<open, tame>>

\* `<br>`, and the end of a paragraph another follows.
Break ==
    /\ nodes < MaxNodes /\ nodes' = nodes + 1
    /\ Puts(<<Newline>>)
    /\ UNCHANGED <<open, tame>>

RenderingNext ==
    (\E e \in Elements : Enter(e)) \/ Leave \/ (\E c \in Letters \cup {" "} : Text(c)) \/ Break

RenderingSpec == RenderingInit /\ [][RenderingNext]_renderingVars

Rendered == open = <<>>

-----------------------------------------------------------------------------
\* `wrap_body`

IsBlank(c) == c.char \in Blank

\* `trim`
Trim(s) ==
    LET kept == {i \in DOMAIN s : ~IsBlank(s[i])}
    IN  IF kept = {} THEN <<>> ELSE SubSeq(s, Min(kept), Max(kept))

\* The last part takes one more character.
Grow(parts, c) == Append(Front(parts), Append(Last(parts), c))

Split(s, sep) ==
    FoldLeft(LAMBDA parts, c : IF c.char = sep THEN Append(parts, <<>>) ELSE Grow(parts, c),
             <<<<>>>>, s)

Bytes(s) == FoldLeft(LAMBDA n, c : n + IF c.char = "w" THEN 2 ELSE 1, 0, s)

\* `chunks`: pieces of Width bytes, or to the end of the character they cut.
Chunks(word) ==
    FoldLeft(LAMBDA parts, c : IF Bytes(Last(parts)) >= Width THEN Append(parts, <<c>>)
                               ELSE Grow(parts, c),
             <<<<>>>>, word)

\* A plausible bug: the word that does not fit is not taken to the next line.
PlaceLoses(acc, word) ==
    CASE acc.line = <<>> /\ Len(word) > Width ->
           [lines |-> acc.lines \o Chunks(word), line |-> <<>>]
      [] acc.line = <<>> /\ Len(word) <= Width -> [lines |-> acc.lines, line |-> word]
      [] acc.line # <<>> /\ Len(acc.line) + 1 + Len(word) <= Width ->
           [lines |-> acc.lines, line |-> acc.line \o (<<Space>> \o word)]
      [] OTHER -> [lines |-> Append(acc.lines, acc.line), line |-> <<>>]

\* A plausible bug: the space is not counted.
PlaceTight(acc, word) ==
    CASE acc.line = <<>> /\ Len(word) > Width ->
           [lines |-> acc.lines \o Chunks(word), line |-> <<>>]
      [] acc.line = <<>> /\ Len(word) <= Width -> [lines |-> acc.lines, line |-> word]
      [] acc.line # <<>> /\ Len(acc.line) + Len(word) <= Width ->
           [lines |-> acc.lines, line |-> acc.line \o (<<Space>> \o word)]
      [] OTHER -> [lines |-> Append(acc.lines, acc.line), line |-> word]

\* A word goes on the line, or on a line of its own; only one that would begin
\* a line is chopped when it is too long.
Place(acc, word) ==
    CASE acc.line = <<>> /\ Len(word) > Width ->
           [lines |-> acc.lines \o Chunks(word), line |-> <<>>]
      [] acc.line = <<>> /\ Len(word) <= Width -> [lines |-> acc.lines, line |-> word]
      [] acc.line # <<>> /\ Len(acc.line) + 1 + Len(word) <= Width ->
           [lines |-> acc.lines, line |-> acc.line \o (<<Space>> \o word)]
      [] OTHER -> [lines |-> Append(acc.lines, acc.line), line |-> word]

PlaceAll(words) == FoldLeft(Place, [lines |-> <<>>, line |-> <<>>], words)

WrapLine(line) ==
    IF Len(line) <= Width THEN <<line>>
    ELSE LET acc == PlaceAll(Split(line, " "))
         IN  IF acc.line = <<>> THEN acc.lines ELSE Append(acc.lines, acc.line)

WrapAll(ls) == FoldLeft(LAMBDA lines, l : lines \o WrapLine(l), <<>>, ls)

WrapBody(s) == WrapAll(Split(s, "\n"))

\* The lines a client without draft/multiline gets (`body_to_irc`).
NotBlank(l) == \E i \in DOMAIN l : ~IsBlank(l[i])

Lines ==
    LET ls == WrapBody(Trim(body))
    IN  Among(ls, {l \in Range(ls) : NotBlank(l)})

-----------------------------------------------------------------------------
IsLetter(c) == c.char \in Letters
LettersOf(s) == Among(s, {c \in Range(s) : IsLetter(c)})

\* A reader of the text sees each letter in the style of its elements.
ReadsRight(s) ==
    \A i \in DOMAIN s : IsLetter(s[i]) => ReadFrom(Default, SubSeq(s, 1, i)) = s[i].style

\* A client that reads a line alone shows each letter in the style of its
\* elements, unless a style was on where the line begins, or the line begins
\* inside a colour code: the code chops long words wherever a line is full.
\* Nothing else that is trimmed, wrapped or chopped drops or moves a code
\* (transform_m2i, wrap_body, chunks).
LinesRead == Rendered /\ tame =>
    LET lines == Lines
    IN  \A k \in DOMAIN lines :
            ReadFrom(Default, Flatten(SubSeq(lines, 1, k - 1))) = Default => ReadsRight(lines[k])

\* No letter is lost, doubled or moved on the way from the body to the lines,
\* blank lines or not (wrap_body, chunks and the filter of body_to_irc).
LettersKept == Rendered => LettersOf(Flatten(Lines)) = LettersOf(body)

\* A line that is longer than WIDTH has no place to break: it is one word.  The
\* code does send such lines, when the word does not begin its line of the
\* body (wrap_body pushes it after a line it has filled, and does not chop it).
LongLinesAreWords == Rendered =>
    \A line \in Range(Lines) :
        Len(line) > Width => \A i \in DOMAIN line : line[i].char # " "
=============================================================================
