---------------------------- MODULE Highlighter ----------------------------
(***************************************************************************)
(* The syntax highlighter (unsafe_highlighter.cpp): a line scanner, and the *)
(* region (string or comment) open at the end of every scanned line, kept   *)
(* so that a later line can be coloured without scanning from the top.      *)
(* Around it the engine's SyntaxHighlighter keeps the colours it was given, *)
(* drops those from an edited line on, and asks again when it draws.        *)
(*                                                                          *)
(* A line is a sequence of symbols: delimiter and operator characters, and  *)
(* whole words and numbers.  Columns and lines count from 1.                *)
(***************************************************************************)
EXTENDS Naturals, Sequences

CONSTANTS
  Lines,     \* the texts a line may have
  MaxLines,  \* bound: lines of the document
  MaxEdits   \* bound: edits of the document

Words == {"func", "word"}
IdentChars == Words \cup {"num"}
Symbols == IdentChars \cup {"hash", "dquote", "squote", "backslash", "dollar", "percent",
                            "amp", "at", "dot", "paren", "slash", "space"}

\* A word or a number is one symbol, so two of them never touch.
HighlighterParameters ==
  /\ MaxLines \in Nat \ {0} /\ MaxEdits \in Nat
  /\ Lines \subseteq Seq(Symbols)
  /\ \A t \in Lines : \A i \in 1..(Len(t) - 1) : ~({t[i], t[i + 1]} \subseteq IdentChars)

VARIABLES
  text,      \* the document in the TextEdit
  members,   \* whether the edited script declares "word"
  open,      \* open_region: for a line, the region open at its end; 0 is none
  shown,     \* the engine's highlighting_cache: for a line, its colours
  frontier,  \* ghost: nothing cached for a line above this one predates an edit
  edits      \* edits so far

highlighterVars == <<text, members, open, shown, frontier, edits>>

-----------------------------------------------------------------------------
(* The delimiters the language declares.                                    *)

Delimiter(start, stop, color) == [start |-> start, stop |-> stop, color |-> color]
Triple(quote) == <<quote, quote, quote>>
Delimiters == <<
  Delimiter(<<"hash", "hash">>, <<>>, "doc"),
  Delimiter(<<"hash">>, <<>>, "comment"),
  Delimiter(<<"dquote">>, <<"dquote">>, "string"),
  Delimiter(<<"squote">>, <<"squote">>, "string"),
  Delimiter(Triple("dquote"), Triple("dquote"), "string"),
  Delimiter(Triple("squote"), Triple("squote"), "string") >>

LineOnly(region) == region.stop = <<>>

-----------------------------------------------------------------------------
(* Scanning a line.                                                         *)

StandsAt(t, i, what) == i + Len(what) <= Len(t) + 1 /\ SubSeq(t, i, i + Len(what) - 1) = what

\* The order of the table of regions: the longest opening first, and stable.
Precedes(r, s) ==
  LET Size(d) == Len(Delimiters[d].start)
  IN Size(r) > Size(s) \/ (Size(r) = Size(s) /\ r <= s)

\* The region whose delimiter opens at a column, 0 for none.
MatchRegion(t, i) ==
  LET matching == {r \in DOMAIN Delimiters : StandsAt(t, i, Delimiters[r].start)}
  IN IF matching = {} THEN 0 ELSE CHOOSE r \in matching : \A s \in matching : Precedes(r, s)

\* Where a region's end delimiter stands at or after a column, 0 for nowhere.  A
\* backslash hides the symbol after it.
FindRegionEnd(t, from, stop) ==
  LET seek[i \in from..(Len(t) + 2)] ==
        IF stop = <<>> \/ i + Len(stop) - 1 > Len(t) THEN 0
        ELSE IF t[i] = "backslash" THEN seek[i + 2]
        ELSE IF StandsAt(t, i, stop) THEN i
        ELSE seek[i + 1]
  IN seek[from]

\* The column after a quoted name on this line; without an end it takes the line.
SkipQuoted(t, from) ==
  LET end == FindRegionEnd(t, from + 1, <<t[from]>>) IN IF end = 0 THEN Len(t) + 1 ELSE end + 1

RunEnd(t, from, run) ==
  CHOOSE j \in from..(Len(t) + 1) :
    /\ \A i \in from..(j - 1) : t[i] \in run
    /\ j <= Len(t) => t[j] \notin run

\* The symbol nearest before a column, or nearest at or after it, that is not a space.
PreviousVisible(t, i) ==
  LET seen == {k \in 1..(i - 1) : t[k] # "space"}
  IN IF seen = {} THEN "none" ELSE t[CHOOSE k \in seen : \A j \in seen : j <= k]
NextVisible(t, i) ==
  LET seen == {k \in i..Len(t) : t[k] # "space"}
  IN IF seen = {} THEN "none" ELSE t[CHOOSE k \in seen : \A j \in seen : k <= j]
FollowsValue(t, i) == PreviousVisible(t, i) \in IdentChars \cup {"dquote", "squote"}

Is(t, i, set) == i <= Len(t) /\ t[i] \in set
QuotedOr(t, i, run) == IF Is(t, i, {"dquote", "squote"}) THEN SkipQuoted(t, i) ELSE RunEnd(t, i, run)

\* The colour of a word; previous is the token before it, declares is members.
WordColor(t, i, previous, declares) ==
  IF PreviousVisible(t, i) = "dot" THEN "member"
  ELSE IF previous = "func" THEN "definition"
  ELSE IF t[i] = "func" THEN "keyword"
  ELSE IF declares THEN "member"
  ELSE IF NextVisible(t, i + 1) = "paren" THEN "call"
  ELSE "font"

\* The token at a column outside regions: its colour and the column after it.
Token(t, i, previous, declares) ==
  LET Upto(color, next) == [color |-> color, next |-> next]
      path == QuotedOr(t, i + 1, IdentChars \cup {"slash"}
                                 \cup (IF t[i] = "dollar" THEN {"percent"} ELSE {}))
      isPath == (t[i] = "dollar" \/ (t[i] = "percent" /\ ~FollowsValue(t, i))) /\ path > i + 1
  IN CASE t[i] = "at" /\ Is(t, i + 1, Words) -> Upto("annotation", RunEnd(t, i + 1, IdentChars))
       [] isPath -> Upto(IF t[i] = "dollar" THEN "path" ELSE "node", path)
       [] t[i] = "amp" /\ ~FollowsValue(t, i) /\ Is(t, i + 1, {"dquote", "squote"} \cup Words)
            -> Upto("name", QuotedOr(t, i + 1, IdentChars))
       [] t[i] \in Words -> Upto(WordColor(t, i, previous, declares), RunEnd(t, i, IdentChars))
       [] t[i] = "num" \/ (t[i] = "dot" /\ Is(t, i + 1, {"num"}) /\ PreviousVisible(t, i) \notin IdentChars)
            -> Upto("number", RunEnd(t, i, IdentChars \cup {"dot"}))
       [] OTHER -> Upto("symbol", i + 1)

\* A table with one entry set.
With(table, key, value) == [k \in DOMAIN table \cup {key} |-> IF k = key THEN value ELSE table[k]]

\* What scanning gives: the region left open, and a colour for the columns where one begins.
Scan(t, entry, declares) ==
  LET Result(region, colors) == [open |-> region, colors |-> colors]
      Put(i, color, rest) == [rest EXCEPT !.colors = With(@, i, color)]
      After(r, from) == FindRegionEnd(t, from, Delimiters[r].stop)
      Passed(i, token, from) ==
        Put(i, token.color, from[token.next][IF t[i] \in Words THEN t[i] ELSE ""])
      Entered(r, end, from) ==
        IF LineOnly(Delimiters[r]) THEN Result(0, <<>>)
        ELSE IF end = 0 THEN Result(r, <<>>)
        ELSE from[end + Len(Delimiters[r].stop)][""]
      Begun(i, r, token, from) ==
        IF r = 0 THEN Passed(i, token, from)
        ELSE Put(i, Delimiters[r].color, Entered(r, After(r, i + Len(Delimiters[r].start)), from))
      from[i \in 1..(Len(t) + 1)] ==
        [previous \in {"", "func", "word"} |->
           IF i > Len(t) THEN Result(0, <<>>)
           ELSE IF t[i] = "space" THEN from[i + 1][previous]
           ELSE Begun(i, MatchRegion(t, i), Token(t, i, previous, declares), from)]
      tail == from[After(entry, 1) + Len(Delimiters[entry].stop)][""]
  IN IF entry = 0 THEN from[1][""]
     ELSE IF After(entry, 1) = 0 THEN Result(entry, <<Delimiters[entry].color>>)
     ELSE Put(1, Delimiters[entry].color, tail)

-----------------------------------------------------------------------------
(* The cache of open regions.                                               *)

HighlighterInit ==
  /\ text \in [1..MaxLines -> Lines]
  /\ members \in BOOLEAN
  /\ open = <<>> /\ shown = <<>>
  /\ frontier = MaxLines + 1 /\ edits = 0

\* The region open at the end of every line, from one for which it is given.
OpenFrom(first, region, document, declares) ==
  LET at[l \in first..Len(document)] ==
        IF l = first THEN region ELSE Scan(document[l], at[l - 1], declares).open
  IN at

\* open_region once the lines above a line are known: the nearest known line above is
\* trusted, the lines from there on are scanned.
RegionsAbove_FromZero(p) ==
  [l \in DOMAIN open \cup 0..(p - 1) |-> IF l \in DOMAIN open THEN open[l] ELSE 0]
RegionsAbove(p) ==
  LET known == {l \in 1..(p - 1) : l \in DOMAIN open}
      first == IF known = {} THEN 0 ELSE CHOOSE l \in known : \A k \in known : k <= l
      at == OpenFrom(first, IF first = 0 THEN 0 ELSE open[first], text, members)
  IN [l \in DOMAIN open \cup (first + 1)..(p - 1) |-> IF l \in first..(p - 1) THEN at[l] ELSE open[l]]

\* get_line_syntax_highlighting: lines already coloured are not asked for again.
Highlight(p) ==
  /\ p \notin DOMAIN shown
  /\ IF p > Len(text)
     THEN /\ shown' = With(shown, p, <<>>)
          /\ UNCHANGED <<open, frontier>>
     ELSE LET above == RegionsAbove(p)
              line == Scan(text[p], IF p = 1 THEN 0 ELSE above[p - 1], members)
          IN /\ open' = With(above, p, line.open)
             /\ shown' = With(shown, p, line.colors)
             /\ frontier' = IF p = frontier THEN p + 1 ELSE frontier
  /\ UNCHANGED <<text, members, edits>>

\* SyntaxHighlighter::clear_highlighting_cache drops the engine's colours, then calls clear().
ColorsDropped == shown' = <<>> /\ frontier' = MaxLines + 1
ClearHighlightingCache ==
  /\ open' = <<>> /\ ColorsDropped
  /\ UNCHANGED <<text, members, edits>>

\* update() rebuilds the tables of words, members and delimiters from the language, the
\* editor's settings and the edited script; region indices of the old table go with it.
Update(declares) == open' = <<>> /\ members' = declares

\* The engine's update_cache; the edited script's members may have changed since.
UpdateCache(declares) == Update(declares) /\ ColorsDropped /\ UNCHANGED <<text, edits>>

SetEditedScript_Lazily(declares) ==
  /\ Update(declares) /\ UNCHANGED <<text, edits, shown, frontier>>
SetEditedScript(declares) == Update(declares) /\ ColorsDropped /\ UNCHANGED <<text, edits>>

\* An edit at a line.  The engine drops the colours of the line before it and of all
\* lines after that; the highlighter is not told.
Edit(e, document) ==
  /\ edits < MaxEdits /\ edits' = edits + 1
  /\ text' = document
  /\ shown' = [l \in {k \in DOMAIN shown : k + 1 < e} |-> shown[l]]
  /\ frontier' = IF e < frontier THEN e ELSE frontier
  /\ UNCHANGED <<members, open>>

Rewrite(e, line) == text[e] # line /\ Edit(e, [text EXCEPT ![e] = line])
InsertAfter(e, line) ==
  /\ Len(text) < MaxLines
  /\ Edit(e, SubSeq(text, 1, e) \o <<line>> \o SubSeq(text, e + 1, Len(text)))
RemoveAfter(e) ==
  /\ e < Len(text)
  /\ Edit(e, SubSeq(text, 1, e) \o SubSeq(text, e + 2, Len(text)))

HighlighterNext ==
  \/ \E p \in 1..MaxLines : Highlight(p)
  \/ ClearHighlightingCache
  \/ \E declares \in BOOLEAN : SetEditedScript(declares) \/ UpdateCache(declares)
  \/ \E e \in DOMAIN text, line \in Lines : Rewrite(e, line) \/ InsertAfter(e, line)
  \/ \E e \in DOMAIN text : RemoveAfter(e)

HighlighterSpec == HighlighterInit /\ [][HighlighterNext]_highlighterVars

-----------------------------------------------------------------------------
(* What a highlighter without caches would say: the region open at the end   *)
(* of every line, from the top of the document.                              *)

FromTop == OpenFrom(0, 0, text, members)
Colors(l) == Scan(text[l], FromTop[l - 1], members).colors

\* Every variable has its type.
HighlighterTypeOK ==
  /\ text \in Seq(Lines) /\ Len(text) \in 1..MaxLines
  /\ members \in BOOLEAN
  /\ DOMAIN open \subseteq 1..MaxLines /\ \A l \in DOMAIN open : open[l] \in {0} \cup DOMAIN Delimiters
  /\ DOMAIN shown \subseteq 1..MaxLines
  /\ frontier \in 1..(MaxLines + 1) /\ edits \in 0..MaxEdits

\* The colours on screen, and the open regions that later lines will trust, are those of the
\* whole document, whatever the order the lines were drawn in: for every line above the
\* first edit since the caches were cleared, and below it for the lines redrawn in order
\* from the edit on, which repairs what the edit left stale.
CachesAreRight ==
  \A l \in DOMAIN text : l < frontier =>
    /\ l \in DOMAIN shown => shown[l] = Colors(l)
    /\ l \in DOMAIN open => open[l] = FromTop[l]
=============================================================================
