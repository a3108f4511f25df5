------------------------------ MODULE ChatView ------------------------------
(***************************************************************************)
(* The scrolling list of lines that every buffer is drawn in               *)
(* (src/src/ui/chatview.cpp): lines of different heights, the offset of    *)
(* each, a scroll bar, and whether the view follows its end.  A view is a  *)
(* record, and each operator gives the view that a call leaves behind,     *)
(* the signals of the scroll bar it sets off included.  Heights are in     *)
(* rows; a long line takes two rows of a narrow view.  Painting, hit       *)
(* tests, the selection and the fonts are left out.                        *)
(***************************************************************************)
EXTENDS Integers, Sequences, SequencesExt, FiniteSetsExt

CONSTANTS
  MaxLines,  \* kMaxLines (2000), or kPaneMaxLines: lines a view keeps
  Batch,     \* kChunk (256), lines laid out in one go after a resize
  Pages      \* heights of the viewport, in rows

ASSUME ViewAssumption ==
  {MaxLines, Batch} \cup Pages \subseteq Nat \ {0} /\ Pages # {}

ViewWidths == {"wide", "narrow"}
NoLine == 0
NoId == <<"none">>

\* A line as the renderer gives it, not laid out yet.
ChatLine(id, shows, tall, long) ==
  [id |-> id, shows |-> shows, tall |-> tall, long |-> long,
   height |-> 0, width |-> "none"]

EmptyView(width, page) ==
  [lines |-> <<>>, tops |-> <<>>, value |-> 0, max |-> 0, page |-> page,
   width |-> width, atEnd |-> TRUE, away |-> FALSE, button |-> FALSE,
   stale |-> FALSE, found |-> NoLine, asks |-> FALSE]

Within(x, low, high) == IF x < low THEN low ELSE IF x > high THEN high ELSE x

----------------------------------------------------------------------------
(* Layout.                                                                 *)

\* layoutLine, relayoutForWidth: a line that is laid out for the width is kept.
Laid(line, width) ==
  IF line.height > 0 /\ line.width = width THEN line
  ELSE [line EXCEPT !.width = width,
          !.height = line.tall * IF line.long /\ width = "narrow" THEN 2 ELSE 1]

TotalHeight(v) ==
  IF v.lines = <<>> THEN 0 ELSE Last(v.tops) + Last(v.lines).height

\* The offsets from line i on; those up to i are taken as they are.
TopsFrom(lines, tops, i) ==
  LET top[k \in 1..Len(lines)] ==
        IF k = 1 THEN 0
        ELSE IF k =< i THEN tops[k] ELSE top[k - 1] + lines[k - 1].height
  IN  [k \in 1..Len(lines) |-> top[k]]

Rebuilt(lines) == TopsFrom(lines, <<>>, 0)

\* lineAt: the line at an offset, the first where there is none above it.
LineAt(v, y) == Max({1} \cup {k \in DOMAIN v.tops : v.tops[k] =< y})

\* findLine searches from the end.
FindLine(v, id) ==
  Max({NoLine} \cup {k \in DOMAIN v.lines : id # NoId /\ v.lines[k].id = id})

----------------------------------------------------------------------------
(* The scroll bar.  Its valueChanged and rangeChanged come before the call *)
(* that moves it returns.                                                  *)

\* scrolledAwayFromBottom: the button that leads back comes or goes.
AwayFromBottom(v, away) == [v EXCEPT !.button = away]

\* Mutant: a view the user left its end of follows again at any move.
ValueChangedEagerly(v) ==
  AwayFromBottom([v EXCEPT !.away = FALSE, !.atEnd = TRUE,
                           !.asks = @ \/ (v.value = 0 /\ v.lines # <<>>)], FALSE)

\* The view is at its end again, or no more; at its top it asks for older lines.
ValueChanged(v) ==
  LET atMax == v.value >= v.max
      asked == [v EXCEPT !.asks = @ \/ (v.value = 0 /\ v.lines # <<>>)]
      moved == [asked EXCEPT !.away = @ /\ ~atMax, !.atEnd = atMax]
  IN  IF v.away /\ ~atMax THEN asked
      ELSE IF v.away \/ v.atEnd # atMax THEN AwayFromBottom(moved, ~atMax) ELSE moved

SetValue(v, x) ==
  LET y == Within(x, 0, v.max)
  IN  IF y = v.value THEN v ELSE ValueChanged([v EXCEPT !.value = y])

\* A view that follows its end goes along with it.
RangeChanged(v) == IF v.atEnd /\ ~v.away THEN SetValue(v, v.max) ELSE v

\* updateScrollRange
SetRange(v) ==
  LET max     == Max({0, TotalHeight(v) - v.page})
      changed == RangeChanged([v EXCEPT !.max = max])
  IN  IF max = v.max THEN v ELSE SetValue(changed, changed.value)

IsAtBottom(v) == ~v.away /\ v.value >= v.max

ScrollToBottom(v) ==
  LET freed == [v EXCEPT !.away = FALSE, !.atEnd = TRUE]
      there == SetValue(freed, v.max)
  IN  IF v.away THEN AwayFromBottom(there, FALSE) ELSE there

\* The guard of every update: a view at its end stays there.
KeepBottom(v) == IF IsAtBottom(v) THEN ScrollToBottom(v) ELSE v

----------------------------------------------------------------------------
(* The lines.                                                              *)

\* Past MaxLines the oldest line goes.
AppendLine(v, line) ==
  LET lines == Append(v.lines, Laid(line, v.width))
      tops  == Append(v.tops, TotalHeight(v))
      kept  == Tail(lines)
  IN  SetRange(IF Len(lines) > MaxLines
                 THEN [v EXCEPT !.lines = kept, !.tops = Rebuilt(kept)]
                 ELSE [v EXCEPT !.lines = lines, !.tops = tops])

AppendLines(v, lines) ==
  LET upTo[k \in 0..Len(lines)] ==
        IF k = 0 THEN v ELSE AppendLine(upTo[k - 1], lines[k])
  IN  upTo[Len(lines)]

\* Mutant: what is read moves down by what is added above it.
PrependLinesShifting(v, lines) ==
  LET laid == [k \in DOMAIN lines |-> Laid(lines[k], v.width)]
      all  == laid \o v.lines
  IN  IF lines = <<>> THEN v
      ELSE SetRange([v EXCEPT !.lines = all, !.tops = Rebuilt(all)])

\* What is read stays where it is on the screen.
PrependLines(v, lines) ==
  LET laid   == [k \in DOMAIN lines |-> Laid(lines[k], v.width)]
      all    == laid \o v.lines
      ranged == SetRange([v EXCEPT !.lines = all, !.tops = Rebuilt(all)])
      added  == TotalHeight([lines |-> laid, tops |-> Rebuilt(laid)])
  IN  IF lines = <<>> THEN v ELSE SetValue(ranged, ranged.value + added)

\* Mutant: the lines below keep their offsets.
ReplaceLineLoose(v, id, line) ==
  LET k == FindLine(v, id)
  IN  IF k = NoLine THEN v ELSE SetRange([v EXCEPT !.lines[k] = Laid(line, v.width)])

ReplaceLine(v, id, line) ==
  LET k     == FindLine(v, id)
      lines == [v.lines EXCEPT ![k] = Laid(line, v.width)]
  IN  IF k = NoLine THEN v
      ELSE SetRange([v EXCEPT !.lines = lines, !.tops = TopsFrom(lines, @, k)])

\* Without the line it belongs under, a line goes to the end.
InsertAfter(v, id, line) ==
  LET k     == FindLine(v, id)
      at    == IF k = NoLine THEN Len(v.lines) + 1 ELSE k + 1
      lines == InsertAt(v.lines, at, Laid(line, v.width))
  IN  SetRange([v EXCEPT !.lines = lines, !.tops = Rebuilt(lines)])

RemoveLine(v, id) ==
  LET k     == FindLine(v, id)
      lines == RemoveAt(v.lines, k)
      tops  == RemoveAt(v.tops, k)
  IN  IF k = NoLine THEN v
      ELSE SetRange([v EXCEPT !.lines = lines,
                              !.tops = TopsFrom(lines, tops, k - 1)])

Clear(v) ==
  LET empty == [v EXCEPT !.lines = <<>>, !.tops = <<>>, !.atEnd = TRUE,
                         !.away = FALSE, !.max = 0]
  IN  AwayFromBottom(SetValue(empty, 0), FALSE)

----------------------------------------------------------------------------
(* The user.                                                               *)

\* wheelEvent. Up takes the view off its end whether or not there is anything above.
Wheel(v, rows) ==
  LET left == IF rows < 0 /\ ~v.away
                THEN AwayFromBottom([v EXCEPT !.away = TRUE, !.atEnd = FALSE], TRUE)
                ELSE v
  IN  SetValue(left, left.value + rows)

(***************************************************************************)
(* The timer of scheduleDeferredRelayout: Batch more lines are laid out for*)
(* the width the view has by now, and the line at the top stays there.     *)
(***************************************************************************)
RelayoutRest(v) ==
  LET todo   == {k \in DOMAIN v.lines : v.lines[k].width # v.width}
      lines  == [k \in DOMAIN v.lines |->
                   IF k \in todo /\ Cardinality({j \in todo : j < k}) < Batch
                     THEN Laid(v.lines[k], v.width) ELSE v.lines[k]]
      anchor == LineAt(v, v.value)
      offset == v.value - v.tops[anchor]
      built  == SetRange([v EXCEPT !.lines = lines, !.tops = Rebuilt(lines)])
      inside == Within(offset, 0, lines[anchor].height - 1)
      held   == IF built.atEnd THEN built
                ELSE SetValue(built, built.tops[anchor] + inside)
  IN  [(IF todo = {} THEN v ELSE held) EXCEPT !.stale = Cardinality(todo) >= Batch]

\* resizeEvent: only what is on screen is laid out at once, by its new heights.
Resize(v, width, page) ==
  LET sized == [v EXCEPT !.width = width, !.page = page]
      first == LineAt(v, v.value)
      seen[k \in first..Len(v.lines)] ==   \* rows laid out before line k
        IF k = first THEN 0 ELSE seen[k - 1] + Laid(v.lines[k - 1], width).height
      lines == [k \in DOMAIN v.lines |->
                  IF k >= first /\ seen[k] < page THEN Laid(v.lines[k], width)
                                                  ELSE v.lines[k]]
  IN  IF width = v.width THEN SetRange(sized)
      ELSE [SetRange([sized EXCEPT !.lines = lines, !.tops = Rebuilt(lines)])
              EXCEPT !.stale = TRUE]

----------------------------------------------------------------------------
(* The search bar's marker.                                                *)

ClearFind(v) == [v EXCEPT !.found = NoLine]

\* setFind, highlightLine: a marked line out of sight is scrolled to.
SetFind(v, k) ==
  LET marked == [v EXCEPT !.found = k]
      out    == \/ v.tops[k] < v.value
                \/ v.tops[k] + v.lines[k].height > v.value + v.page
  IN  IF out THEN SetValue(marked, Max({0, v.tops[k] - (v.page \div 3)})) ELSE marked

\* findText, of a text that each of these lines holds once. The line it starts
\* from is not searched again.
FindText(v, matching, backward) ==
  LET n     == Len(v.lines)
      known == v.found \in 1..n
      start == IF known THEN v.found ELSE LineAt(v, v.value)
      dist(k) == IF backward THEN (start - k) % n ELSE (k - start) % n
      hits  == {k \in matching : ~(known /\ k = start)}
      next  == CHOOSE k \in hits : \A j \in hits : dist(k) =< dist(j)
  IN  IF hits = {} THEN ClearFind(v) ELSE SetFind(v, next)

----------------------------------------------------------------------------
ViewOK(v) ==
  /\ DOMAIN v = DOMAIN EmptyView("wide", 1)
  /\ v.tops = Rebuilt(v.lines)
  /\ \A k \in DOMAIN v.lines : v.lines[k].height \in Nat \ {0} /\ v.lines[k].width \in ViewWidths
  /\ v.max = Max({0, TotalHeight(v) - v.page})
  /\ v.value \in 0..v.max
  /\ v.width \in ViewWidths /\ v.page \in Pages
  /\ {v.atEnd, v.away, v.button, v.stale, v.asks} \subseteq BOOLEAN
  /\ v.found \in Nat
=============================================================================
