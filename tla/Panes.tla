------------------------------- MODULE Panes --------------------------------
(***************************************************************************)
(* The main window's views: the primary view, the docked panes beside it,  *)
(* the panes floating in windows of their own, the layout they share, the  *)
(* text being typed in each, the reply being composed, and what of it all  *)
(* is saved on quitting and put back on the next start                     *)
(* (src/src/ui/mainwindow.cpp, channelpane.cpp, contextmenus.cpp).         *)
(*                                                                         *)
(* One server.  The sizes of the widgets are not kept: a view has room to  *)
(* be halved or has not, whichever suits.  Nor are the sidebar's order,    *)
(* which is the user's and here one fixed order, and its current row: any  *)
(* row may be the one a click or a key arrives at.                         *)
(***************************************************************************)
EXTENDS PaneTree, FiniteSets, Functions

CONSTANTS
    Chans,          \* the channels and queries of the server
    Server,         \* its own buffer, "(server)"
    None,           \* no buffer, no text, no pane
    Typed,          \* the buffers something is typed in and replied in
    Primary,        \* the id of the primary view in the layout
    PaneIds,        \* the ids of the docked panes, kMaxExtraPanes of them
    MaxWindows      \* kMaxPaneWindows

Bufs == Chans \cup {Server}

ASSUME PanesAssumption ==
    /\ Server \notin Chans /\ None \notin Bufs /\ Typed \subseteq Bufs
    /\ IsFiniteSet(PaneIds) /\ Primary \notin PaneIds /\ MaxWindows \in Nat

VARIABLES
    ui,         \* the window: the fields of Fresh below
    saved       \* what the restore posted at startup has left to put back

vars == << ui, saved >>

(* rows: the channels with a row in the sidebar; up: the server has its row.   *)
(* docked: view id to buffer; windows: the buffers floating; text: what is  *)
(* typed in each view, by the buffer it was typed for; drafts: m_inputDrafts;*)
(* tree: m_paneTree, which the splitters on screen are built from.          *)
Bare == SplitOf("h", << Leaf(Primary) >>)
Fresh ==
    [rows |-> {}, up |-> TRUE, active |-> None, hidden |-> FALSE,
     docked |-> <<>>, windows |-> {}, focused |-> None,
     text |-> (Primary :> None), drafts |-> [b \in Bufs |-> None],
     reply |-> [buf |-> None, pane |-> None], tree |-> Bare]

DockedBufs(s) == Range(s.docked)
\* m_panes: every buffer in a pane, docked or floating
Paned(s) == DockedBufs(s) \cup s.windows
\* where the pane of b is: its view id, or b itself when it floats
PaneOf(s, b) == IF b \in s.windows THEN b ELSE CHOOSE i \in DOMAIN s.docked : s.docked[i] = b
BufOf(s, v) == IF v = Primary THEN s.active ELSE IF v \in DOMAIN s.docked THEN s.docked[v] ELSE v
FreeId(s) == CHOOSE i \in PaneIds : i \notin DOMAIN s.docked
Drop(f, x) == Restrict(f, DOMAIN f \ {x})

-----------------------------------------------------------------------------
(* The layout.  The root of the tree stays a split, and a view that the    *)
(* tree has lost is added at its end rather than left without a place.      *)
Strays(s) == ({Primary} \cup DOMAIN s.docked) \ Leaves(s.tree)

Rebuilt(s) ==
    LET root == CASE ~IsLeaf(s.tree)       -> s.tree
                  [] s.tree.slot = NoSlot -> SplitOf("h", <<>>)
                  [] OTHER                -> SplitOf("h", << s.tree >>)
        lost == SetToSeq(Strays(s))
    IN  [s EXCEPT !.tree = [root EXCEPT !.kids = @ \o [i \in DOMAIN lost |-> Leaf(lost[i])]]]

\* chooseSplitTarget: the views on screen that may have room to be halved
Targets(s) == { id \in Leaves(s.tree) : id # Primary \/ ~s.hidden }

-----------------------------------------------------------------------------
(* Loading a buffer into a view.                                            *)
Stash(s, v) == [s EXCEPT !.drafts[BufOf(s, v)] = s.text[v]]
NoReply == [buf |-> None, pane |-> None]

\* the buffer shows up in the primary view, unless a pane has it
SwitchTo(s, b) ==
    IF b \in Paned(s) THEN s
    ELSE LET left  == IF s.active = None THEN s ELSE Stash(s, Primary)
             shown == IF DOMAIN s.docked = {}
                      THEN [left EXCEPT !.hidden = FALSE] ELSE left
         IN  [shown EXCEPT !.active = b, !.reply = NoReply, !.text[Primary] = left.drafts[b]]

\* as a bug would have it: the reply being composed in the pane stays
RetargetedMidReply(s, id, b) ==
    LET old   == s.docked[id]
        left  == Stash(s, id)
        moved == [left EXCEPT !.docked[id] = b, !.text[id] = left.drafts[b]]
        done  == IF b = s.active THEN SwitchTo(moved, old) ELSE moved
    IN  IF old = b \/ b \in Paned(s) THEN s ELSE [done EXCEPT !.focused = id]

Retargeted(s, id, b) ==
    LET old   == s.docked[id]
        left  == Stash(s, id)
        moved == [left EXCEPT !.docked[id] = b, !.text[id] = left.drafts[b],
                              !.reply = IF @.pane = id THEN NoReply ELSE @]
        done  == IF b = s.active THEN SwitchTo(moved, old) ELSE moved
    IN  IF old = b \/ b \in Paned(s) THEN s ELSE [done EXCEPT !.focused = id]

\* the docked pane typed in last, or with the primary closed the first there is
RouteTarget(s) ==
    LET order == SelectSeq(LeafOrder(s.tree), LAMBDA id : id \in DOMAIN s.docked)
    IN  IF s.focused # None THEN s.focused
        ELSE IF s.hidden /\ order # <<>> THEN order[1] ELSE None

ShowBuffer(s, b) ==
    IF RouteTarget(s) = None THEN SwitchTo(s, b) ELSE Retargeted(s, RouteTarget(s), b)

\* the first row that no pane has, or the server's own
SwitchAway(s, b) ==
    LET free == s.rows \ (Paned(s) \cup {b})
    IN  IF free # {} THEN ShowBuffer(s, CHOOSE c \in free : TRUE)
        ELSE IF s.up THEN ShowBuffer(s, Server) ELSE s

-----------------------------------------------------------------------------
(* Opening, floating and closing panes.                                     *)
\* a new pane begins with the draft kept for its buffer
CreatePane(s, v, b) == [s EXCEPT !.text = @ @@ (v :> s.drafts[b])]

\* already open: a docked one takes the focus, a window is raised
OpenPaneOp(s, b, target, axis) ==
    IF b \in Paned(s)
    THEN IF b \in s.windows THEN s ELSE [s EXCEPT !.focused = PaneOf(s, b)]
    ELSE IF PaneIds \subseteq DOMAIN s.docked THEN s
    ELSE LET id   == FreeId(s)
             made == Rebuilt([CreatePane(s, id, b) EXCEPT
                                 !.docked = @ @@ (id :> b),
                                 !.tree = SplitLeaf(@, target, id, axis, FALSE)])
         IN  IF b = s.active THEN SwitchAway(made, b) ELSE made

\* as a bug would have it: the place of the floated pane is kept
FloatKeepingSlot(s, b) ==
    LET id     == PaneOf(s, b)
        undock == [s EXCEPT !.docked = Drop(@, id), !.windows = @ \cup {b},
                            !.focused = IF @ = id THEN None ELSE @,
                            !.text = Drop(@, id) @@ (b :> s.text[id]),
                            !.reply.pane = IF @ = id THEN b ELSE @]
    IN  Rebuilt(undock)

\* as a bug would have it: the floated pane is still the one typed in
FloatStillFocused(s, b) ==
    LET id == PaneOf(s, b)
    IN  Rebuilt([s EXCEPT !.docked = Drop(@, id), !.tree = RemoveLeaf(@, id),
                          !.windows = @ \cup {b}, !.text = Drop(@, id) @@ (b :> s.text[id])])

FloatPane(s, b) ==
    LET id     == PaneOf(s, b)
        undock == [s EXCEPT !.docked = Drop(@, id), !.tree = RemoveLeaf(@, id),
                            !.focused = IF @ = id THEN None ELSE @,
                            !.windows = @ \cup {b},
                            !.text = Drop(@, id) @@ (b :> s.text[id]),
                            !.reply.pane = IF @ = id THEN b ELSE @]
        bare   == IF DOMAIN undock.docked = {} THEN [undock EXCEPT !.hidden = FALSE] ELSE undock
    IN  IF b = s.active THEN SwitchAway(Rebuilt(bare), b) ELSE Rebuilt(bare)

PopOutOp(s, b) ==
    IF b \in s.windows \/ Cardinality(s.windows) >= MaxWindows THEN s
    ELSE IF b \in DockedBufs(s) THEN FloatPane(s, b)
    ELSE LET made == [CreatePane(s, b, b) EXCEPT !.windows = @ \cup {b}]
         IN  IF b = s.active THEN SwitchAway(made, b) ELSE made

\* what closing either kind of pane begins with
Taken(s, b) ==
    LET v == PaneOf(s, b)
        t == Stash(s, v)
    IN  [t EXCEPT !.focused = IF @ = v THEN None ELSE @,
                  !.reply = IF @.pane = v THEN NoReply ELSE @,
                  !.text = Drop(@, v)]

\* as a bug would have it: the last pane goes and the closed view stays closed
ClosePaneStayHidden(s, b) ==
    IF b \notin Paned(s) THEN s
    ELSE LET t == Taken(s, b)
             v == PaneOf(s, b)
         IN  IF b \in s.windows
             THEN [t EXCEPT !.windows = @ \ {b}]
             ELSE Rebuilt([t EXCEPT !.docked = Drop(@, v), !.tree = RemoveLeaf(@, v)])

\* closing a window gives the buffer back to the primary view if that is open
ClosePaneOp(s, b) ==
    IF b \notin Paned(s) THEN s
    ELSE LET t == Taken(s, b)
             v == PaneOf(s, b)
         IN  IF b \in s.windows
             THEN LET gone == [t EXCEPT !.windows = @ \ {b}]
                  IN  IF s.up /\ ~s.hidden /\ b \in s.rows \cup {Server}
                      THEN SwitchTo(gone, b) ELSE gone
             ELSE LET gone == [t EXCEPT !.docked = Drop(@, v), !.tree = RemoveLeaf(@, v)]
                      bare == IF DOMAIN gone.docked = {}
                              THEN [gone EXCEPT !.hidden = FALSE] ELSE gone
                  IN  Rebuilt(bare)

-----------------------------------------------------------------------------
Nothing == [panes |-> {}, layout |-> EmptyRoot, hidden |-> FALSE, windows |-> {}]
Running == saved = Nothing
Act(s) == Running /\ ui' = s /\ UNCHANGED saved

(* The sidebar's rows follow the channels of the session model.             *)
ChannelAdded(c) ==
    /\ ui.up /\ c \notin ui.rows
    /\ \E asked \in BOOLEAN :
         LET s == [ui EXCEPT !.rows = @ \cup {c}]
         IN  IF c \in ui.windows \/ (~asked /\ ui.active # None) THEN Act(s)
             ELSE Act(SwitchTo(s, c))

Forget(s, bs) == [s EXCEPT !.drafts = [b \in Bufs |-> IF b \in bs THEN None ELSE @[b]]]

\* the row goes first, then the pane and what was kept for the buffer
ChannelRemoved(c) ==
    /\ Running /\ c \in ui.rows
    /\ LET s == Forget(ClosePaneOp([ui EXCEPT !.rows = @ \ {c}], c), {c})
       IN  \E b \in s.rows \cup {Server} : ui' = ShowBuffer(s, b)
    /\ UNCHANGED saved

\* onServerClosed: every pane of the server closes, with no session to go back to
ServerClosed ==
    /\ Running /\ ui.up
    /\ LET bare == DOMAIN ui.docked = {}
           s == [ui EXCEPT
                   !.rows = {}, !.up = FALSE, !.docked = <<>>, !.windows = {},
                   !.focused = None, !.text = Restrict(@, {Primary}),
                   !.reply = IF @.pane # None THEN NoReply ELSE @,
                   !.tree = IF bare THEN @ ELSE Bare, !.hidden = bare /\ @]
       IN  ui' = Forget(Rebuilt(s), Bufs)
    /\ UNCHANGED saved

ServerAdded == ~ui.up /\ Act([ui EXCEPT !.up = TRUE])

\* a click on a row, Alt+Up or Alt+Down, the quick switcher
ShowRow(b) == ui.up /\ b \in ui.rows \cup {Server} /\ Act(ShowBuffer(ui, b))

\* the keyboard focus enters a view; a floating pane is never the docked target
Touched(s, v) ==
    [s EXCEPT !.focused = IF v = Primary THEN None ELSE IF v \in DOMAIN s.docked THEN v ELSE @]
CanTouch(v) == Running /\ v \in DOMAIN ui.text /\ (v = Primary => ~ui.hidden)

FocusView(v) == CanTouch(v) /\ Act(Touched(ui, v))

\* without room for another pane the opening is refused
OpenPane(b) ==
    /\ b \in ui.rows
    /\ \E target \in Targets(ui), axis \in Axes : Act(OpenPaneOp(ui, b, target, axis))
PopOut(b) == b \in ui.rows /\ Act(PopOutOp(ui, b))
ClosePane(b) == b \in Paned(ui) /\ Act(ClosePaneOp(ui, b))
\* the title bar of a floating pane's window has a close button too
CloseWindow(b) == b \in ui.windows /\ ClosePane(b)

\* the close button of the primary view is there once there are panes
HidePrimary == DOMAIN ui.docked # {} /\ Act([ui EXCEPT !.hidden = TRUE])

-----------------------------------------------------------------------------
(* Rearranging the docked views.                                            *)
\* where on a view another one is dropped: in its middle or on one of its edges
Zones == {"center", "left", "right", "top", "bottom"}
AxisOf(zone) == IF zone \in {"left", "right"} THEN "h" ELSE "v"

AfterDrop(s, moving, target, zone) ==
    MoveLeafBeside(s.tree, moving, target, AxisOf(zone), zone \in {"left", "top"})

WouldChange(s, moving, target, zone) ==
    moving # target /\ (zone = "center" \/ AfterDrop(s, moving, target, zone) # s.tree)

\* dropped on an edge of another view, a view moves to that side of it
PlacedBeside(s, moving, target, zone) ==
    Rebuilt([s EXCEPT !.tree = AfterDrop(s, moving, target, zone)])

\* dropped in the middle, the two trade places
Traded(s, moving, target) == Rebuilt([s EXCEPT !.tree = SwapLeaves(@, moving, target)])

Placed(moving, target, zone) ==
    IF zone = "center" THEN Traded(ui, moving, target)
                       ELSE PlacedBeside(ui, moving, target, zone)

\* a header is grabbed where there is another view to drop it on.  The drag
\* runs the event loop: a pane removed meanwhile is found by nobody at the drop
Grabbed(v) ==
    IF v = Primary THEN ~ui.hidden /\ DOMAIN ui.docked # {} ELSE v \in DOMAIN ui.docked

\* bound: views are rearranged while nothing is typed or replied to in them,
\* which their rearrangement does not look at
Idle == Range(ui.text) = {None} /\ ui.reply = NoReply

\* a drop that would put a view where it is was not offered, and is ignored
DropOnPane(moving, id, zone) ==
    /\ Idle /\ Grabbed(moving) /\ id \in DOMAIN ui.docked
    /\ WouldChange(ui, moving, id, zone)
    /\ Act(Placed(moving, id, zone))

\* the primary view takes the drop itself, and only of a pane
DropOnPrimary(id, zone) ==
    /\ Idle /\ id \in DOMAIN ui.docked /\ ~ui.hidden
    /\ WouldChange(ui, id, Primary, zone)
    /\ Act(Placed(id, Primary, zone))

ForceAxis(axis) == Idle /\ Act(Rebuilt([ui EXCEPT !.tree = FlattenTree(@, axis)]))

-----------------------------------------------------------------------------
(* Typing, sending and replying.                                            *)
Type(v) ==
    /\ CanTouch(v) /\ BufOf(ui, v) \in Typed
    /\ ui' = [Touched(ui, v) EXCEPT !.text[v] = BufOf(ui, v)]
    /\ UNCHANGED saved

\* the text leaves the input, erased or sent
TextLeaves(v, s) ==
    /\ CanTouch(v) /\ ui.text[v] # None
    /\ ui' = s
    /\ UNCHANGED saved
Cleared(v) == [Touched(ui, v) EXCEPT !.text[v] = None]

Erase(v) == TextLeaves(v, Cleared(v))

\* a pending reply rides along only with a message from its own buffer
Send(v) ==
    TextLeaves(v, [Cleared(v) EXCEPT !.reply = IF @.buf = BufOf(ui, v) THEN NoReply ELSE @])

\* /query and /msg show their buffer; the input was cleared before
Command(v, b) == b \in ui.rows /\ TextLeaves(v, ShowBuffer(Cleared(v), b))

Reply(v) ==
    /\ v \in DOMAIN ui.text /\ BufOf(ui, v) \in Typed
    /\ Act([ui EXCEPT !.reply = [buf  |-> BufOf(ui, v),
                                 pane |-> IF v = Primary THEN None ELSE v]])
CancelReply == ui.reply.buf # None /\ Act([ui EXCEPT !.reply = NoReply])

-----------------------------------------------------------------------------
(* Quitting writes the layout under the names of the buffers.  The next run *)
(* opens the panes it finds, as far as there is room for them, arranges      *)
(* them as they were, and floats the windows.                               *)
KeyOf(s) ==
    [id \in {Primary} \cup DOMAIN s.docked |-> IF id = Primary THEN Primary ELSE s.docked[id]]
IdFor(s) == [k \in Range(KeyOf(s)) |-> CHOOSE id \in DOMAIN KeyOf(s) : KeyOf(s)[id] = k]

Quit ==
    /\ Running
    /\ saved' = [panes |-> DockedBufs(ui),
                 layout |-> IF ui.docked = <<>> THEN EmptyRoot ELSE ToKeys(ui.tree, KeyOf(ui)),
                 hidden |-> ui.hidden, windows |-> ui.windows]
    /\ ui' = Fresh

OpenAll(s, bs) == FoldSet(LAMBDA b, t : OpenPaneOp(t, b, Primary, "h"), s, bs)

\* as a bug would have it: the panes stay where opening them put them
AsOpened(s) == Rebuilt(s)

Arranged(s) ==
    LET restored == FromKeys(saved.layout, IdFor(s))
    IN  IF restored = EmptyRoot THEN Rebuilt(s) ELSE Rebuilt([s EXCEPT !.tree = restored])

RestorePanes ==
    /\ saved.layout # EmptyRoot
    /\ \E roomFor \in SUBSET saved.panes :
         LET s == Arranged(OpenAll(ui, roomFor))
         IN  ui' = [s EXCEPT !.hidden = saved.hidden /\ DOMAIN s.docked # {}]
    /\ saved' = [Nothing EXCEPT !.windows = saved.windows]

RestoreWindows ==
    /\ saved.layout = EmptyRoot /\ saved.windows # {}
    /\ ui' = FoldSet(LAMBDA b, t : PopOutOp(t, b), ui, saved.windows)
    /\ saved' = Nothing

-----------------------------------------------------------------------------
Init == ui = Fresh /\ saved = Nothing

Views == {Primary} \cup PaneIds \cup Bufs

Next ==
    \/ \E c \in Chans : ChannelAdded(c) \/ ChannelRemoved(c) \/ OpenPane(c) \/ PopOut(c)
    \/ \E b \in Bufs : ShowRow(b) \/ ClosePane(b) \/ CloseWindow(b)
    \/ ServerClosed \/ ServerAdded \/ HidePrimary \/ CancelReply
    \/ \E v \in Views : FocusView(v) \/ Type(v) \/ Erase(v) \/ Send(v) \/ Reply(v)
                        \/ \E b \in Bufs : Command(v, b)
    \/ \E id \in PaneIds, zone \in Zones :
         \/ \E v \in {Primary} \cup PaneIds : DropOnPane(v, id, zone)
         \/ DropOnPrimary(id, zone)
    \/ \E axis \in Axes : ForceAxis(axis)
    \/ Quit \/ RestorePanes \/ RestoreWindows

Spec == Init /\ [][Next]_vars

-----------------------------------------------------------------------------
TypeOK ==
    /\ ui.rows \subseteq Chans
    /\ ui.active \in Bufs \cup {None} /\ ui.hidden \in BOOLEAN /\ ui.up \in BOOLEAN
    /\ DOMAIN ui.docked \subseteq PaneIds /\ DockedBufs(ui) \subseteq Bufs
    /\ ui.windows \subseteq Bufs
    /\ ui.focused \in DOMAIN ui.docked \cup {None}
    /\ DOMAIN ui.text = {Primary} \cup DOMAIN ui.docked \cup ui.windows
    /\ ui.drafts \in [Bufs -> Bufs \cup {None}]
    /\ ui.reply.buf \in Bufs \cup {None}
    /\ ui.reply.pane \in DOMAIN ui.docked \cup ui.windows \cup {None}

\* every docked view, and the primary one, has one place in the layout, and
\* nothing that is gone keeps one: a view without a leaf would be shown as a
\* window of its own (rebuildPaneLayout).  No two panes, docked or floating,
\* hold the same buffer (m_panes)
EveryViewPlaced ==
    /\ OneLeafEach(ui.tree)
    /\ Leaves(ui.tree) = {Primary} \cup DOMAIN ui.docked
    /\ IsInjective(ui.docked) /\ DockedBufs(ui) \cap ui.windows = {}

\* with the primary view closed there is a docked pane to look at, after
\* every way a pane can go and after a restart
SomethingIsShown == ui.hidden => DOMAIN ui.docked # {}

\* text typed for a buffer never turns up in the input or the draft of another
\* one, through switches, trades between views, floats and closes, and a reply
\* is pending only for the buffer that its view shows
WordsStayWithTheirBuffer ==
    /\ \A v \in DOMAIN ui.text : ui.text[v] \in {None, BufOf(ui, v)}
    /\ \A b \in Bufs : ui.drafts[b] \in {None, b}
    /\ ui.reply.buf # None =>
          ui.reply.buf = BufOf(ui, IF ui.reply.pane = None THEN Primary ELSE ui.reply.pane)

\* a restart brings back the arrangement of the views that came back, and a
\* primary view that was closed stays closed while there is a pane to show
\* (restorePaneLayout)
ComesBackAsLeft ==
    [][ saved.layout # EmptyRoot =>
          /\ LeafOrder(ToKeys(ui'.tree, KeyOf(ui')))
               = SelectSeq(LeafOrder(saved.layout), LAMBDA k : k \in Range(KeyOf(ui')))
          /\ ui'.hidden = (saved.hidden /\ DOMAIN ui'.docked # {}) ]_vars

\* every edit of the layout leaves it tidy: no split of one view, none nested
\* in a split of its own axis (panetree.h:38-41)
EditsAreTidy == [][ (ui'.tree # ui.tree /\ Running /\ Running') => Tidy(ui'.tree) ]_vars

\* mainwindow.cpp:1719 "a draft typed in the main view survives the channel
\* moving to a pane" and back: opening, floating and closing panes loses none
Kept(s, b) == s.drafts[b] = b \/ \E v \in DOMAIN s.text : s.text[v] = b
DraftsSurvive ==
    [][ (Paned(ui') # Paned(ui) /\ ui'.rows = ui.rows /\ ui'.up = ui.up /\ Running')
          => \A b \in Bufs : Kept(ui, b) => Kept(ui', b) ]_vars

\* Docked panes, floating panes, the layout and what is hidden fit each other.
LayoutInv == TypeOK /\ EveryViewPlaced /\ SomethingIsShown

\* Edits leave the layout tidy, and a restart leaves it as it was.
LayoutKept == ComesBackAsLeft /\ EditsAreTidy
=============================================================================
