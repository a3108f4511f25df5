# A TLA+ model of Uplink

Uplink (NodeRelay) is an IRC client in C++ and Qt 6. This directory holds TLA+
modules of its core, the TLC configurations that check them on small instances,
and TLAPS proofs of the results that hold for every instance. Every definition is
translated from the source; `PROJECT.json` maps each one to the lines it stands
for. Paths below are relative to `src/src/` of the repository unless they start
with `docs/`, `tests/` or `README.md`.

Uplink is one process with one event loop. Concurrency comes from what that loop
interleaves: socket signals, timers, posted calls, keychain and network replies,
nested event loops of dialogs, and the user; and from the other side of each
connection. An action of a module is therefore one handler, run to its end, and
the environment is everything that decides which handler runs next.

## 1. Inventory

### Protocol: `irc/`

**Connection life cycle** (`ircclient.cpp` 179-300, 500-770; modelled). State:
host, ssl, the intentional-disconnect flag, the STS upgrade flag, the reconnect
timer with its delay, the watchdog and its unanswered PING, the socket (QSslSocket
or QWebSocket), the pinned fingerprint. Operations: connectToServer, quit,
reconnect, doReconnect, sendPing, onNetworkOnline, and the handlers of every
socket signal. Hard: `abort()` emits `disconnected()` before it returns, so a
handler runs inside another; a certificate dialog is open while the link lives on;
an STS upgrade is posted and outlives a quit. Correct when a client that was not
told to stop always has a way back, never two, and a dead link is noticed.

**Capabilities, SASL, nick** (`ircclient.cpp` 560-620, 1430-1640; modelled).
State: capabilities requested and acknowledged, the SASL exchange, nick and its
fallback, the soju listing. Hard: ACK lines are split, CAP NEW and DEL come at any
time, a refusal may come to anything, a lost link must reset all of it. Correct
when both sides agree once nothing is in flight, and negotiation stalls only where
section 5 says it does.

**DCC** (`dccsend.cpp`, `dccreceive.cpp`, `dccports.h`, `ui/dcccontroller.cpp`;
modelled). Two objects with a socket, byte counts, stall guards, single-shot
timers, a dialog and a message box each. Hard: the last ACK races the close, the
guards race slow progress, objects live on in a nested event loop after they have
ended. Correct when a reported success means the whole file and each side hears
one end.

**Dispatch and batches** (`ircclient.cpp` 820-1240; modelled but for the parser).
State: the open batches, each with its kind, its parent and the lines held back.
Hard: lines of several open and nested batches arrive mixed with live ones; a batch
may never end; a page of history and a replay use the same words as live lines.
Correct when each line is held once, where it belongs, and a replay raises no badge.

**STS store** (`stsstore.cpp`; not modelled, section 6).

### Model: `model/`

**Channel buffers** (`channel.h`, `message.h`; partly). Messages with a cap at
either end, the index of the first unread line, badge counts, reactions, nick
list with its index, redactions, previews. Hard: indices into a list that is
trimmed in front and grown in front. Redaction and previews are left.

**Session model: read state** (`sessionmodel.cpp` 557-681, 802-847; modelled).
The active buffer, the badges, the coalesced MARKREAD timer, the server's marker
shared with the user's other clients. Hard: a slot of the signal in the middle of
postMessage clears what the caller is counting; marks are queued now and sent
later. Correct when a badge counts exactly what nobody looked at.

**Session model: history and log** (`sessionmodel.cpp` 233-280, 859-940,
`logreader.cpp`, `ui/chatupdates.cpp` 410-526; partly). A pending request, its
timeout, lines held back for it, the log file. Hard: replies are told apart only
by whether a page is awaited, and a server need not reply. Correct when no wait is
endless and no line is held twice or out of order.

**Nick lists, buffers and membership** (`channel.h` 34-259, `sessionmodel.cpp`
401-423, 512-532, 787-816, 946-1356, `ui/mainwindow.cpp` 1213-1290; modelled for one
channel). A sorted list with a hand-kept index, a buffer that lines make and the user
closes, a row, a user list on screen, a note of the joins the user asked for. Hard:
echoes of what has been closed, lines between a JOIN and its NAMES, a list left over
from an earlier stay. Correct when the list is the server's, the index points into
it, and a join does what the user expects and no more.

**Session model: servers** (`sessionmodel.cpp` 29-138, 316-399, 1600-1680; modelled).
State: sessions and clients in parallel lists, the copy of the configuration, the
keychain reads each client waits for. Hard: a keychain's answer, a dialog's list or a
prompt that belongs to what has been closed, removed or changed since. Correct when
rows, icons and panes follow the sessions and every wait ends.

### User interface: `ui/`, and the rest

**Typing and input** (`typingcontroller.cpp`, `inputbar.cpp`, parts of
`mainwindow.cpp`; partly). Two inputs share one history, one completion cycle, one
emoji popup, one typing state and its timer. Hard: inputs change their buffer while
any of these is under way. Correct when no buffer is left believing the user types
there, and a text goes out whole.

**Pane tree, panes, main window** (`panetree.cpp`, `channelpane.cpp`, `mainwindow.cpp`,
`contextmenus.cpp`; modelled, for one server). State: the layout tree, the docked
panes, the floating ones, the hidden primary view, drafts, the reply. Hard: three
structures edited by hand in turn, and put back from what the last run saved. Correct
when each view has one place and no text strays to another buffer.

**Chat view, renderer, updates** (`chatview.cpp`, `chatrenderer.cpp`, `chatupdates.cpp`;
modelled but for painting). State: lines with heights and offsets, the scroll bar, the
first message drawn, posted callbacks, event groups opened. Hard: every change moves
the scroll bar, whose signals set the flags the next change reads. Correct when what is
drawn is the buffer in its order and the reader's place is kept.

**Link previews** (`previewcontroller.cpp`, `linkpreview.cpp`; modelled). A queue with
one slot, a watchdog, a cache, replies that outlive their slot. Hard: an answer is told
apart by its address only. Correct when the slot is always released.

**Configuration, keychain, dialogs, sidebar, commands** (`config.cpp`, `keychainhelper.cpp`,
the server dialogs, `sidebarcontroller.cpp`, `commanddispatcher.cpp`; partly, in `Servers`).
Three copies of the server list (window, model, file), a file watcher with a guard, a
save that runs the event loop, worker threads that answer late.

**STS store, update checker, list and search dialogs, themes and widgets**: not
modelled; section 6 says why.

`PROJECT.json` lists every component with its files, and under `hazards` what in
this code a test would hardly reach, with the property that would notice.

### How the parts interact

`IrcClient` emits signals which `SessionModel::attachClient` connects to handlers,
synchronously. Handlers change sessions and channels and emit signals of their own,
which the UI's slots handle synchronously too, calling back into the model
(`postMessage` -> `messageAdded` -> `markRead`). The UI calls `SessionModel`, which
calls `IrcClient`, which writes to the socket. DCC reports are queued connections.

## 2. Modules

| Module | Models | Extends / uses |
| --- | --- | --- |
| `IrcConnection` | the life cycle of one connection | |
| `Registration` | CAP, SASL, nick, soju listing over two FIFO channels | |
| `FileTransfer` | what a file transfer promises (abstract) | |
| `DccTransfer` | DccSend, DccReceive, DccController | implements `FileTransfer` |
| `ChannelBuffer` | a channel's list of lines and its operations | |
| `ReadState` | badges, read marks, focus, another client | `ChannelBuffer` |
| `Scrollback` | log, CHATHISTORY, timeouts, the drawn window | `ChannelBuffer` |
| `NickList` | a nick list and its index: the pure operations | |
| `Membership` | one channel: comings and goings, buffer, row, view, user list | `NickList` |
| `MessageRouting` | batches, replays, echoes, notices, CTCP, reactions: which buffer | `ChannelBuffer` |
| `Servers` | configuration, sessions and clients, keychain, dialogs, worker threads | |
| `PaneTree` | the layout tree: the pure operations | |
| `Panes` | the primary view, docked and floating panes, drafts, save and restore | `PaneTree` |
| `Compose` | two inputs: history, completion, emoji, typing notes, cutting a text | |
| `ChatView` | the scrolling list of lines: heights, scroll bar, following | |
| `ChatLines` | what messages look like: groups, reaction rows, cards | `ChatView` |
| `ChatWindow` | a buffer in the main view, kept up to date | `ChatLines` |
| `Previews` | the queue of links and what fetches one | |
| `MC...` | the instances TLC checks | |
| `...Proofs` | the theorems and their proofs | |

**IrcConnection.** `client` is the IrcClient object: a handler that calls another is
function composition (`DoReconnect(c) == Open(StopTimer(SockAbort(c)))`), and
`SockAbort` contains `OnDisconnected`, because Qt emits the signal inside `abort()`.
`sock` is the socket's state with Qt's ConnectedState split at isEncrypted(). `link`
is what is true of the current attempt. `posted` is the queued zero timer of the STS
upgrade, `prompt` the certificate dialog. Actions are the handlers and the
environment's events. The ping clock is counted in whole watchdog ticks with a
tolerance of one either way (`Overdue`).

**Registration.** `client` and `server` talk over `up` and `down`. The server is the
environment and may answer in every way the protocol allows, also with the refusals the
client only prints (`ServerRefuses`; `server.unheeded` remembers that it did). A network (a record
of `Networks`) fixes what it offers and how often the unusual may happen. Nick k is
the configured nick with k underscores.

**DccTransfer.** Bytes are counted. `net` is one TCP connection that delivers in
pieces of any size, and ACKs in order. Every timer is a flag that may fire whenever
it is set; durations are not compared, except that `setup.slow` says whether a guard
period may pass without an ACK. `box` is the controller's queued slot and the
message box it opens, during whose nested loop the object is still alive.

**ChannelBuffer.** A line is its time and whether it came as history.
`AddMessages`, `PrependMessages` are `addMessage` and `prependMessages` with the cap,
the shift of `firstUnreadIdx` and the reactions that go with dropped lines. Indices
count from 1, and 0 is the source's -1. `Newest` is what the log or the server
returns for a page.

**ReadState.** `PostMessage` is `postMessage` in the order of the code: counting,
the signal during which a pane may call `markRead`, then the badge. `view` says where
the buffer is shown; `marks` is the set of held marks and the timer. `server` holds
the account's marker, which `OtherReads` moves. `missed` is history: the messages
that came while the buffer was nowhere on screen.

**Scrollback.** `paging` is the pending request, its armed timeouts and the seed flag;
`ui` the view's own wait, the posted resets of it and what is drawn;
`server.asked` the requests a server has not answered. `Settle` is the posted call
that resets the wait and may go on loading. `reach` is history: the oldest line ever
held.

**NickList.** `Rebuilt` and `ReindexFrom` are the two ways the code keeps `nickIndex`;
`Sorted` is `std::sort` with the rebuild that follows it everywhere: it gives each entry
the place that the number of those before it (`Before`) says. A nick is a number
and an entry carries the set of prefixes it holds, which `-o` may lower to `+v`. A MODE line
is a sequence of modes, some with a word behind them; `WordRead` is the word that the
code's `argIdx` leads to, and `SetPrefixes` the loop over the modes.

**Membership.** Lines from the server are handled as the server's state changes, since
one stream delivers them in order: `roster` is the state as of the last line.
`link.sent` holds what Uplink sent and the server has not answered. `buffer.held` says
whether the session has the channel, which `postMessage` brings about without a row.
`ui.fresh` says whether the snapshot on screen is the list; `left` and `asked` are history.
`strayed` says that a prefix once stood behind a mode whose argument `argModes` is wrong
about. `config.implicit` is a server that sends NAMES on its own, which then follow the JOIN
with nothing between.

**MessageRouting.** A line has the number it came with (`nr`) and the one it was first said
under, its msgid (`at`): a replay may bring a line that is held already (`SentBefore`). A
message has the numbers of the lines it was made of (`parts`). `batches` is `m_batches`, `open` what the server has open:
they differ when a batch was refused. `Hear` is what
`processLine` does with a line: hold it back in a batch or handle it (`OnMessage`,
`OnNotice`, `OnAction`, `DeliverLines`). ZNC's playback buffers count as old lines.

**Servers.** `World` is the record of sessions, clients, rows and the model's copy that
most handlers change together; they are compositions of helpers named as in the code.
The lists of servers are sequences in their order, and their names may be blank or given
twice, since no dialog looks; loops over them are recursive functions.
`store` is a save in progress, the watcher's notice and the reload it causes; a save
reads the keychain in nested event loops, in which anything else may be handled.
`clients[i].phase` stands for the whole of IrcConnection.

**Panes.** `ui` is the window; each operator gives the window a call leaves behind, with
`rebuildPaneLayout` at its end where the code has it. `DropOnPane` and `DropOnPrimary`
are what a drag ends in. `saved` is what the restore posted at startup still has to put
back; `Quit` makes it. Sizes are left out: a view has room to be halved or has not.

**Compose.** `input` holds both inputs, `recall` and `tab` the history and completion
under way, `typing` the one typing state with its timer, `typing.told` what the network
was last told of each buffer. `Cuts` is the loop of `privmsg()` over bytes.

**ChatView, ChatLines, ChatWindow.** Each operator of `ChatView` gives the view a call
leaves behind, with the signals of the scroll bar it sets off (`SetValue`, `SetRange`).
`win.posted` is the queue of posted callbacks, in order. A message is its position.

**Previews.** `fetch` is controller and fetcher together; each operator gives the record
a call leaves behind, and `cards` what the last step stored. `ProcessQueue` stands for
processQueue, fetch and onCardReady where they call each other: a link that is refused, or
whose card is in the cache, leaves the queue at once, up to the first to be fetched.
`pictures` counts the replies with a picture under way, by the address they go by.

## 3. Runs

| Run | Instance | Shows |
| --- | --- | --- |
| `conn` | TCP and WebSocket, plain and TLS, pinned and not; delays 5..60, ping limit 3 ticks | the safety of the connection; a silent link is dropped, a lost one retried |
| `reg` | five networks: split ACKs, occupied nicks, a bouncer, and two with capabilities announced late | agreement of both sides, authentication, nick; negotiation ends unless behind an answer that is only printed |
| `dcc` | 6 bytes, chunks of 1, an ACK every 4; four setups | `DccTransfer` implements `FileTransfer`; one report; guards; completion |
| `read` | cap 3, pages of 2, five lines of which the third is a mention | badge, first unread line, reactions, marks |
| `scroll` | cap 3, pages of 2, five lines of which three precede the start; with and without chathistory | order of lines, every wait ends, the log is given up rightly |
| `members` | two nicks, one prefix, a key that is a nick, two modes a line, two lines sent, lists of three | list, index, screen, rejoins and view |
| `panes` | two channels and the server, two docked panes, one floating | every view has one place, words stay with their buffer, a restart restores |
| `route` | cap 2, two batches open at once, two lines, the second perhaps the first again | no line becomes two messages, each is in its place; replays are quiet; closed queries stay closed |
| `compose` | three buffers, two inputs, one other user, four steps | typing notes end and are taken back; texts are cut whole |
| `servers` | two configured servers and names given twice or left blank, two secrets, two steps | copies of the configuration keep the same names and part only over such names, views follow, waits end |
| `view` | window and chunk of 1; six messages and steps of the user together | what is drawn is the buffer in its turn; the reader's place; the view is filled |
| `previews` | two pages, a picture, a refused link; queue and cache of 2 | no place lost, a card once to who waits, no endless wait |

A run checks few formulas, each a conjunction of named parts: `ConnectionInv`,
`RegistrationInv`, `UnreadInv`, `ScrollInv`, `NickListInv`, `LayoutInv`, `RoutingInv`,
`InputInv`, `ServersInv`, `ViewInv` and `PreviewsInv` hold the module's type invariant
and the invariants that go with it; `ReconnectsDuly`, `EndsCleanly`, `AcksSuffice`,
`ReadMovesOn`, `LayoutKept` and `NotesEnd` bundle what belongs together. The parts are
defined, named and commented on just before.

**Bounds.** *conn* uses the code's own constants; delays are the five values between
5 and 60 s, and nothing else counts. *reg*: `MaxNick` 3 lets a nick be refused twice and
a stranger take or free one; one
network has late capabilities, split ACKs and a lost link, one two strangers' nick
changes, one split ACKs, a use of /nick and a lost link; one announces sasl itself only
after CAP LS, and one another capability while SASL may be under way, both perhaps before
001 (`Late`, `LateAny`). All at once are beyond reach.
*dcc*: six bytes with an ACK due at four puts the boundary, a rest below it and the
last byte at different places; chunks of one keep reads and ACKs apart. *read* and
*scroll*: a cap of three with pages of two means that a full buffer is trimmed at
either end by one and by two lines, that a page fits and does not fit, and that
every held line can have been dropped (`Last` 5); a window of two leaves a line not
drawn. `MaxReplies` bounds history batches in *read*; `MaxTimers` and `MaxAsked` 2 let
an earlier timeout or reply fall into a later request, and no more is needed for any
of the code's flags, which hold one bit each. Named in the guards as bounds too: in
`Scrollback` the logging preference is toggled only without chathistory, where it
matters for paging, and a line that is not a message is represented by Uplink's own
JOIN; in `ReadState` one line at a time gets reactions.

*members*: two nicks are the user and another who comes and goes, or the old and the
new nick of a rename, which may meet an entry left over; two modes on a line put a prefix behind one that is
miscounted, and the key of such a mode may be a nick; `MembershipProofs` has any number of
nicks, prefixes and modes; two lines in flight let a PART be followed by a JOIN, and NAMES by a
PART. A list may hold a nick twice (a rename seen through another channel meets a
leftover entry), which without `MaxList` would grow without end.

*panes*: two panes is enough for a split inside a split, for a trade between panes and
for one pane closing beside another; the two ids are symmetric. `Idle` bounds drags and
changes of the split's axis to moments when nothing is typed or replied to: a drag moves
leaves of the tree and neither reads nor writes a text or the reply. `Typed` is the one
channel in which something is typed. *route*: two lines, two batches, which may nest;
a batch of two lines is full at the second; one batch of a kind at a time; one reaction
at a time, or one CTCP request, and no request of that sort beside a page: the two touch
different parts of the state. The refusal of a ninth open batch is not reached, nor is
the cut at a full batch; `BufferProofs` covers the cut. *compose*: texts
of up to two words out of those `MCCompose` names, one a command, one an emoji's
beginning; characters of one to four bytes and lines of nine bytes, so that the room ends inside a
character and a text takes two lines; four steps of the user, with timers, the link and
the other user free. *servers*: two steps of the user in any order of all else (866 296 states;
three make some 18 million), each of which may add, rename, move or remove a server, so
that a name given twice can then be changed, closed or removed; `ServersProofs` has any
number of steps.
*view*: up to four messages, with a day's change before the third, and six in all of
messages and steps of the user, so that three messages leave three steps; a
viewport of three rows is filled by one message with reactions and card, so scrolling,
chunks and the button all come about. The cap on drawn lines and the removal of a last
reaction are not reached. *previews*: four links in messages over a queue and a cache
of two.

`CHECK_DEADLOCK FALSE` stands where the bounds, or the end of a transfer, stop the
system; the connection never stops and is checked for deadlock.

**Fairness.** Only what Qt's event loop guarantees and what a server or a network
must do for the property to make sense. *conn*: armed timers fire; nothing of the
peer. *reg*: lines are delivered and answered. *dcc*: only in the reliable setup, where
TCP delivers and the users accept. *read*: the queued timer fires. *scroll*: timeouts
fire and posted calls run; the server need never answer, which is the point of
`LoadingEnds`. *compose*: timers fire. *servers*: the keychain answers each read, a
collection's timer fires and what its thread posts runs; the thread itself need never
end. *view*: posted callbacks run and the layout timer fires. *previews*: the watchdog
fires; hosts and servers need never answer. All of it is weak fairness of single
events or of one side's next event.

**Mutants.** Next to a definition stands, marked "Mutant", a slip that could be made
in it; `PROJECT.json` pairs each property with one that violates it. Where a property
has several parts there are further mutants, one for each part.

## 4. Proofs

| Module | Theorems | Assumes |
| --- | --- | --- |
| `IrcConnectionProofs` | `ConnectionSound`: type correctness and the safety invariants together (`ConnectionInv`); `ReconnectsWhenDue` | 0 < MinDelay =< MaxDelay, a ping limit of at least a tick |
| `DccTransferProofs` | type correctness; `Spec => IsFileTransfer`; `TransferEndsCleanly` (`EndsCleanly`); `GuardStrikesSlow` | positive sizes |
| `RegistrationProofs` | `AuthenticatedOnlyTruly` (`AuthenticatedTruly`); `RegistrationSound`: type correctness, capabilities, CAP END, nick and reclaim together (`RegistrationInv`) | the flags and counts of a network are Booleans and naturals; a natural number of nicks |
| `ReadStateProofs` | `UnreadSound`: type correctness and the safety invariants together (`UnreadInv`); `ReadingMovesOn` (`ReadMovesOn`) | positive cap and page, Old =< Last |
| `BufferProofs` | of `Scrollback`: `LinesStayInOrder` (`LinesInOrder`); `ScrollSound`: type correctness, waits and the log (`ScrollInv`). Of `MessageRouting`: `RoutingSound`: type correctness, places and reactions (`RoutingInv`); `LinesWholeAndOnce` (`WholeAndOnce`); `QueryStaysClosed` (`ClosedStaysClosed`); `ReplayIsQuiet` (`QuietReplay`) | positive cap, page, window and chunk; Old =< Last; limits are naturals; the names differ, `Nothing` is no batch; for `ReplayIsQuiet` that two batches can be kept (the code: eight) |
| `WindowProofs` | of `Previews`: `PlacesKept`: type correctness and that no place is lost (`PreviewsInv`); `CardsAreWanted` (`CardsWanted`). Of `Compose`: `NobodyWaits` (`NothingDangles`); `WrittenGoesOut`: type correctness and cutting (`InputInv`). Of `ChatWindow`: `EndInSight` (`EndOrButton`); `WindowTyped`: type correctness | positive bounds and heights, no link is `Nothing`, pictures are links; a line has room behind the tag for any character and for a space, what emoji and nicks complete to is words, the names differ |
| `MembershipProofs` | `Rejoined` (`RejoinsOpen`), `ViewRight` (`ViewFollowsUser`), `NickListRight` (`NickListInv`), and of it `IndexRight` and `PanelRight` | finitely many nicks, at least one; ranks are 1..5; nicks and words are naturals |
| `ServersProofs` | `CopiesStayAgreed` (`CopiesAgree`); `ServersSound`: type correctness, views and waits (`ServersInv`), and of it `WorkersToldOnce` (`ToldOnce`) | the blank name is not one of the names; the list at the start is of these |

*Connection.* The invariants are inductive together, with two additions. An attempt
that has not registered counts no registration, or a link could begin with one. And
while an upgrade is queued the retry is its own: no timer is armed, and aborting the
old link arms none, since `stsUpgrade` or a deliberate disconnect keeps
scheduleReconnect from it. Without this `StsReconnect`, which alone does not stop the
timer, could leave a timer beside its attempt. Lemmas say what each helper does to
the fields; StepInv has one step for each action.

*Registration.* The invariant is about the lines in flight. Of a kind of line it says
that there is none on a way (`None`), at most one on both (`Alone`), that one kind comes
before another (`Before`), what the last of a kind is (`Last`), or that a line is behind
none of one kind and before none of another (`Turns`); and what holds of client and server
while there are such lines. What taking the head of one way and appending to the other
does to these is proved once, then what each handler takes and sends, then each part for
each handler. The parts are needed for these reasons.
- `CapsInv`: both sides agree on a capability unless an ACK or DEL of it is under way, and
  the last of these says what the server has; hence `CapsAgree`, since quiet means none.
- `SaslInv`: there is at most one line that is or may yet become a request for sasl or a
  step of the authentication, from CAP LS to the credentials, on both ways together; and
  there is none once 903 is under way or has come. So no second authentication can fail
  after the first succeeded, which is what `AuthenticatedTruly` comes down to.
- `NickInv`: at most one request for a nick or its answer is under way, and the server has
  the client's nick, with no change of it in flight; or the configured one was reclaimed,
  and the NICK line that says so is on its way to the client, behind no other change of
  the nick it gives up and before none of the one it gains.
- `PendingInv`: where ACKs come in one line and nothing is announced late, at most one LS,
  REQ or answer is under way and none during SASL, hence `HoldsCapEnd`.
- `HoldInv`: with sasl offered, the server holds registration open while SASL lasts, since
  CAP END is not sent before it ends and is behind what it waits for; so 903 precedes 001.
- `ReclaimInv` is `ReclaimsNick` with what holds before 001, and rests on `HoldInv`: the
  nick is reclaimed only in the handler of 001.

*DCC.* The bytes form a pipeline: acked =< received =< flushed =< sent, and every
ACK in flight counts no more than was received. So a sender that has seen an ACK for
the whole file proves the receiver has it. A receiver that still takes bytes has not
learnt an outcome (`OpenMeansUnknown`), which excludes a byte after its end. StepRefines
maps each action to a step of `FileTransfer` or to a stutter.
That a side reports once needs to know what can still make it report: a sender that has
reported has no socket that could fail and no timer, or it has finished and seen the last
ACK (`SenderEnded`); a receiver is done, or never had a socket (`ReceiverEnded`). The
sender's part rests on the ACKs in flight growing, each above the last one it saw
(`AcksGrow`): a second ACK of the whole file would report a second success.
For the stall guard (`GuardStrikesSlow`), the newest ACK sent and the bytes received lie
in the same ACK interval (`AcksDue`), by monotony of the division; so once no ACK is in
flight, a guard that saw no progress missed less than an interval.

*Read state.* `ChannelOK` relates the channel to the messages missed and to the time:
counts are cardinalities, no missed message precedes the first unread line, reactions
are of held lines, and, what makes it inductive, an empty badge has no first unread
line. Adding, prepending, counting and clearing each keep it, and every action is
built from these. With it `Inv` needs only that a buffer on screen has no badge and
that marks held under focus are queued. That a badge goes only with what was read rests
on the order of the lines that came live (`LiveInOrder`): the last line of the buffer, if
it is one of them, is the latest, so a mark that covers it covers all that was missed;
and nothing but a mark clears a hidden buffer (`MarkClears`). The lemmas about lists
(`JoinLines`, `KeepLines`, `PageIsHistory`) stand in `ReadStateProofs` and in
`BufferProofs`, as neither module extends the other.

*History and log.* The two halves of `LinesInOrder` need different things. Live lines
stay in order since nothing held, logged or said is newer than the server's count
(`OfThePast`), so that a line said now goes behind everything. With the log as the only
history (`OnlyTheLog`) no page is ever awaited, so a live line is never mistaken for one;
the seed finds an empty buffer; and a page holds lines older than the oldest one held.
Each half is a lemma about lists: dropping lines at either end, and putting ordered lines
before or behind older or newer ones, keeps the order (`KeptOfBoth`). For `ExhaustedTruly`
the reach, the least time ever held (`Least`), is no later than anything held (`Reached`):
a page of the log that brings nothing older proves there is nothing older in it.

*Routing.* The lines said so far are of two sorts: those kept back by a batch that is open
(`Pending`) and those that have come to the model (`Come`). `RInv` says that a line is kept
back by one batch at most, and that messages are made of lines that have come, each in one
message of one buffer or of the page awaited (`GoodModel`). So what a batch hands over
when it ends, and a line that comes alone, is new to every buffer; what is posted to one
buffer leaves the others alone. Each handler then has a lemma that takes a good model to a
good one, and says what it does to the query and to the badges (`HandledIn`): a line of
history adds to none, and makes no query but to put the line in it. To bound a badge by
`MaxSaid`, a multiline batch that is not empty counts as one line kept back (`Counted`).
The recursive functions, deliverBatch's loop and the parts of a multiline message, are
shown to exist by induction over a set of numbers (`EachNumber`, `AfterEach`). The theorems
hold for any number of references and any limits, so also where a batch is cut because it
is full, and, but for `ReplayIsQuiet`, where one is refused: the lines of a batch that was
refused are handled as live ones. That none is refused is `NoneRefused`: the server has
one batch of a kind open (a bound of the model) and no link replays both kinds.

*Previews.* Handlers take or give back a place and end in processQueue. What is wanted is
in the slot or in the queue before processQueue runs (`Waiting`); it leaves the slot taken
or the queue empty (`SlotTaken`). A link in the queue twice does no harm to either, so
nothing is needed about that. The first link to be fetched is the least of its places,
which exists since < is well-founded on the naturals (`Least`, from WFMin). `Good` says of
each step what is kept and for whom its cards are, and both theorems follow from it.

*Compose.* Of each operation on the inputs a lemma says that it is lawful (`Lawful`): the
input, the drafts, history, recall, completion cycle, popup and notes it leaves are as
they may be (`ComposeInd`), and whatever typing it ends it ends by telling the buffer. A
step is a few operations on end, one or two inputs at a time, and lawfulness composes
(`LawfulOn`). The types alone are not inductive: that both inputs never show one buffer
(`Apart`) is needed where views are traded, and a recall or a cycle under way must point
into the history and the candidates there are (`GoodRecall`, `GoodCycle`). What `privmsg`
sends is then shown to be right by induction from the end of the text: what is left to
send from a boundary between characters is a run of lines, each as long as it has room for
and none empty, since any character fits (`GoodLines`). The first line takes the whole
text just when the indicator says there will be one (`FirstTakesAll`), though the two
count differently. The recursive functions `Size` and `Cuts` are built on are shown to
exist by induction over a set of numbers (`CountedUp`, `CutsRun`). Without the assumption
that a character fits, `privmsg` would have to split one.

*Chat window.* Every call on a view takes a sound view to a sound view (`SoundView`): the
offsets of the lines add up (`Offsets`), the bar is as long as lines and page make it, and
the view is within it; and it has its button whenever it has left its end or stopped
following it (`HasButton`), or else it is at its end. The last part is the strengthening
`EndOrButton` needs: a range that grows moves the end away from a view without its value
changing, so that `valueChanged` need not come, and what saves it is that a view that
follows is then moved (`SetRangeOK`). The offsets matter since the range is read off the
last one: each operation that rebuilds only part of them must have left the rest right
(`TopsFromRight`). A search and a jump mark a line that must exist, so a screen with
messages must not be empty (`NotEmpty`), which loading, redrawing and the callbacks keep
(`Kept`); ids of groups must be those of events (`LineIds`), or a click on one would find
no run to draw. MainWindow's handlers are such calls one after another, and the loops
(`AppendLines`, `RenderRange`, `Reached`) are shown to exist and to keep what their step
keeps by induction over a set of numbers (`Computed`). No bound on the lines of a view is
proved, as there is none: only a line that is appended makes the oldest go
(`ui/chatview.cpp:141`), those put in or drawn above do not.

*Membership.* The first half is about `NickList`: each operation keeps `ListOK`, that the
index says of every nick where it is. What is rebuilt is right by the greatest place of
each nick, which exists since < is well-founded (`MaxIsIn`, from WFMin). Where only the
places from i on are refreshed, it is enough that what points below i was right and that
every other nick indexed is found from i on (`ReindexOK`); inserting and removing shift
the entries behind i by one and leave those before. Neither needs the list to be sorted or
without repetitions. The second half is about the buffer: a row has its buffer
(`RowHeld`), without which `OnConnected` would not join a channel the user has open and
`RejoinsOpen` is not inductive; a channel with a row is in, was left, or has its JOIN in
the queue (`JoinDue`); the note of a request is of one that was made (`NoteTrue`). All
lines about the others go through one lemma, `LineStep`.

That the list has just those who are there (`NickListAgrees`) needs one more inductive
invariant, `ListsInv`: once NAMES are in, the list has each nick of the roster once, with
its prefixes and in order (`Lists`). Each operation has a lemma that it takes a list of
one roster to a list of the next, whatever the rosters. It rests on two facts. A finite
set with a strict order has a member with just k before it, for each k below its size
(`Ranked`: the numbers of those before are all different, and there are as many of them as
members), so sorting moves the entries and loses none (`SortedIs`). And two ordered lists of one roster are the same (`OneList`), so it does not
matter that one was sorted and the other had its entries inserted, which is what
`NickListAgrees` says. A MODE line changes prefixes where the index leads it; that the
right word is read as long as no line strays is a count of the words and modes before each
place, which agree (`Strays`), and once one has strayed the list is still that of the roster
with some prefixes. While the list is out of date, as after a kick of the user's own
nick, `ListsInv` claims only that it is a list of entries.

*Servers.* Every handler of the session model maps a world (its configuration, sessions,
clients, and what the window shows of them) to a world. So the proof has a lemma per
handler, that it takes a good world to a good one (`Good`: icons, rows and panes follow
the sessions, clients that connect wait for nothing) and what it does to the known
servers; an action is then the composition of its handlers. The
loops of dialogs, reloads and the start over a list are recursive functions: that there is
one, and that it keeps a world good, is proved by induction up to the length of the list
(`LoopExists`, `UpTo`, from well-foundedness of < on the naturals; the library's own
induction theorems take an operator). For `CopiesAgree` a list is seen as the set of its
servers (`Entries`), for each name of which the loops are followed: what goes from the
window's list goes from the model's whole, under whatever name and however often, and what
is in the one has its name in the other. A change of revision reaches the model by removing
every server of the name and adding one, which is all there is when the window's list has
each name once (`RevisionsKept`). A worker has been told of once
exactly if its answer was handled or its time was up, and its timer runs after neither
(`ToldDuly`); every step leaves all workers alone, starts one, moves one on, or ends the
program.

Only model-checked: all liveness (`SilentLinkDropped`, `LostLinkRetried`, `Registers`,
`AcksSuffice`, `MarksGoOut`, `LoadingEnds`, `NotesEnd`, `WaitsEnd`, `FillsView`,
`WantedEnds`), which TLAPS does not reach; of `ChatWindow`, that what is drawn is in its turn, with its
rows, and stays under the reader's eyes (`LinesInTurn` and `RowsFollow` of `ViewInv`,
`ReaderStays`): they hold only where the limit on lines drops none, and follow the ids of
the lines through every redraw; and all of `Panes`. `PaneTree` is written with RECURSIVE
operators, as the code's functions are recursive, which puts it, and `Panes`, out of the
prover's reach.

## 5. Where the code and its documents differ

Each of the following is a formula that stands in its module and that no run checks.
Adding it to the named configuration makes TLC print the steps that lead there.

- `conn`, `DeliberateDisconnectHolds`: `irc/ircclient.cpp:1463` queues the STS reconnect
  without a look at `m_intentionalDisconnect`, so a `quit()` before it runs is undone.
  `README.md:180`: "Deliberate `/quit` disables it." `OnlyUpgradeReopens` shows it is the
  only way.
- `reg`, `NeverStalls`: of the answers to a nick the client heeds only 433; 431 and 432 are
  printed (`irc/ircclient.cpp:1748`) and no other nick is tried. 902, 907 and 908 end an
  authentication as 904 does, but have no case (`irc/ircclient.cpp:1938`), so SASL stays
  pending and no CAP END goes out. `docs/configuration.md:477`: "Authentication failure does
  not disconnect; the connection continues without services authentication." `Registers`
  shows that there are no other ways to stall.
- `dcc`, `SuccessIsFinal`: `irc/dccreceive.cpp:80` looks only at the socket when the 30 s
  timer fires, and reports a timeout of a download that has finished, as long as its
  message box is open.
- `read`, `DividerIsDrawn`: `ui/mainwindow.cpp:1574` clears the unread index before
  `refreshChatView()` reads it, so no separator is drawn. `docs/faq.md:706`.
- `read`, `MarksOnlyWhatWasSeen`: `model/sessionmodel.cpp:617` sends the mark for whatever
  is last 1.5 s after the buffer was seen, messages badged since included.
  `docs/ircv3.md:295`.
- `scroll`, `PagesAreOlder`: `model/sessionmodel.cpp:893` takes the first line for the
  oldest, although the reply to LATEST was appended behind "You joined".
  `docs/ircv3.md:55`.
- `members`, `RejoinsOnlyOpen`: `closeBuffer()` sends a PART and forgets the channel, the
  echo of that PART goes through `postMessage()` (`model/sessionmodel.cpp:814`), which
  makes the buffer again without a row, and `onConnected()` (976) joins every channel that
  has a buffer. `docs/faq.md:264`: "it re-joins all channels you had open".
- `members`, `PrefixesAgree`: which word of a MODE line belongs to a prefix is counted by
  `argModes`, "ovhaqBe" (`model/sessionmodel.cpp:1305`, `1322`). It leaves out b, k, l and I,
  which have an argument, and has B, a mode of users without one; so of `+bo mask nick` or
  `+lv 5 nick` the nick gets no prefix, and one whose name is the key of `+ko` gets it
  instead. `NickListAgrees` shows that the list is right but for prefixes after such a
  line, until the next NAMES.
- `panes`, `DraftsSurvive`: `createPane()` (`ui/mainwindow.cpp:1925`) reads the draft before
  the primary view has stored its text, so docking the channel being typed in opens an
  empty input, and closing it stores the empty text over the draft; the comment at 1719
  says that a draft survives the move.
- `route`, `BadgeOnlyForNew`: a multiline message inside a batch of history is delivered
  like a live one and raises the badge; `docs/faq.md:397` says replayed lines do not.
- `route`, `OncePerMsgid`: LATEST is asked for again at every JOIN of one's own
  (`irc/ircclient.cpp:1717`, `407`), so after each reconnect, and ZNC's playback from the
  beginning on every connect (`irc/ircclient.cpp:1596`). The lines that are still held come
  once more, and neither `addMessage` (`model/channel.h:107`) nor `postMessage` looks for
  their msgid, so that they are shown twice. `docs/ircv3.md:59` claims that "the two sources
  never duplicate" only of log and server. `WholeAndOnce` shows that nothing else does.
- `route`, `IncomingOpensItsBuffer`: a query whose first line was replayed has a buffer but
  no row (`model/sessionmodel.cpp:815`), and later live lines do not make one.
- `servers`, `CopiesNeverPart`: `docs/configuration.md:260` says of a server's name "Must be
  unique", "two servers cannot share the same name". `nameExists`
  (`ui/manageserversdialog.cpp:310`) has no caller, and Add Server looks only whether there is
  a host (`ui/mainwindow_menubar.cpp:144`). When the list has a name twice, `updateServer`
  removes every server of it from the model and adds the changed one
  (`model/sessionmodel.cpp:338`, `395`), while the window and the file keep both.
- `servers`, `OneClientEach`: a client that waits for the keychain has no name until
  `connectToServer()` (`irc/ircclient.cpp:75`), so removing or closing its server
  (`model/sessionmodel.cpp:330`, `359`) misses it, and it connects afterwards; and
  `/connect` to the host of a server known by another name makes a second session (383).
- `servers`, `PinsStay`: `pinCertificate()` (`model/sessionmodel.cpp:1651`) writes the
  fingerprint to the file and the model's copy, not to the window's, whose next save
  drops it (`docs/configuration.md:1243`).

Met while modelling, in the models, and left without a run of their own since the
code or its documents promise nothing else that could be quoted, or since another
run shows the same:

- LISTNETWORKS is sent at the ACK unless SASL is under way, and nothing sends it after
  SASL (`ircclient.cpp:1523`); `docs/ircv3.md:287` says it is sent after negotiation.
- A download renamed onto a file that exists fails, as Qt refuses it, and leaves the
  `.part` file (`dccreceive.cpp:243`), which `NoPartLeft` leaves out;
  `docs/commands.md:257` says it is deleted.
- Closing a channel sends a PART (`sessionmodel.cpp:407`), as in `CloseBuffer`;
  `docs/commands.md:282` says it does not.
- The note of a join the user asked for stays when the join is refused, or when the
  channel had a row (`mainwindow.cpp:1215`), and a later join that was not asked for
  takes the view; so `ViewFollowsUser` speaks of a user who ever asked.
- One kicked out keeps the list of the others (`sessionmodel.cpp:1236`), to which later
  renames and quits are applied; an entry may then be double, and one of the two has
  no index. `IndexPointsHome` holds all the same, and the next NAMES put it right.
- Clearing the lists on a lost link is not announced (`sessionmodel.cpp:993`), so the
  user list on screen keeps the old names until the channel is joined again.
- A TLS handshake the peer never finishes has no timeout (`ircclient.cpp:525`).
- A nick the server refuses with 433 after registration is kept by the client
  (`ircclient.cpp:378`), which `KnowsOwnNick` leaves out.
- CAP END may be sent while SASL is pending when an ACK comes in several lines, or when
  what a CAP NEW announced before 001 is acknowledged meanwhile (`ircclient.cpp:1516`),
  which `HoldsCapEnd` leaves out.
- SASL that a CAP NEW brings after CAP END (`ircclient.cpp:1541`) may succeed after 001,
  whose handler alone reclaims the nick (1583); `ReclaimsNick` leaves it out.
- After a reconnect on a fallback nick the configured nick is not reclaimed
  (`ircclient.cpp:579`), which `ReclaimsNick` leaves out.
- A passive send that times out is deleted and its dialog stays
  (`dcccontroller.cpp:284`).
- A slow link that brings less than one ACK interval in a guard period is cut by the
  sender's stall guard (`dccsend.cpp:164`); `StallMeansSlow` says it is the only case.
- The reply to LATEST is taken for a page when one is awaited; a reply to BEFORE that
  comes after its timeout is appended at the end; the timeout of an answered request
  cancels a later one (`sessionmodel.cpp:809`, `918`).
- A timeout, or scrolling without a link, marks a buffer as exhausted for good
  (`chatupdates.cpp:498`).
- A mark that goes out without a link is lost, though `lastRead` has advanced
  (`sessionmodel.cpp:621`).
- History at the end of a buffer lets another client's partial mark clear the badge;
  `BadgeGoesWhenRead` leaves that case out.
- A private `/me` from another client of the account goes to a buffer of the user's own
  nick (`model/sessionmodel.cpp`, onAction), which `EachInItsPlace` leaves out.
- The history position and the stored draft of an input stay when the buffer changes
  (`inputbar.cpp:533`; `docs/faq.md:720`), and a completion cycle survives a click into the
  other input (`inputbar.cpp:424`; `docs/faq.md:419`).
- Up or Down in a pane's input does not end its completion cycle (`mainwindow.cpp:946`),
  in the main one it does (1005).
- An edit of the file by hand within a second of Uplink's own save is not read
  (`mainwindow.cpp:2713`; `docs/faq.md:100`); a file that does not parse counts as no
  servers (`config.cpp:336`), and a removed server's row stays (`mainwindow.cpp:1158`).
- A change in Manage Servers to a field that `operator==` does not compare does not reach
  the session (`docs/configuration.md:19`).
- The filter of net changes shows the nick for join, part, join (`chatrenderer.cpp:843`;
  `README.md:134`).
- The search does not search again the line it starts from, so with one match a second
  Enter clears the marker (`chatview.cpp:682`; `docs/faq.md:1140`); the marker is an index
  that insertions above do not shift.
- Scrolling to the end after a drag of the bar leaves the button visible, and a wheel
  turned up with nothing to scroll stops following (`README.md:156`); `EndOrButton` says
  that the converse never happens.
- A scroll position is restored against a window drawn anew, which may be shorter
  (`docs/faq.md:715`); `m_loadingOlder` is not reset on a switch.
- A picture reached by a redirect is stored under the address it was redirected to, so
  its slot is held until the watchdog (`linkpreview.cpp`); a second message with the same
  link gets no card while the first is in flight.
- A page prepended to a full buffer drops the newest lines, unread ones included; the
  badge stays, and a later message then does not become the first unread one.

## 6. Not modelled

- Contents: message text, formatting, colours. No property here is about them.
- Time: durations are compared only in the ping watchdog and the reconnect delay.
  Everywhere else a timer that is set may fire at any time.
- In `Registration`: what leads from a SASL mechanism to its bytes; 905 and 906, which are
  handled as 904 is; the ISUPPORT
  numerics. In `IrcConnection`: the proxy, and how a certificate is matched.
- In `Membership`: topics, bots, accounts and metadata of nicks; several channels and
  panes; a server without multi-prefix; lines that come between those of one batch;
  the filter of the user list; lines sent before registration, which a server refuses.
- In `ReadState` and `Scrollback`: a second buffer, so the posted follow-up of a page
  that runs for another buffer (`chatupdates.cpp:522`) is out, and with it a view that waits
  for an empty buffer, of which `requestOlderHistory` returns at once
  (`sessionmodel.cpp:891`): a view without lines asks for none (`chatview.cpp:49`); ties of the log's
  one-second timestamps; ZNC's playback; the jump to a search result.
- In `MessageRouting`: redaction, accounts and metadata; more than one channel and one
  other user; the refusal of a ninth batch is in the model and beyond its bounds.
- In `Servers`: hosts, whose absence drops an entry of the file (`config.cpp:330`), and
  what is compared but for a revision; ignored nicks that a file has twice or in capitals;
  the order of the sidebar's rows, the monitor list, profiles, moving the log
  directory, signal bars; settings other than the servers and the ignore list.
- In `Compose`: formats, several lines in one input, commands other than `/query`, the
  emoji picker. In `Panes`: sizes, fonts, more than one server, the drag's highlight.
- In `ChatWindow`: painting and hit tests, the views of panes, pages from the log or the
  server while a window is drawn (`Scrollback` has these), and `/clear`, after which
  `m_renderStart` is stale.
- In `Previews`: what is found in a page, the address check, the lookup under the mouse.
- The STS store (`stsstore.cpp`): a map from hosts to a port and an expiry, read and
  written whole in each call by the one thread; its effect on a connection, an upgrade
  that happens or not, is a choice in `IrcConnection`.
- The update checker: one download after one question, then the replacement of a file,
  which differs on each system; its risk is the file system's (the installed file is
  removed before its successor is copied, `updatechecker.cpp:225`), not an interleaving.
- The channel list and the log search: a worker that reads files, a cancel flag per
  search which the posted result looks at, a join in the destructor; no other state.
- Themes, preferences, fonts, icons, emoji tables, small widgets: presentation.

## 7. Plan

Done: all modules of section 2, and proofs of `IrcConnection`, `DccTransfer`,
`Registration`, `ChannelBuffer`, `ReadState`, `Scrollback`, `MessageRouting`, `Previews`,
`Compose`, `ChatWindow` (its end, not its order), `NickList`, `Membership` and `Servers`. What would come next, most important first:

1. A proof of `ViewInv` of `ChatWindow`, for views with room for all that is drawn.
2. `Panes` with a second server; `ChatWindow` composed with `Scrollback`, so that a page
   of the server lands in a window that is drawn.

## 8. Running

    tlc -workers 2 -config conn.cfg MCIrcConnection.tla
    tlapm ReadStateProofs.tla

`PROJECT.json` names the module of each configuration. The passing runs take between
some seconds and three minutes each, with two workers.
