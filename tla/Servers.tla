------------------------------ MODULE Servers ------------------------------
(***************************************************************************)
(* The servers: the window's configuration, the session model's copy of it *)
(* and the file (src/src/ui/mainwindow*.cpp, src/src/config/config.cpp),   *)
(* the sessions and their clients, which wait for the keychain before they *)
(* connect (src/src/model/sessionmodel.cpp), the rows and panes that show  *)
(* them, and the commands that change any of it or run beside it (src/src/ *)
(* ui/commanddispatcher.cpp).                                              *)
(*                                                                         *)
(* A configured server is [name, rev, off, pin]: rev stands for the other  *)
(* fields that operator== compares, off is "disabled", pin the saved       *)
(* fingerprint.  Nothing keeps two servers from having the same name, or   *)
(* one from having none.  The link itself is IrcConnection's; here it      *)
(* comes and goes.  Channels, the monitor list and the profile are left    *)
(* out.                                                                    *)
(***************************************************************************)
EXTENDS Integers, Sequences, SequencesExt

CONSTANTS
  Names, NoName,  \* the names a server can be given, and the blank one
  None,
  HostOf,     \* the host of each name; of NoName, the one typed ad hoc
  Start,      \* the names of the servers configured at the start
  Secrets,    \* the keychain items each server's configuration refers to
  SelfSigned, \* the servers whose certificate cannot be verified
  Nicks, Kinds,  \* who can be ignored, and what of theirs
  MaxSteps, MaxJobs  \* bounds: what the user does; workers started

\* What names a server, its session, its client and its row.
Ids == Names \cup {NoName}

ASSUME NameAssumption == NoName \notin Names /\ Start \in Seq(Ids)

VARIABLES
  win,      \* MainWindow::m_config: servers and ignore list
  known,    \* SessionModel::m_config.servers and m_ignoredNicks
  file,     \* config.toml
  store,    \* m_configSaving, the watcher's notice and the reload it
            \* causes, and what a save has composed so far
  sessions, \* SessionModel::m_sessions: of each name, which are connected
  clients,  \* SessionModel::m_clients
  ui,       \* the sidebar's rows, those with the connected icon, and panes
  dialog,   \* the list Manage Servers works on, while it is open: <<list>>
  prompt,   \* the server the certificate prompt asks about
  sysinfo,  \* m_sysinfoLoading, m_sysinfoCache
  jobs,     \* the worker threads of /sysinfo and of scripts
  steps     \* how many things the user has done

world == <<known, sessions, clients, ui>>
work == <<sysinfo, jobs>>
vars == <<win, file, store, world, dialog, prompt, work, steps>>

World == [known |-> known, sessions |-> sessions, clients |-> clients, ui |-> ui]

Becomes(w) == /\ known' = w.known
              /\ sessions' = w.sessions
              /\ clients' = w.clients
              /\ ui' = w.ui

(* ------------------------ lists of servers ----------------------------- *)

NewServer(n, off) == [name |-> n, rev |-> 1, off |-> off, pin |-> FALSE]

NamesOf(list) == {list[i].name : i \in DOMAIN list}

\* The first server of a name, as every loop over a list finds it.
Named(list, n) == {i \in DOMAIN list : list[i].name = n}
FirstNamed(list, n) == Min(Named(list, n))

\* The servers of a list that have one of these names, in their order.
Among(list, names) ==
  LET kept[i \in 0..Len(list)] ==
        IF i = 0 THEN <<>>
        ELSE IF list[i].name \in names THEN Append(kept[i - 1], list[i])
        ELSE kept[i - 1]
  IN  kept[Len(list)]

Without(f, n) == [m \in DOMAIN f \ {n} |-> f[m]]
With(f, n, v) == [m \in DOMAIN f \cup {n} |-> IF m = n THEN v ELSE f[m]]

(* ------------------------- sessions and clients ------------------------ *)

ClientAt(w, n) == {i \in DOMAIN w.clients : w.clients[i].name = n}
HasSession(w, n) == n \in DOMAIN w.sessions /\ w.sessions[n] # <<>>

\* It connects with the first answer, whatever else is still asked for (mutant).
AnsweredEagerly(c, items) ==
  IF items # {} /\ items = Secrets[c.cfg] THEN [c EXCEPT !.pending = items]
  ELSE [c EXCEPT !.pending = items, !.name = c.cfg, !.phase = "trying"]

\* One answer of the keychain never counts down (mutant).
AnsweredNever(c, items) ==
  IF items # {} \/ c.pending # {} THEN [c EXCEPT !.pending = items]
  ELSE [c EXCEPT !.pending = items, !.name = c.cfg, !.phase = "trying"]

\* resolveAndConnect(): once nothing is asked of the keychain any more, the
\* client connects; only connectToServer() gives it its name.
Answered(c, items) ==
  IF items # {} THEN [c EXCEPT !.pending = items]
  ELSE [c EXCEPT !.pending = items, !.name = c.cfg, !.phase = "trying"]

NewClient(sc) ==
  Answered([cfg |-> sc.name, name |-> NoName, pin |-> sc.pin, pending |-> {},
            phase |-> "resolving"], Secrets[sc.name])

\* onServerAdded()
ServerAdded(u, n) == [u EXCEPT !.rows = @ \cup {n}]

\* spawnSession()
Spawn(w, sc) ==
  [w EXCEPT !.sessions[sc.name] = Append(@, "down"),
            !.clients = Append(@, NewClient(sc)),
            !.ui = ServerAdded(@, sc.name)]

\* Nothing tells the panes that their server is gone (mutant).
DisconnectedPanesStay(w, n) == [w EXCEPT !.ui.icons = @ \ {n}]

\* onServerDisconnected(), closePanesForHost()
Disconnected(w, n) ==
  [w EXCEPT !.ui.icons = @ \ {n},
            !.ui.panes = IF HasSession(w, n) THEN @ ELSE @ \ {n}]

\* The loop over m_clients: the first of that name goes.
DropClient(w, n) ==
  IF ClientAt(w, n) = {} THEN w
  ELSE [w EXCEPT !.clients = RemoveAt(@, Min(ClientAt(w, n)))]

DropSession(w, n) == [w EXCEPT !.sessions[n] = <<>>]

\* removeServer(): one client, and every session and every entry of the name.
RemoveServer(w, n) ==
  Disconnected([DropSession(DropClient(w, n), n)
                 EXCEPT !.known.servers = Among(@, Ids \ {n})], n)

\* A closed server's icon is remembered without its row (mutant).
ServerClosedIconLeft(u, n) == [u EXCEPT !.rows = @ \ {n}, !.panes = @ \ {n}]

\* onServerClosed()
ServerClosed(u, n) ==
  IF n \notin u.rows THEN u
  ELSE [rows |-> u.rows \ {n}, icons |-> u.icons \ {n}, panes |-> u.panes \ {n}]

CloseServer(w, n) ==
  [DropSession(DropClient(w, n), n) EXCEPT !.ui = ServerClosed(@, n)]

AddServer(w, sc) ==
  LET v == [w EXCEPT !.known.servers = Append(@, sc)]
  IN IF sc.off THEN v ELSE Spawn(v, sc)

UpdateServer(w, sc) == AddServer(RemoveServer(w, sc.name), sc)

\* connectServer() takes the first server whose name or host is the target.
Matching(w, t) ==
  {i \in DOMAIN w.known.servers : LET n == w.known.servers[i].name IN t \in {n, HostOf[n]}}

ConnectServer(w, t) ==
  IF HasSession(w, t) THEN w ELSE Spawn(w, w.known.servers[Min(Matching(w, t))])

\* The loop over the servers of a list to be removed, name by name.
RemoveAll(w, list) ==
  LET after[i \in 0..Len(list)] ==
        IF i = 0 THEN w ELSE RemoveServer(after[i - 1], list[i].name)
  IN  after[Len(list)]

\* A server changed in the dialog keeps its session (mutant).
PlacedKept(w, old, sc) == IF Named(old, sc.name) = {} THEN AddServer(w, sc) ELSE w

\* A server of an accepted list, against the first of its name in the old
\* one; operator== leaves "disabled" out.
Placed(w, old, sc) ==
  IF Named(old, sc.name) = {} THEN AddServer(w, sc)
  ELSE LET existing == old[FirstNamed(old, sc.name)]
       IN IF <<existing.rev, existing.pin>> = <<sc.rev, sc.pin>> THEN w
          ELSE UpdateServer(w, sc)

PlaceAll(w, old, list) ==
  LET after[i \in 0..Len(list)] ==
        IF i = 0 THEN w ELSE Placed(after[i - 1], old, list[i])
  IN  after[Len(list)]

(* ------------------------- starting and the file ----------------------- *)

\* Config::save(): a file is written whole, and parses.
Written(w) == [servers |-> w.servers, ignore |-> w.ignore, ok |-> TRUE]

\* Config::load(): of a file that does not parse nothing is read.
Read(f) == IF f.ok THEN [servers |-> f.servers, ignore |-> f.ignore]
           ELSE [servers |-> <<>>, ignore |-> [n \in {} |-> {}]]

\* main() and loadConfig(): what the file says, with a session for every
\* server that is not disabled.
Loaded(f) ==
  LET w == [known |-> f, sessions |-> [n \in Ids |-> <<>>], clients |-> <<>>,
            ui |-> [rows |-> {}, icons |-> {}, panes |-> {}]]
      after[i \in 0..Len(f.servers)] ==
        IF i = 0 THEN w
        ELSE IF f.servers[i].off THEN after[i - 1]
        ELSE Spawn(after[i - 1], f.servers[i])
  IN  after[Len(f.servers)]

Idle == [saving |-> FALSE, notice |-> FALSE, reload |-> FALSE, draft |-> <<>>]
First == [servers |-> [i \in DOMAIN Start |-> NewServer(Start[i], FALSE)],
          ignore |-> [n \in {} |-> {}]]

Init ==
  /\ win = First /\ file = Written(First) /\ store = Idle
  /\ known = Loaded(First).known /\ sessions = Loaded(First).sessions
  /\ clients = Loaded(First).clients /\ ui = Loaded(First).ui
  /\ dialog = <<>> /\ prompt = None
  /\ sysinfo = [loading |-> FALSE, cached |-> FALSE] /\ jobs = <<>>
  /\ steps = 0

\* Config::save() as a command calls it, and as saveConfig() does.
Save(w) == file' = Written(w) /\ store' = [store EXCEPT !.notice = TRUE]
SaveConfig(w) == /\ file' = Written(w)
                 /\ store' = [store EXCEPT !.notice = TRUE, !.saving = TRUE]

\* saveConfig(true): the keychain is asked and told, item by item, in an
\* event loop of its own, with the ignore list already composed.
BeginSave(w) == store' = [store EXCEPT !.saving = TRUE, !.draft = <<w>>] /\ UNCHANGED file

\* The loop over the servers ends.  If a reload has changed the list it was
\* running over, it may have written what was there before or after.
EndSave ==
  /\ store.draft # <<>>
  /\ \E list \in {store.draft[1].servers, win.servers} :
       file' = Written([store.draft[1] EXCEPT !.servers = list])
  /\ store' = [store EXCEPT !.draft = <<>>, !.notice = TRUE]
  /\ UNCHANGED <<win, world, dialog, prompt, work, steps>>

\* The timer of a second after a save, any of them.
GuardEnds ==
  /\ store.saving
  /\ store' = [store EXCEPT !.saving = FALSE]
  /\ UNCHANGED <<win, file, world, dialog, prompt, work, steps>>

\* onConfigFileChanged(): the watcher tells, and a reload is put off;
\* two that wait at the same time count as one.
Notice ==
  /\ store.notice
  /\ store' = [store EXCEPT !.notice = FALSE,
                            !.reload = @ \/ ~store.saving]
  /\ UNCHANGED <<win, file, world, dialog, prompt, work, steps>>

\* A reload adds the servers of names that are new to the window, and then,
\* from the last one, removes those whose name is not in the file.
Reload ==
  LET fresh == Read(file).servers
      new == Among(fresh, Ids \ NamesOf(win.servers))
      gone == Among(win.servers, Ids \ NamesOf(fresh))
  IN /\ store.reload
     /\ win' = [win EXCEPT !.servers = Among(@ \o new, NamesOf(fresh))]
     /\ Becomes(RemoveAll(PlaceAll(World, <<>>, new), Reverse(gone)))
     /\ store' = [store EXCEPT !.reload = FALSE]
     /\ UNCHANGED <<file, dialog, prompt, work, steps>>

(* ----------------------------- the links ------------------------------- *)

Client(i, c) == clients' = [clients EXCEPT ![i] = c]

\* A keychain item is read, or found missing, which is reported.
KeychainAnswer(i) ==
  /\ clients[i].phase = "resolving"
  /\ \E item \in clients[i].pending :
       Client(i, Answered(clients[i], clients[i].pending \ {item}))
  /\ UNCHANGED <<win, file, store, known, sessions, ui, dialog, prompt, work, steps>>

\* The first session of a name is marked, as onConnected() and
\* onDisconnected() find it.
Marked(ss, n, state) == IF ss[n] = <<>> THEN ss ELSE [ss EXCEPT ![n][1] = state]

\* onConnected(), onServerConnected()
LinkUp(i) ==
  LET n == clients[i].name
  IN /\ clients[i].phase = "trying" /\ (clients[i].cfg \in SelfSigned => clients[i].pin)
     /\ Client(i, [clients[i] EXCEPT !.phase = "up"])
     /\ sessions' = Marked(sessions, n, "up")
     /\ ui' = IF HasSession(World, n) /\ n \in ui.rows
              THEN [ui EXCEPT !.icons = @ \cup {n}] ELSE ui
     /\ UNCHANGED <<win, file, store, known, dialog, prompt, work, steps>>

\* onDisconnected() returns where there is no session.
Fallen(w, n) ==
  IF ~HasSession(w, n) THEN w
  ELSE Disconnected([w EXCEPT !.sessions = Marked(@, n, "down")], n)

LinkDown(i) ==
  /\ clients[i].phase \in {"up", "quitting"}
  /\ Becomes([Fallen(World, clients[i].name)
               EXCEPT !.clients[i].phase = IF @ = "up" THEN "trying" ELSE "down"])
  /\ UNCHANGED <<win, file, store, dialog, prompt, work, steps>>

\* onSslErrors(): the link is given up, and the user is asked.
CertificatePrompt(i) ==
  /\ clients[i].phase = "trying" /\ clients[i].cfg \in SelfSigned /\ ~clients[i].pin
  /\ prompt = None
  /\ Client(i, [clients[i] EXCEPT !.phase = "down"])
  /\ prompt' = clients[i].name
  /\ UNCHANGED <<win, file, store, known, sessions, ui, dialog, work, steps>>

\* IrcClient::reconnect() of the client found by a name.
Reconnected(w, n) ==
  IF ClientAt(w, n) = {} \/ w.clients[Min(ClientAt(w, n))].phase = "resolving" THEN w
  ELSE LET k == Min(ClientAt(w, n))
           v == IF w.clients[k].phase = "up" THEN Fallen(w, n) ELSE w
       IN [v EXCEPT !.clients[k].phase = "trying"]

\* pinCertificate(), acceptCertificateOnce(), or a rejection.
Pinned(list, n) == IF Named(list, n) = {} THEN list
                   ELSE [list EXCEPT ![FirstNamed(list, n)].pin = TRUE]

AcceptedFor(w, n) ==
  IF ClientAt(w, n) = {} THEN w
  ELSE Reconnected([w EXCEPT !.clients[Min(ClientAt(w, n))].pin = TRUE], n)

AnswerPrompt ==
  /\ prompt # None
  /\ prompt' = None
  /\ \/ /\ Becomes(AcceptedFor([World EXCEPT !.known.servers = Pinned(@, prompt)], prompt))
        /\ IF prompt \in NamesOf(Read(file).servers)
           THEN Save([Read(file) EXCEPT !.servers = Pinned(@, prompt)])
           ELSE UNCHANGED <<file, store>>
     \/ Becomes(AcceptedFor(World, prompt)) /\ UNCHANGED <<file, store>>
     \/ UNCHANGED <<world, file, store>>
  /\ UNCHANGED <<win, dialog, work, steps>>

(* ----------------------- what the user does ---------------------------- *)

\* No modal dialog is open, and the bound is not reached.
UserActs == /\ dialog = <<>> /\ prompt = None
            /\ steps < MaxSteps /\ steps' = steps + 1

\* Only the host has to be filled in.
AddServerDialog(n) ==
  /\ UserActs /\ store.draft = <<>>
  /\ \E off \in BOOLEAN :
       /\ win' = [win EXCEPT !.servers = Append(@, NewServer(n, off))]
       /\ Becomes(AddServer(World, NewServer(n, off)))
  /\ BeginSave(win') /\ UNCHANGED <<dialog, prompt, work>>

OpenManage ==
  /\ UserActs /\ store.draft = <<>> /\ dialog' = <<win.servers>>
  /\ UNCHANGED <<win, file, store, world, prompt, work>>

\* What the form makes of a server that is selected in it.
Changes(sc) == {[sc EXCEPT !.rev = 2], [sc EXCEPT !.off = ~@]}
               \cup {[sc EXCEPT !.name = n] : n \in Ids}

Swapped(list, i) == [list EXCEPT ![i] = list[i + 1], ![i + 1] = list[i]]

Shortened(list) == {RemoveAt(list, i) : i \in DOMAIN list}
Lengthened(list) == {Append(list, NewServer(n, FALSE)) : n \in Ids}

\* What can be made of the list in the dialog: nothing, or one thing.
Edits(list) ==
  {list} \cup Shortened(list) \cup Lengthened(list)
  \cup {Swapped(list, i) : i \in 1..Len(list) - 1}
  \cup UNION {{[list EXCEPT ![i] = sc] : sc \in Changes(list[i])} : i \in DOMAIN list}

\* The loops of openManageServers().
Managed(w, old, updated) ==
  PlaceAll(RemoveAll(w, Among(old, Ids \ NamesOf(updated))), old, updated)

AcceptManage ==
  /\ dialog # <<>> /\ prompt = None /\ store.draft = <<>>
  /\ \E updated \in Edits(dialog[1]) :
       /\ win' = [win EXCEPT !.servers = updated]
       /\ Becomes(Managed(World, win.servers, updated))
  /\ BeginSave(win') /\ dialog' = <<>>
  /\ UNCHANGED <<prompt, work, steps>>

CancelManage ==
  /\ dialog # <<>> /\ prompt = None /\ dialog' = <<>>
  /\ UNCHANGED <<win, file, store, world, prompt, work, steps>>

\* The user edits the file, elsewhere, and may leave it with an error in it.
EditFile ==
  /\ steps < MaxSteps /\ steps' = steps + 1
  /\ \/ file' = [file EXCEPT !.ok = ~@]
     \/ \E list \in Shortened(file.servers) \cup Lengthened(file.servers) :
          file' = [file EXCEPT !.servers = list]
  /\ store' = [store EXCEPT !.notice = TRUE]
  /\ UNCHANGED <<win, world, dialog, prompt, work>>

\* /connect, in the buffer of a server that has a row, and with a target.
Connect(n) ==
  /\ UserActs /\ n \in ui.rows
  /\ Becomes(IF ClientAt(World, n) # {} THEN Reconnected(World, n)
             ELSE IF HasSession(World, n) \/ Matching(World, n) # {}
                  THEN ConnectServer(World, n) ELSE World)
  /\ UNCHANGED <<win, file, store, dialog, prompt, work>>

ConnectTo(t) ==
  /\ UserActs
  /\ Becomes(IF HasSession(World, t) \/ Matching(World, t) # {}
             THEN ConnectServer(World, t)
             ELSE AddServer(World, NewServer(NoName, FALSE)))
  /\ UNCHANGED <<win, file, store, dialog, prompt, work>>

\* /disconnect, and Close Server.
Close(n) ==
  /\ UserActs /\ n \in ui.rows /\ Becomes(CloseServer(World, n))
  /\ UNCHANGED <<win, file, store, dialog, prompt, work>>

\* /quit, and Disconnect.
Quit(n) ==
  /\ UserActs /\ n \in ui.rows
  /\ \E i \in ClientAt(World, n) :
       /\ i = Min(ClientAt(World, n)) /\ clients[i].phase \in {"trying", "up"}
       /\ Client(i, [clients[i] EXCEPT !.phase = "quitting"])
  /\ UNCHANGED <<win, file, store, known, sessions, ui, dialog, prompt, work>>

TogglePane(n) ==
  /\ UserActs /\ HasSession(World, n)
  /\ ui' = [ui EXCEPT !.panes = IF n \in @ THEN @ \ {n} ELSE @ \cup {n}]
  /\ UNCHANGED <<win, file, store, known, sessions, clients, dialog, prompt, work>>

\* Reload Config: the program quits and is started again.
Restart ==
  /\ UserActs /\ store.draft = <<>>
  /\ win' = Read(file) /\ Becomes(Loaded(Read(file))) /\ store' = Idle
  /\ sysinfo' = [loading |-> FALSE, cached |-> FALSE] /\ jobs' = <<>>
  /\ UNCHANGED <<file, dialog, prompt>>

(* ------------------------------ ignoring ------------------------------- *)

SetIgnore(list) ==
  /\ win' = [win EXCEPT !.ignore = list]
  /\ UNCHANGED <<sessions, clients, ui, dialog, prompt, work>>

\* /ignore <nick> [kinds]; none named means all.
Ignore(x, kinds) ==
  /\ UserActs
  /\ SetIgnore(With(win.ignore, x, IF kinds = {} THEN Kinds ELSE kinds))
  /\ known' = [known EXCEPT !.ignore =
                 With(@, x, IF kinds = {} THEN Kinds ELSE kinds)]
  /\ Save(win')

Unignore(x) ==
  /\ UserActs
  /\ SetIgnore(Without(win.ignore, x))
  /\ known' = [known EXCEPT !.ignore = Without(@, x)]
  /\ Save(win')

FlagsOf(ignore, x) == IF x \in DOMAIN ignore THEN ignore[x] ELSE {}

\* What is left of an entry whose kinds a tick of the menu changed.
Ticked(ignore, x, kinds) ==
  IF kinds = {} THEN Without(ignore, x) ELSE With(ignore, x, kinds)

\* A tick in the nick's menu, which reads the model's flags.
TickIgnore(x, kind) ==
  LET was == FlagsOf(known.ignore, x)
      kinds == IF kind \in was THEN was \ {kind} ELSE was \cup {kind}
  IN /\ UserActs
     /\ SetIgnore(IF kinds = {} THEN Without(win.ignore, x) ELSE With(win.ignore, x, kinds))
     /\ known' = [known EXCEPT !.ignore = Ticked(@, x, kinds)]
     /\ SaveConfig(win')

\* The dialog of the list, which adds and removes nicks: the window's entries
\* go from the model, and those of the dialog are put there.
IgnoreDialog(list) ==
  /\ UserActs
  /\ SetIgnore(list)
  /\ known' = [known EXCEPT !.ignore =
       [x \in (DOMAIN @ \ DOMAIN win.ignore) \cup DOMAIN list |->
          IF x \in DOMAIN list THEN list[x] ELSE @[x]]]
  /\ SaveConfig(win')

(* --------------------------- worker threads ---------------------------- *)

Job(kind) == [kind |-> kind, thread |-> "running", timer |-> kind = "sysinfo",
              aborted |-> FALSE, told |-> 0]

\* /sysinfo: the cache is sent at once, and one collection runs at a time.
Sysinfo ==
  /\ UserActs /\ ~sysinfo.cached /\ ~sysinfo.loading /\ Len(jobs) < MaxJobs
  /\ sysinfo' = [sysinfo EXCEPT !.loading = TRUE]
  /\ jobs' = Append(jobs, Job("sysinfo"))
  /\ UNCHANGED <<win, file, store, world, dialog, prompt>>

\* executeScript()
RunScript ==
  /\ UserActs /\ Len(jobs) < MaxJobs
  /\ jobs' = Append(jobs, Job("script"))
  /\ UNCHANGED <<win, file, store, world, dialog, prompt, sysinfo>>

\* The thread posts its answer, a script's also when it did not start, was
\* killed after its time or failed; and ends.
ThreadEnds(j) ==
  /\ jobs[j].thread = "running"
  /\ jobs' = [jobs EXCEPT ![j].thread = "posted"]
  /\ UNCHANGED <<win, file, store, world, dialog, prompt, sysinfo, steps>>

\* An answer is told, whatever was told before it (mutant).
AnsweredLate(job) == [job EXCEPT !.thread = "done", !.timer = FALSE, !.told = @ + 1]

\* A job after its posted answer has run; the end of its thread stops the
\* timer, and an answer that comes after the time says nothing.
AnsweredJob(job) ==
  [job EXCEPT !.thread = "done", !.timer = FALSE,
              !.told = IF job.aborted THEN @ ELSE @ + 1]

JobAnswer(j) ==
  /\ jobs[j].thread = "posted"
  /\ jobs' = [jobs EXCEPT ![j] = AnsweredJob(@)]
  /\ sysinfo' = IF jobs[j].kind = "script" \/ jobs[j].aborted THEN sysinfo
                ELSE [loading |-> FALSE, cached |-> TRUE]
  /\ UNCHANGED <<win, file, store, world, dialog, prompt, steps>>

SysinfoTimeout(j) ==
  /\ jobs[j].timer /\ sysinfo.loading
  /\ jobs' = [jobs EXCEPT ![j].timer = FALSE, ![j].aborted = TRUE, ![j].told = @ + 1]
  /\ sysinfo' = [sysinfo EXCEPT !.loading = FALSE]
  /\ UNCHANGED <<win, file, store, world, dialog, prompt, steps>>

(* --------------------------- specification ----------------------------- *)

Targets == Names \cup {HostOf[n] : n \in Ids}
IgnoreLists == UNION {[S -> (SUBSET Kinds) \ {{}}] : S \in SUBSET Nicks}

UserDoes ==
  \/ OpenManage \/ EditFile \/ Sysinfo \/ RunScript \/ Restart
  \/ \E n \in Ids : \/ AddServerDialog(n) \/ TogglePane(n)
                    \/ Connect(n) \/ Close(n) \/ Quit(n)
  \/ \E t \in Targets : ConnectTo(t)
  \/ \E x \in Nicks : \/ \E kinds \in SUBSET Kinds : Ignore(x, kinds)
                      \/ \E kind \in Kinds : TickIgnore(x, kind)
                      \/ Unignore(x)
  \/ \E list \in IgnoreLists : IgnoreDialog(list)

Next ==
  \/ UserDoes
  \/ AcceptManage \/ CancelManage \/ AnswerPrompt
  \/ Reload \/ Notice \/ GuardEnds \/ EndSave
  \/ \E i \in DOMAIN clients : \/ KeychainAnswer(i) \/ LinkUp(i) \/ LinkDown(i)
                               \/ CertificatePrompt(i)
  \/ \E j \in DOMAIN jobs : ThreadEnds(j) \/ JobAnswer(j) \/ SysinfoTimeout(j)

\* The keychain answers every read; a collection's timer runs in the event
\* loop, and so does what its thread posts.
Fairness ==
  /\ WF_vars(\E i \in DOMAIN clients : KeychainAnswer(i))
  /\ WF_vars(\E j \in DOMAIN jobs : SysinfoTimeout(j))
  /\ WF_vars(\E j \in DOMAIN jobs : JobAnswer(j))

Spec == Init /\ [][Next]_vars /\ Fairness

(* ---------------------------- properties ------------------------------- *)

IsList(list) == list \in Seq([name : Ids, rev : 1 .. 2, off : BOOLEAN, pin : BOOLEAN])
IsIgnoreList(f) == DOMAIN f \subseteq Nicks /\ \A x \in DOMAIN f : f[x] \subseteq Kinds
IsClient(c) == /\ {c.cfg, c.name} \subseteq Ids /\ c.pin \in BOOLEAN
               /\ c.pending \subseteq Secrets[c.cfg]
               /\ c.phase \in {"resolving", "trying", "up", "quitting", "down"}

TypeOK ==
  /\ file.ok \in BOOLEAN
  /\ \A c \in {win, Read(file), known} : IsList(c.servers) /\ IsIgnoreList(c.ignore)
  /\ store.saving \in BOOLEAN /\ store.notice \in BOOLEAN /\ store.reload \in BOOLEAN
  /\ sessions \in [Ids -> Seq({"up", "down"})]
  /\ \A i \in DOMAIN clients : IsClient(clients[i])
  /\ ui.icons \subseteq ui.rows
  /\ \A i \in DOMAIN dialog : IsList(dialog[i])
  /\ prompt \in Names \cup {NoName, None}
  /\ \A j \in DOMAIN jobs : jobs[j].told \in 0 .. 2

\* What is shown follows the sessions: each has a row, a row has the connected
\* icon exactly if the session it finds is connected, and no pane outlives its
\* server's session, however the server went.
ViewsFollow ==
  /\ \A n \in Ids : HasSession(World, n) => n \in ui.rows
  /\ \A n \in ui.rows : n \in ui.icons <=> HasSession(World, n) /\ sessions[n][1] = "up"
  /\ \A n \in ui.panes : HasSession(World, n)

\* Apart from servers connected to ad hoc, which have no name, the window and
\* the session model have servers of the same names, and the same nicks.
NamesAgree ==
  /\ NamesOf(known.servers) \ {NoName} \subseteq NamesOf(win.servers)
  /\ NamesOf(win.servers) \subseteq NamesOf(known.servers)
  /\ win.ignore = known.ignore

\* Two copies of the list have the same revision of each server.
SameRevisions(list, copy) ==
  \A i \in DOMAIN list, j \in DOMAIN copy :
    list[i].name = copy[j].name => list[i].rev = copy[j].rev

\* docs: a server's name "Must be unique".
Distinct(list) ==
  \A i, j \in DOMAIN list : list[i].name # NoName /\ (list[i].name = list[j].name => i = j)

\* The window and the session model each keep the servers and the ignored
\* nicks, changed side by side by dialogs, menus, commands and reloads, and a
\* dialog may work on a stale list.  After every step they have servers of the
\* same names; and revisions that agree are only set apart by a list in which
\* a name is missing or is there twice.
CopiesAgree ==
  [][/\ NamesAgree'
     /\ SameRevisions(win.servers, known.servers) /\ Distinct(win'.servers)
        => SameRevisions(win'.servers, known'.servers)]_vars

\* docs: "two servers cannot share the same name" - nothing forbids it, and
\* the copies then part.
CopiesNeverPart == SameRevisions(win.servers, known.servers)

\* No client connects while a password is still asked of the keychain.
PasswordsFirst == \A i \in DOMAIN clients :
                    clients[i].phase # "resolving" => clients[i].pending = {}

\* Every collection and every script is answered once: with what was found
\* or with the time being up, not with both.
ToldOnce == \A j \in DOMAIN jobs : /\ jobs[j].told <= 1
                                   /\ jobs[j].thread = "done" => jobs[j].told = 1

\* No client waits for the keychain for ever, and no collection blocks the
\* next one for ever.
WaitsEnd == <>[](/\ ~sysinfo.loading
                 /\ \A i \in DOMAIN clients : clients[i].phase # "resolving")

\* comment: "Late socket signals from the dying client must not reach a
\* re-added session with the same name" - a name has one client.
OneClientEach ==
  \A i, j \in DOMAIN clients :
    clients[i].name = clients[j].name /\ clients[i].name # NoName => i = j

\* A fingerprint pinned in the file stays, while its server does.
PinsStay ==
  [][\A n \in NamesOf(file.servers) \cap NamesOf(file'.servers) :
       file.servers[FirstNamed(file.servers, n)].pin
       => file'.servers[FirstNamed(file'.servers, n)].pin]_vars

\* Sessions, clients, rows, icons, panes and waiting scripts fit each other.
ServersInv == TypeOK /\ ViewsFollow /\ PasswordsFirst /\ ToldOnce
=============================================================================
