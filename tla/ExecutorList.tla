---------------------------- MODULE ExecutorList ----------------------------
(***************************************************************************)
(* The list of will-executors: what the configuration stores, what a       *)
(* window of the wallet builds with, and what an open list dialog or       *)
(* wizard page edits, with the downloads and pings that run in a thread    *)
(* while the user, a rebuild after wallet activity or the command line     *)
(* goes on.                                                                *)
(*                                                                         *)
(* These lists are Python dictionaries that share their entries: loading a *)
(* list copies the outer dictionary only, and saving one makes it the very *)
(* dictionary of the configuration.  Entries are therefore cells of a      *)
(* heap, a list maps a URL to a cell, and "tie" names the list that is the *)
(* dictionary of the configuration.  Of an entry are kept its selection,   *)
(* whether it has a usable address (and whose), and whether its server     *)
(* answered the last ping.                                                 *)
(***************************************************************************)
EXTENDS Naturals, FiniteSets, Functions

CONSTANTS
    Urls,         \* the servers
    Defaults,     \* those the plugin ships for the network in use
    Offered,      \* those a list server may offer
    MaxCells,     \* bound: entries alive at the same time
    MaxSteps      \* bound: steps of a behaviour

ASSUME ExecutorAssumption ==
    /\ IsFiniteSet(Urls) /\ Defaults \subseteq Urls /\ Offered \subseteq Urls
    /\ MaxCells \in Nat /\ MaxSteps \in Nat
    /\ Cardinality(Urls) + Cardinality(Defaults) <= MaxCells

VARIABLES
    heap,         \* the entries
    cfg,          \* the list of the configuration, in memory
    win,          \* BalWindow.willexecutors
    dlg,          \* WillExecutorWidget.willexecutors_list
    open,         \* a list dialog or the wizard's list page is open
    tie,          \* which list is the dictionary of the configuration
    shipped,      \* the default list, as this session has changed it
    first,        \* nothing was stored when the session began: the default
                  \* list and the configuration are one dictionary
    disk,         \* the configuration file
    net,          \* the request under way
    shown,        \* the open list and the configuration have changed only
                  \* together since one was loaded from the other
    loose,        \* entries have changed in memory since the last save
    steps         \* steps taken

vars == <<heap, cfg, win, dlg, open, tie, shipped, first, disk, net, shown, loose, steps>>

Cells == 1..MaxCells

\* "own" is the address the user or the server itself gave, "listed" the one
\* a list server or an imported file gave, "bad" is not an address
Entries == [sel : BOOLEAN, addr : {"none", "bad", "own", "listed"}, up : BOOLEAN]

Free == [sel |-> FALSE, addr |-> "free", up |-> FALSE]

Lists == [Urls -> Cells \cup {0}]

NoList == [u \in Urls |-> 0]

In(list) == {u \in Urls : list[u] # 0}

CellsOf(list) == {list[u] : u \in In(list)}

Values(h, list) == [u \in Urls |-> IF u \in In(list) THEN h[list[u]] ELSE Free]

\* dict.update
Updated(list, with) == [u \in Urls |-> IF u \in In(with) THEN with[u] ELSE list[u]]

Unwritten == [u \in Urls |-> [Free EXCEPT !.addr = "unwritten"]]

\* "picked" are the servers that the answer to a download says are selected,
\* "heard" those that answered a ping
Idle == [kind |-> "none", answered |-> FALSE, modal |-> FALSE, list |-> NoList,
         picked |-> {}, heard |-> {}, alone |-> TRUE]

----------------------------------------------------------------------------
(* The heap *)

Live == UNION {CellsOf(l) : l \in {cfg, win, dlg, shipped, net.list}}

\* New cells for the entries of the given URLs
Cell(urls) ==
    CHOOSE f \in [urls -> Cells \ Live] : IsInjective(f)

Fits(urls) == Cardinality(urls) + Cardinality(Live) <= MaxCells

NewList(urls) == [u \in Urls |-> IF u \in urls THEN Cell(urls)[u] ELSE 0]

\* The heap with new entries in the cells of a list
With(h, list, Entry(_)) ==
    [c \in Cells |-> IF c \in CellsOf(list)
                     THEN Entry(CHOOSE u \in In(list) : list[u] = c) ELSE h[c]]

\* What no list refers to after the step is forgotten
Heap(h) == heap' = [c \in Cells |-> IF c \in Live' THEN h[c] ELSE Free]

\* config.set_key
Stores(h, list) == disk' = Values(h, list) /\ loose' = FALSE

----------------------------------------------------------------------------
(* core/willexecutors.py *)

\* is_valid; the bounds on the base fee are left out
Usable(entry) == entry.addr \in {"own", "listed"}

Used(entry) == entry.sel /\ Usable(entry)

\* initialize_willexecutor of the entries stored: an address that is none is
\* emptied, in the entries themselves
Checked(h) ==
    [c \in Cells |-> IF c \in CellsOf(cfg) /\ h[c].addr = "bad"
                     THEN [h[c] EXCEPT !.addr = "none"] ELSE h[c]]

\* get_willexecutors: a default executor that is missing is put back; in the
\* first session the default list is the list it could be missing from
Loaded ==
    [u \in Urls |-> IF cfg[u] = 0 /\ u \in Defaults /\ ~first
                    THEN shipped[u] ELSE cfg[u]]

\* Loading changes the dictionary of the configuration, whoever else has it
Load ==
    /\ cfg' = Loaded
    /\ Heap(Checked(heap))

\* A faulty version: the list server goes before what the list has
FromServerOnly(old, picked) == [sel |-> picked, addr |-> "listed", up |-> FALSE]

\* initialize_willexecutor of an entry downloaded: what the old list has goes
\* before what the list server says, but for the selection, which either can
\* make.  A list server's status is a text, never the 200 of a ping.
FromServer(old, picked) ==
    IF old = Free THEN [sel |-> picked, addr |-> "listed", up |-> FALSE]
    ELSE [old EXCEPT !.sel = @ \/ picked,
                     !.addr = IF @ = "bad" THEN "none" ELSE @]

\* The entry of a URL, if the list has one
Old(h, list, u) == IF u \in In(list) THEN h[list[u]] ELSE Free

\* A faulty version: a server that does not answer keeps its status
PingedUp(entry, ok) ==
    IF ok THEN [entry EXCEPT !.addr = "own", !.up = TRUE] ELSE entry

\* get_info_task, for a server that answers with an address and for one that
\* does not
Pinged(entry, ok) ==
    IF ok THEN [entry EXCEPT !.addr = "own", !.up = TRUE]
          ELSE [entry EXCEPT !.up = FALSE]

\* ping_servers_parallel: the entries are changed in place
PingedHeap(h, list, heard) ==
    [c \in Cells |-> IF c \in CellsOf(list)
                     THEN Pinged(h[c], c \in {list[u] : u \in heard}) ELSE h[c]]

----------------------------------------------------------------------------
(* Starting up *)

Factory == [sel |-> TRUE, addr |-> "listed", up |-> FALSE]

\* The session that begins with a file: its entries, the default list with
\* entries of its own, and the configuration loaded
Started(file) ==
    LET kept == {u \in Urls : file # Unwritten /\ file[u] # Free}
        mine == CHOOSE f \in [kept -> Cells] : IsInjective(f)
        ours == CHOOSE f \in [Defaults -> Cells \ Range(mine)] : IsInjective(f)
    IN  [heap |-> [c \in Cells |->
                      IF \E u \in kept : mine[u] = c
                      THEN LET u == CHOOSE v \in kept : mine[v] = c IN
                           IF file[u].addr = "bad"
                           THEN [file[u] EXCEPT !.addr = "none"] ELSE file[u]
                      ELSE IF c \in Range(ours) THEN Factory ELSE Free],
         list |-> [u \in Urls |-> IF u \in kept THEN mine[u]
                                  ELSE IF u \in Defaults THEN ours[u] ELSE 0],
         ours |-> [u \in Urls |-> IF u \in Defaults THEN ours[u] ELSE 0]]

\* The first session, or one that finds every server pinged and selected
Files == {Unwritten, [u \in Urls |-> [sel |-> TRUE, addr |-> "own", up |-> TRUE]]}

Init ==
    /\ disk \in Files
    /\ heap = Started(disk).heap
    /\ cfg = Started(disk).list
    /\ win = Started(disk).list
    /\ shipped = Started(disk).ours
    /\ first = (disk = Unwritten)
    /\ dlg = NoList
    /\ open = FALSE
    /\ tie = "none"
    /\ net = Idle
    /\ shown = FALSE
    /\ loose = FALSE
    /\ steps = 0

Counted == steps < MaxSteps /\ steps' = steps + 1

\* Electrum stops and starts again, or the plugin is loaded anew
Restart ==
    /\ Counted
    /\ heap' = Started(disk).heap
    /\ cfg' = Started(disk).list
    /\ win' = Started(disk).list
    /\ shipped' = Started(disk).ours
    /\ first' = (disk = Unwritten)
    /\ dlg' = NoList
    /\ open' = FALSE
    /\ tie' = "none"
    /\ net' = Idle
    /\ shown' = FALSE
    /\ loose' = FALSE
    /\ UNCHANGED disk

----------------------------------------------------------------------------
(* Who loads the list *)

\* A faulty version: nobody else has the dictionary
SeenByNone(list, name) == list

\* The other list that is the dictionary of the configuration sees a default
\* executor put back
Seen(list, name) == IF tie = name THEN Loaded ELSE list

Untied(name) == IF tie = name THEN "none" ELSE tie

\* init_class_variables, build_will: a check or a rebuild, of the user or
\* after wallet activity, loads the list; no window that waits prevents the
\* latter
Refresh ==
    /\ Counted
    /\ win' = Loaded
    /\ dlg' = Seen(dlg, "dialog")
    /\ tie' = Untied("window")
    /\ net' = [net EXCEPT !.alone = FALSE]
    /\ UNCHANGED <<open, shipped, first, disk, shown, loose>>
    /\ Load

\* The window that waits is modal; closing it does not stop its request
Unblocked == net.kind = "none" \/ ~net.modal

Dismiss ==
    /\ net.kind # "none" /\ net.modal
    /\ net' = [net EXCEPT !.modal = FALSE]
    /\ UNCHANGED <<heap, cfg, win, dlg, open, tie, shipped, first, disk, shown, loose, steps>>

\* WillExecutorDialog, the list page of the wizard
Open ==
    /\ Counted
    /\ Unblocked /\ ~open
    /\ dlg' = Loaded
    /\ win' = Seen(win, "window")
    /\ open' = TRUE
    /\ shown' = TRUE
    /\ UNCHANGED <<tie, shipped, first, disk, net, loose>>
    /\ Load

\* Closing with a request of its own under way is left out
Close ==
    /\ Unblocked /\ open
    /\ net.kind \in {"none", "auto", "only", "autoping", "onlyping"}
    /\ dlg' = NoList
    /\ open' = FALSE
    /\ tie' = Untied("dialog")
    /\ shown' = FALSE
    /\ UNCHANGED <<cfg, win, shipped, first, disk, net, loose, steps>>
    /\ Heap(heap)

\* Electrum writes its configuration for another setting
OtherSetting ==
    /\ Counted
    /\ disk # Unwritten
    /\ Stores(heap, cfg)
    /\ UNCHANGED <<heap, cfg, win, dlg, open, tie, shipped, first, net, shown>>

----------------------------------------------------------------------------
(* Editing the open list *)

\* save_willexecutors
Saved(h, list) ==
    /\ dlg' = list
    /\ cfg' = list
    /\ tie' = "dialog"
    /\ Stores(h, list)
    /\ shown' = TRUE
    /\ UNCHANGED <<win, open, shipped, first>>
    /\ Heap(h)

Editing == Counted /\ Unblocked /\ open

\* A faulty version: nothing is saved
DeleteUnsaved(u) ==
    /\ Editing
    /\ u \in In(dlg)
    /\ dlg' = [dlg EXCEPT ![u] = 0]
    /\ cfg' = IF tie = "dialog" THEN dlg' ELSE cfg
    /\ UNCHANGED <<win, open, tie, shipped, first, disk, net, shown, loose>>
    /\ Heap(heap)

Delete(u) ==
    /\ Editing
    /\ u \in In(dlg)
    /\ UNCHANGED net
    /\ Saved(heap, [dlg EXCEPT ![u] = 0])

\* Of the entries of urls, those in chosen become selected, the others not
Selected(h, list, urls, chosen) ==
    [c \in Cells |-> IF \E u \in urls : list[u] = c
                     THEN [h[c] EXCEPT !.sel = c \in chosen] ELSE h[c]]

All(on) == IF on THEN Cells ELSE {}

\* A faulty version: nothing is saved
SelectUnsaved(u, on) ==
    /\ Editing
    /\ u \in In(dlg)
    /\ UNCHANGED <<cfg, win, dlg, open, tie, shipped, first, disk, net, shown, loose>>
    /\ Heap(Selected(heap, dlg, {u}, All(on)))

Select(u, on) ==
    /\ Editing
    /\ u \in In(dlg)
    /\ UNCHANGED net
    /\ Saved(Selected(heap, dlg, {u}, All(on)), dlg)

\* _apply_select_all: with a validity, selecting selects the valid entries
\* only and deselecting leaves them as they are
SelectAll(on, onlyValid) ==
    /\ Editing
    /\ UNCHANGED net
    /\ LET valid == {c \in Live : Usable(heap[c]) /\ (on \/ heap[c].sel)}
       IN  Saved(Selected(heap, dlg, In(dlg), IF onlyValid THEN valid ELSE All(on)), dlg)

\* on_edited of the address column, which takes any text
EditAddress(u, addr) ==
    /\ Editing
    /\ u \in In(dlg)
    /\ UNCHANGED net
    /\ Saved([heap EXCEPT ![dlg[u]].addr = addr], dlg)

\* add, for a new entry: one of the same URL is replaced
Add(u, addr) ==
    /\ Editing
    /\ Fits({u})
    /\ UNCHANGED net
    /\ LET Entry(v) == [sel |-> FALSE, addr |-> addr, up |-> FALSE] IN
       Saved(With(heap, NewList({u}), Entry), Updated(dlg, NewList({u})))

\* A faulty version: the entry stays under its old URL
EditKeepsOld(u, v, addr) ==
    /\ Editing
    /\ u \in In(dlg)
    /\ UNCHANGED net
    /\ Saved([heap EXCEPT ![dlg[u]].addr = addr], [dlg EXCEPT ![v] = dlg[u]])

\* add, for an entry that is there: another URL may be one of the list
Edit(u, v, addr) ==
    /\ Editing
    /\ u \in In(dlg)
    /\ UNCHANGED net
    /\ Saved([heap EXCEPT ![dlg[u]].addr = addr],
             IF v = u THEN dlg ELSE [dlg EXCEPT ![v] = dlg[u], ![u] = 0])

\* The entries of a file, which are not looked at
FromFile(u) == [sel |-> TRUE, addr |-> "listed", up |-> FALSE]

\* import_json_file: nothing is saved
Import(urls) ==
    /\ Editing
    /\ urls # {} /\ Fits(urls)
    /\ dlg' = Updated(dlg, NewList(urls))
    /\ cfg' = IF tie = "dialog" THEN dlg' ELSE cfg
    /\ shown' = (shown /\ tie = "dialog")
    /\ loose' = TRUE
    /\ UNCHANGED <<win, open, tie, shipped, first, disk, net>>
    /\ Heap(With(heap, NewList(urls), FromFile))

----------------------------------------------------------------------------
(* Requests of the window, one at a time *)

Asked(kind, list, modal) ==
    net' = [kind |-> kind, answered |-> FALSE, modal |-> modal, list |-> list,
            picked |-> {}, heard |-> {}, alone |-> TRUE]

Only(list, urls) == [u \in Urls |-> IF u \in urls THEN list[u] ELSE 0]

\* download_list of the open list: the old entries are those of the window
AskList ==
    /\ Editing /\ net.kind = "none"
    /\ Asked("list", win, TRUE)
    /\ UNCHANGED <<heap, cfg, win, dlg, open, tie, shipped, first, disk, shown, loose>>

\* "Ping all" is given the list itself, the other pings one of their own
AskPing(urls) ==
    /\ Editing /\ net.kind = "none"
    /\ urls # {} /\ urls \subseteq In(dlg)
    /\ Asked(IF urls = In(dlg) THEN "pingall" ELSE "ping", Only(dlg, urls), TRUE)
    /\ UNCHANGED <<heap, cfg, win, dlg, open, tie, shipped, first, disk, shown, loose>>

\* on_sync of the edit window, which may be left before the answer
AskSync(u) ==
    /\ Editing /\ net.kind = "none"
    /\ u \in In(dlg)
    /\ Asked("sync", Only(dlg, {u}), FALSE)
    /\ UNCHANGED <<heap, cfg, win, dlg, open, tie, shipped, first, disk, shown, loose>>

\* The wizard's download page loads the window's list and asks for the list
\* servers; with "auto" it will select what answers
WizardNext(auto) ==
    /\ Counted /\ Unblocked /\ ~open /\ net.kind = "none"
    /\ win' = Loaded
    /\ tie' = Untied("window")
    /\ Asked(IF auto THEN "auto" ELSE "only", Loaded, TRUE)
    /\ UNCHANGED <<dlg, open, shipped, first, disk, shown, loose>>
    /\ Load

\* The wizard's import page, which saves
WizardImport(urls) ==
    /\ Counted /\ Unblocked /\ ~open
    /\ urls # {} /\ Fits(urls)
    /\ tie' = "window"
    /\ net' = [net EXCEPT !.alone = FALSE]
    /\ UNCHANGED <<dlg, open, shipped, first, shown>>
    /\ LET list == Updated(Loaded, NewList(urls))
           h == With(Checked(heap), NewList(urls), FromFile)
       IN  /\ win' = list
           /\ cfg' = list
           /\ Stores(h, list)
           /\ Heap(h)

Downloads == {"list", "auto", "only"}

\* fetch_will_executors_list, in the thread: the answer is filled from the
\* old list as it is now
AnswerList(urls, picked) ==
    /\ net.kind \in Downloads /\ ~net.answered
    /\ urls # {} /\ picked \subseteq urls /\ Fits(urls)
    /\ net' = [net EXCEPT !.answered = TRUE, !.list = NewList(urls), !.picked = picked]
    /\ UNCHANGED <<cfg, win, dlg, open, tie, shipped, first, disk, shown, loose, steps>>
    /\ LET Entry(u) == FromServer(Old(heap, net.list, u), u \in picked)
       IN  Heap(With(heap, NewList(urls), Entry))

\* No answer, or one without an entry to use: a message is shown
FailList ==
    /\ net.kind \in Downloads /\ ~net.answered
    /\ net' = Idle
    /\ UNCHANGED <<cfg, win, dlg, open, tie, shipped, first, disk, shown, loose, steps>>
    /\ Heap(heap)

\* on_success of a download of the open list
ApplyList ==
    /\ net.kind = "list" /\ net.answered
    /\ win' = Updated(win, net.list)
    /\ net' = Idle
    /\ dlg' = Updated(dlg, net.list)
    /\ cfg' = dlg'
    /\ tie' = "dialog"
    /\ Stores(heap, dlg')
    /\ shown' = TRUE
    /\ UNCHANGED <<open, shipped, first, steps>>
    /\ Heap(heap)

\* on_success of the wizard: every entry of the window is pinged
ApplyWizard ==
    /\ net.kind \in {"auto", "only"} /\ net.answered
    /\ win' = Updated(win, net.list)
    /\ cfg' = IF tie = "window" THEN win' ELSE cfg
    /\ Asked(IF net.kind = "auto" THEN "autoping" ELSE "onlyping", win', TRUE)
    /\ shown' = (shown /\ tie # "window")
    /\ loose' = TRUE
    /\ UNCHANGED <<dlg, open, tie, shipped, first, disk, steps>>
    /\ Heap(heap)

Pings == {"ping", "pingall", "autoping", "onlyping"}

\* ping_servers_parallel, its threads taken together: every entry is changed
\* in place and put back in the dictionary that was given
AnswerPing(urls) ==
    /\ net.kind \in Pings /\ ~net.answered
    /\ urls \subseteq In(net.list)
    /\ net' = [net EXCEPT !.answered = TRUE, !.heard = urls]
    /\ dlg' = IF net.kind = "pingall" THEN Updated(dlg, net.list) ELSE dlg
    /\ cfg' = IF tie = "dialog" THEN dlg' ELSE cfg
    /\ shown' = (shown /\ (tie = "dialog" \/ dlg' = dlg))
    /\ loose' = TRUE
    /\ UNCHANGED <<win, open, tie, shipped, first, disk, steps>>
    /\ Heap(PingedHeap(heap, net.list, urls))

\* save_willexecutors, after a ping of the open list
ApplyPing ==
    /\ net.kind \in {"ping", "pingall"} /\ net.answered
    /\ net' = Idle
    /\ UNCHANGED steps
    /\ Saved(heap, dlg)

\* ping_on_done of the wizard
ApplyWizardPing ==
    /\ net.kind \in {"autoping", "onlyping"} /\ net.answered
    /\ net' = Idle
    /\ cfg' = win
    /\ tie' = "window"
    /\ shown' = FALSE
    /\ UNCHANGED <<win, dlg, open, shipped, first, steps>>
    /\ LET answered == {c \in Live : heap[c].up}
           h == IF net.kind = "autoping" THEN Selected(heap, win, In(win), answered) ELSE heap
       IN  /\ Stores(h, win)
           /\ Heap(h)

\* on_success of on_sync: the entry is changed, nothing is saved
AnswerSync(ok) ==
    /\ net.kind = "sync"
    /\ net' = Idle
    /\ UNCHANGED <<cfg, win, dlg, open, tie, shipped, first, disk, shown, steps>>
    /\ LET there == In(net.list) \cap In(dlg)
           hit == ok /\ there # {}
       IN  /\ Heap(IF hit THEN PingedHeap(heap, Only(dlg, there), there) ELSE heap)
           /\ loose' = (loose \/ hit)

----------------------------------------------------------------------------
(* The command line: each command loads the list, changes and saves it *)

Command(h, list) ==
    /\ Counted
    /\ cfg' = list
    /\ tie' = "none"
    /\ win' = Seen(win, "window")
    /\ dlg' = Seen(dlg, "dialog")
    /\ Stores(h, list)
    /\ net' = [net EXCEPT !.alone = FALSE]
    /\ shown' = FALSE
    /\ UNCHANGED <<open, shipped, first>>
    /\ Heap(h)

CmdAdd(u, addr) ==
    /\ u \notin In(Loaded) /\ Fits({u})
    /\ LET Entry(v) == [sel |-> FALSE, addr |-> addr, up |-> FALSE] IN
       Command(With(Checked(heap), NewList({u}), Entry), Updated(Loaded, NewList({u})))

\* willexecutors_update: an address of the network, a URL not in the list
CmdUpdate(u, v, addr) ==
    /\ u \in In(Loaded)
    /\ v = u \/ v \notin In(Loaded)
    /\ Command([Checked(heap) EXCEPT ![Loaded[u]].addr = addr],
               IF v = u THEN Loaded ELSE [Loaded EXCEPT ![v] = Loaded[u], ![u] = 0])

CmdDelete(u) ==
    /\ u \in In(Loaded)
    /\ Command(Checked(heap), [Loaded EXCEPT ![u] = 0])

CmdSelect(urls, on) ==
    /\ urls # {} /\ urls \subseteq In(Loaded)
    /\ Command(Selected(Checked(heap), Loaded, urls, All(on)), Loaded)

\* Without arguments the selected servers are pinged
CmdPing(heard) ==
    LET targets == {u \in In(Loaded) : heap[Loaded[u]].sel} IN
    /\ targets # {} /\ heard \subseteq targets
    /\ Command(PingedHeap(Checked(heap), Only(Loaded, targets), heard), Loaded)

CmdDownload(urls, picked) ==
    /\ urls # {} /\ picked \subseteq urls /\ Fits(urls)
    /\ LET Entry(u) == FromServer(Old(Checked(heap), Loaded, u), u \in picked)
       IN  Command(With(Checked(heap), NewList(urls), Entry), Updated(Loaded, NewList(urls)))

\* Only what is new is imported
CmdImport(urls) ==
    /\ urls # {} /\ urls \cap In(Loaded) = {} /\ Fits(urls)
    /\ Command(With(Checked(heap), NewList(urls), FromFile), Updated(Loaded, NewList(urls)))

Next ==
    \/ Restart \/ Refresh \/ Dismiss \/ Open \/ Close \/ OtherSetting
    \/ \E u \in Urls, on \in BOOLEAN : Select(u, on)
    \/ \E on, onlyValid \in BOOLEAN : SelectAll(on, onlyValid)
    \/ \E u \in Urls, addr \in {"none", "bad", "own"} :
          EditAddress(u, addr) \/ Add(u, addr)
    \/ \E u \in Urls : Delete(u) \/ AskSync(u) \/ CmdDelete(u)
    \/ \E u, v \in Urls, addr \in {"bad", "own"} : Edit(u, v, addr)
    \/ \E u, v \in Urls, addr \in {"none", "own"} : CmdUpdate(u, v, addr)
    \/ \E urls \in SUBSET Urls :
          \/ Import(urls) \/ WizardImport(urls) \/ CmdImport(urls)
          \/ AskPing(urls) \/ AnswerPing(urls) \/ CmdPing(urls)
    \/ AskList
    \/ \E auto \in BOOLEAN : WizardNext(auto)
    \/ \E urls, picked \in SUBSET Offered :
          AnswerList(urls, picked) \/ CmdDownload(urls, picked)
    \/ FailList \/ ApplyList \/ ApplyWizard \/ ApplyPing \/ ApplyWizardPing
    \/ \E ok \in BOOLEAN : AnswerSync(ok)
    \/ \E u \in Urls, addr \in {"none", "own"} : CmdAdd(u, addr)
    \/ \E urls \in SUBSET Urls, on \in BOOLEAN : CmdSelect(urls, on)

Spec == Init /\ [][Next]_vars

----------------------------------------------------------------------------
(* Properties *)

TypeOK ==
    /\ heap \in [Cells -> Entries \cup {Free}]
    /\ cfg \in Lists /\ win \in Lists /\ dlg \in Lists /\ shipped \in Lists
    /\ net.list \in Lists
    /\ \A c \in Live : heap[c] \in Entries
    /\ tie = "dialog" => open /\ cfg = dlg
    /\ tie = "window" => cfg = win

Once(list) == \A u, v \in In(list) : list[u] = list[v] => u = v

Unshared == \A l \in {cfg, win, dlg, net.list} : Once(l)

\* A default executor that was put back is the entry of the shipped list
\* itself: it has been renamed when it is under another URL.
InPlace ==
    \A l \in {cfg, win, dlg, net.list} :
        \A u \in In(l), v \in In(shipped) : l[u] = shipped[v] => u = v

\* No step puts an entry in a list under two URLs, whatever is renamed,
\* imported, downloaded or put back: else one click would select, and pay,
\* two servers.  (Two steps do.  A ping whose window was closed, and whose
\* list was renamed in before it ended, puts back what it was given; and
\* loading puts back a default executor that was put back before and then
\* renamed.)
NoSharedEntry ==
    [][Unshared /\ InPlace /\ ~(net.kind = "pingall" /\ ~net.modal) => Unshared']_vars

Uses(h, list) == {<<u, h[list[u]].addr>> : u \in {v \in In(list) : Used(h[list[v]])}}

\* But for a default executor that was deleted, which comes back
Kept(uses) == {p \in uses : p[1] \in In(dlg) \/ p[1] \notin Defaults}

\* A list that is open, and beside which nobody changed the configuration,
\* shows the executors and addresses that the next build takes.
ShownIsBuilt ==
    open /\ shown => Kept(Uses(heap, Loaded)) = Uses(heap, dlg)

\* A default executor that is not stored is as it was shipped: what is changed
\* of one that was put back and deleted again stays changed, and is not saved.
Pristine == \A u \in Defaults : disk[u] = Free => heap[shipped[u]] = Factory

\* ... and what is saved of it survives a crash: unless an import, a
\* synchronisation or a ping is yet to be saved, Electrum started again would
\* show the same.
ShownSurvives ==
    open /\ shown /\ ~loose /\ Pristine =>
        LET again == Started(disk) IN Kept(Uses(again.heap, again.list)) = Uses(heap, dlg)

\* The list the owner sees is the list the plugin pays, now and after a crash.
ShownIsTrue == TypeOK /\ ShownIsBuilt /\ ShownSurvives

\* A download that nothing else came between deselects no executor and moves
\* none the window knew from the address it is paid at; and it selects none,
\* known or new, but those that the list server itself says are selected.
DownloadKeepsChoice ==
    [][(ApplyList \/ ApplyWizard) /\ net.alone /\ net.modal =>
        \A u \in Urls :
            LET old == Old(heap, win, u)
                new == Old(heap', win', u)
            IN  /\ new.sel <=> old.sel \/ u \in net.picked
                /\ old # Free => new.addr = old.addr \/ old.addr = "bad"]_vars

\* "Automatically download and select": when no rebuild or command came
\* between, and no two servers have one entry, exactly the servers that
\* answered this ping are selected.
AutoSelectsAnswered ==
    [][ApplyWizardPing /\ net.kind = "autoping" /\ net.alone /\ Once(win) =>
        \A u \in In(win') : heap'[win'[u]].sel <=> u \in net.heard]_vars

=============================================================================
