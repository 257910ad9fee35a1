-------------------------- MODULE ExecutorListProofs --------------------------
(***************************************************************************)
(* Proofs about the list of will-executors: for every set of servers, what *)
(* the owner sees is what the plugin pays, now and after a crash; no step  *)
(* puts an entry under two URLs; a download keeps the owner's choices; and *)
(* the automatic selection takes the servers that answered.                *)
(***************************************************************************)
EXTENDS ExecutorList, FiniteSetTheorems, TLAPS

Asking == {"list", "ping", "pingall", "sync"}

Kinds == {"none", "list", "auto", "only", "ping", "pingall", "autoping", "onlyping", "sync"}

\* The types that TypeOK leaves out
NetTypes ==
    /\ net \in [kind : Kinds, answered : BOOLEAN, modal : BOOLEAN, list : Lists,
                picked : SUBSET Urls, heard : SUBSET Urls, alone : BOOLEAN]
    /\ net.kind \in Asking => open

FileTypes == [Urls -> Entries \cup {Free}] \cup {Unwritten}

RestTypes ==
    /\ disk \in FileTypes
    /\ open \in BOOLEAN /\ first \in BOOLEAN /\ shown \in BOOLEAN /\ loose \in BOOLEAN
    /\ tie \in {"none", "dialog", "window"}

\* The shipped list has the defaults, each an entry of its own, and the
\* window's list has them all unless nothing was ever stored.
ShippedWhole ==
    /\ In(shipped) = Defaults /\ Once(shipped)
    /\ first \/ Defaults \subseteq In(win)

\* What a list server answered is nobody's entry yet.
AnswerApart ==
    net.kind \in Downloads /\ net.answered =>
        \A l \in {cfg, win, dlg, shipped} : CellsOf(net.list) \cap CellsOf(l) = {}

\* While its window waits, "Ping all" has the entries of the open list.
PingsTheList ==
    net.kind = "pingall" /\ net.modal =>
        \A u \in In(net.list) : dlg[u] = net.list[u]

\* A download that is alone was given the list of the window, and its answer
\* is made of what the window has and of what the list server selects.
DownloadAlone ==
    net.kind \in Downloads /\ net.alone /\ net.modal =>
        IF net.answered
        THEN /\ net.picked \subseteq In(net.list)
             /\ \A u \in In(net.list) :
                   heap[net.list[u]] = FromServer(Old(heap, win, u), u \in net.picked)
        ELSE net.list = win

\* A ping of the wizard that is alone was given the list of the window, and
\* an entry is up when its server was heard.
PingAlone ==
    net.kind \in {"autoping", "onlyping"} /\ net.alone =>
        /\ net.list = win
        /\ net.answered =>
              \A u \in In(win) : heap[win[u]].up <=> \E v \in net.heard : win[v] = win[u]

\* The open list and the configuration differ in defaults put back only.
ShownTogether ==
    open /\ shown =>
        \A u \in Urls : dlg[u] = cfg[u] \/ (dlg[u] = 0 /\ u \in Defaults)

Stored(u) == IF disk = Unwritten THEN Free ELSE disk[u]

\* What is made of an entry of the file when it is loaded
Cleaned(entry) == IF entry.addr = "bad" THEN [entry EXCEPT !.addr = "none"] ELSE entry

\* When all is saved, the file has what the configuration has, but for
\* defaults put back.
Synced ==
    ~loose =>
        /\ \A u \in Urls :
              IF cfg[u] = 0 THEN Stored(u) = Free
              ELSE \/ Stored(u) # Free /\ heap[cfg[u]] \in {Stored(u), Cleaned(Stored(u))}
                   \/ Stored(u) = Free /\ u \in Defaults /\ cfg[u] = shipped[u]
        /\ disk = Unwritten => \A u \in Defaults : heap[shipped[u]] = Factory

ExecInv ==
    /\ TypeOK /\ NetTypes /\ RestTypes
    /\ ShippedWhole /\ AnswerApart /\ PingsTheList
    /\ DownloadAlone /\ PingAlone
    /\ ShownTogether /\ Synced

----------------------------------------------------------------------------
(* Injections *)

\* A set that has no more elements than a finite one fits in it.
LEMMA SmallerFits ==
    ASSUME NEW S, NEW T, IsFiniteSet(S), IsFiniteSet(T), Cardinality(S) <= Cardinality(T)
    PROVE  \E f \in [S -> T] : IsInjective(f)
<1> DEFINE n == Cardinality(S)
<1> DEFINE m == Cardinality(T)
<1>1. n \in Nat /\ m \in Nat /\ n <= m
  BY FS_CardinalityType
<1>2. PICK a \in Nat : ExistsBijection(1..a, S)
  BY FS_NatBijection
<1>3. PICK b \in Nat : ExistsBijection(1..b, T)
  BY FS_NatBijection
<1>4. a = n /\ b = m
  BY <1>2, <1>3, FS_CountingElements
<1>5. PICK f \in [1..n -> S] : f \in Bijection(1..n, S)
  BY <1>2, <1>4 DEF ExistsBijection, Bijection, Injection, Surjection
<1>6. PICK g \in [1..m -> T] : g \in Bijection(1..m, T)
  BY <1>3, <1>4 DEF ExistsBijection, Bijection, Injection, Surjection
<1>7. \A s \in S : \E k \in 1..n : f[k] = s
  BY <1>5 DEF Bijection, Surjection
<1> DEFINE index == [s \in S |-> CHOOSE k \in 1..n : f[k] = s]
<1>8. \A s \in S : index[s] \in 1..n /\ f[index[s]] = s
  BY <1>7
<1>9. 1..n \subseteq 1..m
  BY <1>1
<1> DEFINE h == [s \in S |-> g[index[s]]]
<1> HIDE DEF index, n, m
<1>10. h \in [S -> T]
  BY <1>6, <1>8, <1>9
<1>11. \A s, t \in S : h[s] = h[t] => s = t
  <2>1. \A j, k \in 1..m : g[j] = g[k] => j = k
    BY <1>6 DEF Bijection, Injection, IsInjective
  <2> QED BY <2>1, <1>8, <1>9
<1>12. IsInjective(h)
  BY <1>10, <1>11 DEF IsInjective
<1> QED BY <1>10, <1>12

----------------------------------------------------------------------------
(* Lists and their cells *)

\* A cell that a list holds is alive, and only such a cell is.
LEMMA LiveCells ==
    /\ \A u \in Urls : /\ cfg[u] # 0 => cfg[u] \in Live
                       /\ win[u] # 0 => win[u] \in Live
                       /\ dlg[u] # 0 => dlg[u] \in Live
                       /\ shipped[u] # 0 => shipped[u] \in Live
                       /\ net.list[u] # 0 => net.list[u] \in Live
    /\ \A c \in Live : \E u \in Urls :
          /\ c \in {cfg[u], win[u], dlg[u], shipped[u], net.list[u]}
          /\ c # 0
BY DEF Live, CellsOf, In

\* A list from its entries: what two lists share, read at their URLs.
LEMMA CellsApart ==
    ASSUME NEW a \in Lists, NEW b \in Lists
    PROVE  CellsOf(a) \cap CellsOf(b) = {} <=>
               \A u, v \in Urls : a[u] # 0 => a[u] # b[v]
BY DEF CellsOf, In, Lists

\* New entries are put in cells that nobody holds.
LEMMA NewCells ==
    ASSUME TypeOK, NEW urls \in SUBSET Urls, Fits(urls)
    PROVE  /\ NewList(urls) \in Lists
           /\ In(NewList(urls)) = urls
           /\ Once(NewList(urls))
           /\ \A u \in Urls : IF u \in urls THEN NewList(urls)[u] \in Cells \ Live
                                            ELSE NewList(urls)[u] = 0
<1>1. Live \subseteq Cells
  <2>1. SUFFICES ASSUME NEW c \in Live PROVE c \in Cells
    OBVIOUS
  <2>2. PICK u \in Urls : c \in {cfg[u], win[u], dlg[u], shipped[u], net.list[u]} /\ c # 0
    BY LiveCells
  <2> QED BY <2>2 DEF TypeOK, Lists
<1>2. IsFiniteSet(Cells) /\ Cardinality(Cells) = MaxCells
  BY ExecutorAssumption, FS_Interval DEF Cells
<1>3. IsFiniteSet(Live) /\ Cardinality(Live) \in Nat
  BY <1>1, <1>2, FS_Subset, FS_CardinalityType
<1>4. IsFiniteSet(urls) /\ Cardinality(urls) \in Nat
  BY ExecutorAssumption, FS_Subset, FS_CardinalityType
<1>5. /\ IsFiniteSet(Cells \ Live)
      /\ Cardinality(Cells \ Live) = MaxCells - Cardinality(Cells \cap Live)
  BY <1>2, FS_Difference
<1>6. Cells \cap Live = Live
  BY <1>1
<1>7. Cardinality(urls) <= Cardinality(Cells \ Live)
  BY <1>3, <1>4, <1>5, <1>6, ExecutorAssumption DEF Fits
<1>8. \E f \in [urls -> Cells \ Live] : IsInjective(f)
  BY <1>4, <1>5, <1>7, SmallerFits
<1>9. Cell(urls) \in [urls -> Cells \ Live] /\ IsInjective(Cell(urls))
  BY <1>8 DEF Cell
<1>10. \A u \in Urls : IF u \in urls THEN NewList(urls)[u] = Cell(urls)[u]
                                     ELSE NewList(urls)[u] = 0
  BY DEF NewList
<1>11. 0 \notin Cells
  BY ExecutorAssumption DEF Cells
<1>12. \A u \in Urls : IF u \in urls THEN NewList(urls)[u] \in Cells \ Live
                                     ELSE NewList(urls)[u] = 0
  BY <1>9, <1>10
<1>13. NewList(urls) \in Lists
  BY <1>9 DEF NewList, Lists
<1>14. In(NewList(urls)) = urls
  BY <1>11, <1>12 DEF In
<1>15. Once(NewList(urls))
  <2>1. \A u, v \in urls : Cell(urls)[u] = Cell(urls)[v] => u = v
    BY <1>9 DEF IsInjective
  <2> QED BY <2>1, <1>10, <1>14 DEF Once
<1> QED BY <1>12, <1>13, <1>14, <1>15

\* In a list that has no entry twice, a cell tells its URL.
LEMMA CellTellsUrl ==
    ASSUME NEW list, Once(list), NEW u \in In(list)
    PROVE  (CHOOSE v \in In(list) : list[v] = list[u]) = u
BY DEF Once

\* Loading puts nothing but missing defaults back.
LEMMA LoadedList ==
    ASSUME TypeOK, RestTypes, ShippedWhole
    PROVE  /\ Loaded \in Lists
           /\ \A u \in Urls :
                 \/ Loaded[u] = cfg[u]
                 \/ cfg[u] = 0 /\ u \in Defaults /\ ~first /\ Loaded[u] = shipped[u]
           /\ ~first => \A u \in Defaults : Loaded[u] # 0
<1>1. Loaded \in Lists
  BY DEF Loaded, TypeOK, Lists
<1>2. \A u \in Urls :
         \/ Loaded[u] = cfg[u]
         \/ cfg[u] = 0 /\ u \in Defaults /\ ~first /\ Loaded[u] = shipped[u]
  BY DEF Loaded
<1>3. ~first => \A u \in Defaults : Loaded[u] # 0
  BY ExecutorAssumption DEF Loaded, ShippedWhole, In
<1> QED BY <1>1, <1>2, <1>3

\* What is cleaned when a list is loaded.
LEMMA CheckedHeap ==
    ASSUME TypeOK
    PROVE  /\ Checked(heap) \in [Cells -> Entries \cup {Free}]
           /\ \A c \in Live : /\ Checked(heap)[c] \in Entries
                              /\ Checked(heap)[c].up = heap[c].up
           /\ \A c \in Cells : Checked(heap)[c] \in {heap[c], Cleaned(heap[c])}
           /\ \A c \in Cells \ CellsOf(cfg) : Checked(heap)[c] = heap[c]
<1>0. Live \subseteq Cells
  <2>1. SUFFICES ASSUME NEW c \in Live PROVE c \in Cells
    OBVIOUS
  <2>2. PICK u \in Urls : c \in {cfg[u], win[u], dlg[u], shipped[u], net.list[u]} /\ c # 0
    BY LiveCells
  <2> QED BY <2>2 DEF TypeOK, Lists
<1>1. \A c \in Cells : Checked(heap)[c] = IF c \in CellsOf(cfg) /\ heap[c].addr = "bad"
                                          THEN [heap[c] EXCEPT !.addr = "none"] ELSE heap[c]
  BY DEF Checked
<1>2. \A e \in Entries : [e EXCEPT !.addr = "none"] \in Entries /\ [e EXCEPT !.addr = "none"].up = e.up
  BY DEF Entries
<1>3. CellsOf(cfg) \subseteq Live
  BY DEF Live
<1>4. \A c \in Live : heap[c] \in Entries
  BY DEF TypeOK
<1>5. heap \in [Cells -> Entries \cup {Free}]
  BY DEF TypeOK
<1>6. \A c \in Cells : Checked(heap)[c] \in Entries \cup {Free}
  BY <1>1, <1>2, <1>3, <1>4, <1>5
<1>7. Checked(heap) \in [Cells -> Entries \cup {Free}]
  BY <1>6 DEF Checked
<1>8. \A c \in Live : Checked(heap)[c] \in Entries /\ Checked(heap)[c].up = heap[c].up
  BY <1>0, <1>1, <1>2, <1>4
<1>9. \A c \in Cells : Checked(heap)[c] \in {heap[c], Cleaned(heap[c])}
  BY <1>1 DEF Cleaned
<1>10. \A c \in Cells \ CellsOf(cfg) : Checked(heap)[c] = heap[c]
  BY <1>1
<1> QED BY <1>7, <1>8, <1>9, <1>10

----------------------------------------------------------------------------
(* Parts of steps *)

\* What a step makes of the heap: the entries it leaves alive are those of h.
LEMMA HeapStep ==
    ASSUME NEW h \in [Cells -> Entries \cup {Free}], Heap(h),
           cfg' \in Lists, win' \in Lists, dlg' \in Lists, shipped' \in Lists,
           net'.list \in Lists,
           \A u \in Urls : /\ cfg'[u] # 0 => h[cfg'[u]] \in Entries
                           /\ win'[u] # 0 => h[win'[u]] \in Entries
                           /\ dlg'[u] # 0 => h[dlg'[u]] \in Entries
                           /\ shipped'[u] # 0 => h[shipped'[u]] \in Entries
                           /\ net'.list[u] # 0 => h[net'.list[u]] \in Entries
    PROVE  /\ heap' \in [Cells -> Entries \cup {Free}]
           /\ \A c \in Live' : heap'[c] \in Entries
           /\ \A u \in Urls : /\ cfg'[u] # 0 => heap'[cfg'[u]] = h[cfg'[u]]
                              /\ win'[u] # 0 => heap'[win'[u]] = h[win'[u]]
                              /\ dlg'[u] # 0 => heap'[dlg'[u]] = h[dlg'[u]]
                              /\ shipped'[u] # 0 => heap'[shipped'[u]] = h[shipped'[u]]
                              /\ net'.list[u] # 0 => heap'[net'.list[u]] = h[net'.list[u]]
<1>1. \A u \in Urls : /\ cfg'[u] # 0 => cfg'[u] \in Live'
                      /\ win'[u] # 0 => win'[u] \in Live'
                      /\ dlg'[u] # 0 => dlg'[u] \in Live'
                      /\ shipped'[u] # 0 => shipped'[u] \in Live'
                      /\ net'.list[u] # 0 => net'.list[u] \in Live'
  BY DEF Live, CellsOf, In
<1>2. \A c \in Live' : \E u \in Urls :
         /\ c \in {cfg'[u], win'[u], dlg'[u], shipped'[u], net'.list[u]}
         /\ c # 0
  BY DEF Live, CellsOf, In
<1>3. \A c \in Live' : c \in Cells /\ h[c] \in Entries
  <2>1. SUFFICES ASSUME NEW c \in Live' PROVE c \in Cells /\ h[c] \in Entries
    OBVIOUS
  <2>2. PICK u \in Urls : c \in {cfg'[u], win'[u], dlg'[u], shipped'[u], net'.list[u]} /\ c # 0
    BY <1>2
  <2>3. {cfg'[u], win'[u], dlg'[u], shipped'[u], net'.list[u]} \subseteq Cells \cup {0}
    BY DEF Lists
  <2> QED BY <2>2, <2>3
<1>4. heap' = [c \in Cells |-> IF c \in Live' THEN h[c] ELSE Free]
  BY DEF Heap
<1>5. \A c \in Live' : heap'[c] = h[c]
  BY <1>3, <1>4
<1>6. heap' \in [Cells -> Entries \cup {Free}]
  BY <1>4
<1> QED BY <1>1, <1>3, <1>5, <1>6

\* A step that saves the list it makes the configuration's.
LEMMA SyncedSaved ==
    ASSUME NEW h \in [Cells -> Entries \cup {Free}], cfg' \in Lists,
           disk' = Values(h, cfg'),
           \A u \in Urls : cfg'[u] # 0 => h[cfg'[u]] \in Entries /\ heap'[cfg'[u]] = h[cfg'[u]]
    PROVE  Synced' /\ disk' \in FileTypes
<1>1. Free \notin Entries /\ Free.addr # "unwritten"
  BY DEF Free, Entries
<1>2. \A e \in Entries : e.addr # "unwritten"
  BY DEF Entries
<1>3. \A u \in Urls : disk'[u] = IF cfg'[u] # 0 THEN h[cfg'[u]] ELSE Free
  BY DEF Values, In
<1>4. \A u \in Urls : disk'[u] # [Free EXCEPT !.addr = "unwritten"]
  BY <1>1, <1>2, <1>3 DEF Free
<1>5. Urls # {} => disk' # Unwritten
  BY <1>4 DEF Unwritten
<1>6. \A u \in Urls : Stored(u)' = disk'[u]
  BY <1>5 DEF Stored
<1>7. disk' = Unwritten => Defaults = {}
  BY <1>5, ExecutorAssumption
<1>8. \A u \in Urls :
         IF cfg'[u] = 0 THEN Stored(u)' = Free
         ELSE \/ Stored(u)' # Free /\ heap'[cfg'[u]] \in {Stored(u)', Cleaned(Stored(u)')}
              \/ Stored(u)' = Free /\ u \in Defaults /\ cfg'[u] = shipped'[u]
  BY <1>1, <1>3, <1>6
<1>9. disk' \in [Urls -> Entries \cup {Free}]
  BY <1>3 DEF Values
<1> QED BY <1>7, <1>8, <1>9 DEF Synced, FileTypes

\* A step that saves nothing and does no more than load.
LEMMA SyncedKept ==
    ASSUME TypeOK, RestTypes, ShippedWhole, Synced,
           NEW h, disk' = disk, loose' = loose, shipped' = shipped,
           \A u \in Urls : cfg'[u] = cfg[u] \/ cfg'[u] = Loaded[u],
           \A c \in Live : h[c] \in {heap[c], Cleaned(heap[c])},
           \A u \in Urls : /\ cfg'[u] # 0 => heap'[cfg'[u]] = h[cfg'[u]]
                           /\ shipped[u] # 0 => heap'[shipped[u]] = h[shipped[u]]
    PROVE  Synced'
<1>1. SUFFICES ASSUME ~loose
      PROVE  /\ \A u \in Urls :
                  IF cfg'[u] = 0 THEN Stored(u) = Free
                  ELSE \/ Stored(u) # Free /\ heap'[cfg'[u]] \in {Stored(u), Cleaned(Stored(u))}
                       \/ Stored(u) = Free /\ u \in Defaults /\ cfg'[u] = shipped[u]
             /\ disk = Unwritten => \A u \in Defaults : heap'[shipped[u]] = Factory
  BY DEF Synced, Stored
<1>2. \A e : Cleaned(Cleaned(e)) = Cleaned(e)
  BY DEF Cleaned
<1>3. Cleaned(Factory) = Factory
  BY DEF Cleaned, Factory
<1>4. ASSUME NEW u \in Urls
      PROVE  IF cfg'[u] = 0 THEN Stored(u) = Free
             ELSE \/ Stored(u) # Free /\ heap'[cfg'[u]] \in {Stored(u), Cleaned(Stored(u))}
                  \/ Stored(u) = Free /\ u \in Defaults /\ cfg'[u] = shipped[u]
  <2>1. \/ cfg'[u] = cfg[u]
        \/ cfg[u] = 0 /\ u \in Defaults /\ cfg'[u] = shipped[u]
    BY LoadedList
  <2>2. CASE cfg'[u] = cfg[u]
    <3>1. cfg[u] # 0 => cfg[u] \in Live
      BY LiveCells
    <3>2. cfg[u] # 0 => heap'[cfg'[u]] \in {heap[cfg[u]], Cleaned(heap[cfg[u]])}
      BY <2>2, <3>1
    <3> QED BY <1>1, <1>2, <2>2, <3>2 DEF Synced
  <2>3. CASE cfg[u] = 0 /\ u \in Defaults /\ cfg'[u] = shipped[u]
    BY <1>1, <2>3 DEF Synced
  <2> QED BY <2>1, <2>2, <2>3
<1>5. ASSUME disk = Unwritten, NEW u \in Defaults PROVE heap'[shipped[u]] = Factory
  <2>1. u \in Urls /\ shipped[u] # 0
    BY ExecutorAssumption DEF ShippedWhole, In
  <2>2. heap'[shipped[u]] \in {heap[shipped[u]], Cleaned(heap[shipped[u]])}
    BY <2>1, LiveCells
  <2> QED BY <1>1, <1>3, <1>5, <2>2 DEF Synced
<1> QED BY <1>4, <1>5

\* The same of what the open list shows.
LEMMA ShownKept ==
    ASSUME TypeOK, RestTypes, ShippedWhole, ShownTogether,
           open' /\ shown' => open /\ shown,
           cfg' = cfg \/ cfg' = Loaded, dlg' = dlg \/ dlg' = cfg'
    PROVE  ShownTogether'
<1>1. SUFFICES ASSUME open', shown', NEW u \in Urls
      PROVE  dlg'[u] = cfg'[u] \/ (dlg'[u] = 0 /\ u \in Defaults)
  BY DEF ShownTogether
<1>2. \/ cfg'[u] = cfg[u]
      \/ cfg[u] = 0 /\ u \in Defaults
  BY LoadedList
<1> QED BY <1>1, <1>2 DEF ShownTogether

----------------------------------------------------------------------------
(* Starting up *)

\* Every entry of the file, and every default that it does not have, gets a
\* cell of its own, and the entries are cleaned.
LEMMA StartedList ==
    ASSUME NEW file \in FileTypes
    PROVE  LET now == Started(file)
               has(u) == file # Unwritten /\ file[u] # Free
           IN  /\ now.list \in Lists /\ now.ours \in Lists
               /\ now.heap \in [Cells -> Entries \cup {Free}]
               /\ Once(now.list) /\ Once(now.ours) /\ In(now.ours) = Defaults
               /\ \A u \in Urls :
                     /\ has(u) => now.list[u] # 0 /\ now.heap[now.list[u]] = Cleaned(file[u])
                     /\ ~has(u) /\ u \in Defaults => now.list[u] = now.ours[u]
                     /\ ~has(u) /\ u \notin Defaults => now.list[u] = 0
               /\ \A u \in Defaults : now.heap[now.ours[u]] = Factory
<1> DEFINE kept == {u \in Urls : file # Unwritten /\ file[u] # Free}
<1> DEFINE mine == CHOOSE f \in [kept -> Cells] : IsInjective(f)
<1> DEFINE rest == Cells \ Range(mine)
<1> DEFINE ours == CHOOSE f \in [Defaults -> rest] : IsInjective(f)
<1>0. 0 \notin Cells
  BY ExecutorAssumption DEF Cells
<1>1. IsFiniteSet(Cells) /\ Cardinality(Cells) = MaxCells
  BY ExecutorAssumption, FS_Interval DEF Cells
<1>2. /\ IsFiniteSet(kept) /\ Cardinality(kept) \in Nat
      /\ Cardinality(kept) <= Cardinality(Urls) /\ Cardinality(Urls) \in Nat
      /\ IsFiniteSet(Defaults) /\ Cardinality(Defaults) \in Nat
  BY ExecutorAssumption, FS_Subset, FS_CardinalityType
<1>3. Cardinality(kept) <= Cardinality(Cells)
  BY <1>1, <1>2, ExecutorAssumption
<1>4. \E f \in [kept -> Cells] : IsInjective(f)
  BY <1>1, <1>2, <1>3, SmallerFits
<1>5. mine \in [kept -> Cells] /\ IsInjective(mine)
  BY <1>4
<1>6. /\ IsFiniteSet(Range(mine)) /\ Cardinality(Range(mine)) = Cardinality(kept)
      /\ Range(mine) \subseteq Cells
  <2> HIDE DEF kept, mine
  <2>1. mine \in Bijection(kept, Range(mine))
    BY <1>5 DEF Bijection, Injection, Surjection, IsInjective, Range
  <2>2. ExistsBijection(kept, Range(mine))
    BY <2>1 DEF ExistsBijection
  <2>3. IsFiniteSet(Range(mine)) /\ Cardinality(Range(mine)) = Cardinality(kept)
    BY <1>2, <2>2, FS_Bijection
  <2>4. Range(mine) \subseteq Cells
    BY <1>5 DEF Range
  <2> QED BY <2>3, <2>4
<1>7. /\ IsFiniteSet(rest)
      /\ Cardinality(rest) = MaxCells - Cardinality(Cells \cap Range(mine))
  <2> HIDE DEF mine
  <2> QED BY <1>1, FS_Difference
<1>8. Cells \cap Range(mine) = Range(mine)
  BY <1>6
<1>9. Cardinality(Defaults) <= Cardinality(rest)
  <2> HIDE DEF rest, kept, mine
  <2>1. Cardinality(rest) = MaxCells - Cardinality(kept)
    BY <1>6, <1>7, <1>8
  <2> QED BY <1>2, <2>1, ExecutorAssumption
<1>10. \E f \in [Defaults -> rest] : IsInjective(f)
  BY <1>2, <1>7, <1>9, SmallerFits
<1>11. ours \in [Defaults -> rest] /\ IsInjective(ours)
  BY <1>10
<1> DEFINE h == [c \in Cells |->
                   IF \E u \in kept : mine[u] = c
                   THEN LET u == CHOOSE v \in kept : mine[v] = c IN
                        IF file[u].addr = "bad"
                        THEN [file[u] EXCEPT !.addr = "none"] ELSE file[u]
                   ELSE IF c \in Range(ours) THEN Factory ELSE Free]
<1> DEFINE list == [u \in Urls |-> IF u \in kept THEN mine[u]
                                   ELSE IF u \in Defaults THEN ours[u] ELSE 0]
<1> DEFINE defs == [u \in Urls |-> IF u \in Defaults THEN ours[u] ELSE 0]
<1>12. /\ Started(file).heap = h /\ Started(file).list = list
       /\ Started(file).ours = defs
  BY DEF Started
<1>13. \A u \in kept : file[u] \in Entries
  BY DEF FileTypes
<1>14. kept \subseteq Urls /\ \A u \in Urls : u \in kept <=> (file # Unwritten /\ file[u] # Free)
  OBVIOUS
<1> HIDE DEF kept, mine
<1>15. \A u \in kept : mine[u] \in Cells /\ mine[u] \in Range(mine)
  BY <1>5 DEF Range
<1>16. \A u, v \in kept : mine[u] = mine[v] => u = v
  BY <1>5 DEF IsInjective
<1>17. \A u \in Defaults : ours[u] \in Cells /\ ours[u] \notin Range(mine)
  BY <1>11
<1>18. \A u, v \in Defaults : ours[u] = ours[v] => u = v
  BY <1>11 DEF IsInjective
<1>19. \A u \in Defaults : ours[u] \in Range(ours)
  BY <1>11 DEF Range
<1> HIDE DEF rest, ours
<1>20. list \in Lists /\ defs \in Lists
  BY <1>14, <1>15, <1>17, ExecutorAssumption DEF Lists
<1>21. \A e \in Entries : [e EXCEPT !.addr = "none"] \in Entries
  BY DEF Entries
<1>22. \A u \in kept : h[mine[u]] = Cleaned(file[u])
  <2>1. SUFFICES ASSUME NEW u \in kept PROVE h[mine[u]] = Cleaned(file[u])
    OBVIOUS
  <2>2. (CHOOSE v \in kept : mine[v] = mine[u]) = u
    BY <1>16
  <2>3. \E v \in kept : mine[v] = mine[u]
    OBVIOUS
  <2> QED BY <1>15, <2>2, <2>3 DEF Cleaned
<1>23. \A c \in Cells : h[c] \in Entries \cup {Free}
  <2>1. SUFFICES ASSUME NEW c \in Cells PROVE h[c] \in Entries \cup {Free}
    OBVIOUS
  <2>2. CASE \E u \in kept : mine[u] = c
    <3>1. PICK u \in kept : mine[u] = c
      BY <2>2
    <3>2. h[c] = Cleaned(file[u])
      BY <1>22, <3>1
    <3> QED BY <1>13, <1>21, <3>2 DEF Cleaned
  <2>3. CASE ~ \E u \in kept : mine[u] = c
    BY <2>3 DEF Factory, Entries
  <2> QED BY <2>2, <2>3
<1>24. \A u \in Defaults : h[ours[u]] = Factory
  <2>1. SUFFICES ASSUME NEW u \in Defaults PROVE h[ours[u]] = Factory
    OBVIOUS
  <2>2. ~ \E v \in kept : mine[v] = ours[u]
    BY <1>15, <1>17
  <2> QED BY <1>17, <1>19, <2>2
<1>25. h \in [Cells -> Entries \cup {Free}]
  BY <1>23
<1> HIDE DEF h
<1>26. In(defs) = Defaults
  BY <1>0, <1>17, ExecutorAssumption DEF In
<1>27. Once(defs)
  BY <1>18, <1>26, ExecutorAssumption DEF Once
<1>28. Once(list)
  <2>1. SUFFICES ASSUME NEW u \in In(list), NEW v \in In(list), list[u] = list[v] PROVE u = v
    BY DEF Once
  <2>2. u \in Urls /\ v \in Urls /\ list[u] # 0 /\ list[v] # 0
    BY DEF In
  <2>3. (u \in kept \/ u \in Defaults) /\ (v \in kept \/ v \in Defaults)
    BY <2>2
  <2>4. CASE u \in kept /\ v \in kept
    BY <1>16, <2>1, <2>2, <2>4
  <2>5. CASE u \in kept /\ v \notin kept
    BY <1>15, <1>17, <2>1, <2>2, <2>3, <2>5
  <2>6. CASE u \notin kept /\ v \in kept
    BY <1>15, <1>17, <2>1, <2>2, <2>3, <2>6
  <2>7. CASE u \notin kept /\ v \notin kept
    BY <1>18, <2>1, <2>2, <2>3, <2>7
  <2> QED BY <2>4, <2>5, <2>6, <2>7
<1>29. \A u \in Urls :
          /\ u \in kept => list[u] = mine[u] /\ list[u] # 0 /\ h[list[u]] = Cleaned(file[u])
          /\ u \notin kept /\ u \in Defaults => list[u] = defs[u]
          /\ u \notin kept /\ u \notin Defaults => list[u] = 0
  BY <1>0, <1>15, <1>22
<1>30. \A u \in Defaults : h[defs[u]] = Factory
  BY <1>24, ExecutorAssumption
<1> HIDE DEF list, defs
<1> QED BY <1>12, <1>14, <1>20, <1>25, <1>26, <1>27, <1>28, <1>29, <1>30

\* The first states.
LEMMA InitKeeps ==
    ASSUME Init
    PROVE  ExecInv
<1> DEFINE now == Started(disk)
<1>1. disk \in FileTypes
  <2>1. [sel |-> TRUE, addr |-> "own", up |-> TRUE] \in Entries
    BY DEF Entries
  <2> QED BY <2>1 DEF Init, Files, FileTypes
<1>2. /\ now.list \in Lists /\ now.ours \in Lists
      /\ now.heap \in [Cells -> Entries \cup {Free}]
      /\ Once(now.ours) /\ In(now.ours) = Defaults
  BY <1>1, StartedList
<1>3. /\ \A u \in Urls :
           /\ Stored(u) # Free => now.list[u] # 0 /\ now.heap[now.list[u]] = Cleaned(Stored(u))
           /\ Stored(u) = Free /\ u \in Defaults => now.list[u] = now.ours[u]
           /\ Stored(u) = Free /\ u \notin Defaults => now.list[u] = 0
      /\ \A u \in Defaults : now.heap[now.ours[u]] = Factory
  BY <1>1, StartedList DEF Stored
<1>4. /\ heap = now.heap /\ cfg = now.list /\ win = now.list /\ shipped = now.ours
      /\ dlg = NoList /\ net = Idle /\ open = FALSE /\ tie = "none"
      /\ shown = FALSE /\ loose = FALSE /\ disk = disk
      /\ first = (disk = Unwritten)
  BY DEF Init, Restart
<1>5. \A u \in Defaults : now.ours[u] # 0 /\ u \in Urls
  BY <1>2, ExecutorAssumption DEF In
<1>6. Factory \in Entries
  BY DEF Factory, Entries
<1>7. \A u \in Urls : Stored(u) # Free => Cleaned(Stored(u)) \in Entries
  <2>1. \A e \in Entries : Cleaned(e) \in Entries
    BY DEF Cleaned, Entries
  <2> QED BY <1>1, <2>1 DEF Stored, FileTypes
<1>8. \A u \in Urls : /\ now.list[u] # 0 => now.heap[now.list[u]] \in Entries
                      /\ now.ours[u] # 0 => now.heap[now.ours[u]] \in Entries
  <2>1. SUFFICES ASSUME NEW u \in Urls
        PROVE  /\ now.list[u] # 0 => now.heap[now.list[u]] \in Entries
               /\ now.ours[u] # 0 => now.heap[now.ours[u]] \in Entries
    OBVIOUS
  <2>2. now.ours[u] # 0 => u \in Defaults
    BY <1>2 DEF In
  <2> QED BY <1>3, <1>6, <1>7, <2>2
<1> HIDE DEF now
<1>9. /\ NoList \in Lists /\ \A u \in Urls : NoList[u] = 0
      /\ Idle.list = NoList /\ Idle.kind = "none"
  BY DEF NoList, Lists, Idle
<1>10. TypeOK
  <2>1. \A c \in Live : \E u \in Urls :
           c \in {now.list[u], now.ours[u], NoList[u]} /\ c # 0
    BY <1>4, <1>9 DEF Live, CellsOf, In
  <2>2. \A c \in Live : heap[c] \in Entries
    BY <1>4, <1>8, <1>9, <2>1
  <2> QED BY <1>2, <1>4, <1>9, <2>2 DEF TypeOK
<1>11. NetTypes
  BY <1>4, <1>9 DEF NetTypes, Idle, Kinds, Asking
<1>12. RestTypes
  BY <1>1, <1>4 DEF RestTypes
<1>13. ShippedWhole
  <2>1. disk # Unwritten => Defaults \subseteq In(now.list)
    BY <1>3, <1>5 DEF In
  <2> QED BY <1>2, <1>4, <2>1 DEF ShippedWhole
<1>14. AnswerApart /\ PingsTheList /\ DownloadAlone /\ PingAlone
  BY <1>4, <1>9 DEF AnswerApart, PingsTheList, DownloadAlone, PingAlone, Downloads
<1>15. ShownTogether
  BY <1>4 DEF ShownTogether
<1>16. Synced
  <2>1. \A u \in Urls : Stored(u) = Stored(u)
    BY <1>4 DEF Stored
  <2>2. \A u \in Urls :
           IF now.list[u] = 0 THEN Stored(u) = Free
           ELSE \/ Stored(u) # Free /\ now.heap[now.list[u]] \in {Stored(u), Cleaned(Stored(u))}
                \/ Stored(u) = Free /\ u \in Defaults /\ now.list[u] = now.ours[u]
    BY <1>3, <1>5
  <2> QED BY <1>3, <1>4, <2>1, <2>2 DEF Synced
<1> QED BY <1>10, <1>11, <1>12, <1>13, <1>14, <1>15, <1>16 DEF ExecInv

\* A session that begins again.
LEMMA RestartKeeps ==
    ASSUME ExecInv, Restart
    PROVE  ExecInv'
<1> DEFINE now == Started(disk)
<1>1. disk \in FileTypes
  BY DEF ExecInv, RestTypes
<1>2. /\ now.list \in Lists /\ now.ours \in Lists
      /\ now.heap \in [Cells -> Entries \cup {Free}]
      /\ Once(now.ours) /\ In(now.ours) = Defaults
  BY <1>1, StartedList
<1>3. /\ \A u \in Urls :
           /\ Stored(u) # Free => now.list[u] # 0 /\ now.heap[now.list[u]] = Cleaned(Stored(u))
           /\ Stored(u) = Free /\ u \in Defaults => now.list[u] = now.ours[u]
           /\ Stored(u) = Free /\ u \notin Defaults => now.list[u] = 0
      /\ \A u \in Defaults : now.heap[now.ours[u]] = Factory
  BY <1>1, StartedList DEF Stored
<1>4. /\ heap' = now.heap /\ cfg' = now.list /\ win' = now.list /\ shipped' = now.ours
      /\ dlg' = NoList /\ net' = Idle /\ open' = FALSE /\ tie' = "none"
      /\ shown' = FALSE /\ loose' = FALSE /\ disk' = disk
      /\ first' = (disk = Unwritten)
  BY DEF Init, Restart
<1>5. \A u \in Defaults : now.ours[u] # 0 /\ u \in Urls
  BY <1>2, ExecutorAssumption DEF In
<1>6. Factory \in Entries
  BY DEF Factory, Entries
<1>7. \A u \in Urls : Stored(u) # Free => Cleaned(Stored(u)) \in Entries
  <2>1. \A e \in Entries : Cleaned(e) \in Entries
    BY DEF Cleaned, Entries
  <2> QED BY <1>1, <2>1 DEF Stored, FileTypes
<1>8. \A u \in Urls : /\ now.list[u] # 0 => now.heap[now.list[u]] \in Entries
                      /\ now.ours[u] # 0 => now.heap[now.ours[u]] \in Entries
  <2>1. SUFFICES ASSUME NEW u \in Urls
        PROVE  /\ now.list[u] # 0 => now.heap[now.list[u]] \in Entries
               /\ now.ours[u] # 0 => now.heap[now.ours[u]] \in Entries
    OBVIOUS
  <2>2. now.ours[u] # 0 => u \in Defaults
    BY <1>2 DEF In
  <2> QED BY <1>3, <1>6, <1>7, <2>2
<1> HIDE DEF now
<1>9. /\ NoList \in Lists /\ \A u \in Urls : NoList[u] = 0
      /\ Idle.list = NoList /\ Idle.kind = "none"
  BY DEF NoList, Lists, Idle
<1>10. TypeOK'
  <2>1. \A c \in Live' : \E u \in Urls :
           c \in {now.list[u], now.ours[u], NoList[u]} /\ c # 0
    BY <1>4, <1>9 DEF Live, CellsOf, In
  <2>2. \A c \in Live' : heap'[c] \in Entries
    BY <1>4, <1>8, <1>9, <2>1
  <2> QED BY <1>2, <1>4, <1>9, <2>2 DEF TypeOK
<1>11. NetTypes'
  BY <1>4, <1>9 DEF NetTypes, Idle, Kinds, Asking
<1>12. RestTypes'
  BY <1>1, <1>4 DEF RestTypes
<1>13. ShippedWhole'
  <2>1. disk # Unwritten => Defaults \subseteq In(now.list)
    BY <1>3, <1>5 DEF In
  <2> QED BY <1>2, <1>4, <2>1 DEF ShippedWhole
<1>14. AnswerApart' /\ PingsTheList' /\ DownloadAlone' /\ PingAlone'
  BY <1>4, <1>9 DEF AnswerApart, PingsTheList, DownloadAlone, PingAlone, Downloads
<1>15. ShownTogether'
  BY <1>4 DEF ShownTogether
<1>16. Synced'
  <2>1. \A u \in Urls : Stored(u)' = Stored(u)
    BY <1>4 DEF Stored
  <2>2. \A u \in Urls :
           IF now.list[u] = 0 THEN Stored(u) = Free
           ELSE \/ Stored(u) # Free /\ now.heap[now.list[u]] \in {Stored(u), Cleaned(Stored(u))}
                \/ Stored(u) = Free /\ u \in Defaults /\ now.list[u] = now.ours[u]
    BY <1>3, <1>5
  <2> QED BY <1>3, <1>4, <2>1, <2>2 DEF Synced
<1> QED BY <1>10, <1>11, <1>12, <1>13, <1>14, <1>15, <1>16 DEF ExecInv

----------------------------------------------------------------------------
(* Saving the open list *)

\* A step of the dialog that saves: its entries are those the dialog had or
\* new ones, and none goes up or down.
LEMMA SavedKeeps ==
    ASSUME ExecInv, open, NEW h \in [Cells -> Entries \cup {Free}], NEW list \in Lists,
           Saved(h, list),
           (net' = net /\ Unblocked) \/ net' = Idle,
           \A c \in Live : h[c] \in Entries /\ h[c].up = heap[c].up,
           \A u \in Urls : list[u] # 0 =>
               h[list[u]] \in Entries /\ (list[u] \notin Live \/ \E v \in Urls : dlg[v] = list[u])
    PROVE  ExecInv'
<1>1. /\ TypeOK /\ NetTypes /\ RestTypes /\ ShippedWhole /\ AnswerApart
      /\ PingAlone
  BY DEF ExecInv
<1>2. /\ dlg' = list /\ cfg' = list /\ tie' = "dialog" /\ shown' = TRUE
      /\ win' = win /\ open' = open /\ shipped' = shipped /\ first' = first
      /\ disk' = Values(h, list) /\ loose' = FALSE /\ Heap(h)
  BY DEF Saved, Stores
<1>3. Idle.list \in Lists /\ (\A u \in Urls : Idle.list[u] = 0) /\ Idle.kind = "none"
  BY DEF Idle, NoList, Lists
<1>4. /\ net'.list \in Lists
      /\ \A u \in Urls : net'.list[u] # 0 => net'.list[u] = net.list[u]
  BY <1>1, <1>3 DEF TypeOK
<1>5. \A u \in Urls : /\ win[u] # 0 => h[win[u]] \in Entries
                      /\ shipped[u] # 0 => h[shipped[u]] \in Entries
                      /\ net'.list[u] # 0 => h[net'.list[u]] \in Entries
  BY <1>4, LiveCells
<1>6. /\ heap' \in [Cells -> Entries \cup {Free}]
      /\ \A c \in Live' : heap'[c] \in Entries
      /\ \A u \in Urls : /\ list[u] # 0 => heap'[list[u]] = h[list[u]]
                         /\ win[u] # 0 => heap'[win[u]] = h[win[u]]
  <2>1. cfg' \in Lists /\ win' \in Lists /\ dlg' \in Lists /\ shipped' \in Lists
    BY <1>1, <1>2 DEF TypeOK
  <2>2. \A u \in Urls : /\ cfg'[u] # 0 => h[cfg'[u]] \in Entries
                        /\ win'[u] # 0 => h[win'[u]] \in Entries
                        /\ dlg'[u] # 0 => h[dlg'[u]] \in Entries
                        /\ shipped'[u] # 0 => h[shipped'[u]] \in Entries
                        /\ net'.list[u] # 0 => h[net'.list[u]] \in Entries
    BY <1>2, <1>5
  <2> QED BY <1>2, <1>4, <2>1, <2>2, HeapStep
<1>7. TypeOK'
  BY <1>1, <1>2, <1>4, <1>6 DEF TypeOK
<1>8. NetTypes'
  <2>1. net' = Idle => net' \in [kind : Kinds, answered : BOOLEAN, modal : BOOLEAN, list : Lists,
                                 picked : SUBSET Urls, heard : SUBSET Urls, alone : BOOLEAN]
    BY <1>3 DEF Idle, Kinds
  <2> QED BY <1>1, <1>2, <2>1 DEF NetTypes
<1>9. Synced' /\ disk' \in FileTypes
  BY <1>2, <1>6, SyncedSaved
<1>10. RestTypes'
  BY <1>1, <1>2, <1>9 DEF RestTypes
<1>11. ShippedWhole'
  BY <1>1, <1>2 DEF ShippedWhole
<1>12. AnswerApart'
  <2>1. SUFFICES ASSUME net' = net, net.kind \in Downloads, net.answered,
                        NEW l \in {list, win, shipped}
        PROVE  CellsOf(net.list) \cap CellsOf(l) = {}
    BY <1>2, <1>3 DEF AnswerApart, Downloads
  <2>2. CASE l = list
    <3>1. SUFFICES ASSUME NEW u \in Urls, NEW v \in Urls, net.list[u] # 0
          PROVE  net.list[u] # list[v]
      BY <1>1, <2>2, CellsApart DEF TypeOK
    <3>2. net.list[u] \in Live
      BY <3>1, LiveCells
    <3>3. ASSUME NEW w \in Urls PROVE dlg[w] # net.list[u]
      <4>1. CellsOf(net.list) \cap CellsOf(dlg) = {}
        BY <1>1, <2>1 DEF AnswerApart
      <4> QED BY <1>1, <3>1, <4>1, CellsApart DEF TypeOK
    <3> QED BY <3>1, <3>2, <3>3
  <2>3. CASE l \in {win, shipped}
    BY <1>1, <2>1, <2>3 DEF AnswerApart
  <2> QED BY <2>2, <2>3
<1>13. PingsTheList' /\ DownloadAlone'
  BY <1>3 DEF PingsTheList, DownloadAlone, Downloads, Unblocked
<1>14. PingAlone'
  <2>1. \A u \in Urls : win[u] # 0 => heap'[win[u]].up = heap[win[u]].up
    BY <1>6, LiveCells
  <2> QED BY <1>1, <1>2, <1>3, <2>1 DEF PingAlone, In
<1>15. ShownTogether'
  BY <1>2 DEF ShownTogether
<1> QED BY <1>7, <1>8, <1>9, <1>10, <1>11, <1>12, <1>13, <1>14, <1>15 DEF ExecInv

----------------------------------------------------------------------------
(* The command line *)

\* A command: its entries are those of the list loaded or new ones.
LEMMA CommandKeeps ==
    ASSUME ExecInv, NEW h \in [Cells -> Entries \cup {Free}], NEW list \in Lists,
           Command(h, list),
           \A c \in Live : h[c] \in Entries,
           \A u \in Urls : list[u] # 0 =>
               h[list[u]] \in Entries /\ (list[u] \notin Live \/ \E v \in Urls : Loaded[v] = list[u])
    PROVE  ExecInv'
<1>1. TypeOK /\ NetTypes /\ RestTypes /\ ShippedWhole /\ AnswerApart /\ PingsTheList
  BY DEF ExecInv
<1>2. /\ cfg' = list /\ tie' = "none" /\ shown' = FALSE
      /\ win' = Seen(win, "window") /\ dlg' = Seen(dlg, "dialog")
      /\ net' = [net EXCEPT !.alone = FALSE]
      /\ open' = open /\ shipped' = shipped /\ first' = first
      /\ disk' = Values(h, list) /\ loose' = FALSE /\ Heap(h)
  BY DEF Command, Stores
<1>3. /\ Loaded \in Lists
      /\ \A u \in Urls : Loaded[u] = cfg[u] \/ (cfg[u] = 0 /\ Loaded[u] = shipped[u])
      /\ ~first => \A u \in Defaults : Loaded[u] # 0
  BY <1>1, LoadedList
<1>4. /\ win' = win \/ win' = Loaded
      /\ dlg' = dlg \/ (dlg' = Loaded /\ cfg = dlg)
  BY <1>1, <1>2 DEF Seen, TypeOK
<1>5. \A u \in Urls : Loaded[u] # 0 => Loaded[u] \in Live
  BY <1>3, LiveCells
<1>6. /\ net'.list = net.list /\ net'.kind = net.kind /\ net'.answered = net.answered
      /\ net'.modal = net.modal /\ net'.alone = FALSE
      /\ net' \in [kind : Kinds, answered : BOOLEAN, modal : BOOLEAN, list : Lists,
                   picked : SUBSET Urls, heard : SUBSET Urls, alone : BOOLEAN]
  BY <1>1, <1>2 DEF NetTypes
<1>7. cfg' \in Lists /\ win' \in Lists /\ dlg' \in Lists /\ shipped' \in Lists /\ net'.list \in Lists
  BY <1>1, <1>2, <1>3, <1>4, <1>6 DEF TypeOK
<1>8. /\ heap' \in [Cells -> Entries \cup {Free}]
      /\ \A c \in Live' : heap'[c] \in Entries
      /\ \A u \in Urls : cfg'[u] # 0 => heap'[cfg'[u]] = h[cfg'[u]]
  <2>1. \A u \in Urls : /\ cfg'[u] # 0 => h[cfg'[u]] \in Entries
                        /\ win'[u] # 0 => h[win'[u]] \in Entries
                        /\ dlg'[u] # 0 => h[dlg'[u]] \in Entries
                        /\ shipped'[u] # 0 => h[shipped'[u]] \in Entries
                        /\ net'.list[u] # 0 => h[net'.list[u]] \in Entries
    BY <1>2, <1>4, <1>5, <1>6, LiveCells
  <2> QED BY <1>2, <1>7, <2>1, HeapStep
<1>9. TypeOK'
  BY <1>2, <1>7, <1>8 DEF TypeOK
<1>10. NetTypes'
  BY <1>1, <1>2, <1>6 DEF NetTypes
<1>11. Synced' /\ disk' \in FileTypes
  BY <1>2, <1>8, SyncedSaved
<1>12. RestTypes'
  BY <1>1, <1>2, <1>11 DEF RestTypes
<1>13. ShippedWhole'
  BY <1>1, <1>2, <1>3, <1>4, ExecutorAssumption DEF ShippedWhole, In
<1>14. AnswerApart'
  <2>1. SUFFICES ASSUME net.kind \in Downloads, net.answered, NEW l \in {cfg', win', dlg', shipped}
        PROVE  CellsOf(net.list) \cap CellsOf(l) = {}
    BY <1>2, <1>6 DEF AnswerApart
  <2>2. \A l2 \in {cfg, win, dlg, shipped} : \A u, v \in Urls :
           net.list[u] # 0 => net.list[u] # l2[v]
    BY <1>1, <2>1, CellsApart DEF AnswerApart, TypeOK
  <2>3. \A u, v \in Urls : net.list[u] # 0 => net.list[u] # Loaded[v]
    BY <1>3, <2>2
  <2>4. \A u \in Urls : net.list[u] # 0 => net.list[u] \in Live
    BY LiveCells
  <2>5. \A u, v \in Urls : net.list[u] # 0 => net.list[u] # l[v]
    BY <1>2, <1>4, <2>2, <2>3, <2>4
  <2>6. l \in Lists /\ net.list \in Lists
    BY <1>1, <1>7 DEF TypeOK
  <2> QED BY <2>5, <2>6, CellsApart
<1>15. PingsTheList'
  BY <1>1, <1>3, <1>4, <1>6 DEF PingsTheList, In
<1>16. DownloadAlone' /\ PingAlone'
  BY <1>6 DEF DownloadAlone, PingAlone
<1>17. ShownTogether'
  BY <1>2 DEF ShownTogether
<1> QED BY <1>9, <1>10, <1>11, <1>12, <1>13, <1>14, <1>15, <1>16, <1>17 DEF ExecInv

----------------------------------------------------------------------------
(* What is made of the heap *)

\* Selecting changes nothing else.
LEMMA SelectedHeap ==
    ASSUME NEW h \in [Cells -> Entries \cup {Free}], NEW list, NEW urls, NEW chosen,
           \A u \in urls : h[list[u]] \in Entries
    PROVE  LET new == Selected(h, list, urls, chosen)
           IN  /\ new \in [Cells -> Entries \cup {Free}]
               /\ \A c \in Cells : /\ h[c] \in Entries => new[c] \in Entries /\ new[c].up = h[c].up
                                   /\ (\E u \in urls : list[u] = c) => new[c].sel = (c \in chosen)
<1> DEFINE new == Selected(h, list, urls, chosen)
<1>1. \A c \in Cells : new[c] = IF \E u \in urls : list[u] = c
                                THEN [h[c] EXCEPT !.sel = c \in chosen] ELSE h[c]
  BY DEF Selected
<1>2. \A e \in Entries, b \in BOOLEAN : /\ [e EXCEPT !.sel = b] \in Entries
                                        /\ [e EXCEPT !.sel = b].up = e.up
                                        /\ [e EXCEPT !.sel = b].sel = b
  BY DEF Entries
<1>3. \A c \in Cells : /\ new[c] \in Entries \cup {Free}
                       /\ h[c] \in Entries => new[c] \in Entries /\ new[c].up = h[c].up
                       /\ (\E u \in urls : list[u] = c) => new[c].sel = (c \in chosen)
  <2>1. SUFFICES ASSUME NEW c \in Cells
        PROVE  /\ new[c] \in Entries \cup {Free}
               /\ h[c] \in Entries => new[c] \in Entries /\ new[c].up = h[c].up
               /\ (\E u \in urls : list[u] = c) => new[c].sel = (c \in chosen)
    OBVIOUS
  <2>2. (c \in chosen) \in BOOLEAN
    OBVIOUS
  <2>3. CASE \E u \in urls : list[u] = c
    <3>1. h[c] \in Entries
      BY <2>3
    <3> DEFINE b == c \in chosen
    <3>2. b \in BOOLEAN
      BY <2>2
    <3>3. new[c] = [h[c] EXCEPT !.sel = b]
      BY <1>1, <2>3
    <3> HIDE DEF b
    <3>4. new[c] \in Entries /\ new[c].up = h[c].up /\ new[c].sel = b
      BY <1>2, <3>1, <3>2, <3>3
    <3> QED BY <3>4 DEF b
  <2>4. CASE ~ \E u \in urls : list[u] = c
    BY <1>1, <2>4
  <2> QED BY <2>3, <2>4
<1>4. new \in [Cells -> Entries \cup {Free}]
  BY <1>3 DEF Selected
<1> QED BY <1>3, <1>4

\* A ping changes the entries of its list only, and says which are up.
LEMMA PingChangesHeap ==
    ASSUME NEW h \in [Cells -> Entries \cup {Free}], NEW list \in Lists, NEW heard \in SUBSET Urls,
           \A u \in Urls : list[u] # 0 => h[list[u]] \in Entries
    PROVE  LET new == PingedHeap(h, list, heard)
           IN  /\ new \in [Cells -> Entries \cup {Free}]
               /\ \A c \in Cells : /\ h[c] \in Entries => new[c] \in Entries
                                   /\ c \notin CellsOf(list) => new[c] = h[c]
               /\ \A u \in Urls : list[u] # 0 =>
                     (new[list[u]].up <=> \E v \in heard : list[v] = list[u])
<1> DEFINE new == PingedHeap(h, list, heard)
<1>1. \A c \in Cells : new[c] = IF c \in CellsOf(list)
                                THEN Pinged(h[c], c \in {list[u] : u \in heard}) ELSE h[c]
  BY DEF PingedHeap
<1>2. \A e \in Entries : /\ Pinged(e, TRUE) \in Entries /\ Pinged(e, TRUE).up = TRUE
                         /\ Pinged(e, FALSE) \in Entries /\ Pinged(e, FALSE).up = FALSE
  BY DEF Entries, Pinged
<1>3. \A e : \A b \in BOOLEAN : Pinged(e, b) = IF b THEN Pinged(e, TRUE) ELSE Pinged(e, FALSE)
  BY DEF Pinged
<1>4. \A c \in CellsOf(list) : c \in Cells /\ h[c] \in Entries
  BY DEF CellsOf, In, Lists
<1>5. \A c \in CellsOf(list) :
         new[c] \in Entries /\ (new[c].up <=> \E v \in heard : list[v] = c)
  <2>1. SUFFICES ASSUME NEW c \in CellsOf(list)
        PROVE  new[c] \in Entries /\ (new[c].up <=> \E v \in heard : list[v] = c)
    OBVIOUS
  <2> DEFINE b == c \in {list[u] : u \in heard}
  <2>2. new[c] = Pinged(h[c], b)
    BY <1>1, <1>4
  <2>3. b <=> \E v \in heard : list[v] = c
    OBVIOUS
  <2>4. b \in BOOLEAN
    OBVIOUS
  <2> HIDE DEF b
  <2>5. CASE b
    <3>1. new[c] = Pinged(h[c], TRUE)
      BY <1>3, <2>2, <2>4, <2>5
    <3> QED BY <1>2, <1>4, <2>3, <2>5, <3>1
  <2>6. CASE ~b
    <3>1. new[c] = Pinged(h[c], FALSE)
      BY <1>3, <2>2, <2>4, <2>6
    <3> QED BY <1>2, <1>4, <2>3, <2>6, <3>1
  <2> QED BY <2>5, <2>6
<1>6. \A c \in Cells : /\ h[c] \in Entries => new[c] \in Entries
                       /\ c \notin CellsOf(list) => new[c] = h[c]
                       /\ new[c] \in Entries \cup {Free}
  BY <1>1, <1>5
<1>7. new \in [Cells -> Entries \cup {Free}]
  BY <1>6 DEF PingedHeap
<1>8. \A u \in Urls : list[u] # 0 =>
         (new[list[u]].up <=> \E v \in heard : list[v] = list[u])
  BY <1>5 DEF CellsOf, In
<1> QED BY <1>6, <1>7, <1>8

\* Cells are numbered from one.
LEMMA LiveAreCells ==
    ASSUME TypeOK PROVE Live \subseteq Cells /\ 0 \notin Cells
<1>1. SUFFICES ASSUME NEW c \in Live PROVE c \in Cells
  BY ExecutorAssumption DEF Cells
<1>2. PICK u \in Urls : c \in {cfg[u], win[u], dlg[u], shipped[u], net.list[u]} /\ c # 0
  BY LiveCells
<1> QED BY <1>2 DEF TypeOK, Lists

----------------------------------------------------------------------------
(* Editing the open list *)

LEMMA DeleteKeeps ==
    ASSUME ExecInv, NEW u \in Urls, Delete(u)
    PROVE  ExecInv'
<1>1. TypeOK
  BY DEF ExecInv
<1>2. /\ open /\ Unblocked /\ net' = net /\ Saved(heap, [dlg EXCEPT ![u] = 0])
  BY DEF Delete, Editing
<1>3. heap \in [Cells -> Entries \cup {Free}] /\ \A c \in Live : heap[c] \in Entries
  BY <1>1 DEF TypeOK
<1>4. /\ [dlg EXCEPT ![u] = 0] \in Lists
      /\ \A v \in Urls : [dlg EXCEPT ![u] = 0][v] # 0 => [dlg EXCEPT ![u] = 0][v] = dlg[v]
  BY <1>1 DEF TypeOK, Lists
<1>5. \A v \in Urls : dlg[v] # 0 => dlg[v] \in Live
  BY LiveCells
<1> QED BY <1>2, <1>3, <1>4, <1>5, SavedKeeps

LEMMA SelectKeeps ==
    ASSUME ExecInv, NEW u \in Urls, NEW on \in BOOLEAN, Select(u, on)
    PROVE  ExecInv'
<1>1. TypeOK
  BY DEF ExecInv
<1> DEFINE h == Selected(heap, dlg, {u}, All(on))
<1>2. open /\ Unblocked /\ net' = net /\ u \in In(dlg) /\ Saved(h, dlg)
  BY DEF Select, Editing
<1>3. /\ heap \in [Cells -> Entries \cup {Free}] /\ \A c \in Live : heap[c] \in Entries
      /\ dlg \in Lists /\ Live \subseteq Cells
  BY <1>1, LiveAreCells DEF TypeOK
<1>4. \A v \in Urls : dlg[v] # 0 => dlg[v] \in Live
  BY LiveCells
<1>5. \A v \in {u} : heap[dlg[v]] \in Entries
  BY <1>2, <1>3, <1>4 DEF In
<1>6. /\ h \in [Cells -> Entries \cup {Free}]
      /\ \A c \in Cells : heap[c] \in Entries => h[c] \in Entries /\ h[c].up = heap[c].up
  BY <1>3, <1>5, SelectedHeap
<1> HIDE DEF h
<1> QED BY <1>2, <1>3, <1>4, <1>6, SavedKeeps

LEMMA SelectAllKeeps ==
    ASSUME ExecInv, NEW on \in BOOLEAN, NEW onlyValid \in BOOLEAN, SelectAll(on, onlyValid)
    PROVE  ExecInv'
<1>1. TypeOK
  BY DEF ExecInv
<1> DEFINE chosen == IF onlyValid THEN {c \in Live : Usable(heap[c]) /\ (on \/ heap[c].sel)}
                                  ELSE All(on)
<1> DEFINE h == Selected(heap, dlg, In(dlg), chosen)
<1>2. open /\ Unblocked /\ net' = net /\ Saved(h, dlg)
  BY DEF SelectAll, Editing
<1> HIDE DEF chosen
<1>3. /\ heap \in [Cells -> Entries \cup {Free}] /\ \A c \in Live : heap[c] \in Entries
      /\ dlg \in Lists /\ Live \subseteq Cells
  BY <1>1, LiveAreCells DEF TypeOK
<1>4. \A v \in Urls : dlg[v] # 0 => dlg[v] \in Live
  BY LiveCells
<1>5. \A v \in In(dlg) : heap[dlg[v]] \in Entries
  BY <1>3, <1>4 DEF In
<1>6. /\ h \in [Cells -> Entries \cup {Free}]
      /\ \A c \in Cells : heap[c] \in Entries => h[c] \in Entries /\ h[c].up = heap[c].up
  BY <1>3, <1>5, SelectedHeap
<1> HIDE DEF h
<1> QED BY <1>2, <1>3, <1>4, <1>6, SavedKeeps

\* Another address in one entry.
LEMMA Readdressed ==
    ASSUME NEW h \in [Cells -> Entries \cup {Free}], NEW cell \in Cells, h[cell] \in Entries,
           NEW addr \in {"none", "bad", "own"}, NEW new, new = [h EXCEPT ![cell].addr = addr]
    PROVE  /\ new \in [Cells -> Entries \cup {Free}]
           /\ \A c \in Cells : h[c] \in Entries => new[c] \in Entries /\ new[c].up = h[c].up
<1> DEFINE entry == [h[cell] EXCEPT !.addr = addr]
<1>1. entry \in Entries /\ entry.up = h[cell].up
  BY DEF Entries
<1>2. new = [h EXCEPT ![cell] = entry]
  OBVIOUS
<1> HIDE DEF entry
<1> QED BY <1>1, <1>2

LEMMA EditAddressKeeps ==
    ASSUME ExecInv, NEW u \in Urls, NEW addr \in {"none", "bad", "own"}, EditAddress(u, addr)
    PROVE  ExecInv'
<1>1. TypeOK
  BY DEF ExecInv
<1> DEFINE h == [heap EXCEPT ![dlg[u]].addr = addr]
<1>2. open /\ Unblocked /\ net' = net /\ u \in In(dlg) /\ Saved(h, dlg)
  BY DEF EditAddress, Editing
<1>3. /\ heap \in [Cells -> Entries \cup {Free}] /\ \A c \in Live : heap[c] \in Entries
      /\ dlg \in Lists /\ Live \subseteq Cells
  BY <1>1, LiveAreCells DEF TypeOK
<1>4. \A v \in Urls : dlg[v] # 0 => dlg[v] \in Live
  BY LiveCells
<1>5. dlg[u] \in Cells /\ heap[dlg[u]] \in Entries
  BY <1>2, <1>3, <1>4 DEF In
<1>6. /\ h \in [Cells -> Entries \cup {Free}]
      /\ \A c \in Cells : heap[c] \in Entries => h[c] \in Entries /\ h[c].up = heap[c].up
  <2> DEFINE cell == dlg[u]
  <2>1. h = [heap EXCEPT ![cell].addr = addr]
    OBVIOUS
  <2> HIDE DEF h
  <2>2. cell \in Cells /\ heap[cell] \in Entries /\ addr \in {"none", "bad", "own"}
    BY <1>5
  <2> HIDE DEF cell
  <2> QED BY <1>3, <2>1, <2>2, Readdressed
<1> HIDE DEF h
<1> QED BY <1>2, <1>3, <1>4, <1>6, SavedKeeps

LEMMA EditKeeps ==
    ASSUME ExecInv, NEW u \in Urls, NEW v \in Urls, NEW addr \in {"bad", "own"}, Edit(u, v, addr)
    PROVE  ExecInv'
<1>1. TypeOK
  BY DEF ExecInv
<1> DEFINE h == [heap EXCEPT ![dlg[u]].addr = addr]
<1> DEFINE list == IF v = u THEN dlg ELSE [dlg EXCEPT ![v] = dlg[u], ![u] = 0]
<1>2. open /\ Unblocked /\ net' = net /\ u \in In(dlg) /\ Saved(h, list)
  BY DEF Edit, Editing
<1>3. /\ heap \in [Cells -> Entries \cup {Free}] /\ \A c \in Live : heap[c] \in Entries
      /\ dlg \in Lists /\ Live \subseteq Cells
  BY <1>1, LiveAreCells DEF TypeOK
<1>4. \A w \in Urls : dlg[w] # 0 => dlg[w] \in Live
  BY LiveCells
<1>5. dlg[u] \in Cells /\ heap[dlg[u]] \in Entries
  BY <1>2, <1>3, <1>4 DEF In
<1>6. /\ h \in [Cells -> Entries \cup {Free}]
      /\ \A c \in Cells : heap[c] \in Entries => h[c] \in Entries /\ h[c].up = heap[c].up
  <2> DEFINE cell == dlg[u]
  <2>1. h = [heap EXCEPT ![cell].addr = addr]
    OBVIOUS
  <2> HIDE DEF h
  <2>2. cell \in Cells /\ heap[cell] \in Entries /\ addr \in {"none", "bad", "own"}
    BY <1>5
  <2> HIDE DEF cell
  <2> QED BY <1>3, <2>1, <2>2, Readdressed
<1>7. list \in Lists /\ \A w \in Urls : list[w] # 0 => \E x \in Urls : dlg[x] = list[w]
  <2>1. CASE v = u
    BY <1>3, <2>1
  <2>2. CASE v # u
    <3>1. list = [dlg EXCEPT ![v] = dlg[u], ![u] = 0]
      BY <2>2
    <3>2. \A w \in Urls : list[w] = IF w = u THEN 0 ELSE IF w = v THEN dlg[u] ELSE dlg[w]
      BY <1>3, <2>2, <3>1 DEF Lists
    <3>3. list \in Lists
      BY <1>3, <3>1 DEF Lists
    <3> HIDE DEF list
    <3> QED BY <3>2, <3>3
  <2> QED BY <2>1, <2>2
<1> HIDE DEF h, list
<1> QED BY <1>2, <1>3, <1>4, <1>6, <1>7, SavedKeeps

LEMMA ApplyPingKeeps ==
    ASSUME ExecInv, ApplyPing
    PROVE  ExecInv'
<1>1. TypeOK /\ NetTypes
  BY DEF ExecInv
<1>2. net.kind \in {"ping", "pingall"} /\ net' = Idle /\ Saved(heap, dlg)
  BY DEF ApplyPing
<1>3. open
  BY <1>1, <1>2 DEF NetTypes, Asking
<1>4. /\ heap \in [Cells -> Entries \cup {Free}] /\ \A c \in Live : heap[c] \in Entries
      /\ dlg \in Lists
  BY <1>1 DEF TypeOK
<1>5. \A u \in Urls : dlg[u] # 0 => heap[dlg[u]] \in Entries /\ \E v \in Urls : dlg[v] = dlg[u]
  BY <1>4, LiveCells
<1> QED BY <1>2, <1>3, <1>4, <1>5, SavedKeeps

----------------------------------------------------------------------------
(* New entries *)

\* New entries change none that is alive.
LEMMA NewEntries ==
    ASSUME TypeOK, NEW urls \in SUBSET Urls, Fits(urls),
           NEW h \in [Cells -> Entries \cup {Free}], NEW new,
           new \in [Cells -> Entries \cup {Free}],
           \A c \in Cells \ CellsOf(NewList(urls)) : new[c] = h[c]
    PROVE  \A c \in Live : new[c] = h[c]
<1>1. SUFFICES ASSUME NEW c \in Live PROVE c \in Cells /\ c \notin CellsOf(NewList(urls))
  OBVIOUS
<1>2. \A u \in Urls : IF u \in urls THEN NewList(urls)[u] \in Cells \ Live
                                    ELSE NewList(urls)[u] = 0
  BY NewCells
<1>3. c \in Cells /\ c # 0
  BY LiveAreCells
<1> QED BY <1>2, <1>3 DEF CellsOf, In

\* The same entry for every URL.
LEMMA SameEntries ==
    ASSUME TypeOK, NEW urls \in SUBSET Urls, Fits(urls),
           NEW h \in [Cells -> Entries \cup {Free}], NEW entry \in Entries, NEW new,
           new = [c \in Cells |-> IF c \in CellsOf(NewList(urls)) THEN entry ELSE h[c]]
    PROVE  /\ new \in [Cells -> Entries \cup {Free}]
           /\ \A c \in Live : new[c] = h[c]
           /\ \A u \in urls : new[NewList(urls)[u]] = entry
<1>1. new \in [Cells -> Entries \cup {Free}]
  OBVIOUS
<1>2. \A c \in Live : new[c] = h[c]
  <2>1. \A c \in Cells \ CellsOf(NewList(urls)) : new[c] = h[c]
    OBVIOUS
  <2> QED BY <1>1, <2>1, NewEntries
<1>3. \A u \in urls : new[NewList(urls)[u]] = entry
  <2>1. SUFFICES ASSUME NEW u \in urls PROVE new[NewList(urls)[u]] = entry
    OBVIOUS
  <2>2. NewList(urls)[u] \in Cells /\ u \in In(NewList(urls))
    BY NewCells
  <2>3. NewList(urls)[u] \in CellsOf(NewList(urls))
    BY <2>2 DEF CellsOf
  <2> QED BY <2>2, <2>3
<1> QED BY <1>1, <1>2, <1>3

\* An entry that a list server answers.
LEMMA ServerEntry ==
    ASSUME NEW e \in Entries \cup {Free}, NEW u, NEW picked
    PROVE  FromServer(e, u \in picked) \in Entries
<1> DEFINE b == u \in picked
<1>1. b \in BOOLEAN
  OBVIOUS
<1> HIDE DEF b
<1>2. FromServer(e, b) \in Entries
  BY <1>1 DEF FromServer, Entries, Free
<1> QED BY <1>2 DEF b

\* What an update brings in.
LEMMA UpdatedList ==
    ASSUME NEW a \in Lists, NEW b \in Lists
    PROVE  /\ Updated(a, b) \in Lists
           /\ \A u \in Urls : Updated(a, b)[u] = IF b[u] # 0 THEN b[u] ELSE a[u]
BY DEF Updated, In, Lists

LEMMA AddKeeps ==
    ASSUME ExecInv, NEW u \in Urls, NEW addr \in {"none", "bad", "own"}, Add(u, addr)
    PROVE  ExecInv'
<1>1. TypeOK
  BY DEF ExecInv
<1> DEFINE fresh == NewList({u})
<1> DEFINE entry == [sel |-> FALSE, addr |-> addr, up |-> FALSE]
<1> DEFINE h == [c \in Cells |-> IF c \in CellsOf(fresh) THEN entry ELSE heap[c]]
<1> DEFINE list == Updated(dlg, fresh)
<1>2. open /\ Unblocked /\ net' = net /\ Fits({u}) /\ Saved(h, list)
  BY DEF Add, Editing, With
<1>3. /\ heap \in [Cells -> Entries \cup {Free}] /\ \A c \in Live : heap[c] \in Entries
      /\ dlg \in Lists
  BY <1>1 DEF TypeOK
<1>4. entry \in Entries
  BY DEF Entries
<1> HIDE DEF entry
<1>5. /\ fresh \in Lists
      /\ \A v \in Urls : IF v \in {u} THEN fresh[v] \in Cells \ Live ELSE fresh[v] = 0
  BY <1>1, <1>2, NewCells
<1>6. /\ h \in [Cells -> Entries \cup {Free}]
      /\ \A c \in Live : h[c] = heap[c]
      /\ \A v \in {u} : h[fresh[v]] = entry
  <2> DEFINE urls == {u}
  <2>1. /\ urls \in SUBSET Urls /\ Fits(urls)
        /\ h = [c \in Cells |-> IF c \in CellsOf(NewList(urls)) THEN entry ELSE heap[c]]
    BY <1>2
  <2> HIDE DEF urls, h
  <2>2. /\ h \in [Cells -> Entries \cup {Free}]
        /\ \A c \in Live : h[c] = heap[c]
        /\ \A v \in urls : h[NewList(urls)[v]] = entry
    BY <1>1, <1>3, <1>4, <2>1, SameEntries
  <2> QED BY <2>2 DEF urls
<1> HIDE DEF fresh, h
<1>7. list \in Lists /\ \A v \in Urls : list[v] = IF fresh[v] # 0 THEN fresh[v] ELSE dlg[v]
  BY <1>3, <1>5, UpdatedList
<1> HIDE DEF list
<1>8. \A v \in Urls : list[v] # 0 =>
         h[list[v]] \in Entries /\ (list[v] \notin Live \/ \E w \in Urls : dlg[w] = list[v])
  BY <1>3, <1>4, <1>5, <1>6, <1>7, LiveCells
<1> QED BY <1>2, <1>3, <1>6, <1>7, <1>8, SavedKeeps

----------------------------------------------------------------------------
(* Commands *)

\* What a command begins with.
LEMMA CommandBegins ==
    ASSUME ExecInv
    PROVE  /\ TypeOK /\ Loaded \in Lists
           /\ \A u \in Urls : Loaded[u] # 0 =>
                 Loaded[u] \in Live /\ Loaded[u] \in Cells /\ Checked(heap)[Loaded[u]] \in Entries
           /\ Checked(heap) \in [Cells -> Entries \cup {Free}]
           /\ \A c \in Live : c \in Cells /\ Checked(heap)[c] \in Entries
<1>1. TypeOK /\ RestTypes /\ ShippedWhole
  BY DEF ExecInv
<1>2. /\ Loaded \in Lists
      /\ \A u \in Urls : Loaded[u] = cfg[u] \/ Loaded[u] = shipped[u]
  BY <1>1, LoadedList
<1>3. /\ Checked(heap) \in [Cells -> Entries \cup {Free}]
      /\ \A c \in Live : Checked(heap)[c] \in Entries
  BY <1>1, CheckedHeap
<1>4. \A u \in Urls : Loaded[u] # 0 => Loaded[u] \in Live
  BY <1>2, LiveCells
<1>5. Live \subseteq Cells
  BY <1>1, LiveAreCells
<1> QED BY <1>1, <1>2, <1>3, <1>4, <1>5

LEMMA CmdDeleteKeeps ==
    ASSUME ExecInv, NEW u \in Urls, CmdDelete(u)
    PROVE  ExecInv'
<1>1. /\ TypeOK /\ Loaded \in Lists
      /\ \A v \in Urls : Loaded[v] # 0 => Checked(heap)[Loaded[v]] \in Entries
      /\ Checked(heap) \in [Cells -> Entries \cup {Free}]
      /\ \A c \in Live : Checked(heap)[c] \in Entries
  BY CommandBegins
<1> DEFINE list == [Loaded EXCEPT ![u] = 0]
<1>2. Command(Checked(heap), list)
  BY DEF CmdDelete
<1>3. list \in Lists /\ \A v \in Urls : list[v] # 0 => list[v] = Loaded[v]
  BY <1>1 DEF Lists
<1> HIDE DEF list
<1> QED BY <1>1, <1>2, <1>3, CommandKeeps

LEMMA CmdUpdateKeeps ==
    ASSUME ExecInv, NEW u \in Urls, NEW v \in Urls, NEW addr \in {"none", "own"},
           CmdUpdate(u, v, addr)
    PROVE  ExecInv'
<1>1. /\ TypeOK /\ Loaded \in Lists
      /\ \A w \in Urls : Loaded[w] # 0 =>
            Loaded[w] \in Cells /\ Checked(heap)[Loaded[w]] \in Entries
      /\ Checked(heap) \in [Cells -> Entries \cup {Free}]
      /\ \A c \in Live : c \in Cells /\ Checked(heap)[c] \in Entries
  BY CommandBegins
<1> DEFINE h == [Checked(heap) EXCEPT ![Loaded[u]].addr = addr]
<1> DEFINE list == IF v = u THEN Loaded ELSE [Loaded EXCEPT ![v] = Loaded[u], ![u] = 0]
<1>2. u \in In(Loaded) /\ Command(h, list)
  BY DEF CmdUpdate
<1>3. Loaded[u] \in Cells /\ Checked(heap)[Loaded[u]] \in Entries
  BY <1>1, <1>2 DEF In
<1>4. /\ h \in [Cells -> Entries \cup {Free}]
      /\ \A c \in Cells : Checked(heap)[c] \in Entries => h[c] \in Entries
  <2>1. PICK cell \in Cells : cell = Loaded[u]
    BY <1>3
  <2>2. PICK before \in [Cells -> Entries \cup {Free}] : before = Checked(heap)
    BY <1>1
  <2>3. h = [before EXCEPT ![cell].addr = addr]
    BY <2>1, <2>2
  <2> HIDE DEF h
  <2>4. before[cell] \in Entries /\ addr \in {"none", "bad", "own"}
    BY <1>3, <2>1, <2>2
  <2>5. /\ h \in [Cells -> Entries \cup {Free}]
        /\ \A c \in Cells : before[c] \in Entries => h[c] \in Entries
    BY <2>3, <2>4, Readdressed
  <2> QED BY <2>2, <2>5
<1>5. list \in Lists /\ \A w \in Urls : list[w] # 0 => \E x \in Urls : Loaded[x] = list[w]
  <2>1. CASE v = u
    BY <1>1, <2>1
  <2>2. CASE v # u
    <3>1. list = [Loaded EXCEPT ![v] = Loaded[u], ![u] = 0]
      BY <2>2
    <3>2. \A w \in Urls : list[w] = IF w = u THEN 0 ELSE IF w = v THEN Loaded[u] ELSE Loaded[w]
      BY <1>1, <2>2, <3>1 DEF Lists
    <3>3. list \in Lists
      BY <1>1, <3>1 DEF Lists
    <3> HIDE DEF list
    <3> QED BY <3>2, <3>3
  <2> QED BY <2>1, <2>2
<1> HIDE DEF h, list
<1>6. \A c \in Live : h[c] \in Entries
  BY <1>1, <1>4
<1>7. \A w \in Urls : list[w] # 0 =>
         h[list[w]] \in Entries /\ (list[w] \notin Live \/ \E x \in Urls : Loaded[x] = list[w])
  BY <1>1, <1>4, <1>5
<1> QED BY <1>2, <1>4, <1>5, <1>6, <1>7, CommandKeeps

LEMMA CmdSelectKeeps ==
    ASSUME ExecInv, NEW urls \in SUBSET Urls, NEW on \in BOOLEAN, CmdSelect(urls, on)
    PROVE  ExecInv'
<1>1. /\ TypeOK /\ Loaded \in Lists
      /\ \A w \in Urls : Loaded[w] # 0 =>
            Loaded[w] \in Cells /\ Checked(heap)[Loaded[w]] \in Entries
      /\ Checked(heap) \in [Cells -> Entries \cup {Free}]
      /\ \A c \in Live : c \in Cells /\ Checked(heap)[c] \in Entries
  BY CommandBegins
<1> DEFINE h == Selected(Checked(heap), Loaded, urls, All(on))
<1>2. urls \subseteq In(Loaded) /\ Command(h, Loaded)
  BY DEF CmdSelect
<1>3. \A u \in urls : Checked(heap)[Loaded[u]] \in Entries
  BY <1>1, <1>2 DEF In
<1>4. /\ h \in [Cells -> Entries \cup {Free}]
      /\ \A c \in Cells : Checked(heap)[c] \in Entries => h[c] \in Entries
  BY <1>1, <1>3, SelectedHeap
<1> HIDE DEF h
<1> QED BY <1>1, <1>2, <1>4, CommandKeeps

LEMMA CmdPingKeeps ==
    ASSUME ExecInv, NEW heard \in SUBSET Urls, CmdPing(heard)
    PROVE  ExecInv'
<1>1. /\ TypeOK /\ Loaded \in Lists
      /\ \A w \in Urls : Loaded[w] # 0 =>
            Loaded[w] \in Cells /\ Checked(heap)[Loaded[w]] \in Entries
      /\ Checked(heap) \in [Cells -> Entries \cup {Free}]
      /\ \A c \in Live : c \in Cells /\ Checked(heap)[c] \in Entries
  BY CommandBegins
<1> DEFINE targets == {u \in In(Loaded) : heap[Loaded[u]].sel}
<1> DEFINE list == Only(Loaded, targets)
<1> DEFINE h == PingedHeap(Checked(heap), list, heard)
<1>2. Command(h, Loaded)
  BY DEF CmdPing
<1> HIDE DEF targets
<1>3. list \in Lists /\ \A u \in Urls : list[u] # 0 => list[u] = Loaded[u]
  BY <1>1 DEF Only, Lists
<1> HIDE DEF list
<1>4. \A u \in Urls : list[u] # 0 => Checked(heap)[list[u]] \in Entries
  BY <1>1, <1>3
<1>5. /\ h \in [Cells -> Entries \cup {Free}]
      /\ \A c \in Cells : Checked(heap)[c] \in Entries => h[c] \in Entries
  BY <1>1, <1>3, <1>4, PingChangesHeap
<1> HIDE DEF h
<1> QED BY <1>1, <1>2, <1>5, CommandKeeps


LEMMA CmdAddKeeps ==
    ASSUME ExecInv, NEW u \in Urls, NEW addr \in {"none", "own"}, CmdAdd(u, addr)
    PROVE  ExecInv'
<1>1. /\ TypeOK /\ Loaded \in Lists
      /\ \A w \in Urls : Loaded[w] # 0 =>
            Loaded[w] \in Live /\ Checked(heap)[Loaded[w]] \in Entries
      /\ Checked(heap) \in [Cells -> Entries \cup {Free}]
      /\ \A c \in Live : Checked(heap)[c] \in Entries
  BY CommandBegins
<1> DEFINE fresh == NewList({u})
<1> DEFINE entry == [sel |-> FALSE, addr |-> addr, up |-> FALSE]
<1> DEFINE h == [c \in Cells |-> IF c \in CellsOf(fresh) THEN entry ELSE Checked(heap)[c]]
<1> DEFINE list == Updated(Loaded, fresh)
<1>2. Fits({u}) /\ Command(h, list)
  BY DEF CmdAdd, With
<1>3. entry \in Entries
  BY DEF Entries
<1> HIDE DEF entry
<1>4. /\ fresh \in Lists
      /\ \A w \in Urls : IF w \in {u} THEN fresh[w] \in Cells \ Live ELSE fresh[w] = 0
  BY <1>1, <1>2, NewCells
<1>5. /\ h \in [Cells -> Entries \cup {Free}]
      /\ \A c \in Live : h[c] = Checked(heap)[c]
      /\ \A w \in {u} : h[fresh[w]] = entry
  <2> DEFINE urls == {u}
  <2> DEFINE before == Checked(heap)
  <2>1. /\ urls \in SUBSET Urls /\ Fits(urls)
        /\ before \in [Cells -> Entries \cup {Free}]
        /\ h = [c \in Cells |-> IF c \in CellsOf(NewList(urls)) THEN entry ELSE before[c]]
    BY <1>1, <1>2
  <2> HIDE DEF urls, h, before
  <2>2. /\ h \in [Cells -> Entries \cup {Free}]
        /\ \A c \in Live : h[c] = before[c]
        /\ \A v \in urls : h[NewList(urls)[v]] = entry
    BY <1>1, <1>3, <2>1, SameEntries
  <2> QED BY <2>2 DEF urls, before
<1> HIDE DEF fresh, h
<1>6. list \in Lists /\ \A w \in Urls : list[w] = IF fresh[w] # 0 THEN fresh[w] ELSE Loaded[w]
  BY <1>1, <1>4, UpdatedList
<1> HIDE DEF list
<1>7. \A w \in Urls : list[w] # 0 =>
         h[list[w]] \in Entries /\ (list[w] \notin Live \/ \E x \in Urls : Loaded[x] = list[w])
  BY <1>1, <1>3, <1>4, <1>5, <1>6
<1>8. \A c \in Live : h[c] \in Entries
  BY <1>1, <1>5
<1> QED BY <1>2, <1>5, <1>6, <1>7, <1>8, CommandKeeps

LEMMA CmdImportKeeps ==
    ASSUME ExecInv, NEW urls \in SUBSET Urls, CmdImport(urls)
    PROVE  ExecInv'
<1>1. /\ TypeOK /\ Loaded \in Lists
      /\ \A w \in Urls : Loaded[w] # 0 =>
            Loaded[w] \in Live /\ Checked(heap)[Loaded[w]] \in Entries
      /\ Checked(heap) \in [Cells -> Entries \cup {Free}]
      /\ \A c \in Live : Checked(heap)[c] \in Entries
  BY CommandBegins
<1> DEFINE fresh == NewList(urls)
<1> DEFINE entry == [sel |-> TRUE, addr |-> "listed", up |-> FALSE]
<1> DEFINE h == [c \in Cells |-> IF c \in CellsOf(fresh) THEN entry ELSE Checked(heap)[c]]
<1> DEFINE list == Updated(Loaded, fresh)
<1>2. Fits(urls) /\ Command(h, list)
  BY DEF CmdImport, With, FromFile
<1>3. entry \in Entries
  BY DEF Entries
<1> HIDE DEF entry
<1>4. /\ fresh \in Lists
      /\ \A w \in Urls : IF w \in urls THEN fresh[w] \in Cells \ Live ELSE fresh[w] = 0
  BY <1>1, <1>2, NewCells
<1>5. /\ h \in [Cells -> Entries \cup {Free}]
      /\ \A c \in Live : h[c] = Checked(heap)[c]
      /\ \A w \in urls : h[fresh[w]] = entry
  BY <1>1, <1>2, <1>3, SameEntries
<1> HIDE DEF fresh, h
<1>6. list \in Lists /\ \A w \in Urls : list[w] = IF fresh[w] # 0 THEN fresh[w] ELSE Loaded[w]
  BY <1>1, <1>4, UpdatedList
<1> HIDE DEF list
<1>7. \A w \in Urls : list[w] # 0 =>
         h[list[w]] \in Entries /\ (list[w] \notin Live \/ \E x \in Urls : Loaded[x] = list[w])
  BY <1>1, <1>3, <1>4, <1>5, <1>6
<1>8. \A c \in Live : h[c] \in Entries
  BY <1>1, <1>5
<1> QED BY <1>2, <1>5, <1>6, <1>7, <1>8, CommandKeeps

LEMMA CmdDownloadKeeps ==
    ASSUME ExecInv, NEW urls \in SUBSET Urls, NEW picked, CmdDownload(urls, picked)
    PROVE  ExecInv'
<1>1. /\ TypeOK /\ Loaded \in Lists
      /\ \A w \in Urls : Loaded[w] # 0 =>
            Loaded[w] \in Live /\ Checked(heap)[Loaded[w]] \in Entries
      /\ Checked(heap) \in [Cells -> Entries \cup {Free}]
      /\ \A c \in Live : Checked(heap)[c] \in Entries
  BY CommandBegins
<1> DEFINE fresh == NewList(urls)
<1> DEFINE before == Checked(heap)
<1> DEFINE h == [c \in Cells |->
                    IF c \in CellsOf(NewList(urls))
                    THEN LET u == CHOOSE v \in In(NewList(urls)) : NewList(urls)[v] = c
                         IN  FromServer(Old(before, Loaded, u), u \in picked)
                    ELSE before[c]]
<1> DEFINE list == Updated(Loaded, fresh)
<1>2. Fits(urls) /\ Command(h, list)
  BY DEF CmdDownload, With
<1>3. /\ fresh \in Lists
      /\ \A w \in Urls : IF w \in urls THEN fresh[w] \in Cells \ Live ELSE fresh[w] = 0
  BY <1>1, <1>2, NewCells
<1>4. /\ h \in [Cells -> Entries \cup {Free}]
      /\ \A c \in Live : h[c] = before[c]
      /\ \A w \in urls : h[fresh[w]] \in Entries
  <2>1. In(fresh) = urls /\ Once(fresh)
    BY <1>1, <1>2, NewCells
  <2>2. \A w \in urls : h[fresh[w]] = FromServer(Old(before, Loaded, w), w \in picked)
    <3>1. SUFFICES ASSUME NEW w \in urls
          PROVE  h[fresh[w]] = FromServer(Old(before, Loaded, w), w \in picked)
      OBVIOUS
    <3>2. fresh[w] \in Cells /\ fresh[w] \in CellsOf(fresh)
      BY <1>3, <2>1 DEF CellsOf
    <3>3. (CHOOSE v \in In(fresh) : fresh[v] = fresh[w]) = w
      BY <2>1, CellTellsUrl
    <3> QED BY <3>2, <3>3
  <2>3. \A w \in urls : h[fresh[w]] \in Entries
    <3>1. \A w \in urls : Old(before, Loaded, w) \in Entries \cup {Free}
      BY <1>1 DEF Old, In
    <3>2. \A w \in urls : FromServer(Old(before, Loaded, w), w \in picked) \in Entries
      <4> HIDE DEF before
      <4> QED BY <3>1, ServerEntry
    <3> QED BY <2>2, <3>2
  <2>4. \A c \in Cells : h[c] \in Entries \cup {Free}
    <3>1. SUFFICES ASSUME NEW c \in Cells PROVE h[c] \in Entries \cup {Free}
      OBVIOUS
    <3>2. CASE c \in CellsOf(fresh)
      <4>1. PICK w \in urls : fresh[w] = c
        BY <2>1, <3>2 DEF CellsOf
      <4> QED BY <2>3, <4>1
    <3>3. CASE c \notin CellsOf(fresh)
      BY <1>1, <3>3
    <3> QED BY <3>2, <3>3
  <2>5. h \in [Cells -> Entries \cup {Free}]
    BY <2>4
  <2>6. \A c \in Live : h[c] = before[c]
    <3>1. PICK old \in [Cells -> Entries \cup {Free}] : old = before
      BY <1>1
    <3>2. \A c \in Cells \ CellsOf(NewList(urls)) : h[c] = old[c]
      BY <3>1
    <3> HIDE DEF h
    <3>3. \A c \in Live : h[c] = old[c]
      BY <1>1, <1>2, <2>5, <3>2, NewEntries
    <3> QED BY <3>1, <3>3
  <2> QED BY <2>3, <2>5, <2>6
<1> HIDE DEF fresh, h
<1>5. list \in Lists /\ \A w \in Urls : list[w] = IF fresh[w] # 0 THEN fresh[w] ELSE Loaded[w]
  BY <1>1, <1>3, UpdatedList
<1> HIDE DEF list
<1>6. \A w \in Urls : list[w] # 0 =>
         h[list[w]] \in Entries /\ (list[w] \notin Live \/ \E x \in Urls : Loaded[x] = list[w])
  BY <1>1, <1>3, <1>4, <1>5
<1>7. \A c \in Live : h[c] \in Entries
  BY <1>1, <1>4
<1> QED BY <1>2, <1>4, <1>5, <1>6, <1>7, CommandKeeps

----------------------------------------------------------------------------
(* Requests that begin *)

NetRecords == [kind : Kinds, answered : BOOLEAN, modal : BOOLEAN, list : Lists,
               picked : SUBSET Urls, heard : SUBSET Urls, alone : BOOLEAN]

\* A request is given entries that are alive, and changes nothing.
LEMMA AskKeeps ==
    ASSUME ExecInv,
           UNCHANGED <<heap, cfg, win, dlg, open, tie, shipped, first, disk, shown, loose>>,
           net' \in NetRecords, ~net'.answered, net'.kind \in Asking => open,
           net'.kind \notin {"autoping", "onlyping"},
           \A u \in Urls : net'.list[u] # 0 => net'.list[u] \in Live,
           net'.kind \in Downloads => net'.list = win,
           net'.kind = "pingall" =>
               \A u \in Urls : net'.list[u] # 0 => net'.list[u] = dlg[u]
    PROVE  ExecInv'
<1>1. TypeOK /\ NetTypes /\ RestTypes /\ ShippedWhole /\ ShownTogether /\ Synced
  BY DEF ExecInv
<1>2. TypeOK'
  <2>1. \A c \in Live' : \E u \in Urls :
           c \in {cfg[u], win[u], dlg[u], shipped[u], net'.list[u]} /\ c # 0
    BY DEF Live, CellsOf, In
  <2>2. \A c \in Live' : c \in Live
    BY <2>1, LiveCells
  <2>3. net'.list \in Lists
    BY DEF NetRecords
  <2> QED BY <1>1, <2>2, <2>3 DEF TypeOK
<1>3. NetTypes'
  BY DEF NetTypes, NetRecords
<1>4. RestTypes' /\ ShippedWhole' /\ ShownTogether' /\ Synced'
  BY <1>1 DEF RestTypes, ShippedWhole, ShownTogether, Synced, Stored
<1>5. AnswerApart' /\ PingAlone'
  BY DEF AnswerApart, PingAlone
<1>6. PingsTheList'
  BY DEF PingsTheList, In
<1>7. DownloadAlone'
  BY DEF DownloadAlone
<1> QED BY <1>2, <1>3, <1>4, <1>5, <1>6, <1>7 DEF ExecInv

LEMMA AskListKeeps ==
    ASSUME ExecInv, AskList
    PROVE  ExecInv'
<1>1. /\ open /\ net' = [kind |-> "list", answered |-> FALSE, modal |-> TRUE, list |-> win,
                         picked |-> {}, heard |-> {}, alone |-> TRUE]
      /\ UNCHANGED <<heap, cfg, win, dlg, open, tie, shipped, first, disk, shown, loose>>
  BY DEF AskList, Asked, Editing
<1>2. win \in Lists
  BY DEF ExecInv, TypeOK
<1>3. net' \in NetRecords /\ ~net'.answered /\ net'.kind = "list" /\ net'.list = win
  BY <1>1, <1>2 DEF NetRecords, Kinds
<1>4. \A u \in Urls : net'.list[u] # 0 => net'.list[u] \in Live
  BY <1>3, LiveCells
<1> QED BY <1>1, <1>3, <1>4, AskKeeps

LEMMA OnlySome ==
    ASSUME NEW list \in Lists, NEW urls
    PROVE  /\ Only(list, urls) \in Lists
           /\ \A u \in Urls : Only(list, urls)[u] = IF u \in urls THEN list[u] ELSE 0
BY DEF Only, Lists

LEMMA AskPingKeeps ==
    ASSUME ExecInv, NEW urls \in SUBSET Urls, AskPing(urls)
    PROVE  ExecInv'
<1>1. /\ open
      /\ net' = [kind |-> IF urls = In(dlg) THEN "pingall" ELSE "ping", answered |-> FALSE,
                 modal |-> TRUE, list |-> Only(dlg, urls), picked |-> {}, heard |-> {}, alone |-> TRUE]
      /\ UNCHANGED <<heap, cfg, win, dlg, open, tie, shipped, first, disk, shown, loose>>
  BY DEF AskPing, Asked, Editing
<1>2. dlg \in Lists
  BY DEF ExecInv, TypeOK
<1>3. /\ Only(dlg, urls) \in Lists
      /\ \A u \in Urls : Only(dlg, urls)[u] = IF u \in urls THEN dlg[u] ELSE 0
  BY <1>2, OnlySome
<1>4. /\ net' \in NetRecords /\ ~net'.answered /\ net'.kind \in {"ping", "pingall"}
      /\ net'.list = Only(dlg, urls)
  BY <1>1, <1>3 DEF NetRecords, Kinds
<1>5. \A u \in Urls : net'.list[u] # 0 => net'.list[u] \in Live /\ net'.list[u] = dlg[u]
  BY <1>3, <1>4, LiveCells
<1> QED BY <1>1, <1>4, <1>5, AskKeeps DEF Downloads

LEMMA AskSyncKeeps ==
    ASSUME ExecInv, NEW u \in Urls, AskSync(u)
    PROVE  ExecInv'
<1>1. /\ open
      /\ net' = [kind |-> "sync", answered |-> FALSE,
                 modal |-> FALSE, list |-> Only(dlg, {u}), picked |-> {}, heard |-> {}, alone |-> TRUE]
      /\ UNCHANGED <<heap, cfg, win, dlg, open, tie, shipped, first, disk, shown, loose>>
  BY DEF AskSync, Asked, Editing
<1>2. dlg \in Lists
  BY DEF ExecInv, TypeOK
<1>3. /\ Only(dlg, {u}) \in Lists
      /\ \A v \in Urls : Only(dlg, {u})[v] = IF v \in {u} THEN dlg[v] ELSE 0
  BY <1>2, OnlySome
<1>4. /\ net' \in NetRecords /\ ~net'.answered /\ net'.kind = "sync"
      /\ net'.list = Only(dlg, {u})
  BY <1>1, <1>3 DEF NetRecords, Kinds
<1>5. \A v \in Urls : net'.list[v] # 0 => net'.list[v] \in Live
  BY <1>3, <1>4, LiveCells
<1> QED BY <1>1, <1>4, <1>5, AskKeeps DEF Downloads

LEMMA DismissKeeps ==
    ASSUME ExecInv, Dismiss
    PROVE  ExecInv'
<1>1. /\ UNCHANGED <<heap, cfg, win, dlg, open, tie, shipped, first, disk, shown, loose>>
      /\ net' = [net EXCEPT !.modal = FALSE]
  BY DEF Dismiss
<1>2. /\ TypeOK /\ NetTypes /\ RestTypes /\ ShippedWhole /\ AnswerApart /\ PingAlone
      /\ ShownTogether /\ Synced
  BY DEF ExecInv
<1>3. /\ net' \in NetRecords /\ net'.kind = net.kind /\ net'.list = net.list
      /\ net'.answered = net.answered /\ net'.heard = net.heard /\ net'.alone = net.alone
      /\ net'.modal = FALSE
  BY <1>1, <1>2 DEF NetTypes, NetRecords
<1>4. TypeOK'
  <2>1. Live' = Live
    BY <1>1, <1>3 DEF Live, CellsOf, In
  <2> QED BY <1>1, <1>2, <1>3, <2>1 DEF TypeOK
<1>5. NetTypes'
  BY <1>1, <1>2, <1>3 DEF NetTypes, NetRecords
<1>6. RestTypes' /\ ShippedWhole' /\ ShownTogether' /\ Synced'
  BY <1>1, <1>2 DEF RestTypes, ShippedWhole, ShownTogether, Synced, Stored
<1>7. AnswerApart'
  BY <1>1, <1>2, <1>3 DEF AnswerApart, CellsOf, In
<1>8. PingsTheList' /\ DownloadAlone'
  BY <1>3 DEF PingsTheList, DownloadAlone
<1>9. PingAlone'
  BY <1>1, <1>2, <1>3 DEF PingAlone, In
<1> QED BY <1>4, <1>5, <1>6, <1>7, <1>8, <1>9 DEF ExecInv

----------------------------------------------------------------------------
(* Loading the list *)

\* What every step that loads the list keeps, whichever other list it renews.
LEMMA LoadKeeps ==
    ASSUME ExecInv, Load,
           UNCHANGED <<shipped, first, disk, loose>>,
           win' = win \/ win' = Loaded, dlg' = dlg \/ dlg' = Loaded,
           open' \in BOOLEAN, shown' \in BOOLEAN, tie' \in {"none", "dialog", "window"},
           tie' = "dialog" => open' /\ dlg' = Loaded,
           tie' = "window" => win' = Loaded,
           open' /\ shown' => (open /\ shown) \/ dlg' = Loaded,
           net' \in NetRecords, net'.kind \in Asking => open',
           net'.list = net.list \/ net'.list = Loaded
    PROVE  /\ TypeOK' /\ NetTypes' /\ RestTypes' /\ ShippedWhole'
           /\ ShownTogether' /\ Synced'
           /\ \A u \in Urls : win'[u] # 0 => heap'[win'[u]].up = heap[win'[u]].up
<1>1. TypeOK /\ NetTypes /\ RestTypes /\ ShippedWhole /\ ShownTogether /\ Synced
  BY DEF ExecInv
<1> DEFINE h == Checked(heap)
<1>2. cfg' = Loaded /\ Heap(h)
  BY DEF Load
<1>3. /\ Loaded \in Lists
      /\ \A u \in Urls : Loaded[u] = cfg[u] \/ (cfg[u] = 0 /\ Loaded[u] = shipped[u])
      /\ ~first => \A u \in Defaults : Loaded[u] # 0
  BY <1>1, LoadedList
<1>4. /\ h \in [Cells -> Entries \cup {Free}]
      /\ \A c \in Live : h[c] \in Entries /\ h[c].up = heap[c].up
      /\ \A c \in Live : h[c] \in {heap[c], Cleaned(heap[c])}
  <2>1. Live \subseteq Cells
    BY <1>1, LiveAreCells
  <2> QED BY <1>1, <2>1, CheckedHeap
<1> HIDE DEF h
<1>5. \A u \in Urls : Loaded[u] # 0 => Loaded[u] \in Live
  BY <1>3, LiveCells
<1>6. cfg' \in Lists /\ win' \in Lists /\ dlg' \in Lists /\ shipped' \in Lists /\ net'.list \in Lists
  BY <1>1, <1>2, <1>3 DEF TypeOK
<1>7. \A u \in Urls : /\ cfg'[u] # 0 => cfg'[u] \in Live
                      /\ win'[u] # 0 => win'[u] \in Live
                      /\ dlg'[u] # 0 => dlg'[u] \in Live
                      /\ shipped'[u] # 0 => shipped'[u] \in Live
                      /\ net'.list[u] # 0 => net'.list[u] \in Live
  BY <1>2, <1>5, LiveCells
<1>8. /\ heap' \in [Cells -> Entries \cup {Free}]
      /\ \A c \in Live' : heap'[c] \in Entries
      /\ \A u \in Urls : /\ cfg'[u] # 0 => heap'[cfg'[u]] = h[cfg'[u]]
                         /\ win'[u] # 0 => heap'[win'[u]] = h[win'[u]]
                         /\ shipped'[u] # 0 => heap'[shipped'[u]] = h[shipped'[u]]
  <2>1. \A u \in Urls : /\ cfg'[u] # 0 => h[cfg'[u]] \in Entries
                        /\ win'[u] # 0 => h[win'[u]] \in Entries
                        /\ dlg'[u] # 0 => h[dlg'[u]] \in Entries
                        /\ shipped'[u] # 0 => h[shipped'[u]] \in Entries
                        /\ net'.list[u] # 0 => h[net'.list[u]] \in Entries
    BY <1>4, <1>7
  <2> QED BY <1>2, <1>4, <1>6, <2>1, HeapStep
<1>9. TypeOK'
  BY <1>2, <1>6, <1>8 DEF TypeOK
<1>10. NetTypes' /\ RestTypes'
  BY <1>1 DEF NetTypes, NetRecords, RestTypes
<1>11. ShippedWhole'
  <2>1. first \/ Defaults \subseteq In(win')
    BY <1>1, <1>3, ExecutorAssumption DEF ShippedWhole, In
  <2> QED BY <1>1, <2>1 DEF ShippedWhole
<1>12. ShownTogether'
  <2>1. CASE dlg' = Loaded
    BY <1>2, <2>1 DEF ShownTogether
  <2>2. CASE dlg' # Loaded
    BY <1>1, <1>2, <2>2, ShownKept
  <2> QED BY <2>1, <2>2
<1>13. Synced'
  BY <1>1, <1>2, <1>4, <1>8, SyncedKept
<1>14. \A u \in Urls : win'[u] # 0 => heap'[win'[u]].up = heap[win'[u]].up
  BY <1>4, <1>7, <1>8
<1> QED BY <1>9, <1>10, <1>11, <1>12, <1>13, <1>14

\* Loading leaves apart what a list server answered.
LEMMA LoadKeepsApart ==
    ASSUME ExecInv, cfg' = Loaded, shipped' = shipped,
           win' = win \/ win' = Loaded, dlg' = dlg \/ dlg' = Loaded,
           net'.kind = net.kind, net'.answered = net.answered, net'.list = net.list
    PROVE  AnswerApart'
<1>1. TypeOK /\ RestTypes /\ ShippedWhole /\ AnswerApart
  BY DEF ExecInv
<1>2. /\ Loaded \in Lists
      /\ \A u \in Urls : Loaded[u] = cfg[u] \/ Loaded[u] = shipped[u]
  BY <1>1, LoadedList
<1>3. SUFFICES ASSUME net.kind \in Downloads, net.answered, NEW l \in {Loaded, win, dlg, shipped}
      PROVE  CellsOf(net.list) \cap CellsOf(l) = {}
  BY DEF AnswerApart
<1>4. \A l2 \in {cfg, win, dlg, shipped} : \A u, v \in Urls :
         net.list[u] # 0 => net.list[u] # l2[v]
  BY <1>1, <1>3, CellsApart DEF AnswerApart, TypeOK
<1>5. \A u, v \in Urls : net.list[u] # 0 => net.list[u] # l[v]
  BY <1>2, <1>4
<1>6. l \in Lists /\ net.list \in Lists
  BY <1>1, <1>2 DEF TypeOK
<1> QED BY <1>5, <1>6, CellsApart

LEMMA RefreshKeeps ==
    ASSUME ExecInv, Refresh
    PROVE  ExecInv'
<1>1. TypeOK /\ NetTypes /\ RestTypes /\ PingsTheList
  BY DEF ExecInv
<1>2. /\ Load /\ win' = Loaded /\ dlg' = Seen(dlg, "dialog") /\ tie' = Untied("window")
      /\ net' = [net EXCEPT !.alone = FALSE]
      /\ UNCHANGED <<open, shipped, first, disk, shown, loose>>
  BY DEF Refresh
<1>3. /\ net' \in NetRecords /\ net'.kind = net.kind /\ net'.list = net.list
      /\ net'.answered = net.answered /\ net'.modal = net.modal /\ net'.alone = FALSE
  BY <1>1, <1>2 DEF NetTypes, NetRecords
<1>4. /\ dlg' = dlg \/ (dlg' = Loaded /\ cfg = dlg)
      /\ tie' \in {"none", "dialog", "window"}
      /\ tie' = "dialog" => open' /\ dlg' = Loaded
      /\ tie' # "window"
  BY <1>1, <1>2 DEF Seen, Untied, TypeOK, RestTypes
<1>5. open' \in BOOLEAN /\ shown' \in BOOLEAN /\ (net'.kind \in Asking => open')
  BY <1>1, <1>2, <1>3 DEF RestTypes, NetTypes
<1>6. TypeOK' /\ NetTypes' /\ RestTypes' /\ ShippedWhole' /\ ShownTogether' /\ Synced'
  BY <1>2, <1>3, <1>4, <1>5, LoadKeeps
<1>7. AnswerApart'
  BY <1>2, <1>3, <1>4, LoadKeepsApart DEF Load
<1>8. PingsTheList'
  <2>1. \A u \in Urls : cfg[u] # 0 => Loaded[u] = cfg[u]
    BY DEF Loaded
  <2> QED BY <1>1, <1>3, <1>4, <2>1 DEF PingsTheList, In
<1>9. DownloadAlone' /\ PingAlone'
  BY <1>3 DEF DownloadAlone, PingAlone
<1> QED BY <1>6, <1>7, <1>8, <1>9 DEF ExecInv

LEMMA OpenKeeps ==
    ASSUME ExecInv, Open
    PROVE  ExecInv'
<1>1. TypeOK /\ NetTypes /\ RestTypes /\ ShippedWhole /\ PingAlone
  BY DEF ExecInv
<1>2. /\ Load /\ Unblocked /\ ~open /\ dlg' = Loaded /\ win' = Seen(win, "window")
      /\ open' = TRUE /\ shown' = TRUE
      /\ UNCHANGED <<tie, shipped, first, disk, net, loose>>
  BY DEF Open
<1>3. net' \in NetRecords /\ net'.list = net.list
  BY <1>1, <1>2 DEF NetTypes, NetRecords
<1>4. win' = win \/ win' = Loaded
  BY <1>2 DEF Seen
<1>5. tie \in {"none", "dialog", "window"} /\ tie # "dialog" /\ (tie = "window" => win' = Loaded)
  BY <1>1, <1>2 DEF Seen, TypeOK, RestTypes
<1>6. /\ TypeOK' /\ NetTypes' /\ RestTypes' /\ ShippedWhole' /\ ShownTogether' /\ Synced'
      /\ \A u \in Urls : win'[u] # 0 => heap'[win'[u]].up = heap[win'[u]].up
  BY <1>2, <1>3, <1>4, <1>5, LoadKeeps
<1>7. AnswerApart'
  BY <1>2, <1>3, <1>4, LoadKeepsApart DEF Load
<1>8. PingsTheList' /\ DownloadAlone'
  BY <1>2 DEF PingsTheList, DownloadAlone, Unblocked, Downloads
<1>9. win' = win
  <2>1. CASE tie = "window"
    <3>1. cfg = win /\ (first \/ Defaults \subseteq In(cfg))
      BY <1>1, <2>1 DEF TypeOK, ShippedWhole
    <3>2. \A u \in Urls : Loaded[u] = cfg[u]
      BY <3>1 DEF Loaded, In
    <3>3. Loaded = cfg
      BY <1>1, <3>2 DEF Loaded, TypeOK, Lists
    <3> QED BY <1>2, <2>1, <3>1, <3>3 DEF Seen
  <2>2. CASE tie # "window"
    BY <1>2, <2>2 DEF Seen
  <2> QED BY <2>1, <2>2
<1>10. PingAlone'
  BY <1>1, <1>2, <1>6, <1>9 DEF PingAlone, In
<1> QED BY <1>6, <1>7, <1>8, <1>10 DEF ExecInv

LEMMA WizardNextKeeps ==
    ASSUME ExecInv, NEW auto \in BOOLEAN, WizardNext(auto)
    PROVE  ExecInv'
<1>1. TypeOK /\ NetTypes /\ RestTypes /\ ShippedWhole
  BY DEF ExecInv
<1>2. /\ Load /\ ~open /\ win' = Loaded /\ tie' = Untied("window")
      /\ net' = [kind |-> IF auto THEN "auto" ELSE "only", answered |-> FALSE, modal |-> TRUE,
                 list |-> Loaded, picked |-> {}, heard |-> {}, alone |-> TRUE]
      /\ UNCHANGED <<dlg, open, shipped, first, disk, shown, loose>>
  BY DEF WizardNext, Asked
<1>3. Loaded \in Lists
  BY <1>1, LoadedList
<1>4. /\ net' \in NetRecords /\ net'.kind \in {"auto", "only"} /\ net'.list = Loaded
      /\ ~net'.answered
  BY <1>2, <1>3 DEF NetRecords, Kinds
<1>5. tie' \in {"none", "dialog", "window"} /\ tie' # "dialog" /\ tie' # "window"
  BY <1>1, <1>2 DEF Untied, TypeOK, RestTypes
<1>6. open' \in BOOLEAN /\ shown' \in BOOLEAN /\ ~(net'.kind \in Asking)
  BY <1>1, <1>2, <1>4 DEF RestTypes, Asking
<1>7. TypeOK' /\ NetTypes' /\ RestTypes' /\ ShippedWhole' /\ ShownTogether' /\ Synced'
  BY <1>2, <1>4, <1>5, <1>6, LoadKeeps
<1>8. AnswerApart' /\ PingsTheList' /\ DownloadAlone' /\ PingAlone'
  BY <1>2, <1>4 DEF AnswerApart, PingsTheList, DownloadAlone, PingAlone
<1> QED BY <1>7, <1>8 DEF ExecInv

----------------------------------------------------------------------------
(* Closing, and what changes no entry *)

LEMMA IdleNet ==
    /\ Idle \in NetRecords /\ Idle.kind = "none" /\ Idle.list \in Lists
    /\ \A u \in Urls : Idle.list[u] = 0 /\ NoList[u] = 0
    /\ NoList \in Lists
<1>1. NoList \in Lists /\ \A u \in Urls : NoList[u] = 0
  BY DEF NoList, Lists
<1> QED BY <1>1 DEF Idle, NetRecords, Kinds

\* When no request is under way nothing is said of one.
LEMMA NothingAsked ==
    ASSUME net'.kind = "none"
    PROVE  AnswerApart' /\ PingsTheList' /\ DownloadAlone' /\ PingAlone'
BY DEF AnswerApart, PingsTheList, DownloadAlone, PingAlone, Downloads

LEMMA CloseKeeps ==
    ASSUME ExecInv, Close
    PROVE  ExecInv'
<1>1. /\ TypeOK /\ NetTypes /\ RestTypes /\ ShippedWhole /\ AnswerApart /\ DownloadAlone
      /\ PingAlone /\ Synced
  BY DEF ExecInv
<1>2. /\ net.kind \in {"none", "auto", "only", "autoping", "onlyping"}
      /\ dlg' = NoList /\ open' = FALSE /\ tie' = Untied("dialog") /\ shown' = FALSE
      /\ UNCHANGED <<cfg, win, shipped, first, disk, net, loose>>
      /\ Heap(heap)
  BY DEF Close
<1>3. /\ cfg' \in Lists /\ win' \in Lists /\ dlg' \in Lists /\ shipped' \in Lists
      /\ net'.list \in Lists
  BY <1>1, <1>2, IdleNet DEF TypeOK
<1>4. heap \in [Cells -> Entries \cup {Free}] /\ \A c \in Live : heap[c] \in Entries
  BY <1>1 DEF TypeOK
<1>5. \A u \in Urls : /\ cfg'[u] # 0 => heap[cfg'[u]] \in Entries
                      /\ win'[u] # 0 => heap[win'[u]] \in Entries
                      /\ dlg'[u] # 0 => heap[dlg'[u]] \in Entries
                      /\ shipped'[u] # 0 => heap[shipped'[u]] \in Entries
                      /\ net'.list[u] # 0 => heap[net'.list[u]] \in Entries
  BY <1>2, <1>4, IdleNet, LiveCells
<1>6. /\ heap' \in [Cells -> Entries \cup {Free}]
      /\ \A c \in Live' : heap'[c] \in Entries
      /\ \A u \in Urls : /\ cfg'[u] # 0 => heap'[cfg'[u]] = heap[cfg'[u]]
                         /\ win'[u] # 0 => heap'[win'[u]] = heap[win'[u]]
                         /\ shipped'[u] # 0 => heap'[shipped'[u]] = heap[shipped'[u]]
                         /\ net'.list[u] # 0 => heap'[net'.list[u]] = heap[net'.list[u]]
  BY <1>2, <1>3, <1>4, <1>5, HeapStep
<1>7. TypeOK'
  BY <1>1, <1>2, <1>3, <1>6 DEF TypeOK, Untied
<1>8. NetTypes' /\ RestTypes'
  BY <1>1, <1>2 DEF NetTypes, RestTypes, Asking, Untied
<1>9. ShippedWhole' /\ ShownTogether'
  BY <1>1, <1>2 DEF ShippedWhole, ShownTogether
<1>10. AnswerApart'
  <2>1. CellsOf(NoList) = {}
    BY IdleNet DEF CellsOf, In
  <2> QED BY <1>1, <1>2, <2>1 DEF AnswerApart
<1>11. PingsTheList'
  BY <1>2 DEF PingsTheList
<1>12. DownloadAlone'
  <2>1. \A u \in Urls : net.list[u] # 0 => heap'[net.list[u]] = heap[net.list[u]]
    BY <1>2, <1>6
  <2>2. \A u \in Urls : Old(heap', win', u) = Old(heap, win, u)
    BY <1>2, <1>6 DEF Old, In
  <2>3. net' = net /\ win' = win
    BY <1>2
  <2> QED BY <1>1, <2>1, <2>2, <2>3 DEF DownloadAlone, In
<1>13. PingAlone'
  BY <1>1, <1>2, <1>6 DEF PingAlone, In
<1>14. Synced'
  BY <1>1, <1>2, <1>6, SyncedKept
<1> QED BY <1>7, <1>8, <1>9, <1>10, <1>11, <1>12, <1>13, <1>14 DEF ExecInv

LEMMA OtherSettingKeeps ==
    ASSUME ExecInv, OtherSetting
    PROVE  ExecInv'
<1>1. /\ disk' = Values(heap, cfg) /\ loose' = FALSE
      /\ UNCHANGED <<heap, cfg, win, dlg, open, tie, shipped, first, net, shown>>
  BY DEF OtherSetting, Stores
<1>2. /\ TypeOK /\ NetTypes /\ RestTypes /\ ShippedWhole /\ AnswerApart /\ PingsTheList
      /\ DownloadAlone /\ PingAlone /\ ShownTogether
  BY DEF ExecInv
<1>3. TypeOK'
  BY <1>1, <1>2 DEF TypeOK, Live
<1>4. Synced' /\ disk' \in FileTypes
  <2>1. heap \in [Cells -> Entries \cup {Free}] /\ cfg' \in Lists /\ disk' = Values(heap, cfg')
    BY <1>1, <1>2 DEF TypeOK
  <2>2. \A u \in Urls : cfg'[u] # 0 => heap[cfg'[u]] \in Entries /\ heap'[cfg'[u]] = heap[cfg'[u]]
    BY <1>1, <1>2, LiveCells DEF TypeOK
  <2> QED BY <2>1, <2>2, SyncedSaved
<1>5. NetTypes' /\ RestTypes' /\ ShippedWhole' /\ ShownTogether'
  BY <1>1, <1>2, <1>4 DEF NetTypes, RestTypes, ShippedWhole, ShownTogether
<1>6. AnswerApart' /\ PingsTheList' /\ DownloadAlone' /\ PingAlone'
  BY <1>1, <1>2 DEF AnswerApart, PingsTheList, DownloadAlone, PingAlone
<1> QED BY <1>3, <1>4, <1>5, <1>6 DEF ExecInv

LEMMA FailListKeeps ==
    ASSUME ExecInv, FailList
    PROVE  ExecInv'
<1>1. TypeOK /\ NetTypes /\ RestTypes /\ ShippedWhole /\ ShownTogether /\ Synced
  BY DEF ExecInv
<1>2. /\ net' = Idle /\ Heap(heap)
      /\ UNCHANGED <<cfg, win, dlg, open, tie, shipped, first, disk, shown, loose>>
  BY DEF FailList
<1>3. /\ cfg' \in Lists /\ win' \in Lists /\ dlg' \in Lists /\ shipped' \in Lists
      /\ net'.list \in Lists
  BY <1>1, <1>2, IdleNet DEF TypeOK
<1>4. heap \in [Cells -> Entries \cup {Free}] /\ \A c \in Live : heap[c] \in Entries
  BY <1>1 DEF TypeOK
<1>5. \A u \in Urls : /\ cfg'[u] # 0 => heap[cfg'[u]] \in Entries
                      /\ win'[u] # 0 => heap[win'[u]] \in Entries
                      /\ dlg'[u] # 0 => heap[dlg'[u]] \in Entries
                      /\ shipped'[u] # 0 => heap[shipped'[u]] \in Entries
                      /\ net'.list[u] # 0 => heap[net'.list[u]] \in Entries
  BY <1>2, <1>4, IdleNet, LiveCells
<1>6. /\ heap' \in [Cells -> Entries \cup {Free}]
      /\ \A c \in Live' : heap'[c] \in Entries
      /\ \A u \in Urls : /\ cfg'[u] # 0 => heap'[cfg'[u]] = heap[cfg'[u]]
                         /\ shipped'[u] # 0 => heap'[shipped'[u]] = heap[shipped'[u]]
  BY <1>2, <1>3, <1>4, <1>5, HeapStep
<1>7. TypeOK'
  BY <1>1, <1>2, <1>3, <1>6 DEF TypeOK
<1>8. NetTypes' /\ RestTypes' /\ ShippedWhole' /\ ShownTogether'
  BY <1>1, <1>2, IdleNet DEF NetTypes, NetRecords, RestTypes, ShippedWhole, ShownTogether, Asking
<1>9. AnswerApart' /\ PingsTheList' /\ DownloadAlone' /\ PingAlone'
  BY <1>2, IdleNet, NothingAsked
<1>10. Synced'
  BY <1>1, <1>2, <1>6, SyncedKept
<1> QED BY <1>7, <1>8, <1>9, <1>10 DEF ExecInv

LEMMA ApplyListKeeps ==
    ASSUME ExecInv, ApplyList
    PROVE  ExecInv'
<1>1. TypeOK /\ NetTypes /\ RestTypes /\ ShippedWhole
  BY DEF ExecInv
<1>2. /\ net.kind = "list" /\ win' = Updated(win, net.list) /\ net' = Idle
      /\ dlg' = Updated(dlg, net.list) /\ cfg' = dlg' /\ tie' = "dialog"
      /\ disk' = Values(heap, dlg') /\ loose' = FALSE /\ shown' = TRUE
      /\ UNCHANGED <<open, shipped, first>> /\ Heap(heap)
  BY DEF ApplyList, Stores
<1>3. /\ win' \in Lists /\ dlg' \in Lists
      /\ \A u \in Urls : /\ win'[u] = IF net.list[u] # 0 THEN net.list[u] ELSE win[u]
                         /\ dlg'[u] = IF net.list[u] # 0 THEN net.list[u] ELSE dlg[u]
  BY <1>1, <1>2, UpdatedList DEF TypeOK
<1>4. cfg' \in Lists /\ shipped' \in Lists /\ net'.list \in Lists
  BY <1>1, <1>2, <1>3, IdleNet DEF TypeOK
<1>5. heap \in [Cells -> Entries \cup {Free}] /\ \A c \in Live : heap[c] \in Entries
  BY <1>1 DEF TypeOK
<1>6. \A u \in Urls : /\ cfg'[u] # 0 => heap[cfg'[u]] \in Entries
                      /\ win'[u] # 0 => heap[win'[u]] \in Entries
                      /\ dlg'[u] # 0 => heap[dlg'[u]] \in Entries
                      /\ shipped'[u] # 0 => heap[shipped'[u]] \in Entries
                      /\ net'.list[u] # 0 => heap[net'.list[u]] \in Entries
  BY <1>2, <1>3, <1>5, IdleNet, LiveCells
<1>7. /\ heap' \in [Cells -> Entries \cup {Free}]
      /\ \A c \in Live' : heap'[c] \in Entries
      /\ \A u \in Urls : cfg'[u] # 0 => heap'[cfg'[u]] = heap[cfg'[u]]
  BY <1>2, <1>3, <1>4, <1>5, <1>6, HeapStep
<1>8. open
  BY <1>1, <1>2 DEF NetTypes, Asking
<1>9. TypeOK'
  BY <1>2, <1>3, <1>4, <1>7, <1>8 DEF TypeOK
<1>10. Synced' /\ disk' \in FileTypes
  <2>1. disk' = Values(heap, cfg')
    BY <1>2
  <2> QED BY <1>4, <1>5, <1>6, <1>7, <2>1, SyncedSaved
<1>11. NetTypes' /\ RestTypes'
  BY <1>1, <1>2, <1>8, <1>10, IdleNet DEF NetTypes, NetRecords, RestTypes, Asking
<1>12. ShippedWhole'
  BY <1>1, <1>2, <1>3, ExecutorAssumption DEF ShippedWhole, In
<1>13. ShownTogether'
  BY <1>2 DEF ShownTogether
<1>14. AnswerApart' /\ PingsTheList' /\ DownloadAlone' /\ PingAlone'
  BY <1>2, IdleNet, NothingAsked
<1> QED BY <1>9, <1>10, <1>11, <1>12, <1>13, <1>14 DEF ExecInv

LEMMA ApplyWizardKeeps ==
    ASSUME ExecInv, ApplyWizard
    PROVE  ExecInv'
<1>1. TypeOK /\ NetTypes /\ RestTypes /\ ShippedWhole /\ ShownTogether
  BY DEF ExecInv
<1>2. /\ win' = Updated(win, net.list)
      /\ cfg' = IF tie = "window" THEN win' ELSE cfg
      /\ net' = [kind |-> IF net.kind = "auto" THEN "autoping" ELSE "onlyping",
                 answered |-> FALSE, modal |-> TRUE, list |-> win', picked |-> {}, heard |-> {}, alone |-> TRUE]
      /\ shown' = (shown /\ tie # "window") /\ loose' = TRUE
      /\ UNCHANGED <<dlg, open, tie, shipped, first, disk>> /\ Heap(heap)
  BY DEF ApplyWizard, Asked
<1>3. /\ win' \in Lists
      /\ \A u \in Urls : win'[u] = IF net.list[u] # 0 THEN net.list[u] ELSE win[u]
  BY <1>1, <1>2, UpdatedList DEF TypeOK
<1>4. /\ net' \in NetRecords /\ net'.list = win' /\ ~net'.answered
      /\ net'.kind \in {"autoping", "onlyping"}
  BY <1>2, <1>3 DEF NetRecords, Kinds
<1>5. cfg' \in Lists /\ shipped' \in Lists /\ dlg' \in Lists /\ net'.list \in Lists
  BY <1>1, <1>2, <1>3, <1>4 DEF TypeOK
<1>6. heap \in [Cells -> Entries \cup {Free}] /\ \A c \in Live : heap[c] \in Entries
  BY <1>1 DEF TypeOK
<1>7. \A u \in Urls : /\ cfg'[u] # 0 => heap[cfg'[u]] \in Entries
                      /\ win'[u] # 0 => heap[win'[u]] \in Entries
                      /\ dlg'[u] # 0 => heap[dlg'[u]] \in Entries
                      /\ shipped'[u] # 0 => heap[shipped'[u]] \in Entries
                      /\ net'.list[u] # 0 => heap[net'.list[u]] \in Entries
  <2>1. \A u \in Urls : win'[u] # 0 => heap[win'[u]] \in Entries
    BY <1>3, <1>6, LiveCells
  <2> QED BY <1>2, <1>4, <1>6, <2>1, LiveCells
<1>8. /\ heap' \in [Cells -> Entries \cup {Free}]
      /\ \A c \in Live' : heap'[c] \in Entries
  BY <1>2, <1>3, <1>5, <1>6, <1>7, HeapStep
<1>9. TypeOK'
  BY <1>1, <1>2, <1>3, <1>5, <1>8 DEF TypeOK
<1>10. NetTypes' /\ RestTypes'
  BY <1>1, <1>2, <1>4 DEF NetTypes, NetRecords, RestTypes, Asking
<1>11. ShippedWhole'
  BY <1>1, <1>2, <1>3, ExecutorAssumption DEF ShippedWhole, In
<1>12. ShownTogether'
  BY <1>1, <1>2 DEF ShownTogether
<1>13. AnswerApart' /\ PingsTheList' /\ DownloadAlone' /\ PingAlone'
  BY <1>4 DEF AnswerApart, PingsTheList, DownloadAlone, PingAlone, Downloads
<1>14. Synced'
  BY <1>2 DEF Synced
<1> QED BY <1>9, <1>10, <1>11, <1>12, <1>13, <1>14 DEF ExecInv

----------------------------------------------------------------------------
(* Answers of pings *)

LEMMA ApplyWizardPingKeeps ==
    ASSUME ExecInv, ApplyWizardPing
    PROVE  ExecInv'
<1>1. TypeOK /\ NetTypes /\ RestTypes /\ ShippedWhole
  BY DEF ExecInv
<1> DEFINE chosen == {c \in Live : heap[c].up}
<1> DEFINE h == IF net.kind = "autoping" THEN Selected(heap, win, In(win), chosen) ELSE heap
<1>2. /\ net' = Idle /\ cfg' = win /\ tie' = "window" /\ shown' = FALSE
      /\ UNCHANGED <<win, dlg, open, shipped, first>>
      /\ disk' = Values(h, win) /\ loose' = FALSE /\ Heap(h)
  BY DEF ApplyWizardPing, Stores
<1>3. /\ heap \in [Cells -> Entries \cup {Free}]
      /\ \A c \in Live : c \in Cells /\ heap[c] \in Entries
  BY <1>1, LiveAreCells DEF TypeOK
<1>4. \A u \in In(win) : heap[win[u]] \in Entries
  BY <1>3, LiveCells DEF In
<1> HIDE DEF chosen
<1>5. /\ h \in [Cells -> Entries \cup {Free}]
      /\ \A c \in Cells : heap[c] \in Entries => h[c] \in Entries
  <2>1. CASE net.kind = "autoping"
    <3>1. LET new == Selected(heap, win, In(win), chosen)
          IN  /\ new \in [Cells -> Entries \cup {Free}]
              /\ \A c \in Cells : heap[c] \in Entries => new[c] \in Entries
      BY <1>3, <1>4, SelectedHeap
    <3> QED BY <2>1, <3>1
  <2>2. CASE net.kind # "autoping"
    BY <1>3, <2>2
  <2> QED BY <2>1, <2>2
<1> HIDE DEF h
<1>6. /\ cfg' \in Lists /\ win' \in Lists /\ dlg' \in Lists /\ shipped' \in Lists
      /\ net'.list \in Lists
  BY <1>1, <1>2, IdleNet DEF TypeOK
<1>7. \A u \in Urls : /\ cfg'[u] # 0 => h[cfg'[u]] \in Entries
                      /\ win'[u] # 0 => h[win'[u]] \in Entries
                      /\ dlg'[u] # 0 => h[dlg'[u]] \in Entries
                      /\ shipped'[u] # 0 => h[shipped'[u]] \in Entries
                      /\ net'.list[u] # 0 => h[net'.list[u]] \in Entries
  BY <1>2, <1>3, <1>5, IdleNet, LiveCells
<1>8. /\ heap' \in [Cells -> Entries \cup {Free}]
      /\ \A c \in Live' : heap'[c] \in Entries
      /\ \A u \in Urls : cfg'[u] # 0 => heap'[cfg'[u]] = h[cfg'[u]]
  BY <1>2, <1>5, <1>6, <1>7, HeapStep
<1>9. TypeOK'
  BY <1>2, <1>6, <1>8 DEF TypeOK
<1>10. Synced' /\ disk' \in FileTypes
  <2>1. disk' = Values(h, cfg')
    BY <1>2
  <2> QED BY <1>5, <1>6, <1>7, <1>8, <2>1, SyncedSaved
<1>11. NetTypes' /\ RestTypes' /\ ShippedWhole' /\ ShownTogether'
  BY <1>1, <1>2, <1>10, IdleNet
     DEF NetTypes, NetRecords, RestTypes, Asking, ShippedWhole, ShownTogether
<1>12. AnswerApart' /\ PingsTheList' /\ DownloadAlone' /\ PingAlone'
  BY <1>2, IdleNet, NothingAsked
<1> QED BY <1>9, <1>10, <1>11, <1>12 DEF ExecInv

LEMMA AnswerPingKeeps ==
    ASSUME ExecInv, NEW urls \in SUBSET Urls, AnswerPing(urls)
    PROVE  ExecInv'
<1>1. TypeOK /\ NetTypes /\ RestTypes /\ ShippedWhole /\ PingAlone /\ ShownTogether
  BY DEF ExecInv
<1> DEFINE h == PingedHeap(heap, net.list, urls)
<1>2. /\ net.kind \in Pings /\ ~net.answered
      /\ net' = [net EXCEPT !.answered = TRUE, !.heard = urls]
      /\ dlg' = IF net.kind = "pingall" THEN Updated(dlg, net.list) ELSE dlg
      /\ cfg' = IF tie = "dialog" THEN dlg' ELSE cfg
      /\ shown' = (shown /\ (tie = "dialog" \/ dlg' = dlg)) /\ loose' = TRUE
      /\ UNCHANGED <<win, open, tie, shipped, first, disk>> /\ Heap(h)
  BY DEF AnswerPing
<1>3. /\ heap \in [Cells -> Entries \cup {Free}] /\ net.list \in Lists
      /\ \A c \in Live : c \in Cells /\ heap[c] \in Entries
  BY <1>1, LiveAreCells DEF TypeOK
<1>4. \A u \in Urls : net.list[u] # 0 => heap[net.list[u]] \in Entries
  BY <1>3, LiveCells
<1>5. /\ h \in [Cells -> Entries \cup {Free}]
      /\ \A c \in Cells : heap[c] \in Entries => h[c] \in Entries
      /\ \A u \in Urls : net.list[u] # 0 =>
            (h[net.list[u]].up <=> \E v \in urls : net.list[v] = net.list[u])
  BY <1>3, <1>4, PingChangesHeap
<1> HIDE DEF h
<1>6. /\ Updated(dlg, net.list) \in Lists
      /\ \A u \in Urls : Updated(dlg, net.list)[u] = IF net.list[u] # 0 THEN net.list[u] ELSE dlg[u]
  BY <1>1, UpdatedList DEF TypeOK
<1>7. /\ net' \in NetRecords /\ net'.kind = net.kind /\ net'.list = net.list
      /\ net'.answered /\ net'.heard = urls /\ net'.alone = net.alone
  BY <1>1, <1>2 DEF NetTypes, NetRecords
<1>8. /\ cfg' \in Lists /\ win' \in Lists /\ dlg' \in Lists /\ shipped' \in Lists
      /\ net'.list \in Lists
  BY <1>1, <1>2, <1>6, <1>7 DEF TypeOK
<1>9. \A u \in Urls : /\ cfg'[u] # 0 => h[cfg'[u]] \in Entries
                      /\ win'[u] # 0 => h[win'[u]] \in Entries
                      /\ dlg'[u] # 0 => h[dlg'[u]] \in Entries
                      /\ shipped'[u] # 0 => h[shipped'[u]] \in Entries
                      /\ net'.list[u] # 0 => h[net'.list[u]] \in Entries
  <2>1. \A c \in Live : h[c] \in Entries
    BY <1>3, <1>5
  <2>2. \A u \in Urls : dlg'[u] # 0 => dlg'[u] \in Live
    BY <1>2, <1>6, LiveCells
  <2> QED BY <1>2, <1>7, <2>1, <2>2, LiveCells
<1>10. /\ heap' \in [Cells -> Entries \cup {Free}]
       /\ \A c \in Live' : heap'[c] \in Entries
       /\ \A u \in Urls : win'[u] # 0 => heap'[win'[u]] = h[win'[u]]
  BY <1>2, <1>5, <1>8, <1>9, HeapStep
<1>11. net.kind = "pingall" => open
  BY <1>1 DEF NetTypes, Asking
<1>12. TypeOK'
  <2>1. /\ tie' = "dialog" => open' /\ cfg' = dlg'
        /\ tie' = "window" => cfg' = win'
    BY <1>1, <1>2 DEF TypeOK
  <2> QED BY <1>8, <1>10, <2>1 DEF TypeOK
<1>13. NetTypes'
  BY <1>1, <1>2, <1>7 DEF NetTypes, NetRecords
<1>14. RestTypes' /\ ShippedWhole'
  BY <1>1, <1>2 DEF RestTypes, ShippedWhole
<1>15. AnswerApart' /\ DownloadAlone'
  BY <1>2, <1>7 DEF AnswerApart, DownloadAlone, Downloads, Pings
<1>16. PingsTheList'
  BY <1>2, <1>6, <1>7 DEF PingsTheList, In
<1>17. PingAlone'
  <2>1. SUFFICES ASSUME net.kind \in {"autoping", "onlyping"}, net.alone
        PROVE  /\ net.list = win
               /\ \A u \in Urls : win[u] # 0 =>
                     (heap'[win[u]].up <=> \E v \in urls : win[v] = win[u])
    BY <1>2, <1>7 DEF PingAlone, In
  <2>2. net.list = win
    BY <1>1, <2>1 DEF PingAlone
  <2> QED BY <1>2, <1>5, <1>10, <2>2
<1>18. ShownTogether'
  BY <1>1, <1>2 DEF ShownTogether
<1>19. Synced'
  BY <1>2 DEF Synced
<1> QED BY <1>12, <1>13, <1>14, <1>15, <1>16, <1>17, <1>18, <1>19 DEF ExecInv

LEMMA AnswerSyncKeeps ==
    ASSUME ExecInv, NEW ok \in BOOLEAN, AnswerSync(ok)
    PROVE  ExecInv'
<1>1. TypeOK /\ NetTypes /\ RestTypes /\ ShippedWhole /\ ShownTogether /\ Synced
  BY DEF ExecInv
<1> DEFINE there == In(net.list) \cap In(dlg)
<1> DEFINE hit == ok /\ there # {}
<1> DEFINE h == IF hit THEN PingedHeap(heap, Only(dlg, there), there) ELSE heap
<1>2. /\ net' = Idle /\ Heap(h) /\ loose' = (loose \/ hit)
      /\ UNCHANGED <<cfg, win, dlg, open, tie, shipped, first, disk, shown>>
  BY DEF AnswerSync
<1>3. /\ heap \in [Cells -> Entries \cup {Free}] /\ dlg \in Lists
      /\ \A c \in Live : c \in Cells /\ heap[c] \in Entries
  BY <1>1, LiveAreCells DEF TypeOK
<1>4. there \in SUBSET Urls
  BY DEF In
<1> HIDE DEF there
<1>5. /\ Only(dlg, there) \in Lists
      /\ \A u \in Urls : Only(dlg, there)[u] = IF u \in there THEN dlg[u] ELSE 0
  BY <1>3, OnlySome
<1>6. /\ h \in [Cells -> Entries \cup {Free}]
      /\ \A c \in Cells : heap[c] \in Entries => h[c] \in Entries
  <2>1. CASE hit
    <3>1. \A u \in Urls : Only(dlg, there)[u] # 0 => heap[Only(dlg, there)[u]] \in Entries
      BY <1>3, <1>5, LiveCells
    <3>2. LET new == PingedHeap(heap, Only(dlg, there), there)
          IN  /\ new \in [Cells -> Entries \cup {Free}]
              /\ \A c \in Cells : heap[c] \in Entries => new[c] \in Entries
      BY <1>3, <1>4, <1>5, <3>1, PingChangesHeap
    <3> QED BY <2>1, <3>2
  <2>2. CASE ~hit
    BY <1>3, <2>2
  <2> QED BY <2>1, <2>2
<1>7. ~hit => h = heap
  OBVIOUS
<1>8. hit \in BOOLEAN
  OBVIOUS
<1> HIDE DEF h, hit
<1>9. /\ cfg' \in Lists /\ win' \in Lists /\ dlg' \in Lists /\ shipped' \in Lists
      /\ net'.list \in Lists
  BY <1>1, <1>2, IdleNet DEF TypeOK
<1>10. \A u \in Urls : /\ cfg'[u] # 0 => h[cfg'[u]] \in Entries
                       /\ win'[u] # 0 => h[win'[u]] \in Entries
                       /\ dlg'[u] # 0 => h[dlg'[u]] \in Entries
                       /\ shipped'[u] # 0 => h[shipped'[u]] \in Entries
                       /\ net'.list[u] # 0 => h[net'.list[u]] \in Entries
  BY <1>2, <1>3, <1>6, IdleNet, LiveCells
<1>11. /\ heap' \in [Cells -> Entries \cup {Free}]
       /\ \A c \in Live' : heap'[c] \in Entries
       /\ \A u \in Urls : /\ cfg'[u] # 0 => heap'[cfg'[u]] = h[cfg'[u]]
                          /\ shipped'[u] # 0 => heap'[shipped'[u]] = h[shipped'[u]]
  BY <1>2, <1>6, <1>9, <1>10, HeapStep
<1>12. TypeOK'
  BY <1>1, <1>2, <1>9, <1>11 DEF TypeOK
<1>13. NetTypes' /\ RestTypes' /\ ShippedWhole' /\ ShownTogether'
  <2>1. loose' \in BOOLEAN
    BY <1>1, <1>2, <1>8 DEF RestTypes
  <2> QED BY <1>1, <1>2, <2>1, IdleNet
          DEF NetTypes, NetRecords, RestTypes, Asking, ShippedWhole, ShownTogether
<1>14. AnswerApart' /\ PingsTheList' /\ DownloadAlone' /\ PingAlone'
  BY <1>2, IdleNet, NothingAsked
<1>15. Synced'
  <2>1. CASE hit
    BY <1>2, <2>1 DEF Synced
  <2>2. CASE ~hit
    <3>1. loose' = loose
      BY <1>1, <1>2, <2>2 DEF RestTypes
    <3> QED BY <1>1, <1>2, <1>7, <1>11, <2>2, <3>1, SyncedKept
  <2> QED BY <2>1, <2>2
<1> QED BY <1>12, <1>13, <1>14, <1>15 DEF ExecInv

----------------------------------------------------------------------------
(* What comes in: an answer of a list server, a file *)

LEMMA AnswerListKeeps ==
    ASSUME ExecInv, NEW urls \in SUBSET Urls, NEW picked, AnswerList(urls, picked)
    PROVE  ExecInv'
<1>1. /\ TypeOK /\ NetTypes /\ RestTypes /\ ShippedWhole /\ DownloadAlone /\ ShownTogether
      /\ Synced
  BY DEF ExecInv
<1> DEFINE fresh == NewList(urls)
<1> DEFINE h == [c \in Cells |->
                    IF c \in CellsOf(fresh)
                    THEN LET u == CHOOSE v \in In(fresh) : fresh[v] = c
                         IN  FromServer(Old(heap, net.list, u), u \in picked)
                    ELSE heap[c]]
<1>2. /\ net.kind \in Downloads /\ ~net.answered /\ Fits(urls) /\ Heap(h)
      /\ picked \subseteq urls
      /\ net' = [net EXCEPT !.answered = TRUE, !.list = fresh, !.picked = picked]
      /\ UNCHANGED <<cfg, win, dlg, open, tie, shipped, first, disk, shown, loose>>
  BY DEF AnswerList, With
<1>3. /\ heap \in [Cells -> Entries \cup {Free}] /\ net.list \in Lists /\ win \in Lists
      /\ \A c \in Live : c \in Cells /\ heap[c] \in Entries
  BY <1>1, LiveAreCells DEF TypeOK
<1>4. /\ fresh \in Lists /\ In(fresh) = urls /\ Once(fresh)
      /\ \A u \in Urls : IF u \in urls THEN fresh[u] \in Cells \ Live ELSE fresh[u] = 0
  BY <1>1, <1>2, NewCells
<1>5. \A u \in urls : h[fresh[u]] =
                         FromServer(Old(heap, net.list, u), u \in picked)
  <2>1. SUFFICES ASSUME NEW u \in urls
        PROVE  h[fresh[u]] = FromServer(Old(heap, net.list, u), u \in picked)
    OBVIOUS
  <2>2. fresh[u] \in Cells /\ fresh[u] \in CellsOf(fresh)
    BY <1>4 DEF CellsOf
  <2>3. (CHOOSE v \in In(fresh) : fresh[v] = fresh[u]) = u
    BY <1>4, CellTellsUrl
  <2> QED BY <2>2, <2>3
<1>6. \A u \in urls : h[fresh[u]] \in Entries
  <2>1. \A u \in urls : Old(heap, net.list, u) \in Entries \cup {Free}
    BY <1>3, LiveCells DEF Old, In
  <2>2. \A u \in urls : FromServer(Old(heap, net.list, u), u \in picked) \in Entries
    BY <2>1, ServerEntry
  <2> QED BY <1>5, <2>2
<1>7. h \in [Cells -> Entries \cup {Free}]
  <2>1. \A c \in Cells : h[c] \in Entries \cup {Free}
    <3>1. SUFFICES ASSUME NEW c \in Cells PROVE h[c] \in Entries \cup {Free}
      OBVIOUS
    <3>2. CASE c \in CellsOf(fresh)
      <4>1. PICK u \in urls : fresh[u] = c
        BY <1>4, <3>2 DEF CellsOf
      <4> QED BY <1>6, <4>1
    <3>3. CASE c \notin CellsOf(fresh)
      BY <1>3, <3>3
    <3> QED BY <3>2, <3>3
  <2> QED BY <2>1
<1>8. \A c \in Live : h[c] = heap[c]
  <2>1. \A c \in Cells \ CellsOf(NewList(urls)) : h[c] = heap[c]
    OBVIOUS
  <2> HIDE DEF h
  <2> QED BY <1>1, <1>2, <1>3, <1>7, <2>1, NewEntries
<1> HIDE DEF h, fresh
<1>9. /\ net' \in NetRecords /\ net'.kind = net.kind /\ net'.list = fresh /\ net'.answered
      /\ net'.alone = net.alone /\ net'.modal = net.modal /\ net'.picked = picked
  BY <1>1, <1>2, <1>4 DEF NetTypes, NetRecords
<1>10. /\ cfg' \in Lists /\ win' \in Lists /\ dlg' \in Lists /\ shipped' \in Lists
       /\ net'.list \in Lists
  BY <1>1, <1>2, <1>4, <1>9 DEF TypeOK
<1>11. \A u \in Urls : /\ cfg'[u] # 0 => h[cfg'[u]] \in Entries
                       /\ win'[u] # 0 => h[win'[u]] \in Entries
                       /\ dlg'[u] # 0 => h[dlg'[u]] \in Entries
                       /\ shipped'[u] # 0 => h[shipped'[u]] \in Entries
                       /\ net'.list[u] # 0 => h[net'.list[u]] \in Entries
  BY <1>2, <1>3, <1>4, <1>6, <1>8, <1>9, LiveCells
<1>12. /\ heap' \in [Cells -> Entries \cup {Free}]
       /\ \A c \in Live' : heap'[c] \in Entries
       /\ \A u \in Urls : /\ cfg'[u] # 0 => heap'[cfg'[u]] = h[cfg'[u]]
                          /\ win'[u] # 0 => heap'[win'[u]] = h[win'[u]]
                          /\ shipped'[u] # 0 => heap'[shipped'[u]] = h[shipped'[u]]
                          /\ net'.list[u] # 0 => heap'[net'.list[u]] = h[net'.list[u]]
  BY <1>2, <1>7, <1>10, <1>11, HeapStep
<1>13. TypeOK'
  BY <1>1, <1>2, <1>10, <1>12 DEF TypeOK
<1>14. NetTypes' /\ RestTypes' /\ ShippedWhole' /\ ShownTogether'
  BY <1>1, <1>2, <1>9 DEF NetTypes, NetRecords, RestTypes, ShippedWhole, ShownTogether
<1>15. AnswerApart'
  <2>1. \A l \in {cfg, win, dlg, shipped} : \A u, v \in Urls : fresh[u] # 0 => fresh[u] # l[v]
    BY <1>4, LiveCells
  <2>2. \A l \in {cfg, win, dlg, shipped} : CellsOf(fresh) \cap CellsOf(l) = {}
    BY <1>1, <1>4, <2>1, CellsApart DEF TypeOK
  <2> QED BY <1>2, <1>9, <2>2 DEF AnswerApart
<1>16. PingsTheList' /\ PingAlone'
  BY <1>2, <1>9 DEF PingsTheList, PingAlone, Downloads
<1>17. DownloadAlone'
  <2>1. SUFFICES ASSUME net.alone, net.modal, NEW u \in In(fresh)
        PROVE  heap'[fresh[u]] = FromServer(Old(heap', win', u), u \in picked)
    BY <1>2, <1>4, <1>9 DEF DownloadAlone
  <2>2. net.list = win
    BY <1>1, <1>2, <2>1 DEF DownloadAlone
  <2>3. u \in urls /\ u \in Urls /\ fresh[u] # 0
    BY <2>1, <1>4 DEF In
  <2>4. heap'[fresh[u]] = h[fresh[u]]
    BY <1>9, <1>12, <2>3
  <2>5. Old(heap', win', u) = Old(heap, win, u)
    BY <1>2, <1>8, <1>12, <2>3, LiveCells DEF Old, In
  <2>6. h[fresh[u]] = FromServer(Old(heap, win, u), u \in picked)
    BY <1>5, <2>2, <2>3
  <2> QED BY <2>4, <2>5, <2>6
<1>18. Synced'
  <2>1. \A c \in Live : h[c] \in {heap[c], Cleaned(heap[c])}
    BY <1>8
  <2>2. \A u \in Urls : /\ cfg'[u] # 0 => heap'[cfg'[u]] = h[cfg'[u]]
                        /\ shipped[u] # 0 => heap'[shipped[u]] = h[shipped[u]]
    BY <1>2, <1>12
  <2> QED BY <1>1, <1>2, <2>1, <2>2, SyncedKept
<1> QED BY <1>13, <1>14, <1>15, <1>16, <1>17, <1>18 DEF ExecInv

LEMMA ImportKeeps ==
    ASSUME ExecInv, NEW urls \in SUBSET Urls, Import(urls)
    PROVE  ExecInv'
<1>1. /\ TypeOK /\ NetTypes /\ RestTypes /\ ShippedWhole /\ AnswerApart /\ PingAlone
      /\ ShownTogether
  BY DEF ExecInv
<1> DEFINE fresh == NewList(urls)
<1> DEFINE entry == [sel |-> TRUE, addr |-> "listed", up |-> FALSE]
<1> DEFINE h == [c \in Cells |-> IF c \in CellsOf(fresh) THEN entry ELSE heap[c]]
<1>2. /\ open /\ Unblocked /\ Fits(urls) /\ dlg' = Updated(dlg, fresh)
      /\ cfg' = IF tie = "dialog" THEN dlg' ELSE cfg
      /\ shown' = (shown /\ tie = "dialog") /\ loose' = TRUE
      /\ UNCHANGED <<win, open, tie, shipped, first, disk, net>> /\ Heap(h)
  BY DEF Import, Editing, With, FromFile
<1>3. /\ heap \in [Cells -> Entries \cup {Free}] /\ dlg \in Lists
      /\ \A c \in Live : heap[c] \in Entries
  BY <1>1 DEF TypeOK
<1>4. entry \in Entries
  BY DEF Entries
<1> HIDE DEF entry
<1>5. /\ fresh \in Lists
      /\ \A u \in Urls : IF u \in urls THEN fresh[u] \in Cells \ Live ELSE fresh[u] = 0
  BY <1>1, <1>2, NewCells
<1>6. /\ h \in [Cells -> Entries \cup {Free}]
      /\ \A c \in Live : h[c] = heap[c]
      /\ \A u \in urls : h[fresh[u]] = entry
  BY <1>1, <1>2, <1>3, <1>4, SameEntries
<1> HIDE DEF fresh, h
<1>7. dlg' \in Lists /\ \A u \in Urls : dlg'[u] = IF fresh[u] # 0 THEN fresh[u] ELSE dlg[u]
  BY <1>2, <1>3, <1>5, UpdatedList
<1>8. cfg' \in Lists /\ win' \in Lists /\ shipped' \in Lists /\ net'.list \in Lists
  BY <1>1, <1>2, <1>7 DEF TypeOK
<1>9. \A u \in Urls : /\ cfg'[u] # 0 => h[cfg'[u]] \in Entries
                      /\ win'[u] # 0 => h[win'[u]] \in Entries
                      /\ dlg'[u] # 0 => h[dlg'[u]] \in Entries
                      /\ shipped'[u] # 0 => h[shipped'[u]] \in Entries
                      /\ net'.list[u] # 0 => h[net'.list[u]] \in Entries
  <2>1. \A u \in Urls : dlg'[u] # 0 => h[dlg'[u]] \in Entries
    BY <1>3, <1>4, <1>5, <1>6, <1>7, LiveCells
  <2> QED BY <1>2, <1>3, <1>6, <2>1, LiveCells
<1>10. /\ heap' \in [Cells -> Entries \cup {Free}]
       /\ \A c \in Live' : heap'[c] \in Entries
       /\ \A u \in Urls : win'[u] # 0 => heap'[win'[u]] = h[win'[u]]
  BY <1>2, <1>6, <1>7, <1>8, <1>9, HeapStep
<1>11. TypeOK'
  <2>1. /\ tie' = "dialog" => open' /\ cfg' = dlg'
        /\ tie' = "window" => cfg' = win'
    BY <1>1, <1>2 DEF TypeOK
  <2> QED BY <1>7, <1>8, <1>10, <2>1 DEF TypeOK
<1>12. NetTypes' /\ RestTypes' /\ ShippedWhole'
  BY <1>1, <1>2 DEF NetTypes, RestTypes, ShippedWhole
<1>13. AnswerApart'
  <2>1. SUFFICES ASSUME net.kind \in Downloads, net.answered, NEW l \in {cfg', win, dlg', shipped}
        PROVE  CellsOf(net.list) \cap CellsOf(l) = {}
    BY <1>2 DEF AnswerApart
  <2>2. \A l2 \in {cfg, win, dlg, shipped} : \A u, v \in Urls :
           net.list[u] # 0 => net.list[u] # l2[v]
    BY <1>1, <2>1, CellsApart DEF AnswerApart, TypeOK
  <2>3. \A u, v \in Urls : net.list[u] # 0 => net.list[u] # dlg'[v]
    BY <1>5, <1>7, <2>2, LiveCells
  <2>4. \A u, v \in Urls : net.list[u] # 0 => net.list[u] # l[v]
    BY <1>2, <2>2, <2>3
  <2>5. l \in Lists /\ net.list \in Lists
    BY <1>1, <1>7, <1>8 DEF TypeOK
  <2> QED BY <2>4, <2>5, CellsApart
<1>14. PingsTheList' /\ DownloadAlone'
  BY <1>2 DEF PingsTheList, DownloadAlone, Unblocked, Downloads
<1>15. PingAlone'
  <2>1. \A u \in Urls : win[u] # 0 => heap'[win[u]].up = heap[win[u]].up
    BY <1>2, <1>6, <1>10, LiveCells
  <2> QED BY <1>1, <1>2, <2>1 DEF PingAlone, In
<1>16. ShownTogether'
  BY <1>1, <1>2 DEF ShownTogether
<1>17. Synced'
  BY <1>2 DEF Synced
<1> QED BY <1>11, <1>12, <1>13, <1>14, <1>15, <1>16, <1>17 DEF ExecInv

LEMMA WizardImportKeeps ==
    ASSUME ExecInv, NEW urls \in SUBSET Urls, WizardImport(urls)
    PROVE  ExecInv'
<1>1. TypeOK /\ NetTypes /\ RestTypes /\ ShippedWhole /\ AnswerApart
  BY DEF ExecInv
<1>2. /\ Loaded \in Lists
      /\ \A u \in Urls : Loaded[u] = cfg[u] \/ (cfg[u] = 0 /\ Loaded[u] = shipped[u])
      /\ ~first => \A u \in Defaults : Loaded[u] # 0
  BY <1>1, LoadedList
<1> DEFINE fresh == NewList(urls)
<1> DEFINE entry == [sel |-> TRUE, addr |-> "listed", up |-> FALSE]
<1> DEFINE h == [c \in Cells |-> IF c \in CellsOf(fresh) THEN entry ELSE Checked(heap)[c]]
<1>3. /\ Unblocked /\ ~open /\ Fits(urls)
      /\ win' = Updated(Loaded, fresh) /\ cfg' = win' /\ tie' = "window"
      /\ net' = [net EXCEPT !.alone = FALSE]
      /\ disk' = Values(h, win') /\ loose' = FALSE
      /\ UNCHANGED <<dlg, open, shipped, first, shown>> /\ Heap(h)
  BY DEF WizardImport, With, FromFile, Stores
<1>4. /\ Checked(heap) \in [Cells -> Entries \cup {Free}]
      /\ \A c \in Live : Checked(heap)[c] \in Entries
      /\ \A u \in Urls : Loaded[u] # 0 => Loaded[u] \in Live
  BY CommandBegins
<1>5. entry \in Entries
  BY DEF Entries
<1> HIDE DEF entry
<1>6. /\ fresh \in Lists
      /\ \A u \in Urls : IF u \in urls THEN fresh[u] \in Cells \ Live ELSE fresh[u] = 0
  BY <1>1, <1>3, NewCells
<1>7. /\ h \in [Cells -> Entries \cup {Free}]
      /\ \A c \in Live : h[c] = Checked(heap)[c]
      /\ \A u \in urls : h[fresh[u]] = entry
  BY <1>1, <1>3, <1>4, <1>5, SameEntries
<1> HIDE DEF fresh, h
<1>8. win' \in Lists /\ \A u \in Urls : win'[u] = IF fresh[u] # 0 THEN fresh[u] ELSE Loaded[u]
  BY <1>2, <1>3, <1>6, UpdatedList
<1>9. /\ net' \in NetRecords /\ net'.kind = net.kind /\ net'.list = net.list
      /\ net'.answered = net.answered /\ net'.modal = net.modal /\ net'.alone = FALSE
  BY <1>1, <1>3 DEF NetTypes, NetRecords
<1>10. cfg' \in Lists /\ dlg' \in Lists /\ shipped' \in Lists /\ net'.list \in Lists
  BY <1>1, <1>3, <1>8, <1>9 DEF TypeOK
<1>11. \A u \in Urls : /\ cfg'[u] # 0 => h[cfg'[u]] \in Entries
                       /\ win'[u] # 0 => h[win'[u]] \in Entries
                       /\ dlg'[u] # 0 => h[dlg'[u]] \in Entries
                       /\ shipped'[u] # 0 => h[shipped'[u]] \in Entries
                       /\ net'.list[u] # 0 => h[net'.list[u]] \in Entries
  <2>1. \A u \in Urls : win'[u] # 0 => h[win'[u]] \in Entries
    BY <1>4, <1>5, <1>6, <1>7, <1>8
  <2>2. \A c \in Live : h[c] \in Entries
    BY <1>4, <1>7
  <2> QED BY <1>3, <1>9, <2>1, <2>2, LiveCells
<1>12. /\ heap' \in [Cells -> Entries \cup {Free}]
       /\ \A c \in Live' : heap'[c] \in Entries
       /\ \A u \in Urls : cfg'[u] # 0 => heap'[cfg'[u]] = h[cfg'[u]]
  BY <1>3, <1>7, <1>8, <1>10, <1>11, HeapStep
<1>13. TypeOK'
  BY <1>3, <1>8, <1>10, <1>12 DEF TypeOK
<1>14. Synced' /\ disk' \in FileTypes
  <2>1. disk' = Values(h, cfg')
    BY <1>3
  <2> QED BY <1>7, <1>10, <1>11, <1>12, <2>1, SyncedSaved
<1>15. NetTypes' /\ RestTypes'
  BY <1>1, <1>3, <1>9, <1>14 DEF NetTypes, NetRecords, RestTypes
<1>16. ShippedWhole'
  BY <1>1, <1>2, <1>3, <1>8, ExecutorAssumption DEF ShippedWhole, In
<1>17. ShownTogether' /\ PingsTheList' /\ DownloadAlone' /\ PingAlone'
  BY <1>3, <1>9 DEF ShownTogether, PingsTheList, DownloadAlone, PingAlone, Unblocked
<1>18. AnswerApart'
  <2>1. SUFFICES ASSUME net.kind \in Downloads, net.answered, NEW l \in {win', dlg, shipped}
        PROVE  CellsOf(net.list) \cap CellsOf(l) = {}
    BY <1>3, <1>9 DEF AnswerApart
  <2>2. \A l2 \in {cfg, win, dlg, shipped} : \A u, v \in Urls :
           net.list[u] # 0 => net.list[u] # l2[v]
    BY <1>1, <2>1, CellsApart DEF AnswerApart, TypeOK
  <2>3. \A u, v \in Urls : net.list[u] # 0 => net.list[u] # win'[v]
    BY <1>2, <1>6, <1>8, <2>2, LiveCells
  <2>4. \A u, v \in Urls : net.list[u] # 0 => net.list[u] # l[v]
    BY <2>2, <2>3
  <2>5. l \in Lists /\ net.list \in Lists
    BY <1>1, <1>8 DEF TypeOK
  <2> QED BY <2>4, <2>5, CellsApart
<1> QED BY <1>13, <1>14, <1>15, <1>16, <1>17, <1>18 DEF ExecInv

----------------------------------------------------------------------------
(* The invariant *)

LEMMA StepKeeps ==
    ASSUME ExecInv, [Next]_vars
    PROVE  ExecInv'
<1>1. ASSUME UNCHANGED vars PROVE ExecInv'
  <2>1. TypeOK' /\ NetTypes' /\ RestTypes'
    BY <1>1 DEF ExecInv, vars, TypeOK, NetTypes, RestTypes, Live
  <2>2. ShippedWhole' /\ AnswerApart' /\ PingsTheList' /\ DownloadAlone'
    BY <1>1 DEF ExecInv, vars, ShippedWhole, AnswerApart, PingsTheList, DownloadAlone, In, Once
  <2>3. PingAlone' /\ ShownTogether' /\ Synced'
    BY <1>1 DEF ExecInv, vars, PingAlone, ShownTogether, Synced, In, Stored
  <2> QED BY <2>1, <2>2, <2>3 DEF ExecInv
<1>2. CASE Restart \/ Refresh \/ Dismiss \/ Open \/ Close \/ OtherSetting
  BY <1>2, RestartKeeps, RefreshKeeps, DismissKeeps, OpenKeeps, CloseKeeps, OtherSettingKeeps
<1>3. ASSUME NEW u \in Urls, NEW on \in BOOLEAN, Select(u, on) PROVE ExecInv'
  BY <1>3, SelectKeeps
<1>4. ASSUME NEW on \in BOOLEAN, NEW onlyValid \in BOOLEAN, SelectAll(on, onlyValid) PROVE ExecInv'
  BY <1>4, SelectAllKeeps
<1>5. ASSUME NEW u \in Urls, NEW addr \in {"none", "bad", "own"},
             EditAddress(u, addr) \/ Add(u, addr)
      PROVE  ExecInv'
  BY <1>5, EditAddressKeeps, AddKeeps
<1>6. ASSUME NEW u \in Urls, Delete(u) \/ AskSync(u) \/ CmdDelete(u) PROVE ExecInv'
  BY <1>6, DeleteKeeps, AskSyncKeeps, CmdDeleteKeeps
<1>7. ASSUME NEW u \in Urls, NEW v \in Urls, NEW addr \in {"bad", "own"}, Edit(u, v, addr)
      PROVE  ExecInv'
  BY <1>7, EditKeeps
<1>8. ASSUME NEW u \in Urls, NEW v \in Urls, NEW addr \in {"none", "own"}, CmdUpdate(u, v, addr)
      PROVE  ExecInv'
  BY <1>8, CmdUpdateKeeps
<1>9. ASSUME NEW urls \in SUBSET Urls,
             \/ Import(urls) \/ WizardImport(urls) \/ CmdImport(urls)
             \/ AskPing(urls) \/ AnswerPing(urls) \/ CmdPing(urls)
      PROVE  ExecInv'
  BY <1>9, ImportKeeps, WizardImportKeeps, CmdImportKeeps, AskPingKeeps, AnswerPingKeeps,
     CmdPingKeeps
<1>10. CASE AskList
  BY <1>10, AskListKeeps
<1>11. ASSUME NEW auto \in BOOLEAN, WizardNext(auto) PROVE ExecInv'
  BY <1>11, WizardNextKeeps
<1>12. ASSUME NEW urls \in SUBSET Offered, NEW picked \in SUBSET Offered,
              AnswerList(urls, picked) \/ CmdDownload(urls, picked)
       PROVE  ExecInv'
  <2>1. urls \in SUBSET Urls
    BY ExecutorAssumption
  <2> QED BY <1>12, <2>1, AnswerListKeeps, CmdDownloadKeeps
<1>13. CASE FailList \/ ApplyList \/ ApplyWizard \/ ApplyPing \/ ApplyWizardPing
  BY <1>13, FailListKeeps, ApplyListKeeps, ApplyWizardKeeps, ApplyPingKeeps, ApplyWizardPingKeeps
<1>14. ASSUME NEW ok \in BOOLEAN, AnswerSync(ok) PROVE ExecInv'
  BY <1>14, AnswerSyncKeeps
<1>15. ASSUME NEW u \in Urls, NEW addr \in {"none", "own"}, CmdAdd(u, addr) PROVE ExecInv'
  BY <1>15, CmdAddKeeps
<1>16. ASSUME NEW urls \in SUBSET Urls, NEW on \in BOOLEAN, CmdSelect(urls, on) PROVE ExecInv'
  BY <1>16, CmdSelectKeeps
<1> QED
  BY <1>1, <1>2, <1>3, <1>4, <1>5, <1>6, <1>7, <1>8, <1>9, <1>10, <1>11, <1>12, <1>13, <1>14,
     <1>15, <1>16 DEF Next

LEMMA ExecInvAlways == Spec => []ExecInv
<1>1. Init => ExecInv
  BY InitKeeps
<1>2. ExecInv /\ [Next]_vars => ExecInv'
  BY StepKeeps
<1> QED BY <1>1, <1>2, PTL DEF Spec

----------------------------------------------------------------------------
(* What the owner sees *)

\* Two lists use the same when they do for every server of the open one, and
\* the other has besides only defaults and what is not used.
LEMMA SameUses ==
    ASSUME NEW h, NEW list,
           \A u \in Urls :
              IF dlg[u] # 0
              THEN /\ list[u] # 0 /\ (Used(h[list[u]]) <=> Used(heap[dlg[u]]))
                   /\ Used(heap[dlg[u]]) => h[list[u]].addr = heap[dlg[u]].addr
              ELSE list[u] # 0 => u \in Defaults
    PROVE  Kept(Uses(h, list)) = Uses(heap, dlg)
<1>1. ASSUME NEW p, p \in Kept(Uses(h, list)) PROVE p \in Uses(heap, dlg)
  <2>1. PICK u \in Urls : list[u] # 0 /\ Used(h[list[u]]) /\ p = <<u, h[list[u]].addr>>
    BY <1>1 DEF Kept, Uses, In
  <2>2. u \in In(dlg) \/ u \notin Defaults
    BY <1>1, <2>1 DEF Kept
  <2>3. dlg[u] # 0
    BY <2>1, <2>2 DEF In
  <2>4. Used(heap[dlg[u]]) /\ h[list[u]].addr = heap[dlg[u]].addr
    BY <2>1, <2>3
  <2> QED BY <2>1, <2>3, <2>4 DEF Uses, In
<1>2. ASSUME NEW p, p \in Uses(heap, dlg) PROVE p \in Kept(Uses(h, list))
  <2>1. PICK u \in Urls : dlg[u] # 0 /\ Used(heap[dlg[u]]) /\ p = <<u, heap[dlg[u]].addr>>
    BY <1>2 DEF Uses, In
  <2>2. list[u] # 0 /\ Used(h[list[u]]) /\ h[list[u]].addr = heap[dlg[u]].addr
    BY <2>1
  <2>3. p \in Uses(h, list)
    BY <2>1, <2>2 DEF Uses, In
  <2> QED BY <2>1, <2>3 DEF Kept, In
<1> QED BY <1>1, <1>2

LEMMA CleanedUse ==
    ASSUME NEW e \in Entries
    PROVE  (Used(Cleaned(e)) <=> Used(e)) /\ (Used(e) => Cleaned(e) = e)
BY DEF Cleaned, Used, Usable, Entries

LEMMA ShownIsBuiltHolds ==
    ASSUME ExecInv
    PROVE  ShownIsBuilt
<1>1. SUFFICES ASSUME open, shown PROVE Kept(Uses(heap, Loaded)) = Uses(heap, dlg)
  BY DEF ShownIsBuilt
<1>2. \A u \in Urls : dlg[u] = cfg[u] \/ (dlg[u] = 0 /\ u \in Defaults)
  BY <1>1 DEF ExecInv, ShownTogether
<1>3. \A u \in Urls : Loaded[u] = cfg[u] \/ (cfg[u] = 0 /\ u \in Defaults)
  BY LoadedList DEF ExecInv
<1>4. \A u \in Urls : IF dlg[u] # 0 THEN Loaded[u] = dlg[u] ELSE Loaded[u] # 0 => u \in Defaults
  BY <1>2, <1>3
<1> QED BY <1>4, SameUses

LEMMA ShownSurvivesHolds ==
    ASSUME ExecInv
    PROVE  ShownSurvives
<1> DEFINE again == Started(disk)
<1>1. SUFFICES ASSUME open, shown, ~loose, Pristine
               PROVE  Kept(Uses(again.heap, again.list)) = Uses(heap, dlg)
  BY DEF ShownSurvives
<1>2. \A u \in Urls : dlg[u] = cfg[u] \/ (dlg[u] = 0 /\ u \in Defaults)
  BY <1>1 DEF ExecInv, ShownTogether
<1>3. /\ \A u \in Urls :
            IF cfg[u] = 0 THEN Stored(u) = Free
            ELSE \/ Stored(u) # Free /\ heap[cfg[u]] \in {Stored(u), Cleaned(Stored(u))}
                 \/ Stored(u) = Free /\ u \in Defaults /\ cfg[u] = shipped[u]
      /\ disk = Unwritten => \A u \in Defaults : heap[shipped[u]] = Factory
  BY <1>1 DEF ExecInv, Synced
<1>4. disk \in FileTypes
  BY DEF ExecInv, RestTypes
<1>5. \A u \in Urls :
         /\ Stored(u) # Free => again.list[u] # 0 /\ again.heap[again.list[u]] = Cleaned(Stored(u))
         /\ Stored(u) = Free /\ u \in Defaults => again.list[u] = again.ours[u]
         /\ Stored(u) = Free /\ u \notin Defaults => again.list[u] = 0
  BY <1>4, StartedList DEF Stored
<1>6. In(again.ours) = Defaults /\ \A u \in Defaults : again.heap[again.ours[u]] = Factory
  BY <1>4, StartedList
<1>7. \A u \in Defaults : Stored(u) = Free => heap[shipped[u]] = Factory
  BY <1>1, <1>3 DEF Stored, Pristine
<1>8. \A u \in Urls : Stored(u) # Free => Stored(u) \in Entries
  BY <1>4 DEF Stored, FileTypes
<1> HIDE DEF again
<1>9. ASSUME NEW u \in Urls, dlg[u] # 0
      PROVE  /\ again.list[u] # 0
             /\ Used(again.heap[again.list[u]]) <=> Used(heap[dlg[u]])
             /\ Used(heap[dlg[u]]) => again.heap[again.list[u]].addr = heap[dlg[u]].addr
  <2>1. cfg[u] = dlg[u] /\ cfg[u] # 0
    BY <1>2, <1>9
  <2>2. CASE Stored(u) # Free
    <3>1. Stored(u) \in Entries /\ heap[dlg[u]] \in {Stored(u), Cleaned(Stored(u))}
      BY <1>3, <1>8, <2>1, <2>2
    <3>2. again.list[u] # 0 /\ again.heap[again.list[u]] = Cleaned(Stored(u))
      BY <1>5, <2>2
    <3>3. (Used(Cleaned(Stored(u))) <=> Used(Stored(u)))
             /\ (Used(Stored(u)) => Cleaned(Stored(u)) = Stored(u))
      BY <3>1, CleanedUse
    <3> QED BY <3>1, <3>2, <3>3
  <2>3. CASE Stored(u) = Free
    <3>1. u \in Defaults /\ cfg[u] = shipped[u]
      BY <1>3, <2>1, <2>3
    <3>2. heap[dlg[u]] = Factory
      BY <1>7, <2>1, <2>3, <3>1
    <3>3. again.list[u] # 0 /\ again.heap[again.list[u]] = Factory
      BY <1>5, <1>6, <2>3, <3>1 DEF In
    <3> QED BY <3>2, <3>3
  <2> QED BY <2>2, <2>3
<1>10. ASSUME NEW u \in Urls, dlg[u] = 0, again.list[u] # 0 PROVE u \in Defaults
  <2>1. SUFFICES ASSUME u \notin Defaults PROVE FALSE
    OBVIOUS
  <2>2. cfg[u] = 0
    BY <1>2, <1>10, <2>1
  <2>3. Stored(u) = Free
    BY <1>3, <2>2
  <2> QED BY <1>5, <1>10, <2>1, <2>3
<1> QED BY <1>9, <1>10, SameUses

\* What the owner sees is what the plugin pays, now and after a crash: while a
\* list is open beside which nobody changed the configuration, the next build
\* takes the executors it shows at the addresses it shows, and Electrum
\* started again would (get_willexecutors, save_willexecutors, the edits of
\* the list dialog).
THEOREM ShownIsAlwaysTrue == Spec => []ShownIsTrue
<1>1. ExecInv => ShownIsTrue
  BY ShownIsBuiltHolds, ShownSurvivesHolds DEF ShownIsTrue, ExecInv
<1> QED BY <1>1, ExecInvAlways, PTL

----------------------------------------------------------------------------
(* Downloads and the automatic selection *)

\* An entry made of an old one stays selected, is newly selected only by the
\* list server, and keeps its address unless that is none.
LEMMA ServerKeeps ==
    ASSUME NEW old \in Entries \cup {Free}, NEW u, NEW set
    PROVE  /\ FromServer(old, u \in set).sel <=> old.sel \/ u \in set
           /\ old # Free => FromServer(old, u \in set).addr = old.addr \/ old.addr = "bad"
<1> DEFINE picked == u \in set
<1> SUFFICES /\ FromServer(old, picked).sel <=> old.sel \/ picked
             /\ old # Free => FromServer(old, picked).addr = old.addr \/ old.addr = "bad"
  OBVIOUS
<1>0. picked \in BOOLEAN
  OBVIOUS
<1> HIDE DEF picked
<1>1. CASE old = Free
  BY <1>0, <1>1 DEF FromServer, Free
<1>2. CASE old # Free
  <2>1. old \in Entries
    BY <1>2
  <2>2. FromServer(old, picked).sel = (old.sel \/ picked)
    BY <1>0, <1>2, <2>1 DEF FromServer, Entries
  <2>3. FromServer(old, picked).addr = old.addr \/ old.addr = "bad"
    BY <1>2, <2>1 DEF FromServer, Entries
  <2> QED BY <2>2, <2>3
<1> QED BY <1>1, <1>2

\* A download that nothing else came between deselects no executor, moves none
\* that the window knew from its address, and selects none but those that the
\* list server itself says are selected (download_list,
\* initialize_willexecutor, the wizard's download page).
THEOREM DownloadsKeepChoice == Spec => DownloadKeepsChoice
<1> DEFINE ChoiceKept ==
      (ApplyList \/ ApplyWizard) /\ net.alone /\ net.modal =>
        \A u \in Urls :
            LET old == Old(heap, win, u)
                new == Old(heap', win', u)
            IN  /\ new.sel <=> old.sel \/ u \in net.picked
                /\ old # Free => new.addr = old.addr \/ old.addr = "bad"
<1>1. ExecInv /\ [Next]_vars => [ChoiceKept]_vars
  <2> SUFFICES ASSUME ExecInv, ApplyList \/ ApplyWizard, net.alone, net.modal, NEW u \in Urls
               PROVE  /\ Old(heap', win', u).sel <=> Old(heap, win, u).sel \/ u \in net.picked
                      /\ Old(heap, win, u) # Free =>
                            \/ Old(heap', win', u).addr = Old(heap, win, u).addr
                            \/ Old(heap, win, u).addr = "bad"
    OBVIOUS
  <2>1. TypeOK /\ NetTypes /\ DownloadAlone
    BY DEF ExecInv
  <2>2. /\ net.kind \in Downloads /\ net.answered
        /\ win' = Updated(win, net.list) /\ Heap(heap)
    BY DEF ApplyList, ApplyWizard, Downloads
  <2>3. /\ win' \in Lists
        /\ \A v \in Urls : win'[v] = IF net.list[v] # 0 THEN net.list[v] ELSE win[v]
    BY <2>1, <2>2, UpdatedList DEF TypeOK
  <2>4. /\ net.picked \subseteq In(net.list)
        /\ \A v \in In(net.list) :
              heap[net.list[v]] = FromServer(Old(heap, win, v), v \in net.picked)
    BY <2>1, <2>2 DEF DownloadAlone
  <2>5. win'[u] # 0 => heap'[win'[u]] = heap[win'[u]]
    <3>1. SUFFICES ASSUME win'[u] # 0 PROVE heap'[win'[u]] = heap[win'[u]]
      OBVIOUS
    <3>2. win'[u] \in Cells /\ win'[u] \in Live'
      BY <2>3, <3>1 DEF Lists, Live, CellsOf, In
    <3> QED BY <2>2, <3>2 DEF Heap
  <2>6. Old(heap, win, u) \in Entries \cup {Free}
    BY <2>1, LiveCells DEF Old, In, TypeOK
  <2>7. CASE net.list[u] # 0
    <3>1. Old(heap', win', u) = FromServer(Old(heap, win, u), u \in net.picked)
      BY <2>3, <2>4, <2>5, <2>7 DEF Old, In
    <3>2. /\ FromServer(Old(heap, win, u), u \in net.picked).sel
               <=> Old(heap, win, u).sel \/ u \in net.picked
          /\ Old(heap, win, u) # Free =>
               \/ FromServer(Old(heap, win, u), u \in net.picked).addr = Old(heap, win, u).addr
               \/ Old(heap, win, u).addr = "bad"
      BY <2>6, ServerKeeps
    <3> QED BY <3>1, <3>2
  <2>8. CASE net.list[u] = 0
    <3>1. u \notin net.picked
      BY <2>4, <2>8 DEF In
    <3>2. Old(heap', win', u) = Old(heap, win, u)
      BY <2>3, <2>5, <2>8 DEF Old, In
    <3> QED BY <3>1, <3>2
  <2> QED BY <2>7, <2>8
<1> QED BY <1>1, ExecInvAlways, PTL DEF Spec, DownloadKeepsChoice

\* "Automatically download and select": when no rebuild or command came
\* between, and no two servers have one entry, exactly the servers that
\* answered are selected (ping_on_done of the wizard).
THEOREM AutoSelectionIsExact == Spec => AutoSelectsAnswered
<1> DEFINE Exact ==
      ApplyWizardPing /\ net.kind = "autoping" /\ net.alone /\ Once(win) =>
        \A u \in In(win') : heap'[win'[u]].sel <=> u \in net.heard
<1>1. ExecInv /\ [Next]_vars => [Exact]_vars
  <2> SUFFICES ASSUME ExecInv, ApplyWizardPing, net.kind = "autoping", net.alone, Once(win),
                      NEW u \in Urls, win'[u] # 0
               PROVE  heap'[win'[u]].sel <=> u \in net.heard
    BY DEF In
  <2> DEFINE answered == {c \in Live : heap[c].up}
  <2>1. /\ TypeOK /\ NetTypes /\ PingAlone
    BY DEF ExecInv
  <2>2. /\ net.answered /\ win' = win
        /\ Heap(Selected(heap, win, In(win), answered))
    BY DEF ApplyWizardPing
  <2>3. win[u] # 0 /\ win[u] \in Cells /\ win[u] \in Live
    BY <2>1, <2>2, LiveCells DEF TypeOK, Lists
  <2>4. win[u] \in Live'
    BY <2>2, <2>3 DEF Live, CellsOf, In
  <2>5. \A v \in In(win) : heap[win[v]] \in Entries
    BY <2>1, LiveCells DEF TypeOK, In
  <2>6. win[u] \in answered <=> heap[win[u]].up
    BY <2>3
  <2> HIDE DEF answered
  <2>7. Selected(heap, win, In(win), answered)[win[u]].sel = (win[u] \in answered)
    BY <2>1, <2>3, <2>5, SelectedHeap DEF TypeOK, In
  <2>8. heap'[win'[u]].sel = (win[u] \in answered)
    BY <2>2, <2>3, <2>4, <2>7 DEF Heap
  <2>9. heap[win[u]].up <=> \E v \in net.heard : win[v] = win[u]
    BY <2>1, <2>2, <2>3 DEF PingAlone, In
  <2>10. (\E v \in net.heard : win[v] = win[u]) <=> u \in net.heard
    BY <2>1, <2>3 DEF NetTypes, Once, In
  <2> QED BY <2>6, <2>8, <2>9, <2>10
<1> QED BY <1>1, ExecInvAlways, PTL DEF Spec, AutoSelectsAnswered

----------------------------------------------------------------------------
(* No entry under two URLs *)

LEMMA UnsharedAfter ==
    ASSUME Once(cfg'), Once(win'), Once(dlg'), Once(net'.list)
    PROVE  Unshared'
BY DEF Unshared, Once, In

\* A list that has fewer entries than another.
LEMMA FewerOnce ==
    ASSUME NEW a \in Lists, NEW b \in Lists, Once(a), \A u \in Urls : b[u] \in {0, a[u]}
    PROVE  Once(b)
BY DEF Once, In

\* A list that is completed with another, of entries that are not its own.
LEMMA UpdatedOnce ==
    ASSUME NEW a \in Lists, NEW b \in Lists, Once(a), Once(b),
           \A u, v \in Urls : b[v] # 0 => a[u] # b[v]
    PROVE  Once(Updated(a, b))
<1>1. \A u \in Urls : Updated(a, b)[u] = IF b[u] # 0 THEN b[u] ELSE a[u]
  BY UpdatedList
<1>2. \A u, v \in Urls : a[u] # 0 /\ a[u] = a[v] => u = v
  BY DEF Once, In
<1>3. \A u, v \in Urls : b[u] # 0 /\ b[u] = b[v] => u = v
  BY DEF Once, In
<1> DEFINE new == Updated(a, b)
<1> HIDE DEF new
<1>4. ASSUME NEW u \in Urls, NEW v \in Urls, new[u] # 0, new[u] = new[v] PROVE u = v
  BY <1>1, <1>2, <1>3, <1>4 DEF new
<1> QED BY <1>4 DEF Once, In, new

\* New entries are nobody's.
LEMMA NewOnce ==
    ASSUME TypeOK, NEW urls \in SUBSET Urls, Fits(urls), NEW list \in Lists, Once(list),
           \A u \in Urls : list[u] # 0 => list[u] \in Live
    PROVE  Once(Updated(list, NewList(urls)))
<1>1. /\ NewList(urls) \in Lists /\ Once(NewList(urls))
      /\ \A u \in Urls : NewList(urls)[u] # 0 => NewList(urls)[u] \notin Live
  BY NewCells
<1>2. \A u, v \in Urls : NewList(urls)[v] # 0 => list[u] # NewList(urls)[v]
  BY <1>1
<1> QED BY <1>1, <1>2, UpdatedOnce

\* An entry that goes from one URL to another, whoever had that.
LEMMA RenamedOnce ==
    ASSUME NEW list \in Lists, Once(list), NEW u \in Urls, NEW v \in Urls, u # v, NEW new,
           new = [list EXCEPT ![v] = list[u], ![u] = 0]
    PROVE  Once(new)
<1>1. \A w \in Urls : new[w] = IF w = u THEN 0 ELSE IF w = v THEN list[u] ELSE list[w]
  BY DEF Lists
<1>2. \A w, x \in Urls : list[w] # 0 /\ list[w] = list[x] => w = x
  BY DEF Once, In
<1>3. ASSUME NEW w \in Urls, NEW x \in Urls, new[w] # 0, new[w] = new[x] PROVE w = x
  BY <1>1, <1>2, <1>3
<1> QED BY <1>3 DEF Once, In

\* Loading puts back an entry that no other URL has.
LEMMA LoadedOnce ==
    ASSUME ExecInv, Unshared, InPlace
    PROVE  Once(Loaded) /\ Loaded \in Lists /\ \A u \in Urls : Loaded[u] # 0 => Loaded[u] \in Live
<1>1. /\ Loaded \in Lists
      /\ \A u \in Urls :
            \/ Loaded[u] = cfg[u]
            \/ cfg[u] = 0 /\ u \in Defaults /\ ~first /\ Loaded[u] = shipped[u]
  BY LoadedList DEF ExecInv
<1>2. Once(cfg) /\ Once(shipped) /\ In(shipped) = Defaults
  BY DEF ExecInv, Unshared, ShippedWhole
<1>3. \A u, v \in Urls : cfg[u] # 0 /\ shipped[v] # 0 /\ cfg[u] = shipped[v] => u = v
  BY DEF InPlace, In
<1>4. \A u, v \in Urls : cfg[u] # 0 /\ cfg[u] = cfg[v] => u = v
  BY <1>2 DEF Once, In
<1>5. \A u, v \in Urls : shipped[u] # 0 /\ shipped[u] = shipped[v] => u = v
  BY <1>2 DEF Once, In
<1>6. ASSUME NEW u \in Urls, NEW v \in Urls, Loaded[u] # 0, Loaded[u] = Loaded[v] PROVE u = v
  BY <1>1, <1>3, <1>4, <1>5, <1>6
<1>7. Once(Loaded)
  BY <1>6 DEF Once, In
<1>8. \A u \in Urls : Loaded[u] # 0 => Loaded[u] \in Live
  BY <1>1, LiveCells
<1> QED BY <1>1, <1>7, <1>8

LEMMA IdleOnce == Once(Idle.list) /\ Once(NoList)
BY IdleNet DEF Once, In

LEMMA SavedUnshared ==
    ASSUME Unshared, NEW h, NEW list, Saved(h, list), Once(list), net' = net \/ net' = Idle
    PROVE  Unshared'
<1>1. dlg' = list /\ cfg' = list /\ win' = win
  BY DEF Saved
<1>2. Once(win) /\ Once(net'.list)
  BY IdleOnce DEF Unshared
<1> QED BY <1>1, <1>2, UnsharedAfter

LEMMA CommandUnshared ==
    ASSUME ExecInv, Unshared, InPlace, NEW h, NEW list, Command(h, list), Once(list)
    PROVE  Unshared'
<1>1. /\ cfg' = list /\ win' \in {Loaded, win} /\ dlg' \in {Loaded, dlg}
      /\ net'.list = net.list
  BY DEF Command, Seen, ExecInv, NetTypes
<1>2. Once(Loaded) /\ Once(win) /\ Once(dlg) /\ Once(net.list)
  BY LoadedOnce DEF Unshared
<1>3. Once(cfg') /\ Once(win') /\ Once(dlg') /\ Once(net'.list)
  BY <1>1, <1>2
<1> QED BY <1>3, UnsharedAfter

\* The session that begins.
LEMMA RestartUnshared ==
    ASSUME ExecInv, Restart
    PROVE  Unshared'
<1>1. disk \in FileTypes
  BY DEF ExecInv, RestTypes
<1>2. Once(Started(disk).list)
  BY <1>1, StartedList
<1>3. cfg' = Started(disk).list /\ win' = Started(disk).list /\ dlg' = NoList /\ net' = Idle
  BY DEF Restart
<1> QED BY <1>2, <1>3, IdleOnce, UnsharedAfter

\* The steps that load, but for the commands.
LEMMA LoadUnshared ==
    ASSUME ExecInv, Unshared, InPlace,
           Refresh \/ Open \/ (\E auto \in BOOLEAN : WizardNext(auto))
    PROVE  Unshared'
<1>1. Once(Loaded) /\ Once(win) /\ Once(dlg) /\ Once(net.list)
  BY LoadedOnce DEF Unshared
<1>2. CASE Refresh
  <2>1. cfg' = Loaded /\ win' = Loaded /\ dlg' \in {Loaded, dlg} /\ net'.list = net.list
    BY <1>2 DEF Refresh, Load, Seen, ExecInv, NetTypes
  <2>2. Once(cfg') /\ Once(win') /\ Once(dlg') /\ Once(net'.list)
    BY <1>1, <2>1
  <2> QED BY <2>2, UnsharedAfter
<1>3. CASE Open
  <2>1. cfg' = Loaded /\ dlg' = Loaded /\ win' \in {Loaded, win} /\ net' = net
    BY <1>3 DEF Open, Load, Seen
  <2>2. Once(cfg') /\ Once(win') /\ Once(dlg') /\ Once(net'.list)
    BY <1>1, <2>1
  <2> QED BY <2>2, UnsharedAfter
<1>4. ASSUME NEW auto \in BOOLEAN, WizardNext(auto) PROVE Unshared'
  <2>1. cfg' = Loaded /\ win' = Loaded /\ dlg' = dlg /\ net'.list = Loaded
    BY <1>4 DEF WizardNext, Load, Asked
  <2>2. Once(cfg') /\ Once(win') /\ Once(dlg') /\ Once(net'.list)
    BY <1>1, <2>1
  <2> QED BY <2>2, UnsharedAfter
<1> QED BY <1>2, <1>3, <1>4

\* The steps that change no list, or leave one out.
LEMMA QuietUnshared ==
    ASSUME ExecInv, Unshared,
           \/ Dismiss \/ Close \/ OtherSetting \/ AskList \/ FailList
           \/ \E u \in Urls : AskSync(u)
           \/ \E urls \in SUBSET Urls : AskPing(urls)
           \/ \E ok \in BOOLEAN : AnswerSync(ok)
    PROVE  Unshared'
<1>1. Once(cfg) /\ Once(win) /\ Once(dlg) /\ Once(net.list)
  BY DEF Unshared
<1>2. TypeOK /\ NetTypes
  BY DEF ExecInv
<1>3. ASSUME NEW urls PROVE Once(Only(dlg, urls))
  <2>1. dlg \in Lists
    BY <1>2 DEF TypeOK
  <2>2. Only(dlg, urls) \in Lists /\ \A u \in Urls : Only(dlg, urls)[u] \in {0, dlg[u]}
    BY <2>1, OnlySome
  <2> QED BY <1>1, <2>1, <2>2, FewerOnce
<1>4. CASE Dismiss \/ Close \/ OtherSetting \/ FailList \/ \E ok \in BOOLEAN : AnswerSync(ok)
  <2>1. cfg' = cfg /\ win' = win /\ dlg' \in {dlg, NoList} /\ net'.list \in {net.list, Idle.list}
    BY <1>2, <1>4
       DEF Dismiss, Close, OtherSetting, FailList, AnswerSync, NetTypes
  <2>2. Once(cfg') /\ Once(win') /\ Once(dlg') /\ Once(net'.list)
    BY <1>1, <2>1, IdleOnce
  <2> QED BY <2>2, UnsharedAfter
<1>5. CASE AskList
  <2>1. cfg' = cfg /\ win' = win /\ dlg' = dlg /\ net'.list = win
    BY <1>5 DEF AskList, Asked
  <2> QED BY <1>1, <2>1, UnsharedAfter
<1>6. ASSUME NEW u \in Urls, AskSync(u) PROVE Unshared'
  <2>1. cfg' = cfg /\ win' = win /\ dlg' = dlg /\ net'.list = Only(dlg, {u})
    BY <1>6 DEF AskSync, Asked
  <2>2. Once(net'.list)
    BY <1>3, <2>1
  <2> QED BY <1>1, <2>1, <2>2, UnsharedAfter
<1>7. ASSUME NEW urls \in SUBSET Urls, AskPing(urls) PROVE Unshared'
  <2>1. cfg' = cfg /\ win' = win /\ dlg' = dlg /\ net'.list = Only(dlg, urls)
    BY <1>7 DEF AskPing, Asked
  <2>2. Once(net'.list)
    BY <1>3, <2>1
  <2> QED BY <1>1, <2>1, <2>2, UnsharedAfter
<1> QED BY <1>4, <1>5, <1>6, <1>7

\* The edits of the open list.
LEMMA EditUnshared ==
    ASSUME ExecInv, Unshared,
           \/ \E u \in Urls, on \in BOOLEAN : Select(u, on)
           \/ \E on, onlyValid \in BOOLEAN : SelectAll(on, onlyValid)
           \/ \E u \in Urls, addr \in {"none", "bad", "own"} : EditAddress(u, addr) \/ Add(u, addr)
           \/ \E u \in Urls : Delete(u)
           \/ \E u, v \in Urls, addr \in {"bad", "own"} : Edit(u, v, addr)
           \/ ApplyPing
    PROVE  Unshared'
<1>1. TypeOK /\ dlg \in Lists /\ Once(dlg) /\ \A u \in Urls : dlg[u] # 0 => dlg[u] \in Live
  BY LiveCells DEF ExecInv, TypeOK, Unshared
<1>2. ASSUME NEW h, Saved(h, dlg), net' = net \/ net' = Idle PROVE Unshared'
  BY <1>1, <1>2, SavedUnshared
<1>3. ASSUME NEW u \in Urls, NEW on \in BOOLEAN, Select(u, on) PROVE Unshared'
  BY <1>2, <1>3 DEF Select
<1>4. ASSUME NEW on \in BOOLEAN, NEW onlyValid \in BOOLEAN, SelectAll(on, onlyValid)
      PROVE  Unshared'
  BY <1>2, <1>4 DEF SelectAll
<1>5. ASSUME NEW u \in Urls, NEW addr \in {"none", "bad", "own"}, EditAddress(u, addr)
      PROVE  Unshared'
  BY <1>2, <1>5 DEF EditAddress
<1>6. ASSUME NEW u \in Urls, NEW addr \in {"none", "bad", "own"}, Add(u, addr) PROVE Unshared'
  <2> DEFINE list == Updated(dlg, NewList({u}))
  <2> DEFINE urls == {u}
  <2>1. urls \in SUBSET Urls /\ Fits(urls)
    BY <1>6 DEF Add
  <2> HIDE DEF urls
  <2>2. Once(Updated(dlg, NewList(urls)))
    BY <1>1, <2>1, NewOnce
  <2>3. Once(list)
    BY <2>2 DEF urls
  <2>4. PICK h : Saved(h, list) /\ net' = net
    BY <1>6 DEF Add
  <2> HIDE DEF list
  <2> QED BY <2>3, <2>4, SavedUnshared
<1>7. ASSUME NEW u \in Urls, Delete(u) PROVE Unshared'
  <2> DEFINE list == [dlg EXCEPT ![u] = 0]
  <2>1. list \in Lists /\ \A v \in Urls : list[v] \in {0, dlg[v]}
    BY <1>1 DEF Lists
  <2>2. Saved(heap, list) /\ net' = net
    BY <1>7 DEF Delete
  <2> HIDE DEF list
  <2>3. Once(list)
    BY <1>1, <2>1, FewerOnce
  <2> QED BY <2>2, <2>3, SavedUnshared
<1>8. ASSUME NEW u \in Urls, NEW v \in Urls, NEW addr \in {"bad", "own"}, Edit(u, v, addr)
      PROVE  Unshared'
  <2>1. CASE v = u
    BY <1>2, <1>8, <2>1 DEF Edit
  <2>2. CASE v # u
    <3> DEFINE list == [dlg EXCEPT ![v] = dlg[u], ![u] = 0]
    <3>1. PICK h : Saved(h, list) /\ net' = net
      BY <1>8, <2>2 DEF Edit
    <3>2. list = [dlg EXCEPT ![v] = dlg[u], ![u] = 0]
      OBVIOUS
    <3> HIDE DEF list
    <3>3. Once(list)
      BY <1>1, <2>2, <3>2, RenamedOnce
    <3> QED BY <3>1, <3>3, SavedUnshared
  <2> QED BY <2>1, <2>2
<1>9. CASE ApplyPing
  BY <1>2, <1>9 DEF ApplyPing
<1> QED BY <1>3, <1>4, <1>5, <1>6, <1>7, <1>8, <1>9

\* The imports.
LEMMA ImportUnshared ==
    ASSUME ExecInv, Unshared, NEW urls \in SUBSET Urls, Import(urls)
    PROVE  Unshared'
<1>1. TypeOK /\ dlg \in Lists /\ Once(dlg) /\ \A u \in Urls : dlg[u] # 0 => dlg[u] \in Live
  BY LiveCells DEF ExecInv, TypeOK, Unshared
<1>2. Once(Updated(dlg, NewList(urls)))
  BY <1>1, NewOnce DEF Import
<1>3. dlg' = Updated(dlg, NewList(urls)) /\ cfg' \in {dlg', cfg} /\ win' = win /\ net' = net
  BY DEF Import
<1>4. Once(cfg') /\ Once(win') /\ Once(dlg') /\ Once(net'.list)
  BY <1>2, <1>3 DEF Unshared
<1> QED BY <1>4, UnsharedAfter

LEMMA WizardImportUnshared ==
    ASSUME ExecInv, Unshared, InPlace, NEW urls \in SUBSET Urls, WizardImport(urls)
    PROVE  Unshared'
<1>1. TypeOK /\ NetTypes
  BY DEF ExecInv
<1>2. Once(Updated(Loaded, NewList(urls)))
  BY <1>1, LoadedOnce, NewOnce DEF WizardImport
<1>3. /\ win' = Updated(Loaded, NewList(urls)) /\ cfg' = Updated(Loaded, NewList(urls))
      /\ dlg' = dlg /\ net'.list = net.list
  BY <1>1 DEF WizardImport, NetTypes
<1>4. Once(cfg') /\ Once(win') /\ Once(dlg') /\ Once(net'.list)
  BY <1>2, <1>3 DEF Unshared
<1> QED BY <1>4, UnsharedAfter

\* The answers.  A "Ping all" whose window waits puts back what is there.
LEMMA AnswerUnshared ==
    ASSUME ExecInv, Unshared, ~(net.kind = "pingall" /\ ~net.modal),
           \/ \E urls \in SUBSET Urls : AnswerPing(urls)
           \/ \E urls \in SUBSET Urls, picked \in SUBSET Urls : AnswerList(urls, picked)
           \/ ApplyList \/ ApplyWizard \/ ApplyWizardPing
    PROVE  Unshared'
<1>1. Once(cfg) /\ Once(win) /\ Once(dlg) /\ Once(net.list)
  BY DEF Unshared
<1>2. /\ TypeOK /\ NetTypes
      /\ cfg \in Lists /\ win \in Lists /\ dlg \in Lists /\ net.list \in Lists
  BY DEF ExecInv, TypeOK
<1>3. ASSUME NEW urls \in SUBSET Urls, NEW picked \in SUBSET Urls, AnswerList(urls, picked)
      PROVE  Unshared'
  <2>1. cfg' = cfg /\ win' = win /\ dlg' = dlg /\ net'.list = NewList(urls)
    BY <1>2, <1>3 DEF AnswerList, NetTypes
  <2>2. Fits(urls)
    BY <1>3 DEF AnswerList
  <2>3. Once(NewList(urls))
    BY <1>2, <2>2, NewCells
  <2>4. Once(net'.list)
    BY <2>1, <2>3
  <2> QED BY <1>1, <2>1, <2>4, UnsharedAfter
<1>4. ASSUME NEW urls \in SUBSET Urls, AnswerPing(urls) PROVE Unshared'
  <2>1. cfg' \in {dlg', cfg} /\ win' = win /\ net'.list = net.list
    BY <1>2, <1>4 DEF AnswerPing, NetTypes
  <2>2. dlg' = dlg
    <3>1. CASE net.kind = "pingall"
      <4>1. \A u \in Urls : net.list[u] # 0 => dlg[u] = net.list[u]
        BY <1>2, <3>1 DEF ExecInv, PingsTheList, In, NetTypes
      <4>2. dlg' = Updated(dlg, net.list)
        BY <1>4, <3>1 DEF AnswerPing
      <4>3. dlg' \in Lists /\ \A u \in Urls : dlg'[u] = dlg[u]
        BY <1>2, <4>1, <4>2, UpdatedList
      <4> QED BY <1>2, <4>3 DEF Lists
    <3>2. CASE net.kind # "pingall"
      BY <1>4, <3>2 DEF AnswerPing
    <3> QED BY <3>1, <3>2
  <2>3. Once(cfg') /\ Once(win') /\ Once(dlg') /\ Once(net'.list)
    BY <1>1, <2>1, <2>2
  <2> QED BY <2>3, UnsharedAfter
<1>5. ASSUME NEW list \in Lists, Once(list), list \in {win, dlg}, net.kind \in Downloads,
             net.answered
      PROVE  Once(Updated(list, net.list))
  <2>1. CellsOf(net.list) \cap CellsOf(list) = {}
    BY <1>5 DEF ExecInv, AnswerApart
  <2>2. \A u, v \in Urls : net.list[v] # 0 => list[u] # net.list[v]
    BY <1>2, <1>5, <2>1, CellsApart
  <2> QED BY <1>1, <1>2, <1>5, <2>2, UpdatedOnce
<1>6. CASE ApplyList
  <2>1. /\ win' = Updated(win, net.list) /\ dlg' = Updated(dlg, net.list)
        /\ cfg' = dlg' /\ net' = Idle /\ net.kind \in Downloads /\ net.answered
    BY <1>6 DEF ApplyList, Downloads
  <2>2. Once(win') /\ Once(dlg')
    BY <1>1, <1>2, <1>5, <2>1
  <2> QED BY <2>1, <2>2, IdleOnce, UnsharedAfter
<1>7. CASE ApplyWizard
  <2>1. /\ win' = Updated(win, net.list) /\ dlg' = dlg /\ cfg' \in {win', cfg}
        /\ net'.list = win' /\ net.kind \in Downloads /\ net.answered
    BY <1>7 DEF ApplyWizard, Asked, Downloads
  <2>2. Once(win')
    BY <1>1, <1>2, <1>5, <2>1
  <2>3. Once(cfg') /\ Once(dlg') /\ Once(net'.list)
    BY <1>1, <2>1, <2>2
  <2> QED BY <2>2, <2>3, UnsharedAfter
<1>8. CASE ApplyWizardPing
  <2>1. cfg' = win /\ win' = win /\ dlg' = dlg /\ net' = Idle
    BY <1>8 DEF ApplyWizardPing
  <2> QED BY <1>1, <2>1, IdleOnce, UnsharedAfter
<1> QED BY <1>3, <1>4, <1>6, <1>7, <1>8

\* The commands.
LEMMA CommandsUnshared ==
    ASSUME ExecInv, Unshared, InPlace,
           \/ \E u \in Urls : CmdDelete(u)
           \/ \E u, v \in Urls, addr \in {"none", "own"} : CmdUpdate(u, v, addr)
           \/ \E u \in Urls, addr \in {"none", "own"} : CmdAdd(u, addr)
           \/ \E urls \in SUBSET Urls : CmdImport(urls) \/ CmdPing(urls)
           \/ \E urls \in SUBSET Urls, picked \in SUBSET Urls : CmdDownload(urls, picked)
           \/ \E urls \in SUBSET Urls, on \in BOOLEAN : CmdSelect(urls, on)
    PROVE  Unshared'
<1>1. /\ TypeOK /\ Once(Loaded) /\ Loaded \in Lists
      /\ \A u \in Urls : Loaded[u] # 0 => Loaded[u] \in Live
  BY LoadedOnce DEF ExecInv
<1>2. ASSUME NEW h, Command(h, Loaded) PROVE Unshared'
  BY <1>1, <1>2, CommandUnshared
<1>3. ASSUME NEW h, NEW urls \in SUBSET Urls, Fits(urls),
             Command(h, Updated(Loaded, NewList(urls)))
      PROVE  Unshared'
  <2> DEFINE list == Updated(Loaded, NewList(urls))
  <2>1. Once(list)
    BY <1>1, <1>3, NewOnce
  <2>2. Command(h, list)
    BY <1>3
  <2> HIDE DEF list
  <2> QED BY <2>1, <2>2, CommandUnshared
<1>4. ASSUME NEW u \in Urls, CmdDelete(u) PROVE Unshared'
  <2> DEFINE list == [Loaded EXCEPT ![u] = 0]
  <2>1. list \in Lists /\ \A v \in Urls : list[v] \in {0, Loaded[v]}
    BY <1>1 DEF Lists
  <2>2. Command(Checked(heap), list)
    BY <1>4 DEF CmdDelete
  <2> HIDE DEF list
  <2>3. Once(list)
    BY <1>1, <2>1, FewerOnce
  <2> QED BY <2>2, <2>3, CommandUnshared
<1>5. ASSUME NEW u \in Urls, NEW v \in Urls, NEW addr \in {"none", "own"}, CmdUpdate(u, v, addr)
      PROVE  Unshared'
  <2>1. CASE v = u
    BY <1>2, <1>5, <2>1 DEF CmdUpdate
  <2>2. CASE v # u
    <3> DEFINE list == [Loaded EXCEPT ![v] = Loaded[u], ![u] = 0]
    <3>1. PICK h : Command(h, list)
      BY <1>5, <2>2 DEF CmdUpdate
    <3>2. list = [Loaded EXCEPT ![v] = Loaded[u], ![u] = 0]
      OBVIOUS
    <3> HIDE DEF list
    <3>3. Once(list)
      BY <1>1, <2>2, <3>2, RenamedOnce
    <3> QED BY <3>1, <3>3, CommandUnshared
  <2> QED BY <2>1, <2>2
<1>6. ASSUME NEW u \in Urls, NEW addr \in {"none", "own"}, CmdAdd(u, addr) PROVE Unshared'
  <2> DEFINE urls == {u}
  <2>1. PICK h : Fits(urls) /\ Command(h, Updated(Loaded, NewList(urls)))
    BY <1>6 DEF CmdAdd
  <2>2. urls \in SUBSET Urls
    OBVIOUS
  <2> HIDE DEF urls
  <2> QED BY <1>3, <2>1, <2>2
<1>7. ASSUME NEW urls \in SUBSET Urls, NEW picked \in SUBSET Urls,
             CmdImport(urls) \/ CmdDownload(urls, picked)
      PROVE  Unshared'
  <2>1. PICK h : Fits(urls) /\ Command(h, Updated(Loaded, NewList(urls)))
    BY <1>7 DEF CmdImport, CmdDownload
  <2> QED BY <1>3, <2>1
<1>8. ASSUME NEW urls \in SUBSET Urls, CmdPing(urls) PROVE Unshared'
  BY <1>2, <1>8 DEF CmdPing
<1>9. ASSUME NEW urls \in SUBSET Urls, NEW on \in BOOLEAN, CmdSelect(urls, on) PROVE Unshared'
  BY <1>2, <1>9 DEF CmdSelect
<1> QED BY <1>4, <1>5, <1>6, <1>7, <1>8, <1>9

\* No step puts an entry in a list under two URLs, whatever is renamed,
\* imported, downloaded or put back (dict.update of the lists, the rename of
\* add and of willexecutors_update, the defaults of get_willexecutors): but
\* for a ping whose window was closed before it ended, and for a default
\* executor that was put back before and then renamed.
THEOREM EntriesStayUnshared == Spec => NoSharedEntry
<1> DEFINE Apart ==
      Unshared /\ InPlace /\ ~(net.kind = "pingall" /\ ~net.modal) => Unshared'
<1>1. ExecInv /\ [Next]_vars => [Apart]_vars
  <2> SUFFICES ASSUME ExecInv, Next, Unshared, InPlace, ~(net.kind = "pingall" /\ ~net.modal)
               PROVE  Unshared'
    OBVIOUS
  <2>1. CASE Restart
    BY <2>1, RestartUnshared
  <2>2. CASE \/ Refresh \/ Open \/ \E auto \in BOOLEAN : WizardNext(auto)
    BY <2>2, LoadUnshared
  <2>3. CASE \/ Dismiss \/ Close \/ OtherSetting \/ AskList \/ FailList
             \/ \E u \in Urls : AskSync(u)
             \/ \E urls \in SUBSET Urls : AskPing(urls)
             \/ \E ok \in BOOLEAN : AnswerSync(ok)
    BY <2>3, QuietUnshared
  <2>4. CASE \/ \E u \in Urls, on \in BOOLEAN : Select(u, on)
             \/ \E on, onlyValid \in BOOLEAN : SelectAll(on, onlyValid)
             \/ \E u \in Urls, addr \in {"none", "bad", "own"} :
                   EditAddress(u, addr) \/ Add(u, addr)
             \/ \E u \in Urls : Delete(u)
             \/ \E u, v \in Urls, addr \in {"bad", "own"} : Edit(u, v, addr)
             \/ ApplyPing
    BY <2>4, EditUnshared
  <2>5. CASE \E urls \in SUBSET Urls : Import(urls) \/ WizardImport(urls)
    BY <2>5, ImportUnshared, WizardImportUnshared
  <2>6. SUBSET Offered \subseteq SUBSET Urls
    BY ExecutorAssumption
  <2>7. CASE \/ \E urls \in SUBSET Urls : AnswerPing(urls)
             \/ \E urls, picked \in SUBSET Offered : AnswerList(urls, picked)
             \/ ApplyList \/ ApplyWizard \/ ApplyWizardPing
    BY <2>6, <2>7, AnswerUnshared
  <2>8. CASE \/ \E u \in Urls : CmdDelete(u)
             \/ \E u, v \in Urls, addr \in {"none", "own"} : CmdUpdate(u, v, addr)
             \/ \E u \in Urls, addr \in {"none", "own"} : CmdAdd(u, addr)
             \/ \E urls \in SUBSET Urls : CmdImport(urls) \/ CmdPing(urls)
             \/ \E urls, picked \in SUBSET Offered : CmdDownload(urls, picked)
             \/ \E urls \in SUBSET Urls, on \in BOOLEAN : CmdSelect(urls, on)
    BY <2>6, <2>8, CommandsUnshared
  <2> QED BY <2>1, <2>2, <2>3, <2>4, <2>5, <2>7, <2>8 DEF Next
<1> QED BY <1>1, ExecInvAlways, PTL DEF Spec, NoSharedEntry

=============================================================================
