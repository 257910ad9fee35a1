--------------------------- MODULE WillDatesProofs ---------------------------
(***************************************************************************)
(* What WillDates promises of the two dates, for any durations, days and   *)
(* edits: the widgets show what is stored, an unchanged will stays alive   *)
(* until its Check Alive date, the guard of Prepare agrees with the build, *)
(* the calendar is that of the built will, and in BASIC the stored dates   *)
(* stay where they are.                                                    *)
(***************************************************************************)
EXTENDS WillDates, TLAPS

WidgetRecords == [editor : {0, 1}, picked : BOOLEAN, value : Dates]
AlarmRecords == [locktime : Int, threshold : Int, of : [Fields -> Dates]]

(* Stored durations are longer than none, stored moments are midnights.    *)
StoredDate(v) == v \in Dates /\ IF IsRel(v) THEN v.n >= 1 ELSE v.n % OneDay = 0

StoredDates(s) == s \in [Fields -> Dates] /\ \A f \in Fields : StoredDate(s[f])

(* The widgets `ws` show the dates `s` to a user of type `m`.  An editor   *)
(* takes what it is given: wherever one takes moments, the tabs do too.    *)
Fits(ws) ==
  /\ DOMAIN ws \in {Tabs, Tabs \cup {"wizard"}}
  /\ ws \in [DOMAIN ws -> [Fields -> WidgetRecords]]
  /\ \A p \in DOMAIN ws, f \in Fields :
       /\ ws[p][f].editor = 1 <=> ~IsRel(ws[p][f].value)
       /\ p \in Tabs => ws[p][f].editor = ws["will"][f].editor
       /\ ws[p][f].editor = 1 => ws["will"][f].editor = 1

Show(ws, s, m) ==
  /\ Fits(ws)
  /\ \A p \in DOMAIN ws, f \in Fields :
       /\ ws[p][f].value = s[f] \/ (IsRel(s[f]) /\ ws[p][f].editor = 1)
       /\ m = "basic" => ws[p][f].editor = 1

WidgetsInv ==
  /\ today \in 1 .. MaxDay /\ mode \in {"basic", "advanced"} /\ edits \in 0 .. MaxEdits
  /\ StoredDates(settings)
  /\ Show(widgets, settings, mode)

(* The will that was built with the dates `s`, while nothing was changed:  *)
(* its locktime is the delivery that was asked for, or would still be      *)
(* before it, and not before the Check Alive date.                         *)
Kept(s, m) ==
  /\ built <= Delivery(s)
  /\ IF IsRel(s.locktime) THEN recipe = s.locktime ELSE built = s.locktime.n
  /\ (m = "advanced" /\ ~IsRel(s.threshold)) => s.threshold.n <= built

WillInv ==
  /\ built \in Nat /\ built % OneDay = 0 /\ recipe \in Dates
  /\ prepared \in [settings : [Fields -> Dates], mode : {"basic", "advanced", "none"}]
  /\ StoredDates(prepared.settings)
  /\ (built # NoWill /\ prepared.mode # "none") => Kept(prepared.settings, prepared.mode)

AliveOf(s, t) ==
  IF IsRel(s.threshold) THEN MidnightOf(t) - OneDay * s.threshold.n ELSE s.threshold.n

(* What was worked out of the dates the will was built with is right.      *)
Right(a) ==
  (built # NoWill /\ prepared.mode # "none" /\ a.of = prepared.settings) =>
    a.locktime = built /\ a.threshold = AliveOf(prepared.settings, built)

AlarmInv ==
  /\ alarm \in [DOMAIN widgets -> AlarmRecords]
  /\ OnlyRawIsBehind
  /\ \A p \in DOMAIN widgets : Right(alarm[p])
  /\ \/ calendar = NoCalendar
     \/ \E p \in DOMAIN widgets, count \in Reminders :
          /\ calendar = [from |-> p, events |-> Events(alarm[p], count)]
          /\ Events(alarm[p], count) # {}

DatesInv == WidgetsInv /\ WillInv /\ AlarmInv

-----------------------------------------------------------------------------
(* Moments.                                                                *)

LEMMA Midnights ==
  ASSUME NEW t \in Int
  PROVE  /\ MidnightOf(t) \in Int /\ MidnightOf(t) <= t /\ t < MidnightOf(t) + OneDay
         /\ MidnightOf(t) % OneDay = 0
         /\ t % OneDay = 0 => MidnightOf(t) = t
BY DEF MidnightOf, OneDay

LEMMA WholeDays ==
  ASSUME NEW t \in Int, NEW n \in Int
  PROVE  /\ MidnightOf(t + OneDay * n) = MidnightOf(t) + OneDay * n
         /\ MidnightOf(t - OneDay * n) = MidnightOf(t) - OneDay * n
         /\ OneDay * n \in Int /\ (OneDay * n) % OneDay = 0
         /\ t % OneDay = 0 => (t - OneDay) % OneDay = 0
BY DEF MidnightOf, OneDay

LEMMA MinOfTwo ==
  ASSUME NEW a \in Int, NEW b \in Int
  PROVE  Min({a, b}) = IF a <= b THEN a ELSE b
BY DEF Min

LEMMA ConstantTypes ==
  /\ \A f \in Fields : DefaultDays[f] \in Nat \ {0}
  /\ MaxDay \in Nat \ {0} /\ MaxEdits \in Nat
BY DatesAssumption DEF DatesAssumption

LEMMA NowType ==
  ASSUME today \in 1 .. MaxDay
  PROVE  today \in Nat /\ Now \in Nat /\ Now >= 3
BY ConstantTypes DEF Now, Midnight, OneDay

LEMMA DateFields ==
  ASSUME NEW n \in Int
  PROVE  /\ Rel(n) \in Dates /\ IsRel(Rel(n)) /\ Rel(n).n = n
         /\ Abs(n) \in Dates /\ ~IsRel(Abs(n)) /\ Abs(n).n = n
BY DEF Rel, Abs, IsRel, Dates

LEMMA DefaultStored ==
  ASSUME NEW f \in Fields, NEW editor \in {0, 1}, today \in 1 .. MaxDay
  PROVE  /\ StoredDate(Default(f, editor))
         /\ editor = 1 <=> ~IsRel(Default(f, editor))
<1> DEFINE d == DefaultDays[f]
<1>1. d \in Nat \ {0} /\ today \in Nat
  BY ConstantTypes, NowType
<1>2. Midnight(today + d) \in Int /\ Midnight(today + d) % OneDay = 0
  BY <1>1 DEF Midnight, OneDay
<1>3. QED
  BY <1>1, <1>2, DateFields DEF Default, StoredDate

LEMMA ToDateType ==
  ASSUME NEW v \in Dates, NEW from \in Int
  PROVE  /\ ToDate(v, from) \in Int /\ ToDateBack(v, from) \in Int
         /\ StoredDate(v) => ToDate(v, from) % OneDay = 0
<1>1. v.n \in Int
  BY DEF Dates
<1>2. OneDay * v.n \in Int
  BY <1>1 DEF OneDay
<1>3. QED
  BY <1>1, <1>2, Midnights DEF ToDate, ToDateBack, StoredDate

-----------------------------------------------------------------------------
(* The widgets.                                                            *)

LEMMA ShownFits ==
  ASSUME NEW w \in WidgetRecords, NEW v \in Dates, w.editor = 0 => IsRel(v), today \in 1 .. MaxDay
  PROVE  /\ Shown(w, v) \in WidgetRecords /\ Shown(w, v).editor = w.editor
         /\ Shown(w, v).editor = 1 <=> ~IsRel(Shown(w, v).value)
         /\ Shown(w, v).value = v \/ (IsRel(v) /\ w.editor = 1)
<1> DEFINE x == IF w.editor = 1 /\ IsRel(v) THEN Abs(Now) ELSE v
<1>1. x \in Dates /\ (w.editor = 1 <=> ~IsRel(x)) /\ (x = v \/ (IsRel(v) /\ w.editor = 1))
  BY NowType, DateFields DEF WidgetRecords
<1>2. Shown(w, v) = [w EXCEPT !.value = x]
  BY DEF Shown
<1> HIDE DEF x
<1>3. [w EXCEPT !.value = x] \in WidgetRecords /\ [w EXCEPT !.value = x].editor = w.editor
      /\ [w EXCEPT !.value = x].value = x
  BY <1>1 DEF WidgetRecords
<1>4. QED
  BY <1>1, <1>2, <1>3

(* Who is told of a new value, and what becomes of it.                     *)
LEMMA UpdateAllFits ==
  ASSUME NEW ws, NEW s \in [Fields -> Dates], NEW m, Fits(ws), NEW f \in Fields, NEW v \in Dates,
         ws["will"][f].editor = 0 => IsRel(v), today \in 1 .. MaxDay,
         \A p \in DOMAIN ws, g \in Fields :
           /\ g # f => ws[p][g].value = s[g] \/ (IsRel(s[g]) /\ ws[p][g].editor = 1)
           /\ m = "basic" => ws[p][g].editor = 1,
         \A p \in DOMAIN ws \ Tabs : ws[p][f].value = v \/ (IsRel(v) /\ ws[p][f].editor = 1)
  PROVE  Show(UpdateAll(ws, f, v), [s EXCEPT ![f] = v], m) /\ DOMAIN UpdateAll(ws, f, v) = DOMAIN ws
<1> DEFINE us == UpdateAll(ws, f, v)
           t == [s EXCEPT ![f] = v]
<1> SUFFICES Show(us, t, m) /\ DOMAIN us = DOMAIN ws
  OBVIOUS
<1>1. /\ ws \in [DOMAIN ws -> [Fields -> WidgetRecords]] /\ "will" \in DOMAIN ws /\ Tabs \subseteq DOMAIN ws
      /\ DOMAIN us = DOMAIN ws
  BY DEF Fits, UpdateAll, Tabs
<1>2. ASSUME NEW p \in DOMAIN ws, NEW g \in Fields
      PROVE  us[p][g] = IF p \in Tabs /\ g = f THEN Shown(ws[p][f], v) ELSE ws[p][g]
  BY <1>1 DEF UpdateAll
<1>3. ASSUME NEW p \in Tabs
      PROVE  ws[p][f] \in WidgetRecords /\ (ws[p][f].editor = 0 => IsRel(v))
  BY <1>1 DEF Fits
<1>4. ASSUME NEW p \in DOMAIN ws
      PROVE  /\ us[p] \in [Fields -> WidgetRecords]
             /\ \A g \in Fields : us[p][g].editor = ws[p][g].editor
  <2>1. CASE p \in Tabs
    <3>1. Shown(ws[p][f], v) \in WidgetRecords /\ Shown(ws[p][f], v).editor = ws[p][f].editor
      BY <1>3, <2>1, ShownFits
    <3>2. us[p] = [ws[p] EXCEPT ![f] = Shown(@, v)]
      BY <2>1 DEF UpdateAll
    <3>3. QED
      BY <1>1, <3>1, <3>2
  <2>2. CASE p \notin Tabs
    BY <1>1, <2>2 DEF UpdateAll
  <2>3. QED
    BY <2>1, <2>2
<1>5. ASSUME NEW p \in DOMAIN ws, NEW g \in Fields
      PROVE  /\ us[p][g].editor = 1 <=> ~IsRel(us[p][g].value)
             /\ us[p][g].value = t[g] \/ (IsRel(t[g]) /\ us[p][g].editor = 1)
  <2>1. t[f] = v /\ (g # f => t[g] = s[g])
    OBVIOUS
  <2> HIDE DEF t
  <2>2. CASE p \in Tabs /\ g = f
    <3>1. us[p][g] = Shown(ws[p][f], v)
      BY <1>2, <2>2
    <3>2. /\ Shown(ws[p][f], v).editor = ws[p][f].editor
          /\ Shown(ws[p][f], v).editor = 1 <=> ~IsRel(Shown(ws[p][f], v).value)
          /\ Shown(ws[p][f], v).value = v \/ (IsRel(v) /\ ws[p][f].editor = 1)
      BY <1>3, <2>2, ShownFits
    <3>3. QED
      BY <2>1, <2>2, <3>1, <3>2
  <2>3. CASE g # f
    BY <1>2, <2>1, <2>3 DEF Fits
  <2>4. CASE p \notin Tabs /\ g = f
    BY <1>2, <2>1, <2>4 DEF Fits
  <2>5. QED
    BY <2>2, <2>3, <2>4
<1>6. us \in [DOMAIN us -> [Fields -> WidgetRecords]]
  BY <1>1, <1>4 DEF UpdateAll
<1> HIDE DEF us, t
<1>7. ASSUME NEW p \in DOMAIN ws, NEW g \in Fields
      PROVE  /\ p \in Tabs => us[p][g].editor = us["will"][g].editor
             /\ us[p][g].editor = 1 => us["will"][g].editor = 1
             /\ m = "basic" => us[p][g].editor = 1
  <2>1. us[p][g].editor = ws[p][g].editor /\ us["will"][g].editor = ws["will"][g].editor
    BY <1>1, <1>4
  <2>2. QED
    BY <2>1 DEF Fits
<1>8. Fits(us)
  BY <1>1, <1>5, <1>6, <1>7 DEF Fits
<1>9. QED
  BY <1>1, <1>5, <1>7, <1>8 DEF Show

LEMMA EntriesStored ==
  ASSUME NEW f \in Fields, NEW editor \in {0, 1}, NEW v \in Entries(f, editor)
  PROVE  StoredDate(v) /\ v \in Dates /\ (editor = 1 <=> ~IsRel(v))
<1>1. /\ Durations[f] \subseteq Nat \ {0} /\ PickedDays \subseteq Nat \ {0}
  BY DatesAssumption DEF DatesAssumption
<1>2. CASE editor = 0
  <2>1. PICK d \in Durations[f] : v = Rel(d)
    BY <1>2 DEF Entries
  <2>2. QED
    BY <1>1, <1>2, <2>1, DateFields DEF StoredDate
<1>3. CASE editor = 1
  <2>1. PICK d \in PickedDays : v = Abs(Midnight(d))
    BY <1>3 DEF Entries
  <2>2. Midnight(d) \in Int /\ Midnight(d) % OneDay = 0
    BY <1>1 DEF Midnight, OneDay
  <2>3. QED
    BY <1>3, <2>1, <2>2, DateFields DEF StoredDate
<1>4. QED
  BY <1>2, <1>3

LEMMA EditShows ==
  ASSUME WidgetsInv, NEW p \in DOMAIN widgets, NEW f \in Fields, NEW v, EditDate(p, f, v)
  PROVE  StoredDates(settings)' /\ Show(widgets, settings, mode)'
<1> DEFINE w == [widgets[p][f] EXCEPT !.value = v]
           ws == [widgets EXCEPT ![p][f].value = v]
<1>1. /\ widgets \in [DOMAIN widgets -> [Fields -> WidgetRecords]] /\ Fits(widgets)
      /\ settings \in [Fields -> Dates] /\ today \in 1 .. MaxDay
      /\ widgets[p][f] \in WidgetRecords
  BY DEF WidgetsInv, Show, Fits, StoredDates
<1>2. /\ v \in Entries(f, widgets[p][f].editor) /\ CanEdit(p, f) /\ mode' = mode
      /\ widgets' = UpdateAll(ws, f, v) /\ settings' = [settings EXCEPT ![f] = v]
  BY DEF EditDate
<1>3. /\ StoredDate(v) /\ v \in Dates /\ (widgets[p][f].editor = 1 <=> ~IsRel(v))
      /\ widgets[p][f].editor \in {0, 1}
  <2>1. widgets[p][f].editor \in {0, 1}
    BY <1>1 DEF WidgetRecords
  <2>2. QED
    BY <1>2, <2>1, EntriesStored
<1>4. w \in WidgetRecords /\ w.editor = widgets[p][f].editor /\ w.value = v
  BY <1>1, <1>3 DEF WidgetRecords
<1>5. ws = [widgets EXCEPT ![p] = [widgets[p] EXCEPT ![f] = w]]
  BY <1>1
<1> HIDE DEF w, ws
<1>6. /\ DOMAIN ws = DOMAIN widgets /\ ws \in [DOMAIN widgets -> [Fields -> WidgetRecords]]
      /\ \A q \in DOMAIN widgets, g \in Fields :
           ws[q][g] = IF q = p /\ g = f THEN w ELSE widgets[q][g]
  BY <1>1, <1>4, <1>5
<1>7. "will" \in DOMAIN widgets
  BY <1>1 DEF Fits, Tabs
<1>8. ASSUME NEW q \in DOMAIN widgets, NEW g \in Fields
      PROVE  /\ ws[q][g].editor = widgets[q][g].editor
             /\ ws[q][g].editor = 1 <=> ~IsRel(ws[q][g].value)
             /\ g # f => ws[q][g].value = widgets[q][g].value
             /\ q \in Tabs => ws[q][g].editor = ws["will"][g].editor
             /\ ws[q][g].editor = 1 => ws["will"][g].editor = 1
  <2>1. /\ \A r \in DOMAIN widgets : ws[r][g].editor = widgets[r][g].editor
        /\ g # f => ws[q][g].value = widgets[q][g].value
    BY <1>4, <1>6
  <2>2. ws[q][g].editor = 1 <=> ~IsRel(ws[q][g].value)
    <3>1. CASE q = p /\ g = f
      BY <1>3, <1>4, <1>6, <3>1
    <3>2. CASE ~(q = p /\ g = f)
      BY <1>1, <1>6, <3>2 DEF Fits
    <3>3. QED
      BY <3>1, <3>2
  <2>3. /\ q \in Tabs => widgets[q][g].editor = widgets["will"][g].editor
        /\ widgets[q][g].editor = 1 => widgets["will"][g].editor = 1
    BY <1>1 DEF Fits
  <2>4. QED
    BY <1>7, <2>1, <2>2, <2>3
<1>9. Fits(ws)
  BY <1>1, <1>6, <1>8 DEF Fits
<1>10. ws["will"][f].editor = 0 => IsRel(v)
  BY <1>1, <1>3, <1>7, <1>8 DEF Fits
<1>11. ASSUME NEW q \in DOMAIN ws \ Tabs PROVE ws[q][f].value = v
  <2>1. q = "wizard" /\ InWizard
    BY <1>1, <1>6 DEF Fits, InWizard
  <2>2. p = "wizard"
    BY <1>2, <2>1 DEF CanEdit
  <2>3. QED
    BY <1>4, <1>6, <2>1, <2>2
<1>12. \A q \in DOMAIN ws, g \in Fields :
         /\ g # f => ws[q][g].value = settings[g] \/ (IsRel(settings[g]) /\ ws[q][g].editor = 1)
         /\ mode = "basic" => ws[q][g].editor = 1
  BY <1>6, <1>8 DEF WidgetsInv, Show
<1>13. Show(UpdateAll(ws, f, v), [settings EXCEPT ![f] = v], mode)
  BY <1>1, <1>3, <1>9, <1>10, <1>11, <1>12, UpdateAllFits
<1>14. StoredDates([settings EXCEPT ![f] = v])
  BY <1>3 DEF WidgetsInv, StoredDates
<1>15. QED
  BY <1>2, <1>13, <1>14

(* All widgets turn to the other editor, with its default.                 *)
LEMMA SwitchedFields ==
  ASSUME WidgetsInv, NEW f \in Fields, NEW editor \in {0, 1}, NEW p \in DOMAIN widgets
  PROVE  /\ Switched(widgets, f, editor)[p] \in [Fields -> WidgetRecords]
         /\ \A g \in Fields : g # f => Switched(widgets, f, editor)[p][g] = widgets[p][g]
         /\ Switched(widgets, f, editor)[p][f].editor = editor
         /\ Switched(widgets, f, editor)[p][f].value = Default(f, editor)
<1> DEFINE d == Default(f, editor)
           w == [[widgets[p][f] EXCEPT !.editor = editor] EXCEPT !.value = d]
<1>1. d \in Dates
  BY DefaultStored DEF WidgetsInv, StoredDate
<1> HIDE DEF d
<1>2. widgets[p] \in [Fields -> WidgetRecords] /\ widgets[p][f] \in WidgetRecords
  BY DEF WidgetsInv, Show, Fits
<1>3. w \in WidgetRecords /\ w.editor = editor /\ w.value = d
  BY <1>1, <1>2 DEF WidgetRecords
<1>4. Switched(widgets, f, editor)[p] = [widgets[p] EXCEPT ![f] = w]
  BY <1>2 DEF Switched, d
<1> HIDE DEF w
<1>5. QED
  BY <1>2, <1>3, <1>4 DEF d

LEMMA SwitchEditorShows ==
  ASSUME WidgetsInv, NEW p \in DOMAIN widgets, NEW f \in Fields, SwitchEditor(p, f)
  PROVE  StoredDates(settings)' /\ Show(widgets, settings, mode)'
<1> DEFINE editor == 1 - widgets[p][f].editor
           d == Default(f, editor)
           us == Switched(widgets, f, editor)
           w == [us[p][f] EXCEPT !.picked = TRUE]
<1>1. /\ widgets' = [us EXCEPT ![p][f].picked = TRUE] /\ settings' = [settings EXCEPT ![f] = d]
      /\ mode = "advanced" /\ mode' = "advanced"
  BY DEF SwitchEditor
<1>2. /\ Fits(widgets) /\ settings \in [Fields -> Dates] /\ today \in 1 .. MaxDay
      /\ widgets[p][f].editor \in {0, 1}
  BY DEF WidgetsInv, Show, Fits, StoredDates, WidgetRecords
<1>3. editor \in {0, 1}
  BY <1>2
<1> HIDE DEF editor
<1>4. StoredDate(d) /\ d \in Dates /\ (editor = 1 <=> ~IsRel(d))
  BY <1>2, <1>3, DefaultStored DEF StoredDate
<1>5. /\ DOMAIN us = DOMAIN widgets
      /\ \A q \in DOMAIN widgets :
           /\ us[q] \in [Fields -> WidgetRecords]
           /\ \A g \in Fields : g # f => us[q][g] = widgets[q][g]
           /\ us[q][f].editor = editor /\ us[q][f].value = d
  <2>1. DOMAIN us = DOMAIN widgets
    BY DEF Switched
  <2>2. QED
    BY <1>3, <2>1, SwitchedFields
<1>6. us \in [DOMAIN widgets -> [Fields -> WidgetRecords]]
  BY <1>5 DEF Switched
<1> HIDE DEF us, d
<1>7. w \in WidgetRecords /\ w.editor = editor /\ w.value = d
  <2>1. us[p][f] \in WidgetRecords /\ us[p][f].editor = editor /\ us[p][f].value = d
    BY <1>5
  <2>2. QED
    BY <2>1 DEF WidgetRecords
<1>8. widgets' = [us EXCEPT ![p] = [us[p] EXCEPT ![f] = w]]
  BY <1>1, <1>5, <1>6
<1> HIDE DEF w
<1>9. /\ DOMAIN widgets' = DOMAIN widgets
      /\ widgets' \in [DOMAIN widgets -> [Fields -> WidgetRecords]]
      /\ \A q \in DOMAIN widgets :
           /\ \A g \in Fields : g # f => widgets'[q][g] = widgets[q][g]
           /\ widgets'[q][f].editor = editor /\ widgets'[q][f].value = d
  BY <1>5, <1>6, <1>7, <1>8
<1>10. StoredDates(settings)' /\ settings'[f] = d /\ \A g \in Fields : g # f => settings'[g] = settings[g]
  BY <1>1, <1>2, <1>4 DEF WidgetsInv, StoredDates
<1>11. "will" \in DOMAIN widgets
  BY <1>2 DEF Fits, Tabs
<1>12. ASSUME NEW q \in DOMAIN widgets, NEW g \in Fields
       PROVE  /\ widgets'[q][g].editor = 1 <=> ~IsRel(widgets'[q][g].value)
              /\ q \in Tabs => widgets'[q][g].editor = widgets'["will"][g].editor
              /\ widgets'[q][g].editor = 1 => widgets'["will"][g].editor = 1
              /\ widgets'[q][g].value = settings'[g] \/ (IsRel(settings'[g]) /\ widgets'[q][g].editor = 1)
  <2>1. CASE g = f
    BY <1>4, <1>9, <1>10, <1>11, <2>1
  <2>2. CASE g # f
    BY <1>9, <1>10, <1>11, <2>2 DEF WidgetsInv, Show, Fits
  <2>3. QED
    BY <2>1, <2>2
<1>13. Fits(widgets)'
  BY <1>2, <1>9, <1>12 DEF Fits
<1>14. QED
  BY <1>1, <1>9, <1>10, <1>12, <1>13 DEF Show

LEMMA SwitchModeShows ==
  ASSUME WidgetsInv, SwitchMode
  PROVE  StoredDates(settings)' /\ Show(widgets, settings, mode)'
<1> DEFINE editor == IF mode = "basic" THEN 0 ELSE 1
           turns == {f \in Fields :
                      \E p \in Tabs :
                        /\ widgets[p][f].editor # editor
                        /\ mode = "basic" => ~widgets[p][f].picked}
<1>1. /\ ~InWizard /\ mode' = (IF mode = "basic" THEN "advanced" ELSE "basic")
      /\ widgets' = [p \in Tabs |-> [f \in Fields |->
                       IF f \in turns THEN Switched(widgets, f, editor)[p][f] ELSE widgets[p][f]]]
      /\ settings' = [f \in Fields |-> IF f \in turns THEN Default(f, editor) ELSE settings[f]]
  BY DEF SwitchMode
<1>2. /\ Fits(widgets) /\ settings \in [Fields -> Dates] /\ today \in 1 .. MaxDay
      /\ DOMAIN widgets = Tabs /\ mode \in {"basic", "advanced"}
  BY <1>1 DEF WidgetsInv, Show, Fits, StoredDates, InWizard
<1>3. editor \in {0, 1} /\ (mode' = "basic" => editor = 1)
  BY <1>1, <1>2
<1>4. ASSUME NEW f \in Fields, f \notin turns, mode' = "basic", NEW p \in Tabs
      PROVE  widgets[p][f].editor = 1
  BY <1>1, <1>2, <1>4
<1> HIDE DEF editor, turns
<1>5. ASSUME NEW f \in Fields
      PROVE  StoredDate(Default(f, editor)) /\ (editor = 1 <=> ~IsRel(Default(f, editor)))
  BY <1>2, <1>3, DefaultStored
<1>6. ASSUME NEW p \in Tabs, NEW f \in Fields, f \in turns
      PROVE  /\ widgets'[p][f] \in WidgetRecords /\ widgets'[p][f].editor = editor
             /\ widgets'[p][f].value = Default(f, editor)
  <2>1. /\ Switched(widgets, f, editor)[p] \in [Fields -> WidgetRecords]
        /\ Switched(widgets, f, editor)[p][f].editor = editor
        /\ Switched(widgets, f, editor)[p][f].value = Default(f, editor)
    BY <1>2, <1>3, SwitchedFields
  <2>2. QED
    BY <1>1, <1>6, <2>1
<1>7. ASSUME NEW p \in Tabs, NEW f \in Fields, f \notin turns
      PROVE  widgets'[p][f] = widgets[p][f] /\ widgets[p][f] \in WidgetRecords
  BY <1>1, <1>2, <1>7 DEF Fits
<1>8. DOMAIN widgets' = Tabs /\ widgets' \in [Tabs -> [Fields -> WidgetRecords]]
  BY <1>1, <1>6, <1>7
<1>9. StoredDates(settings)'
  BY <1>1, <1>2, <1>5 DEF WidgetsInv, StoredDates, StoredDate
<1>10. "will" \in Tabs
  BY DEF Tabs
<1>11. ASSUME NEW p \in Tabs, NEW f \in Fields
       PROVE  /\ widgets'[p][f].editor = 1 <=> ~IsRel(widgets'[p][f].value)
              /\ widgets'[p][f].editor = widgets'["will"][f].editor
              /\ widgets'[p][f].value = settings'[f] \/ (IsRel(settings'[f]) /\ widgets'[p][f].editor = 1)
              /\ mode' = "basic" => widgets'[p][f].editor = 1
  <2>1. CASE f \in turns
    <3>1. settings'[f] = Default(f, editor)
      BY <1>1, <2>1
    <3>2. QED
      BY <1>3, <1>5, <1>6, <1>10, <2>1, <3>1
  <2>2. CASE f \notin turns
    <3>1. settings'[f] = settings[f]
      BY <1>1, <2>2
    <3>2. QED
      BY <1>2, <1>4, <1>7, <1>10, <2>2, <3>1 DEF WidgetsInv, Show, Fits
  <2>3. QED
    BY <2>1, <2>2
<1>12. Fits(widgets)'
  BY <1>8, <1>11 DEF Fits
<1>13. QED
  BY <1>8, <1>9, <1>11, <1>12 DEF Show

(* A new widget shows what is stored after it has stored its default.      *)
LEMMA NewShows ==
  ASSUME NEW s, StoredDates(s), today \in 1 .. MaxDay, mode \in {"basic", "advanced"}
  PROVE  /\ StoredDates(Stored(s))
         /\ \A f \in Fields :
              /\ NewWidget(Stored(s))[f] \in WidgetRecords
              /\ NewWidget(Stored(s))[f].editor = IF mode = "basic" THEN 1 ELSE 0
              /\ NewWidget(Stored(s))[f].editor = 1 <=> ~IsRel(NewWidget(Stored(s))[f].value)
              /\ \/ NewWidget(Stored(s))[f].value = Stored(s)[f]
                 \/ IsRel(Stored(s)[f]) /\ NewWidget(Stored(s))[f].editor = 1
              /\ Stored(s)[f] = IF mode = "basic" \/ IsRel(s[f]) THEN s[f] ELSE Default(f, 0)
         /\ mode = "basic" => Stored(s) = s
<1>1. ASSUME NEW t, StoredDates(t), NEW f \in Fields
      PROVE  /\ New(t, f) \in WidgetRecords
             /\ New(t, f).editor = IF mode = "basic" THEN 1 ELSE 0
             /\ New(t, f).editor = 1 <=> ~IsRel(New(t, f).value)
             /\ mode = "basic" => New(t, f).value = t[f] \/ IsRel(t[f])
             /\ mode = "advanced" => New(t, f).value = IF IsRel(t[f]) THEN t[f] ELSE Default(f, 0)
  <2> DEFINE w == [editor |-> 1, picked |-> FALSE, value |-> t[f]]
  <2>1. t[f] \in Dates
    BY <1>1 DEF StoredDates
  <2>2. w \in WidgetRecords /\ w.editor = 1
    BY <2>1 DEF WidgetRecords
  <2>3. CASE mode = "basic"
    <3>1. New(t, f) = Shown(w, t[f])
      BY <2>3 DEF New
    <3> HIDE DEF w
    <3>2. /\ Shown(w, t[f]) \in WidgetRecords /\ Shown(w, t[f]).editor = w.editor
          /\ Shown(w, t[f]).editor = 1 <=> ~IsRel(Shown(w, t[f]).value)
          /\ Shown(w, t[f]).value = t[f] \/ (IsRel(t[f]) /\ w.editor = 1)
      BY <2>1, <2>2, ShownFits
    <3>3. QED
      BY <2>2, <2>3, <3>1, <3>2
  <2>4. CASE mode = "advanced"
    <3> DEFINE x == IF IsRel(t[f]) THEN t[f] ELSE Default(f, 0)
    <3>1. x \in Dates /\ IsRel(x)
      BY <2>1, DefaultStored DEF StoredDate
    <3>2. New(t, f) = [editor |-> 0, picked |-> FALSE, value |-> x]
      BY <2>4 DEF New
    <3> HIDE DEF x
    <3>3. New(t, f) \in WidgetRecords /\ New(t, f).editor = 0 /\ New(t, f).value = x
      BY <3>1, <3>2 DEF WidgetRecords
    <3>4. QED
      BY <2>4, <3>1, <3>3 DEF x
  <2>5. QED
    BY <2>3, <2>4
<1>2. ASSUME NEW f \in Fields
      PROVE  Stored(s)[f] = IF mode = "basic" \/ IsRel(s[f]) THEN s[f] ELSE Default(f, 0)
  <2>1. Stored(s)[f] = IF New(s, f).editor = 0 THEN New(s, f).value ELSE s[f]
    BY DEF Stored
  <2>2. QED
    BY <1>1, <2>1
<1>3. StoredDates(Stored(s))
  <2>1. ASSUME NEW f \in Fields PROVE StoredDate(Stored(s)[f])
    BY <1>2, DefaultStored DEF StoredDates
  <2>2. QED
    BY <2>1 DEF StoredDates, StoredDate, Stored
<1>4. mode = "basic" => Stored(s) = s
  BY <1>2 DEF Stored, StoredDates
<1>5. ASSUME NEW f \in Fields
      PROVE  /\ NewWidget(Stored(s))[f] = New(Stored(s), f)
             /\ mode = "advanced" => IsRel(Stored(s)[f])
  BY <1>2, DefaultStored DEF NewWidget
<1>6. QED
  BY <1>1, <1>2, <1>3, <1>4, <1>5

LEMMA OpenWizardShows ==
  ASSUME WidgetsInv, OpenWizard
  PROVE  StoredDates(settings)' /\ Show(widgets, settings, mode)'
<1> DEFINE t == Stored(settings)
           w == NewWidget(t)
<1>1. /\ ~InWizard /\ settings' = t /\ mode' = mode
      /\ widgets' = [p \in Tabs \cup {"wizard"} |-> IF p = "wizard" THEN w ELSE widgets[p]]
  BY DEF OpenWizard
<1>2. /\ Fits(widgets) /\ StoredDates(settings) /\ today \in 1 .. MaxDay
      /\ DOMAIN widgets = Tabs /\ mode \in {"basic", "advanced"} /\ "wizard" \notin Tabs /\ "will" \in Tabs
  BY <1>1 DEF WidgetsInv, Show, Fits, InWizard, Tabs
<1>3. /\ StoredDates(t)
      /\ \A f \in Fields :
           /\ w[f] \in WidgetRecords /\ w[f].editor = IF mode = "basic" THEN 1 ELSE 0
           /\ w[f].editor = 1 <=> ~IsRel(w[f].value)
           /\ w[f].value = t[f] \/ (IsRel(t[f]) /\ w[f].editor = 1)
           /\ t[f] = IF mode = "basic" \/ IsRel(settings[f]) THEN settings[f] ELSE Default(f, 0)
  BY <1>2, NewShows
<1>4. w \in [Fields -> WidgetRecords]
  BY <1>3 DEF NewWidget
<1>5. ASSUME NEW f \in Fields PROVE t[f] = settings[f] \/ (IsRel(t[f]) /\ ~IsRel(settings[f]))
  BY <1>2, <1>3, DefaultStored
<1> HIDE DEF t, w
<1>6. /\ DOMAIN widgets' = Tabs \cup {"wizard"} /\ widgets'["wizard"] = w
      /\ \A p \in Tabs : widgets'[p] = widgets[p]
      /\ widgets' \in [Tabs \cup {"wizard"} -> [Fields -> WidgetRecords]]
  BY <1>1, <1>2, <1>4 DEF Fits
<1>7. ASSUME NEW p \in Tabs, NEW f \in Fields
      PROVE  /\ widgets[p][f].editor = 1 <=> ~IsRel(widgets[p][f].value)
             /\ widgets[p][f].editor = widgets["will"][f].editor
             /\ widgets[p][f].value = t[f] \/ (IsRel(t[f]) /\ widgets[p][f].editor = 1)
             /\ mode = "basic" => widgets[p][f].editor = 1
  BY <1>2, <1>5 DEF WidgetsInv, Show, Fits
<1>8. Fits(widgets)'
  BY <1>2, <1>3, <1>6, <1>7 DEF Fits
<1>9. QED
  BY <1>1, <1>3, <1>6, <1>7, <1>8 DEF Show

LEMMA CloseWizardShows ==
  ASSUME WidgetsInv, CloseWizard
  PROVE  StoredDates(settings)' /\ Show(widgets, settings, mode)'
<1>1. /\ settings' = settings /\ mode' = mode /\ widgets' = [p \in Tabs |-> widgets[p]]
  BY DEF CloseWizard
<1>2. Fits(widgets) /\ Tabs \subseteq DOMAIN widgets /\ "will" \in Tabs
  BY DEF WidgetsInv, Show, Fits, Tabs
<1>3. widgets' \in [Tabs -> [Fields -> WidgetRecords]] /\ DOMAIN widgets' = Tabs
      /\ \A p \in Tabs : widgets'[p] = widgets[p]
  BY <1>1, <1>2 DEF Fits
<1>4. Fits(widgets)'
  BY <1>2, <1>3 DEF Fits
<1>5. QED
  BY <1>1, <1>2, <1>3, <1>4 DEF WidgetsInv, Show, StoredDates

LEMMA RestartShows ==
  ASSUME WidgetsInv, Restart
  PROVE  StoredDates(settings)' /\ Show(widgets, settings, mode)'
<1> DEFINE t == Stored(settings)
           w == NewWidget(t)
<1>1. settings' = t /\ mode' = mode /\ widgets' = [p \in Tabs |-> w]
  BY DEF Restart, Start
<1>2. StoredDates(settings) /\ today \in 1 .. MaxDay /\ mode \in {"basic", "advanced"} /\ "will" \in Tabs
  BY DEF WidgetsInv, Tabs
<1>3. /\ StoredDates(t)
      /\ \A f \in Fields :
           /\ w[f] \in WidgetRecords /\ w[f].editor = IF mode = "basic" THEN 1 ELSE 0
           /\ w[f].editor = 1 <=> ~IsRel(w[f].value)
           /\ w[f].value = t[f] \/ (IsRel(t[f]) /\ w[f].editor = 1)
  BY <1>2, NewShows
<1>4. w \in [Fields -> WidgetRecords]
  BY <1>3 DEF NewWidget
<1> HIDE DEF t, w
<1>5. /\ DOMAIN widgets' = Tabs /\ widgets' \in [Tabs -> [Fields -> WidgetRecords]]
      /\ \A p \in Tabs : widgets'[p] = w
  BY <1>1, <1>4
<1>6. Fits(widgets)'
  BY <1>2, <1>3, <1>5 DEF Fits
<1>7. QED
  BY <1>1, <1>3, <1>5, <1>6 DEF Show

-----------------------------------------------------------------------------
(* Building.                                                               *)

LEMMA DeliveryType ==
  ASSUME NEW s, StoredDates(s), today \in 1 .. MaxDay
  PROVE  /\ s.locktime \in Dates /\ s.threshold \in Dates /\ s.locktime.n \in Int /\ s.threshold.n \in Int
         /\ StoredDate(s.locktime) /\ StoredDate(s.threshold)
         /\ Delivery(s) \in Int /\ Delivery(s) % OneDay = 0
         /\ IF IsRel(s.locktime) THEN Delivery(s) >= 0 ELSE Delivery(s) = s.locktime.n
<1>1. /\ s.locktime \in Dates /\ s.threshold \in Dates
      /\ StoredDate(s.locktime) /\ StoredDate(s.threshold)
  BY DEF StoredDates, Fields
<1>2. s.locktime.n \in Int /\ s.threshold.n \in Int
  BY <1>1 DEF Dates
<1>3. Now \in Nat /\ Now >= 3
  BY NowType
<1>4. Delivery(s) \in Int /\ Delivery(s) % OneDay = 0
  BY <1>1, <1>3, ToDateType DEF Delivery
<1>5. CASE IsRel(s.locktime)
  <2> DEFINE t == Now + OneDay * s.locktime.n
  <2>1. Delivery(s) = MidnightOf(t) /\ s.locktime.n >= 1
    BY <1>1, <1>5 DEF Delivery, ToDate, StoredDate
  <2>2. t \in Int /\ t >= 2
    BY <1>2, <1>3, <2>1 DEF OneDay
  <2> HIDE DEF t
  <2>3. MidnightOf(t) \in Int /\ t < MidnightOf(t) + 2
    BY <2>2, Midnights DEF OneDay
  <2>4. QED
    BY <1>1, <1>2, <1>4, <1>5, <2>1, <2>2, <2>3
<1>6. CASE ~IsRel(s.locktime)
  BY <1>1, <1>2, <1>4, <1>6 DEF Delivery, ToDate
<1>7. QED
  BY <1>5, <1>6

(* The Check Alive date of a delivery, and of the built will.              *)
LEMMA DateToCheckValue ==
  ASSUME WidgetsInv, NEW t \in Nat
  PROVE  /\ DateToCheck(settings, t) \in Int
         /\ mode = "basic" => DateToCheck(settings, t) = Now
         /\ (mode = "advanced" /\ (t = NoWill \/ ~IsRel(settings.locktime))) =>
              DateToCheck(settings, t) = ToDateBack(settings.threshold, Delivery(settings))
         /\ (mode = "advanced" /\ t # NoWill /\ IsRel(settings.locktime)) =>
              DateToCheck(settings, t) = ToDateBack(settings.threshold, t)
<1>1. StoredDates(settings) /\ today \in 1 .. MaxDay /\ mode \in {"basic", "advanced"}
  BY DEF WidgetsInv
<1>2. Delivery(settings) \in Int /\ settings.threshold \in Dates /\ Now \in Nat
  BY <1>1, DeliveryType, NowType
<1>3. ToDate(Abs(t), Now) = t
  BY DateFields DEF ToDate
<1>4. ToDateBack(settings.threshold, Delivery(settings)) \in Int /\ ToDateBack(settings.threshold, t) \in Int
  BY <1>2, ToDateType
<1>5. QED
  BY <1>1, <1>2, <1>3, <1>4 DEF DateToCheck

(* A build that goes on gives the will a locktime to come.                 *)
LEMMA BuildLocktime ==
  ASSUME WidgetsInv, built \in Nat, built % OneDay = 0, NEW changed, Verdict(changed) = "build",
         NEW t \in NewLocktimes, Delivery(settings) > DateToCheck(settings, Delivery(settings))
  PROVE  t \in Nat /\ t % OneDay = 0 /\ t <= Delivery(settings)
<1> DEFINE d == Delivery(settings)
<1>1. /\ StoredDates(settings) /\ today \in 1 .. MaxDay /\ mode \in {"basic", "advanced"}
      /\ Now \in Nat /\ Now >= 3
  BY NowType DEF WidgetsInv
<1>2. /\ d \in Int /\ d % OneDay = 0 /\ settings.threshold \in Dates
      /\ IsRel(settings.locktime) => d >= 0
  BY <1>1, DeliveryType
<1>3. /\ DateToCheck(settings, built) \in Int /\ ~AliveExpired
      /\ mode = "basic" => DateToCheck(settings, built) = Now
      /\ built # NoWill => built >= DateToCheck(settings, built)
  <2>1. ~AliveExpired /\ (built # NoWill => ~(built < DateToCheck(settings, built)))
    BY DEF Verdict
  <2>2. DateToCheck(settings, built) \in Int /\ (mode = "basic" => DateToCheck(settings, built) = Now)
    BY DateToCheckValue
  <2>3. QED
    BY <2>1, <2>2
<1>4. DateToCheck(settings, built) >= Now
  BY <1>1, <1>3 DEF AliveExpired
<1>5. d \in Nat
  <2>1. CASE IsRel(settings.locktime)
    BY <1>2, <2>1
  <2>2. CASE ~IsRel(settings.locktime)
    <3>1. DateToCheck(settings, d) = DateToCheck(settings, built)
      BY <2>2 DEF DateToCheck
    <3>2. QED
      BY <1>1, <1>2, <1>3, <1>4, <3>1
  <2>3. QED
    BY <2>1, <2>2
<1>6. built # NoWill => built - OneDay \in Nat /\ (built - OneDay) % OneDay = 0
  BY <1>1, <1>3, <1>4 DEF OneDay
<1>7. CASE built = NoWill
  BY <1>2, <1>5, <1>7 DEF NewLocktimes
<1>8. CASE built # NoWill
  <2>1. t = Min({d, built}) \/ t = Min({d, built - OneDay})
    BY <1>8 DEF NewLocktimes
  <2> HIDE DEF d
  <2>2. /\ Min({d, built}) = IF d <= built THEN d ELSE built
        /\ Min({d, built - OneDay}) = IF d <= built - OneDay THEN d ELSE built - OneDay
    BY <1>2, <1>6, <1>8, MinOfTwo
  <2>3. QED
    BY <1>2, <1>5, <1>6, <1>8, <2>1, <2>2 DEF d
<1>9. QED
  BY <1>7, <1>8

LEMMA TabsShow ==
  ASSUME NEW ws, NEW s, NEW m, Show(ws, s, m)
  PROVE  Show([p \in Tabs |-> ws[p]], s, m)
<1> DEFINE us == [p \in Tabs |-> ws[p]]
<1>1. Fits(ws) /\ Tabs \subseteq DOMAIN ws /\ "will" \in Tabs
  BY DEF Show, Fits, Tabs
<1>2. us \in [Tabs -> [Fields -> WidgetRecords]] /\ DOMAIN us = Tabs /\ \A p \in Tabs : us[p] = ws[p]
  BY <1>1 DEF Fits
<1> HIDE DEF us
<1>3. Fits(us)
  BY <1>1, <1>2 DEF Fits
<1>4. Show(us, s, m)
  BY <1>1, <1>2, <1>3 DEF Show
<1>5. QED
  BY <1>4 DEF us

LEMMA SyncStored ==
  ASSUME WidgetsInv, NEW t \in Nat, t % OneDay = 0, t <= Delivery(settings)
  PROVE  /\ StoredDates(Sync(t)) /\ Sync(t).threshold = settings.threshold
         /\ Sync(t) = settings \/ (~IsRel(settings.locktime) /\ Sync(t) = [settings EXCEPT !.locktime = Abs(t)])
         /\ IsRel(Sync(t).locktime) => Sync(t) = settings
         /\ ~IsRel(Sync(t).locktime) => Sync(t).locktime.n = t
         /\ t <= Delivery(Sync(t))
<1>1. StoredDates(settings) /\ today \in 1 .. MaxDay
  BY DEF WidgetsInv
<1>2. /\ settings \in [Fields -> Dates] /\ settings.locktime.n \in Int
      /\ ~IsRel(settings.locktime) => Delivery(settings) = settings.locktime.n
  BY <1>1, DeliveryType DEF StoredDates
<1>3. StoredDate(Abs(t)) /\ Abs(t) \in Dates /\ ~IsRel(Abs(t)) /\ Abs(t).n = t
  BY DateFields DEF StoredDate
<1>4. CASE Sync(t) = settings
  <2>1. ~IsRel(settings.locktime) => ~(t < settings.locktime.n)
    <3> SUFFICES ASSUME ~IsRel(settings.locktime), t < settings.locktime.n PROVE FALSE
      OBVIOUS
    <3>1. settings = [settings EXCEPT !.locktime = Abs(t)]
      BY <1>4 DEF Sync
    <3>2. settings.locktime = Abs(t)
      BY <1>2, <3>1 DEF Fields
    <3>3. QED
      BY <1>3, <3>2
  <2>2. QED
    BY <1>1, <1>2, <1>4, <2>1
<1>5. CASE ~IsRel(settings.locktime) /\ Sync(t) = [settings EXCEPT !.locktime = Abs(t)]
  <2> DEFINE s == [settings EXCEPT !.locktime = Abs(t)]
  <2>1. /\ s \in [Fields -> Dates] /\ s.locktime = Abs(t) /\ s.threshold = settings.threshold
        /\ s["locktime"] = Abs(t) /\ s["threshold"] = settings["threshold"]
    BY <1>2, <1>3 DEF Fields
  <2> HIDE DEF s
  <2>2. StoredDates(s)
    BY <1>1, <1>3, <2>1 DEF StoredDates, Fields
  <2>3. Delivery(s) = t
    BY <1>3, <2>1 DEF Delivery, ToDate
  <2>4. Sync(t) = s
    BY <1>5 DEF s
  <2>5. /\ ~IsRel(s.locktime) /\ s.locktime.n = t
        /\ t <= Delivery(s)
    BY <1>3, <2>1, <2>3
  <2>6. Sync(t) = [settings EXCEPT !.locktime = Abs(t)]
    BY <1>5
  <2>7. StoredDates(Sync(t)) /\ Sync(t).threshold = settings.threshold
    BY <2>1, <2>2, <2>4
  <2>8. ~IsRel(Sync(t).locktime) /\ Sync(t).locktime.n = t /\ t <= Delivery(Sync(t))
    BY <2>4, <2>5
  <2>9. QED
    BY <1>5, <2>6, <2>7, <2>8
<1>6. QED
  BY <1>4, <1>5 DEF Sync

(* A will that is built anticipated takes the stored delivery with it, and *)
(* the tabs show that.                                                     *)
LEMMA PrepareShows ==
  ASSUME WidgetsInv, WillInv, NEW changed, Prepare(changed)
  PROVE  StoredDates(settings)' /\ Show(widgets, settings, mode)'
<1> DEFINE ws == [p \in Tabs |-> widgets[p]]
<1>1. /\ StoredDates(settings) /\ settings \in [Fields -> Dates] /\ today \in 1 .. MaxDay /\ mode' = mode
  BY DEF WidgetsInv, StoredDates, Prepare
<1>2. Show(ws, settings, mode) /\ DOMAIN ws = Tabs
  BY TabsShow DEF WidgetsInv
<1>3. CASE Invalidate
  BY <1>1, <1>2, <1>3 DEF Invalidate
<1>4. ASSUME NEW t \in NewLocktimes, Build(t), Verdict(changed) = "build"
      PROVE  StoredDates(settings)' /\ Show(widgets, settings, mode)'
  <2> DEFINE s == IF t < DateToCheck(settings, Delivery(settings)) THEN settings ELSE Sync(t)
  <2>1. /\ Delivery(settings) > DateToCheck(settings, Delivery(settings))
        /\ settings' = s /\ widgets' = IF s = settings THEN ws ELSE UpdateAll(ws, "locktime", s.locktime)
    BY <1>4 DEF Build
  <2>2. t \in Nat /\ t % OneDay = 0 /\ t <= Delivery(settings)
    BY <1>4, <2>1, BuildLocktime DEF WillInv
  <2>3. s = settings \/ (~IsRel(settings.locktime) /\ s = [settings EXCEPT !.locktime = Abs(t)])
    BY <2>2, SyncStored
  <2>4. StoredDates(s)
    BY <1>1, <2>2, SyncStored
  <2> HIDE DEF s, ws
  <2>5. CASE s = settings
    BY <1>1, <1>2, <2>1, <2>5
  <2>6. CASE s # settings
    <3>1. ~IsRel(settings.locktime) /\ s = [settings EXCEPT !["locktime"] = Abs(t)]
      BY <2>3, <2>6
    <3>2. s.locktime = Abs(t) /\ Abs(t) \in Dates
      BY <1>1, <2>2, <3>1, DateFields DEF Fields
    <3>3. Fits(ws) /\ "will" \in DOMAIN ws /\ "locktime" \in Fields /\ Tabs \subseteq DOMAIN ws
      BY <1>2 DEF Show, Fits, Tabs, Fields
    <3>4. ws["will"]["locktime"].editor = 1
      <4>1. ws["will"]["locktime"].value = settings["locktime"]
        BY <1>2, <3>1, <3>3 DEF Show
      <4>2. QED
        BY <3>1, <3>3, <4>1 DEF Fits
    <3>5. \A p \in DOMAIN ws, g \in Fields :
            /\ g # "locktime" => ws[p][g].value = settings[g] \/ (IsRel(settings[g]) /\ ws[p][g].editor = 1)
            /\ mode = "basic" => ws[p][g].editor = 1
      BY <1>2 DEF Show
    <3>6. /\ ws["will"]["locktime"].editor = 0 => IsRel(Abs(t))
          /\ \A p \in DOMAIN ws \ Tabs :
               ws[p]["locktime"].value = Abs(t) \/ (IsRel(Abs(t)) /\ ws[p]["locktime"].editor = 1)
      BY <1>2, <3>4
    <3>7. Show(UpdateAll(ws, "locktime", Abs(t)), [settings EXCEPT !["locktime"] = Abs(t)], mode)
      BY <1>1, <3>2, <3>3, <3>5, <3>6, UpdateAllFits
    <3>8. QED
      BY <1>1, <2>1, <2>4, <2>6, <3>1, <3>2, <3>7
  <2>7. QED
    BY <2>5, <2>6
<1>5. QED
  BY <1>3, <1>4 DEF Prepare

LEMMA WidgetsStep ==
  ASSUME WidgetsInv, WillInv, [Next]_vars
  PROVE  WidgetsInv'
<1>1. /\ today \in 1 .. MaxDay /\ mode \in {"basic", "advanced"} /\ edits \in 0 .. MaxEdits
      /\ StoredDates(settings) /\ Show(widgets, settings, mode)
      /\ MaxDay \in Nat /\ MaxEdits \in Nat
  BY ConstantTypes DEF WidgetsInv
<1>2. edits < MaxEdits /\ edits' = edits + 1 => edits' \in 0 .. MaxEdits
  BY <1>1
<1>3. CASE Day
  <2>1. today' \in 1 .. MaxDay
    BY <1>1, <1>3 DEF Day
  <2>2. QED
    BY <1>1, <1>3, <2>1 DEF Day, WidgetsInv, Show, Fits, StoredDates
<1>4. ASSUME NEW p \in DOMAIN widgets, NEW f \in Fields, NEW v, EditDate(p, f, v) PROVE WidgetsInv'
  <2>1. today' = today /\ mode' = mode /\ edits' \in 0 .. MaxEdits
    BY <1>2, <1>4 DEF EditDate, Editing
  <2>2. StoredDates(settings)' /\ Show(widgets, settings, mode)'
    BY <1>4, EditShows
  <2>3. QED
    BY <1>1, <2>1, <2>2 DEF WidgetsInv
<1>5. ASSUME NEW p \in DOMAIN widgets, NEW f \in Fields, SwitchEditor(p, f) PROVE WidgetsInv'
  <2>1. today' = today /\ mode' = mode /\ edits' \in 0 .. MaxEdits
    BY <1>2, <1>5 DEF SwitchEditor, Editing
  <2>2. StoredDates(settings)' /\ Show(widgets, settings, mode)'
    BY <1>5, SwitchEditorShows
  <2>3. QED
    BY <1>1, <2>1, <2>2 DEF WidgetsInv
<1>6. CASE SwitchMode
  <2>1. today' = today /\ mode' \in {"basic", "advanced"} /\ edits' \in 0 .. MaxEdits
    BY <1>1, <1>2, <1>6 DEF SwitchMode, Editing
  <2>2. QED
    BY <1>1, <1>6, <2>1, SwitchModeShows DEF WidgetsInv
<1>7. CASE OpenWizard
  <2>1. today' = today /\ mode' = mode /\ edits' = edits
    BY <1>7 DEF OpenWizard
  <2>2. QED
    BY <1>1, <1>7, <2>1, OpenWizardShows DEF WidgetsInv
<1>8. CASE CloseWizard
  <2>1. today' = today /\ mode' = mode /\ edits' = edits
    BY <1>8 DEF CloseWizard
  <2>2. QED
    BY <1>1, <1>8, <2>1, CloseWizardShows DEF WidgetsInv
<1>9. CASE Restart
  <2>1. today' = today /\ mode' = mode /\ edits' \in 0 .. MaxEdits
    BY <1>2, <1>9 DEF Restart, Editing
  <2>2. QED
    BY <1>1, <1>9, <2>1, RestartShows DEF WidgetsInv
<1>10. ASSUME NEW changed \in BOOLEAN, Prepare(changed) PROVE WidgetsInv'
  <2>1. today' = today /\ mode' = mode /\ edits' = edits
    BY <1>10 DEF Prepare
  <2>2. QED
    BY <1>1, <1>10, <2>1, PrepareShows DEF WidgetsInv
<1>11. ASSUME NEW p, NEW count, ExportCalendar(p, count) PROVE WidgetsInv'
  BY <1>1, <1>11 DEF ExportCalendar, WidgetsInv, Show, Fits, StoredDates
<1>12. CASE UNCHANGED vars
  BY <1>1, <1>12 DEF vars, WidgetsInv, Show, Fits, StoredDates
<1>13. QED
  BY <1>3, <1>4, <1>5, <1>6, <1>7, <1>8, <1>9, <1>10, <1>11, <1>12 DEF Next

-----------------------------------------------------------------------------
(* The will.                                                               *)

(* Days only move a delivery away.                                         *)
LEMMA DeliveryMovesOn ==
  ASSUME NEW s, StoredDates(s), today \in 1 .. MaxDay, today' = today + 1
  PROVE  Delivery(s)' \in Int /\ Delivery(s) <= Delivery(s)'
<1> DEFINE t == Now + OneDay * s.locktime.n
<1>1. s.locktime.n \in Int /\ Now \in Nat /\ Delivery(s) \in Int
  BY DeliveryType, NowType
<1>2. Now' = Now + OneDay * 1 /\ today \in Nat
  BY NowType DEF Now, Midnight, OneDay
<1>3. CASE IsRel(s.locktime)
  <2>1. Delivery(s) = MidnightOf(t) /\ Delivery(s)' = MidnightOf(Now' + OneDay * s.locktime.n)
    BY <1>3 DEF Delivery, ToDate
  <2>2. t \in Int /\ Now' + OneDay * s.locktime.n = t + OneDay * 1
    BY <1>1, <1>2 DEF OneDay
  <2> HIDE DEF t
  <2>3. MidnightOf(t + OneDay * 1) = MidnightOf(t) + OneDay * 1 /\ MidnightOf(t) \in Int
    <3>1. 1 \in Int
      OBVIOUS
    <3>2. MidnightOf(t + OneDay * 1) = MidnightOf(t) + OneDay * 1
      BY <2>2, <3>1, WholeDays
    <3>3. QED
      BY <2>2, <3>2, Midnights
  <2>4. Delivery(s)' = Delivery(s) + 2
    BY <2>1, <2>2, <2>3 DEF OneDay
  <2>5. QED
    BY <1>1, <2>4
<1>4. CASE ~IsRel(s.locktime)
  BY <1>1, <1>4 DEF Delivery, ToDate
<1>5. QED
  BY <1>3, <1>4

LEMMA BuildKeeps ==
  ASSUME WidgetsInv, WillInv, NEW changed, Verdict(changed) = "build",
         NEW t \in NewLocktimes, Build(t), today' = today
  PROVE  WillInv'
<1> DEFINE c == DateToCheck(settings, Delivery(settings))
           s == IF t < c THEN settings ELSE Sync(t)
<1>1. /\ StoredDates(settings) /\ today \in 1 .. MaxDay /\ mode \in {"basic", "advanced"}
      /\ settings.locktime \in Dates
  BY DeliveryType DEF WidgetsInv
<1>2. /\ Delivery(settings) > c /\ built' = t /\ recipe' = settings.locktime
      /\ prepared' = [settings |-> s, mode |-> IF t < c THEN "none" ELSE mode]
  BY DEF Build
<1>3. t \in Nat /\ t % OneDay = 0 /\ t <= Delivery(settings)
  BY <1>2, BuildLocktime DEF WillInv
<1>4. /\ StoredDates(Sync(t)) /\ Sync(t).threshold = settings.threshold
      /\ IsRel(Sync(t).locktime) => Sync(t) = settings
      /\ ~IsRel(Sync(t).locktime) => Sync(t).locktime.n = t
      /\ t <= Delivery(Sync(t))
  BY <1>3, SyncStored
<1>5. StoredDates(s)
  BY <1>1, <1>4
<1>6. c \in Int /\ (mode = "advanced" /\ ~IsRel(settings.threshold) => c = settings.threshold.n)
  <2>1. Delivery(settings) \in Nat
    BY <1>1, <1>3, DeliveryType
  <2>2. /\ c \in Int
        /\ mode = "advanced" =>
             \E from \in {Delivery(settings)} : c = ToDateBack(settings.threshold, from)
    BY <1>1, <2>1, DateToCheckValue
  <2>3. QED
    BY <2>2 DEF ToDateBack
<1>7. ASSUME ~(t < c)
      PROVE  /\ s = Sync(t) /\ t <= Delivery(s)
             /\ IF IsRel(s.locktime) THEN settings.locktime = s.locktime ELSE t = s.locktime.n
             /\ (mode = "advanced" /\ ~IsRel(s.threshold)) => s.threshold.n <= t
  BY <1>3, <1>4, <1>6, <1>7
<1>8. s \in [Fields -> Dates] /\ Now' = Now
  BY <1>5 DEF StoredDates, Now
<1> HIDE DEF s, c
<1>9. prepared'.settings = s /\ prepared'.mode = IF t < c THEN "none" ELSE mode
  BY <1>2
<1>10. prepared' \in [settings : [Fields -> Dates], mode : {"basic", "advanced", "none"}]
  BY <1>1, <1>2, <1>8
<1>11. ASSUME prepared'.mode # "none" PROVE Kept(prepared.settings, prepared.mode)'
  <2>1. ~(t < c) /\ prepared'.mode = mode
    BY <1>9, <1>11
  <2>2. Delivery(prepared.settings)' = Delivery(s)
    BY <1>8, <1>9 DEF Delivery, ToDate
  <2>3. QED
    BY <1>2, <1>7, <1>9, <2>1, <2>2 DEF Kept
<1>12. StoredDates(prepared.settings)'
  BY <1>5, <1>9 DEF StoredDates
<1>13. QED
  BY <1>1, <1>2, <1>3, <1>10, <1>11, <1>12 DEF WillInv

LEMMA WillUnmoved ==
  ASSUME WillInv, UNCHANGED <<willVars, today>>
  PROVE  WillInv'
<1>1. built' = built /\ recipe' = recipe /\ prepared' = prepared /\ today' = today
  BY DEF willVars
<1>2. Delivery(prepared.settings)' = Delivery(prepared.settings)
  BY <1>1 DEF Delivery, ToDate, Now
<1>3. QED
  BY <1>1, <1>2 DEF WillInv, Kept, StoredDates

LEMMA WillStep ==
  ASSUME WidgetsInv, WillInv, [Next]_vars
  PROVE  WillInv'
<1>1. CASE UNCHANGED <<willVars, today>>
  BY <1>1, WillUnmoved
<1>2. CASE Day
  <2>1. /\ today' = today + 1 /\ built' = built /\ recipe' = recipe /\ prepared' = prepared
        /\ today \in 1 .. MaxDay /\ StoredDates(prepared.settings)
    BY <1>2 DEF Day, willVars, WidgetsInv, WillInv
  <2>2. Delivery(prepared.settings) \in Int
    BY <2>1, DeliveryType
  <2>3. \A s : StoredDates(s) => Delivery(s)' \in Int /\ Delivery(s) <= Delivery(s)'
    BY <2>1, DeliveryMovesOn
  <2>4. Delivery(prepared.settings)' \in Int /\ Delivery(prepared.settings) <= Delivery(prepared.settings)'
    BY <2>1, <2>3 DEF Delivery
  <2>5. (built # NoWill /\ prepared.mode # "none") => Kept(prepared.settings, prepared.mode)'
    BY <2>1, <2>2, <2>4 DEF WillInv, Kept
  <2>6. QED
    BY <2>1, <2>5 DEF WillInv, StoredDates
<1>3. ASSUME NEW changed \in BOOLEAN, Prepare(changed) PROVE WillInv'
  <2>1. today' = today
    BY <1>3 DEF Prepare
  <2>2. CASE Invalidate
    BY <2>2 DEF Invalidate, WillInv, NoWill, StoredDates, OneDay
  <2>3. ASSUME NEW t \in NewLocktimes, Build(t), Verdict(changed) = "build" PROVE WillInv'
    BY <2>1, <2>3, BuildKeeps
  <2>4. QED
    BY <1>3, <2>2, <2>3 DEF Prepare
<1>4. ASSUME NEW p, NEW f, NEW v, EditDate(p, f, v) PROVE UNCHANGED <<willVars, today>>
  BY <1>4 DEF EditDate
<1>5. ASSUME NEW p, NEW f, SwitchEditor(p, f) PROVE UNCHANGED <<willVars, today>>
  BY <1>5 DEF SwitchEditor
<1>6. SwitchMode \/ OpenWizard \/ CloseWizard \/ Restart => UNCHANGED <<willVars, today>>
  BY DEF SwitchMode, OpenWizard, CloseWizard, Restart
<1>7. ASSUME NEW p, NEW count, ExportCalendar(p, count) PROVE UNCHANGED <<willVars, today>>
  BY <1>7 DEF ExportCalendar
<1>8. UNCHANGED vars => UNCHANGED <<willVars, today>>
  BY DEF vars, willVars
<1>9. QED
  BY <1>1, <1>2, <1>3, <1>4, <1>5, <1>6, <1>7, <1>8 DEF Next

-----------------------------------------------------------------------------
(* The alarms.                                                             *)

LEMMA AlarmType ==
  ASSUME today \in 1 .. MaxDay, NEW w \in [Fields -> WidgetRecords], NEW t \in Nat
  PROVE  Alarm(w, t) \in AlarmRecords /\ Alarm(w, t).of = [f \in Fields |-> w[f].value]
<1> DEFINE wanted == ToDate(w["locktime"].value, Now)
           d == IF t = NoWill THEN wanted ELSE Min({t, wanted})
           c == ToDateBack(w["threshold"].value, d)
<1>1. w["locktime"].value \in Dates /\ w["threshold"].value \in Dates /\ Now \in Int
  BY NowType DEF WidgetRecords, Fields
<1>2. wanted \in Int
  BY <1>1, ToDateType
<1>3. d \in Int
  <2> HIDE DEF wanted
  <2>1. Min({t, wanted}) = IF t <= wanted THEN t ELSE wanted
    BY <1>2, MinOfTwo
  <2>2. QED
    BY <1>2, <2>1
<1>4. c \in Int
  <2> HIDE DEF d
  <2>1. QED
    BY <1>1, <1>3, ToDateType
<1>5. [f \in Fields |-> w[f].value] \in [Fields -> Dates]
  BY DEF WidgetRecords
<1>6. Alarm(w, t) = [locktime |-> d, threshold |-> c, of |-> [f \in Fields |-> w[f].value]]
  BY DEF Alarm, Values
<1> HIDE DEF d, c
<1>7. QED
  BY <1>3, <1>4, <1>5, <1>6 DEF AlarmRecords

(* A widget that shows the dates a will was built with works out the dates *)
(* of that will, on any day.                                               *)
LEMMA AlarmRight ==
  ASSUME today \in 1 .. MaxDay, NEW w \in [Fields -> WidgetRecords], NEW t \in Nat, t # NoWill,
         t % OneDay = 0, NEW s, StoredDates(s), t <= Delivery(s), Alarm(w, t).of = s
  PROVE  Alarm(w, t).locktime = t /\ Alarm(w, t).threshold = AliveOf(s, t)
<1>1. w["locktime"].value = s.locktime /\ w["threshold"].value = s.threshold
  <2>1. s = [f \in Fields |-> w[f].value]
    BY AlarmType
  <2>2. QED
    BY <2>1 DEF Fields
<1>2. s.threshold \in Dates /\ s.threshold.n \in Int /\ Delivery(s) \in Int
  BY DeliveryType
<1>3. Min({t, Delivery(s)}) = t
  BY <1>2, MinOfTwo
<1>4. Alarm(w, t).locktime = t /\ Alarm(w, t).threshold = ToDateBack(s.threshold, t)
  BY <1>1, <1>3 DEF Alarm, Delivery
<1>5. MidnightOf(t - OneDay * s.threshold.n) = MidnightOf(t) - OneDay * s.threshold.n
  BY <1>2, WholeDays
<1>6. QED
  BY <1>4, <1>5 DEF ToDateBack, AliveOf

LEMMA AlarmOfWill ==
  ASSUME WidgetsInv, WillInv, NEW w \in [Fields -> WidgetRecords]
  PROVE  Right(Alarm(w, built))
<1> SUFFICES ASSUME built # NoWill, prepared.mode # "none", Alarm(w, built).of = prepared.settings
             PROVE  /\ Alarm(w, built).locktime = built
                    /\ Alarm(w, built).threshold = AliveOf(prepared.settings, built)
  BY DEF Right
<1>1. /\ today \in 1 .. MaxDay /\ built \in Nat /\ built % OneDay = 0
      /\ StoredDates(prepared.settings) /\ built <= Delivery(prepared.settings)
  BY DEF WidgetsInv, WillInv, Kept
<1>2. QED
  BY <1>1, AlarmRight

(* What the widgets `ws` work out when an action changed one of them.      *)
LEMMA RealarmedRight ==
  ASSUME DatesInv, NEW ws, ws \in [DOMAIN ws -> [Fields -> WidgetRecords]], NEW q
  PROVE  /\ Realarmed(ws, q) \in [DOMAIN ws -> AlarmRecords]
         /\ \A p \in DOMAIN ws : Right(Realarmed(ws, q)[p])
         /\ \A p \in DOMAIN ws, f \in Fields :
              ws[p][f].editor = 1 => Realarmed(ws, q)[p].of[f] = ws[p][f].value
<1> DEFINE a == Realarmed(ws, q)
<1>1. today \in 1 .. MaxDay /\ built \in Nat
  BY DEF DatesInv, WidgetsInv, WillInv
<1>2. ASSUME NEW p \in DOMAIN ws
      PROVE  a[p] \in AlarmRecords /\ Right(a[p])
             /\ \A f \in Fields : ws[p][f].editor = 1 => a[p].of[f] = ws[p][f].value
  <2>1. CASE a[p] = Alarm(ws[p], built)
    <3>1. Alarm(ws[p], built) \in AlarmRecords /\ Alarm(ws[p], built).of = [f \in Fields |-> ws[p][f].value]
      BY <1>1, AlarmType
    <3>2. Right(Alarm(ws[p], built))
      BY AlarmOfWill DEF DatesInv
    <3>3. QED
      BY <2>1, <3>1, <3>2
  <2>2. CASE /\ a[p] = alarm[p] /\ p \in DOMAIN widgets
             /\ \A f \in Fields :
                  /\ ws[p][f].editor = widgets[p][f].editor
                  /\ ws[p][f].editor = 1 => ws[p][f].value = widgets[p][f].value
    BY <2>2 DEF DatesInv, AlarmInv, OnlyRawIsBehind
  <2>3. QED
    BY <2>1, <2>2 DEF Realarmed
<1>3. a \in [DOMAIN ws -> AlarmRecords]
  BY <1>2 DEF Realarmed
<1>4. QED
  BY <1>2, <1>3

LEMMA AlarmUnmoved ==
  ASSUME DatesInv, WidgetsInv', UNCHANGED willVars, calendar' = NoCalendar,
         alarm' \in [DOMAIN widgets' -> AlarmRecords],
         \A p \in DOMAIN widgets' : Right(alarm'[p]),
         \A p \in DOMAIN widgets', f \in Fields :
           widgets'[p][f].editor = 1 => alarm'[p].of[f] = widgets'[p][f].value
  PROVE  AlarmInv'
<1>1. built' = built /\ prepared' = prepared
  BY DEF willVars
<1>2. \A p \in DOMAIN widgets' : Right(alarm[p])'
  BY <1>1 DEF Right, AliveOf
<1>3. QED
  BY <1>2 DEF AlarmInv, OnlyRawIsBehind

LEMMA RealarmedStep ==
  ASSUME DatesInv, WidgetsInv', UNCHANGED willVars, calendar' = NoCalendar,
         NEW q, alarm' = Realarmed(widgets', q)
  PROVE  AlarmInv'
<1>1. widgets' \in [DOMAIN widgets' -> [Fields -> WidgetRecords]]
  BY DEF WidgetsInv, Show, Fits
<1>2. QED
  BY <1>1, RealarmedRight, AlarmUnmoved

LEMMA RefreshedStep ==
  ASSUME WidgetsInv', WillInv', today' = today, calendar' = NoCalendar,
         alarm' = Refreshed(widgets', built')
  PROVE  AlarmInv'
<1>1. /\ widgets' \in [DOMAIN widgets' -> [Fields -> WidgetRecords]]
      /\ today \in 1 .. MaxDay /\ built' \in Nat /\ built' % OneDay = 0
      /\ StoredDates(prepared'.settings)
      /\ (built' # NoWill /\ prepared'.mode # "none") => built' <= Delivery(prepared'.settings)
  BY DEF WidgetsInv, WillInv, Show, Fits, Kept, Delivery, ToDate, Now, StoredDates
<1>2. ASSUME NEW p \in DOMAIN widgets'
      PROVE  /\ alarm'[p] \in AlarmRecords
             /\ alarm'[p].of = [f \in Fields |-> widgets'[p][f].value]
             /\ (built' # NoWill /\ prepared'.mode # "none" /\ alarm'[p].of = prepared'.settings) =>
                  /\ alarm'[p].locktime = built'
                  /\ alarm'[p].threshold = AliveOf(prepared'.settings, built')
  <2> DEFINE w == widgets'[p]
             t == built'
             s == prepared'.settings
  <2>1. alarm'[p] = Alarm(w, t) /\ w \in [Fields -> WidgetRecords] /\ t \in Nat
    BY <1>1 DEF Refreshed
  <2>2. /\ t % OneDay = 0 /\ StoredDates(s)
        /\ (t # NoWill /\ prepared'.mode # "none") => t <= Delivery(s)
    BY <1>1
  <2> HIDE DEF w, t, s
  <2>3. Alarm(w, t) \in AlarmRecords /\ Alarm(w, t).of = [f \in Fields |-> w[f].value]
    BY <1>1, <2>1, AlarmType
  <2>4. (t # NoWill /\ prepared'.mode # "none" /\ Alarm(w, t).of = s) =>
          Alarm(w, t).locktime = t /\ Alarm(w, t).threshold = AliveOf(s, t)
    BY <1>1, <2>1, <2>2, AlarmRight
  <2>5. QED
    BY <2>1, <2>3, <2>4 DEF w, t, s
<1>3. alarm' \in [DOMAIN widgets' -> AlarmRecords]
  BY <1>2 DEF Refreshed
<1>4. \A p \in DOMAIN widgets' : Right(alarm[p])'
  BY <1>2 DEF Right, AliveOf
<1>5. OnlyRawIsBehind'
  BY <1>2 DEF OnlyRawIsBehind
<1>6. QED
  BY <1>3, <1>4, <1>5 DEF AlarmInv

LEMMA AlarmStep ==
  ASSUME DatesInv, WidgetsInv', WillInv', [Next]_vars
  PROVE  AlarmInv'
<1>1. alarm \in [DOMAIN widgets -> AlarmRecords] /\ Fits(widgets)
  BY DEF DatesInv, AlarmInv, WidgetsInv, Show
<1>2. CASE Day
  <2>1. /\ UNCHANGED willVars /\ widgets' = widgets /\ alarm' = alarm /\ calendar' = NoCalendar
    BY <1>2 DEF Day
  <2>2. QED
    BY <2>1, AlarmUnmoved DEF DatesInv, AlarmInv, OnlyRawIsBehind
<1>3. ASSUME NEW p, NEW f, NEW v, EditDate(p, f, v) PROVE AlarmInv'
  BY <1>3, RealarmedStep DEF EditDate
<1>4. ASSUME NEW p, NEW f, SwitchEditor(p, f) PROVE AlarmInv'
  BY <1>4, RealarmedStep DEF SwitchEditor
<1>5. CASE SwitchMode
  <2>1. /\ today' = today /\ calendar' = NoCalendar /\ built' = built
        /\ alarm' = Refreshed(widgets', built)
    BY <1>5 DEF SwitchMode, willVars
  <2>2. QED
    BY <2>1, RefreshedStep
<1>6. CASE OpenWizard
  BY <1>6, RealarmedStep DEF OpenWizard
<1>7. CASE CloseWizard
  <2>1. /\ UNCHANGED willVars /\ calendar' = NoCalendar
        /\ widgets' = [p \in Tabs |-> widgets[p]] /\ alarm' = [p \in Tabs |-> alarm[p]]
    BY <1>7 DEF CloseWizard
  <2>2. Tabs \subseteq DOMAIN widgets
    BY <1>1 DEF Fits
  <2>3. /\ DOMAIN widgets' = Tabs /\ alarm' \in [DOMAIN widgets' -> AlarmRecords]
        /\ \A p \in Tabs : widgets'[p] = widgets[p] /\ alarm'[p] = alarm[p]
    BY <1>1, <2>1, <2>2
  <2>4. QED
    BY <2>1, <2>2, <2>3, AlarmUnmoved DEF DatesInv, AlarmInv, OnlyRawIsBehind
<1>8. CASE Restart
  <2>1. /\ today' = today /\ calendar' = NoCalendar /\ built' = built
        /\ alarm' = Refreshed(widgets', built)
    BY <1>8 DEF Restart, willVars
  <2>2. QED
    BY <2>1, RefreshedStep
<1>9. ASSUME NEW changed \in BOOLEAN, Prepare(changed) PROVE AlarmInv'
  <2>1. today' = today /\ calendar' = NoCalendar /\ alarm' = Refreshed(widgets', built')
    BY <1>9 DEF Prepare
  <2>2. QED
    BY <2>1, RefreshedStep
<1>10. ASSUME NEW p \in DOMAIN widgets, NEW count \in Reminders, ExportCalendar(p, count) PROVE AlarmInv'
  <2>1. /\ Events(alarm[p], count) # {}
        /\ calendar' = [from |-> p, events |-> Events(alarm[p], count)]
        /\ widgets' = widgets /\ alarm' = alarm /\ built' = built /\ prepared' = prepared
    BY <1>10 DEF ExportCalendar, willVars
  <2>2. \E q \in DOMAIN widgets', n \in Reminders :
          /\ calendar' = [from |-> q, events |-> Events(alarm'[q], n)]
          /\ Events(alarm'[q], n) # {}
    BY <2>1
  <2>3. \A q \in DOMAIN widgets' : Right(alarm[q])'
    BY <2>1 DEF DatesInv, AlarmInv, Right, AliveOf
  <2>4. OnlyRawIsBehind'
    BY <2>1 DEF DatesInv, AlarmInv, OnlyRawIsBehind
  <2>5. QED
    BY <1>1, <2>1, <2>2, <2>3, <2>4 DEF AlarmInv, Events
<1>11. CASE UNCHANGED vars
  <2>1. UNCHANGED <<widgets, alarm, calendar, built, prepared>>
    BY <1>11 DEF vars
  <2>2. \A q \in DOMAIN widgets' : Right(alarm[q])'
    BY <2>1 DEF DatesInv, AlarmInv, Right, AliveOf
  <2>3. QED
    BY <1>1, <2>1, <2>2 DEF DatesInv, AlarmInv, OnlyRawIsBehind, Events
<1>12. QED
  BY <1>2, <1>3, <1>4, <1>5, <1>6, <1>7, <1>8, <1>9, <1>10, <1>11 DEF Next

LEMMA DatesStart ==
  ASSUME Init
  PROVE  DatesInv
<1> DEFINE t == Stored(settings)
           w == NewWidget(t)
<1>1. /\ today \in 1 .. MaxDay /\ mode = "basic" /\ edits \in 0 .. MaxEdits
      /\ built = NoWill /\ NoWill \in Nat /\ NoWill % OneDay = 0
      /\ recipe \in Dates /\ calendar = NoCalendar
      /\ prepared = [settings |-> settings, mode |-> mode] /\ "will" \in Tabs
  BY ConstantTypes, DateFields DEF Init, NoWill, OneDay, Tabs
<1>2. StoredDates(settings)
  <2>1. \A f \in Fields : StoredDate(Default(f, 1))
    BY <1>1, DefaultStored
  <2>2. settings = [f \in Fields |-> Default(f, 1)]
    BY DEF Init
  <2>3. QED
    BY <2>1, <2>2 DEF StoredDates, StoredDate
<1>3. /\ StoredDates(t) /\ t = settings
      /\ \A f \in Fields :
           /\ w[f] \in WidgetRecords /\ w[f].editor = 1
           /\ w[f].editor = 1 <=> ~IsRel(w[f].value)
           /\ w[f].value = t[f] \/ (IsRel(t[f]) /\ w[f].editor = 1)
  BY <1>1, <1>2, NewShows
<1>4. /\ widgets = [p \in Tabs |-> w] /\ w \in [Fields -> WidgetRecords]
      /\ alarm = [p \in Tabs |-> Alarm(widgets[p], NoWill)]
  BY <1>3 DEF Init, Start, NewWidget
<1> HIDE DEF t, w
<1>5. WidgetsInv
  <2>1. /\ DOMAIN widgets = Tabs /\ widgets \in [Tabs -> [Fields -> WidgetRecords]]
        /\ \A p \in Tabs : widgets[p] = w
    BY <1>4
  <2>2. Fits(widgets)
    BY <1>1, <1>3, <2>1 DEF Fits
  <2>3. Show(widgets, settings, mode)
    BY <1>3, <2>1, <2>2 DEF Show
  <2>4. QED
    BY <1>1, <1>2, <2>3 DEF WidgetsInv
<1>6. WillInv
  BY <1>1, <1>2 DEF WillInv, StoredDates
<1>7. AlarmInv
  <2>1. /\ Alarm(w, NoWill) \in AlarmRecords
        /\ Alarm(w, NoWill).of = [f \in Fields |-> w[f].value]
    BY <1>1, <1>4, AlarmType
  <2>2. alarm \in [DOMAIN widgets -> AlarmRecords] /\ OnlyRawIsBehind
    BY <1>4, <2>1 DEF OnlyRawIsBehind
  <2>3. QED
    BY <1>1, <2>2 DEF AlarmInv, Right
<1>8. QED
  BY <1>5, <1>6, <1>7 DEF DatesInv

LEMMA DatesStep ==
  ASSUME DatesInv, [Next]_vars
  PROVE  DatesInv'
BY WidgetsStep, WillStep, AlarmStep DEF DatesInv

LEMMA DatesAlways == Spec => []DatesInv
<1>1. Init => DatesInv
  BY DatesStart
<1>2. DatesInv /\ [Next]_vars => DatesInv'
  BY DatesStep
<1>3. QED
  BY <1>1, <1>2, PTL DEF Spec

-----------------------------------------------------------------------------
(* What WillDates promises.                                                *)

(* Every widget shows the stored date, whichever widget was edited, and    *)
(* after an anticipation; but for a stored duration in a Date editor.      *)
THEOREM WidgetsAlwaysInOrder == Spec => []WidgetsInOrder
<1>1. ASSUME DatesInv PROVE WidgetsInOrder
  <2>1. Fits(widgets) /\ ShownIsStored
    BY <1>1 DEF DatesInv, WidgetsInv, Show, ShownIsStored
  <2>2. ASSUME NEW p \in DOMAIN widgets, NEW f \in Fields
        PROVE  /\ widgets[p][f] \in [editor : {0, 1}, picked : BOOLEAN, value : Dates]
               /\ widgets[p][f].editor = 1 <=> ~IsRel(widgets[p][f].value)
               /\ p \in Tabs => widgets[p][f].editor = widgets["will"][f].editor
    BY <2>1 DEF Fits, WidgetRecords
  <2>3. calendar.from \in DOMAIN widgets \cup {"nobody"}
    BY <1>1 DEF DatesInv, AlarmInv, NoCalendar
  <2>4. alarm \in [DOMAIN widgets -> [locktime : Int, threshold : Int, of : [Fields -> Dates]]]
    BY <1>1 DEF DatesInv, AlarmInv, AlarmRecords
  <2>5. /\ today \in 1 .. MaxDay /\ mode \in {"basic", "advanced"} /\ edits \in 0 .. MaxEdits
        /\ settings \in [Fields -> Dates] /\ DOMAIN widgets \in {Tabs, Tabs \cup {"wizard"}}
    BY <1>1, <2>1 DEF DatesInv, WidgetsInv, StoredDates, Fits
  <2>6. /\ built \in Nat /\ recipe \in Dates /\ prepared.settings \in [Fields -> Dates]
        /\ prepared.mode \in {"basic", "advanced", "none"}
    BY <1>1 DEF DatesInv, WillInv
  <2>7. TypeOK
    BY <2>2, <2>3, <2>4, <2>5, <2>6 DEF TypeOK
  <2>8. QED
    BY <2>1, <2>7 DEF WidgetsInOrder
<1>2. QED
  BY <1>1, DatesAlways, PTL

(* What a will that nobody touched since it was built was built with.      *)
LEMMA UnchangedKept ==
  ASSUME DatesInv, Unchanged
  PROVE  /\ Kept(settings, mode) /\ prepared.settings = settings /\ prepared.mode # "none"
         /\ built \in Nat /\ built % OneDay = 0 /\ built # NoWill
         /\ AliveDate = AliveOf(settings, built) /\ AliveDate \in Int
<1>1. /\ prepared.settings = settings /\ prepared.mode = mode /\ mode # "none"
      /\ built \in Nat /\ built % OneDay = 0 /\ built # NoWill
  BY DEF DatesInv, WidgetsInv, WillInv, Unchanged
<1>2. settings.threshold.n \in Int
  BY DeliveryType DEF DatesInv, WidgetsInv
<1>3. MidnightOf(built) \in Int /\ OneDay * settings.threshold.n \in Int
  <2>1. built \in Int
    BY <1>1
  <2>2. OneDay * settings.threshold.n \in Int
    BY <1>2 DEF OneDay
  <2>3. QED
    BY <2>1, <2>2, Midnights
<1>4. QED
  BY <1>1, <1>2, <1>3 DEF DatesInv, WillInv, AliveDate, AliveOf

LEMMA UnchangedVerdict ==
  ASSUME DatesInv, Unchanged
  PROVE  Verdict(FALSE) =
           IF mode = "basic" THEN IF Now > built THEN "expired" ELSE "coherent"
           ELSE IF Now > AliveDate THEN "check alive" ELSE "coherent"
<1>1. /\ today \in 1 .. MaxDay /\ StoredDates(settings) /\ mode \in {"basic", "advanced"}
      /\ Now \in Nat
  BY NowType DEF DatesInv, WidgetsInv
<1>2. /\ settings.locktime.n \in Int /\ settings.threshold.n \in Int /\ Delivery(settings) \in Int
      /\ StoredDate(settings.threshold)
      /\ ~IsRel(settings.locktime) => Delivery(settings) = settings.locktime.n
  BY <1>1, DeliveryType
<1>3. /\ built \in Nat /\ built % OneDay = 0 /\ built # NoWill /\ AliveDate \in Int
      /\ IF IsRel(settings.locktime) THEN recipe = settings.locktime ELSE built = settings.locktime.n
      /\ (mode = "advanced" /\ ~IsRel(settings.threshold)) => settings.threshold.n <= built
  BY UnchangedKept DEF Kept
<1>4. MidnightOf(built) = built /\ built \in Int
  <2>1. built \in Int
    BY <1>3
  <2>2. QED
    BY <1>3, <2>1, Midnights
<1>5. ToDateBack(settings.threshold, built) = AliveDate
  <2>1. MidnightOf(built - OneDay * settings.threshold.n) = MidnightOf(built) - OneDay * settings.threshold.n
    BY <1>2, <1>4, WholeDays
  <2>2. QED
    BY <2>1 DEF ToDateBack, AliveDate
<1>6. Resolved = built
  BY <1>2, <1>3, <1>4 DEF Resolved, OneDay
<1>7. DateToCheck(settings, built) = IF mode = "basic" THEN Now ELSE AliveDate
  <2>1. /\ mode = "basic" => DateToCheck(settings, built) = Now
        /\ (mode = "advanced" /\ ~IsRel(settings.locktime)) =>
             DateToCheck(settings, built) = ToDateBack(settings.threshold, Delivery(settings))
        /\ (mode = "advanced" /\ IsRel(settings.locktime)) =>
             DateToCheck(settings, built) = ToDateBack(settings.threshold, built)
    BY <1>3, DateToCheckValue DEF DatesInv
  <2>2. QED
    BY <1>1, <1>2, <1>3, <1>5, <2>1
<1>8. mode = "advanced" => AliveDate <= built
  <2>1. CASE IsRel(settings.threshold)
    BY <1>2, <1>3, <1>4, <2>1 DEF AliveDate, StoredDate, OneDay
  <2>2. CASE ~IsRel(settings.threshold)
    BY <1>3, <2>2 DEF AliveDate
  <2>3. QED
    BY <2>1, <2>2
<1>9. CASE mode = "basic"
  BY <1>1, <1>3, <1>6, <1>7, <1>9 DEF Verdict, AliveExpired
<1>10. CASE mode = "advanced"
  <2>1. /\ AliveExpired <=> AliveDate < Now
        /\ ~(built < DateToCheck(settings, built)) /\ ~(Resolved > built) /\ ~(Resolved < built)
    BY <1>3, <1>6, <1>7, <1>8, <1>10 DEF AliveExpired
  <2>2. AliveDate < Now <=> Now > AliveDate
    BY <1>1, <1>3
  <2>3. QED
    BY <1>3, <1>10, <2>1, <2>2 DEF Verdict
<1>11. QED
  BY <1>1, <1>9, <1>10

(* A will that nobody touched is found coherent on every day up to its     *)
(* Check Alive date, in BASIC up to its delivery, and never after it.      *)
THEOREM UnchangedAlwaysAlive == Spec => []UnchangedStaysAlive
<1>1. DatesInv => UnchangedStaysAlive
  BY UnchangedVerdict DEF UnchangedStaysAlive
<1>2. QED
  BY <1>1, DatesAlways, PTL

(* Prepare's guard refuses only what the build finds no delivery for.      *)
THEOREM GuardAlwaysAgrees == Spec => []GuardAgrees
<1>1. ASSUME DatesInv PROVE GuardAgrees
  <2> DEFINE d == Delivery(settings)
  <2>1. d \in Int /\ Now \in Nat /\ mode \in {"basic", "advanced"} /\ settings.threshold \in Dates
    BY <1>1, DeliveryType, NowType DEF DatesInv, WidgetsInv
  <2>2. ToDate(Abs(d), Now) = d
    BY <2>1, DateFields DEF ToDate
  <2>3. DateToCheck(settings, d) = IF mode = "basic" THEN Now ELSE GuardThreshold
    BY <2>2 DEF DateToCheck, GuardThreshold
  <2>4. GuardThreshold \in Int
    BY <2>1, ToDateType DEF GuardThreshold
  <2>5. QED
    BY <2>1, <2>3, <2>4 DEF GuardAgrees, BelowThreshold
<1>2. QED
  BY <1>1, DatesAlways, PTL

-----------------------------------------------------------------------------
(* The reminders.                                                          *)

LEMMA RoundedBetween ==
  ASSUME NEW a \in Nat, NEW b \in Nat \ {0}, NEW d \in Nat, b <= a, a <= b * d
  PROVE  Rounded(a, b) \in Int /\ 1 <= Rounded(a, b) /\ Rounded(a, b) <= d
<1> DEFINE q == a \div b
           r == a % b
<1>1. q \in Int /\ r \in Int /\ a = b * q + r /\ 0 <= r /\ r < b
  OBVIOUS
<1>2. Rounded(a, b) = IF 2 * r > b \/ (2 * r = b /\ q % 2 = 1) THEN q + 1 ELSE q
  BY DEF Rounded
<1> HIDE DEF q, r
<1>3. 1 <= q /\ q <= d /\ (r > 0 => q + 1 <= d)
  <2>1. q >= 1
    <3> SUFFICES ASSUME q <= 0 PROVE FALSE
      BY <1>1
    <3>1. b * q <= 0
      BY <1>1
    <3>2. QED
      BY <1>1, <3>1
  <2>2. q <= d
    <3> SUFFICES ASSUME q >= d + 1 PROVE FALSE
      BY <1>1
    <3>1. b * q >= b * (d + 1)
      BY <1>1
    <3>2. b * (d + 1) = b * d + b
      OBVIOUS
    <3>3. QED
      BY <1>1, <3>1, <3>2
  <2>3. r > 0 => q # d
    BY <1>1
  <2>4. QED
    BY <1>1, <2>1, <2>2, <2>3
<1>4. QED
  BY <1>1, <1>2, <1>3

(* The reminders asked for come on the days of the period, the last one on *)
(* the day before the delivery.                                            *)
LEMMA OffsetsInPeriod ==
  ASSUME NEW days \in Int, NEW count \in Nat, Offsets(days, count) # {}
  PROVE  /\ 1 \in Offsets(days, count)
         /\ \A o \in Offsets(days, count) : o \in Int /\ 1 <= o /\ o <= days
<1> DEFINE n == Min({count, days})
<1>1. days >= 1 /\ count >= 1
  BY DEF Offsets
<1>2. n \in Nat /\ 1 <= n /\ n <= days
  BY <1>1, MinOfTwo
<1>3. Offsets(days, count) =
        IF n = 1 THEN {1}
        ELSE {Rounded(days * (n - 1) - i * (days - 1), n - 1) : i \in 0 .. n - 1}
  BY <1>1 DEF Offsets
<1> HIDE DEF n
<1>4. CASE n = 1
  BY <1>1, <1>3, <1>4
<1>5. CASE n # 1
  <2> DEFINE b == n - 1
             a(i) == days * b - i * (days - 1)
  <2>1. b \in Nat \ {0} /\ days \in Nat
    BY <1>1, <1>2, <1>5
  <2>2. Offsets(days, count) = {Rounded(a(i), b) : i \in 0 .. b}
    BY <1>3, <1>5
  <2> HIDE DEF b
  <2>3. ASSUME NEW i \in 0 .. b
        PROVE  a(i) \in Nat /\ b <= a(i) /\ a(i) <= b * days
    <3> DEFINE x == i * (days - 1)
    <3>1. x \in Int /\ 0 <= x /\ x <= b * (days - 1)
      BY <1>1, <2>1
    <3>2. b * (days - 1) = b * days - b /\ b * days \in Int /\ days * b = b * days
      BY <2>1
    <3> HIDE DEF x
    <3>3. days * b - x \in Nat /\ b <= days * b - x /\ days * b - x <= b * days
      BY <2>1, <3>1, <3>2
    <3>4. QED
      BY <3>3 DEF x
  <2>4. ASSUME NEW i \in 0 .. b
        PROVE  Rounded(a(i), b) \in Int /\ 1 <= Rounded(a(i), b) /\ Rounded(a(i), b) <= days
    <3> DEFINE c == a(i)
    <3>1. c \in Nat /\ b <= c /\ c <= b * days
      BY <2>3
    <3> HIDE DEF c
    <3>2. Rounded(c, b) \in Int /\ 1 <= Rounded(c, b) /\ Rounded(c, b) <= days
      BY <2>1, <3>1, RoundedBetween
    <3>3. QED
      BY <3>2 DEF c
  <2>5. b \in 0 .. b /\ a(b) = b
    <3>1. days * b - b * (days - 1) = b
      BY <2>1
    <3>2. QED
      BY <2>1, <3>1
  <2>6. Rounded(b, b) = 1
    <3>1. b \div b = 1 /\ b % b = 0
      BY <2>1
    <3>2. QED
      BY <2>1, <3>1 DEF Rounded
  <2>7. QED
    BY <2>2, <2>4, <2>5, <2>6
<1>6. QED
  BY <1>4, <1>5

LEMMA EventsInPeriod ==
  ASSUME NEW a \in AlarmRecords, NEW count \in Nat, Events(a, count) # {}
  PROVE  /\ a.locktime - OneDay \in Events(a, count)
         /\ \A t \in Events(a, count) : a.threshold <= t /\ t < a.locktime
<1> DEFINE x == a.locktime - a.threshold
           days == x \div OneDay
<1>1. a.locktime \in Int /\ a.threshold \in Int /\ x \in Int
  BY DEF AlarmRecords
<1>2. days \in Int /\ OneDay * days <= x
  <2> HIDE DEF x
  <2>1. QED
    BY <1>1 DEF OneDay
<1>3. Events(a, count) = {a.locktime - OneDay * o : o \in Offsets(days, count)}
  BY DEF Events
<1> HIDE DEF days
<1>4. /\ 1 \in Offsets(days, count)
      /\ \A o \in Offsets(days, count) : o \in Int /\ 1 <= o /\ o <= days
  BY <1>2, <1>3, OffsetsInPeriod
<1>5. a.locktime - OneDay = a.locktime - OneDay * 1
  BY <1>1 DEF OneDay
<1>6. ASSUME NEW t \in Events(a, count) PROVE a.threshold <= t /\ t < a.locktime
  <2>1. PICK o \in Offsets(days, count) : t = a.locktime - OneDay * o
    BY <1>3
  <2>2. o \in Int /\ 1 <= o /\ o <= days
    BY <1>4
  <2>3. QED
    BY <1>1, <1>2, <2>1, <2>2 DEF OneDay
<1>7. QED
  BY <1>3, <1>4, <1>5, <1>6

(* The calendar of every widget that worked it out of the stored dates     *)
(* runs from the Check Alive date to the delivery of the built will, and   *)
(* so do the reminders; no Date editor is behind with it.                  *)
THEOREM CalendarAlwaysMatches == Spec => []CalendarMatchesWill
<1>1. ASSUME DatesInv PROVE CalendarMatchesWill
  <2>1. AlarmsMatchWill
    <3> SUFFICES ASSUME Unchanged, NEW p \in DOMAIN widgets, alarm[p].of = settings
                 PROVE  alarm[p].locktime = built /\ alarm[p].threshold = AliveDate
      BY DEF AlarmsMatchWill
    <3>1. Right(alarm[p])
      BY <1>1 DEF DatesInv, AlarmInv
    <3>2. QED
      BY <1>1, <3>1, UnchangedKept DEF Right
  <2>2. RemindersInAlivePeriod
    <3> SUFFICES ASSUME calendar # NoCalendar, Unchanged, alarm[calendar.from].of = settings
                 PROVE  /\ built - OneDay \in calendar.events
                        /\ \A t \in calendar.events : AliveDate <= t /\ t < built
      BY DEF RemindersInAlivePeriod
    <3>1. PICK p \in DOMAIN widgets, count \in Reminders :
            /\ calendar = [from |-> p, events |-> Events(alarm[p], count)]
            /\ Events(alarm[p], count) # {}
      BY <1>1 DEF DatesInv, AlarmInv
    <3>2. alarm[p] \in AlarmRecords /\ count \in Nat
      BY <1>1, DatesAssumption DEF DatesInv, AlarmInv, DatesAssumption
    <3>3. alarm[p].locktime = built /\ alarm[p].threshold = AliveDate
      BY <2>1, <3>1 DEF AlarmsMatchWill
    <3>4. /\ alarm[p].locktime - OneDay \in Events(alarm[p], count)
          /\ \A t \in Events(alarm[p], count) : alarm[p].threshold <= t /\ t < alarm[p].locktime
      BY <3>1, <3>2, EventsInPeriod
    <3>5. QED
      BY <3>1, <3>3, <3>4
  <2>3. QED
    BY <1>1, <2>1, <2>2 DEF CalendarMatchesWill, DatesInv, AlarmInv
<1>2. QED
  BY <1>1, DatesAlways, PTL

-----------------------------------------------------------------------------
LEMMA BasicStep ==
  ASSUME DatesInv, Next, mode = "basic", mode' = "basic", settings' # settings
  PROVE  \/ \E p \in DOMAIN widgets, f \in Fields :
              \E v \in Entries(f, widgets[p][f].editor) : EditDate(p, f, v)
         \/ settings' = [settings EXCEPT !.locktime = Abs(built')]
<1>1. StoredDates(settings) /\ today \in 1 .. MaxDay /\ mode \in {"basic", "advanced"}
  BY DEF DatesInv, WidgetsInv
<1>2. Stored(settings) = settings
  BY <1>1, NewShows
<1>3. ~Day /\ ~SwitchMode /\ ~CloseWizard
  BY DEF Day, SwitchMode, CloseWizard
<1>4. ~OpenWizard /\ ~Restart
  BY <1>2 DEF OpenWizard, Restart, Start
<1>5. ASSUME NEW p, NEW f PROVE ~SwitchEditor(p, f)
  BY DEF SwitchEditor
<1>6. ASSUME NEW p, NEW count PROVE ~ExportCalendar(p, count)
  BY DEF ExportCalendar
<1>7. ASSUME NEW changed \in BOOLEAN, Prepare(changed)
      PROVE  settings' = [settings EXCEPT !.locktime = Abs(built')]
  <2>1. ~Invalidate
    BY DEF Invalidate
  <2>2. PICK t \in NewLocktimes : Build(t)
    BY <1>7, <2>1 DEF Prepare
  <2>3. /\ built' = t
        /\ settings' = IF t < DateToCheck(settings, Delivery(settings)) THEN settings ELSE Sync(t)
    BY <2>2 DEF Build
  <2>4. QED
    BY <2>3 DEF Sync
<1>8. QED
  BY <1>3, <1>4, <1>5, <1>6, <1>7 DEF Next

(* In BASIC neither a wizard that opens nor a restart moves the stored     *)
(* dates: only the owner does, or transactions that were anticipated.      *)
THEOREM BasicAlwaysKeepsDates == Spec => BasicKeepsDates
<1>1. ASSUME DatesInv, [Next]_vars
      PROVE  [(mode = "basic" /\ mode' = "basic" /\ settings' # settings) =>
                \/ \E p \in DOMAIN widgets, f \in Fields :
                     \E v \in Entries(f, widgets[p][f].editor) : EditDate(p, f, v)
                \/ settings' = [settings EXCEPT !.locktime = Abs(built')]]_vars
  BY <1>1, BasicStep
<1>2. QED
  BY <1>1, DatesAlways, PTL DEF Spec, BasicKeepsDates

=============================================================================
