------------------------------ MODULE WillDates ------------------------------
(***************************************************************************)
(* The two dates of a will, delivery (locktime) and Check Alive            *)
(* (threshold): the stored settings, the widgets that show and edit them   *)
(* (gui/qt/widgets.py), the BASIC and ADVANCED user types, what the checks *)
(* make of them as days go by (core/checkalive.py), and the reminders      *)
(* written to a calendar file (core/reminders.py).                         *)
(*                                                                         *)
(* A stored date is a moment, or a duration ("30d", "1y"): for the         *)
(* delivery counted from now, for Check Alive counted back from the        *)
(* delivery.  A widget shows a date in one of two editors: 0 takes         *)
(* durations (Raw), 1 moments (Date).  The heirs tab and the will tab have *)
(* such widgets for the whole session, the wizard while it is open; what   *)
(* is edited in one is sent on to the tabs.                                *)
(*                                                                         *)
(* Time is counted in half days, so that a midnight never is now.  A built *)
(* will is its earliest locktime: it is signed and sent in the same run.   *)
(***************************************************************************)
EXTENDS Integers, FiniteSets, FiniteSetsExt

CONSTANTS
  DefaultDays,   \* the default durations ("1y" and "30d"), in days
  Durations,     \* the durations the owner may type, in days
  PickedDays,    \* the days the owner may pick in the Date editor
  Reminders,     \* the numbers of reminders that may be asked for
  EditableDates, \* the setting: may the tabs' dates be edited in BASIC?
  MaxDay,        \* bound: the last day
  MaxEdits       \* bound: edits, editor and user type changes, restarts

Fields == {"locktime", "threshold"}

ASSUME DatesAssumption ==
  /\ DefaultDays \in [Fields -> Nat \ {0}]
  /\ \A f \in Fields : Durations[f] \subseteq Nat \ {0}
  /\ PickedDays \subseteq Nat \ {0}
  /\ Reminders \subseteq Nat
  /\ EditableDates \in BOOLEAN
  /\ MaxDay \in Nat \ {0} /\ MaxEdits \in Nat

VARIABLES
  today,     \* the day
  mode,      \* USER_TYPE
  settings,  \* WILL_SETTINGS: the stored date of each field
  widgets,   \* from the widgets there are to what they show, per field
  alarm,     \* the moments those widgets worked out last, for the calendar,
             \* and the dates they worked them out of
  built,     \* the earliest locktime of the valid transactions
  recipe,    \* the delivery date the heirs of the built will were given
  prepared,  \* settings and user type when the will was built
  calendar,  \* the reminders just written, and by which widget
  edits

vars == <<today, mode, settings, widgets, alarm, built, recipe, prepared,
          calendar, edits>>

Tabs == {"heirs", "will"}
NoWill == 0
NoCalendar == [from |-> "nobody", events |-> {}]

-----------------------------------------------------------------------------
(* Moments and durations.                                                  *)

OneDay == 2
Midnight(d) == OneDay * d
Now == Midnight(today) + 1
MidnightOf(t) == t - (t % OneDay)

Rel(d) == [kind |-> "rel", n |-> d]
Abs(t) == [kind |-> "abs", n |-> t]
IsRel(v) == v.kind = "rel"

(* BalTimestamp.to_date: a duration from a moment on, or back from it.     *)
ToDate(v, from) == IF IsRel(v) THEN MidnightOf(from + OneDay * v.n) ELSE v.n
ToDateBack(v, from) == IF IsRel(v) THEN MidnightOf(from - OneDay * v.n) ELSE v.n

Delivery(s) == ToDate(s.locktime, Now)

(* Faulty: Check Alive is counted back from a delivery that moves on with  *)
(* the clock, although a will was built.                                   *)
DateToCheckDrifting(s, locktime) ==
  IF mode = "basic" THEN Now ELSE ToDateBack(s.threshold, Delivery(s))

(* resolve_date_to_check: the moment every check of the will refers to.    *)
DateToCheck(s, locktime) ==
  IF mode = "basic" THEN Now
  ELSE ToDateBack(s.threshold,
                  IF IsRel(s.locktime) /\ locktime # NoWill
                  THEN ToDate(Abs(locktime), Now) ELSE Delivery(s))

AliveExpired == mode = "advanced" /\ DateToCheck(settings, built) < Now

(* Faulty: the guard looks at the will that was built.                     *)
GuardThresholdOfWill == DateToCheck(settings, built)

(* resolve_guard_threshold, from the settings alone.                       *)
GuardThreshold == ToDateBack(settings.threshold, Delivery(settings))

BelowThreshold ==
  Delivery(settings) < (IF mode = "basic" THEN Now ELSE GuardThreshold)

-----------------------------------------------------------------------------
(* The widgets.                                                            *)

Default(f, editor) ==
  IF editor = 0 THEN Rel(DefaultDays[f]) ELSE Abs(Midnight(today + DefaultDays[f]))

(* Faulty: the Date editor takes a duration.                               *)
ShownAsGiven(w, v) == [w EXCEPT !.value = v]

(* set_value of the editors: the Date editor turns to now when it is given *)
(* a duration (is_acceptable_locktime).                                    *)
Shown(w, v) ==
  [w EXCEPT !.value = IF w.editor = 1 /\ IsRel(v) THEN Abs(Now) ELSE v]

(* Faulty: a new widget has the Raw editor in BASIC too.                   *)
NewRaw(s, f) ==
  [editor |-> 0, picked |-> FALSE,
   value |-> IF IsRel(s[f]) THEN s[f] ELSE Default(f, 0)]

(* BalTimeEditWidget.__init__: in ADVANCED a stored moment gives way to    *)
(* the default duration.                                                   *)
New(s, f) ==
  IF mode = "basic"
  THEN Shown([editor |-> 1, picked |-> FALSE, value |-> s[f]], s[f])
  ELSE [editor |-> 0, picked |-> FALSE,
        value |-> IF IsRel(s[f]) THEN s[f] ELSE Default(f, 0)]

NewWidget(s) == [f \in Fields |-> New(s, f)]

(* ... which is stored at once, as the set_value of __init__ does.         *)
Stored(s) == [f \in Fields |-> IF New(s, f).editor = 0 THEN New(s, f).value ELSE s[f]]

(* Faulty: only the will tab is told.                                      *)
UpdateWillTab(ws, f, v) == [ws EXCEPT !["will"][f] = Shown(@, v)]

(* update_setting_widgets with update_all.  A tab whose Date editor turned *)
(* to now tells the tabs that, but the update it is part of goes on, and   *)
(* the last word is its own.                                               *)
UpdateAll(ws, f, v) ==
  [p \in DOMAIN ws |->
     IF p \in Tabs THEN [ws[p] EXCEPT ![f] = Shown(@, v)] ELSE ws[p]]

(* on_current_index_changed: all widgets follow, each with the default of  *)
(* the editor it turned to.                                                *)
Switched(ws, f, editor) ==
  [p \in DOMAIN ws |->
     [ws[p] EXCEPT ![f].editor = editor, ![f].value = Default(f, editor)]]

Values(w) == [f \in Fields |-> w[f].value]

(* Faulty: the delivery of the built will is not looked at.                *)
AlarmOfSettings(w, locktime) ==
  LET delivery == ToDate(w["locktime"].value, Now)
  IN [locktime |-> delivery, threshold |-> ToDateBack(w["threshold"].value, delivery),
      of |-> Values(w)]

(* on_locktime_change: the will is delivered by its earliest transaction.  *)
Alarm(w, locktime) ==
  LET wanted == ToDate(w["locktime"].value, Now)
      delivery == IF locktime = NoWill THEN wanted ELSE Min({locktime, wanted})
  IN [locktime |-> delivery, threshold |-> ToDateBack(w["threshold"].value, delivery),
      of |-> Values(w)]

(* Where it runs: in the widget that was edited, in one that turned to the *)
(* other editor and in a Date editor that shows something new.  Text set   *)
(* in a Raw editor has its signals blocked.                                *)
Realarmed(ws, edited) ==
  [p \in DOMAIN ws |->
     IF \/ p = edited \/ p \notin DOMAIN widgets
        \/ \E f \in Fields :
             \/ ws[p][f].editor # widgets[p][f].editor
             \/ ws[p][f].editor = 1 /\ ws[p][f].value # widgets[p][f].value
     THEN Alarm(ws[p], built) ELSE alarm[p]]

(* update_all refreshes the lists of the tabs, and these their widgets.    *)
Refreshed(ws, locktime) == [p \in DOMAIN ws |-> Alarm(ws[p], locktime)]

-----------------------------------------------------------------------------
Start(s) ==
  LET t == Stored(s)
  IN [settings |-> t, widgets |-> [p \in Tabs |-> NewWidget(t)]]

(* The first start of the plugin.                                          *)
Init ==
  /\ today = 1
  /\ mode = "basic"
  /\ settings = [f \in Fields |-> Default(f, 1)]
  /\ widgets = Start(settings).widgets
  /\ alarm = [p \in Tabs |-> Alarm(widgets[p], NoWill)]
  /\ built = NoWill
  /\ recipe = Rel(0)
  /\ prepared = [settings |-> settings, mode |-> mode]
  /\ calendar = NoCalendar
  /\ edits = 0

willVars == <<built, recipe, prepared>>

Editing == edits < MaxEdits /\ edits' = edits + 1

InWizard == "wizard" \in DOMAIN widgets

(* The wizard is modal.  The tabs are read-only in BASIC unless the owner  *)
(* asked otherwise, and Check Alive is hidden there.                       *)
CanEdit(p, f) ==
  /\ p = (IF InWizard THEN "wizard" ELSE p)
  /\ p \in Tabs => mode = "advanced" \/ EditableDates
  /\ f = "threshold" => mode = "advanced"

(* The Raw editor keeps digits and one suffix (normalize_locktime_raw_text)*)
Entries(f, editor) ==
  IF editor = 0 THEN {Rel(d) : d \in Durations[f]} ELSE {Abs(Midnight(d)) : d \in PickedDays}

EditDate(p, f, v) ==
  /\ Editing
  /\ CanEdit(p, f)
  /\ v \in Entries(f, widgets[p][f].editor) \ {widgets[p][f].value}
  /\ widgets' = UpdateAll([widgets EXCEPT ![p][f].value = v], f, v)
  /\ settings' = [settings EXCEPT ![f] = v]
  /\ alarm' = Realarmed(widgets', p)
  /\ calendar' = NoCalendar
  /\ UNCHANGED <<today, mode, willVars>>

(* The selector is hidden in BASIC.                                        *)
SwitchEditor(p, f) ==
  LET editor == 1 - widgets[p][f].editor
  IN /\ Editing
     /\ CanEdit(p, f) /\ mode = "advanced"
     /\ widgets' = [Switched(widgets, f, editor) EXCEPT ![p][f].picked = TRUE]
     /\ settings' = [settings EXCEPT ![f] = Default(f, editor)]
     /\ alarm' = Realarmed(widgets', p)
     /\ calendar' = NoCalendar
     /\ UNCHANGED <<today, mode, willVars>>

(* on_user_type_change: the tabs go back to the editor of the user type,   *)
(* in ADVANCED unless the owner picked it in both.                         *)
SwitchMode ==
  LET editor == IF mode = "basic" THEN 0 ELSE 1
      turns == {f \in Fields :
                  \E p \in Tabs :
                    /\ widgets[p][f].editor # editor
                    /\ mode = "basic" => ~widgets[p][f].picked}
  IN /\ Editing
     /\ ~InWizard
     /\ mode' = IF mode = "basic" THEN "advanced" ELSE "basic"
     /\ widgets' = [p \in Tabs |-> [f \in Fields |->
                      IF f \in turns THEN Switched(widgets, f, editor)[p][f]
                      ELSE widgets[p][f]]]
     /\ settings' = [f \in Fields |-> IF f \in turns THEN Default(f, editor) ELSE settings[f]]
     /\ alarm' = Refreshed(widgets', built)
     /\ calendar' = NoCalendar
     /\ UNCHANGED <<today, willVars>>

(* The page with the dates, and the list of heirs before it.               *)
OpenWizard ==
  LET t == Stored(settings)
  IN /\ ~InWizard
     /\ settings' = t
     /\ widgets' = [p \in Tabs \cup {"wizard"} |->
                      IF p = "wizard" THEN NewWidget(t) ELSE widgets[p]]
     /\ alarm' = Realarmed(widgets', "wizard")
     /\ calendar' = NoCalendar
     /\ UNCHANGED <<today, mode, willVars, edits>>

CloseWizard ==
  /\ InWizard
  /\ widgets' = [p \in Tabs |-> widgets[p]]
  /\ alarm' = [p \in Tabs |-> alarm[p]]
  /\ calendar' = NoCalendar
  /\ UNCHANGED <<today, mode, settings, willVars, edits>>

Restart ==
  /\ Editing
  /\ settings' = Start(settings).settings
  /\ widgets' = Start(settings).widgets
  /\ alarm' = Refreshed(widgets', built)
  /\ calendar' = NoCalendar
  /\ UNCHANGED <<today, mode, willVars>>

-----------------------------------------------------------------------------
(* The checks.                                                             *)

(* resolve_locktime_against_tx: what the stored delivery means for a will  *)
(* that was built from `recipe`.                                           *)
Resolved ==
  IF IsRel(settings.locktime) /\ IsRel(recipe)
  THEN MidnightOf(built) + OneDay * (settings.locktime.n - recipe.n)
  ELSE Delivery(settings)

(* task_phase1 up to the build; `changed`: heirs, coins or fees are not    *)
(* those of the built will.                                                *)
Verdict(changed) ==
  IF AliveExpired THEN "check alive"
  ELSE IF built = NoWill THEN "build"
  ELSE IF built < DateToCheck(settings, built) THEN "expired"
  ELSE IF Resolved > built THEN "postponed"
  ELSE IF changed \/ Resolved < built THEN "build"
  ELSE "coherent"

(* build_will refers to the new delivery; the rebuilt will comes a day     *)
(* before the one it replaces, or on its day (check_anticipate).           *)
NewLocktimes ==
  IF built = NoWill THEN {Delivery(settings)}
  ELSE {Min({Delivery(settings), built}), Min({Delivery(settings), built - OneDay})}

(* _sync_locktime_to_built_txs: the stored moment follows an anticipation. *)
Sync(locktime) ==
  IF ~IsRel(settings.locktime) /\ locktime < settings.locktime.n
  THEN [settings EXCEPT !.locktime = Abs(locktime)] ELSE settings

Build(locktime) ==
  LET crossed == locktime < DateToCheck(settings, Delivery(settings))
      s == IF crossed THEN settings ELSE Sync(locktime)
  IN /\ Delivery(settings) > DateToCheck(settings, Delivery(settings))
     /\ built' = locktime
     /\ recipe' = settings.locktime
     /\ settings' = s
     /\ prepared' = IF crossed THEN [settings |-> s, mode |-> "none"]
                    ELSE [settings |-> s, mode |-> mode]
     /\ widgets' = LET ws == [p \in Tabs |-> widgets[p]]
                   IN IF s = settings THEN ws ELSE UpdateAll(ws, "locktime", s.locktime)

(* Signed, broadcast and seen by the wallet: no transaction is valid.      *)
Invalidate ==
  /\ built' = NoWill
  /\ widgets' = [p \in Tabs |-> widgets[p]]
  /\ UNCHANGED <<settings, recipe, prepared>>

(* The wizard's last page, Check, and closing the wallet.                  *)
Prepare(changed) ==
  /\ \/ Verdict(changed) = "build" /\ \E t \in NewLocktimes : Build(t)
     \/ /\ Verdict(changed) \in {"check alive", "expired", "postponed"}
        /\ built # NoWill
        /\ Invalidate
  /\ calendar' = NoCalendar
  /\ UNCHANGED <<today, mode, edits>>
  /\ alarm' = Refreshed(widgets', built')

-----------------------------------------------------------------------------
(* The calendar.                                                           *)

(* round(), which goes to the even number from the middle                  *)
Rounded(a, b) ==
  LET q == a \div b
      r == 2 * (a % b)
  IN IF r > b \/ (r = b /\ q % 2 = 1) THEN q + 1 ELSE q

(* Faulty: the last reminder is on the day of delivery.                    *)
OffsetsToDelivery(days, count) ==
  LET n == Min({count, days})
  IN IF days < 1 \/ count < 1 THEN {}
     ELSE IF n = 1 THEN {1}
     ELSE {Rounded(days * (n - 1 - i), n - 1) : i \in 0 .. n - 1}

(* compute_reminder_offsets, in days before the delivery                   *)
Offsets(days, count) ==
  LET n == Min({count, days})
  IN IF days < 1 \/ count < 1 THEN {}
     ELSE IF n = 1 THEN {1}
     ELSE {Rounded(days * (n - 1) - i * (days - 1), n - 1) : i \in 0 .. n - 1}

(* build_ics_reminders                                                     *)
Events(a, count) ==
  {a.locktime - OneDay * o :
     o \in Offsets((a.locktime - a.threshold) \div OneDay, count)}

(* The calendar button of the tabs and of the wizard.  In BASIC it always  *)
(* says that there is nothing to remind of: the moment of delivery has a   *)
(* time zone and now has none, so their difference is an error.            *)
ExportCalendar(p, count) ==
  /\ p = (IF InWizard THEN "wizard" ELSE p)
  /\ mode = "advanced"
  /\ Events(alarm[p], count) # {}
  /\ calendar' = [from |-> p, events |-> Events(alarm[p], count)]
  /\ UNCHANGED <<today, mode, settings, widgets, alarm, willVars, edits>>

-----------------------------------------------------------------------------
Day ==
  /\ today < MaxDay
  /\ today' = today + 1
  /\ calendar' = NoCalendar
  /\ UNCHANGED <<mode, settings, widgets, alarm, willVars, edits>>

Next ==
  \/ Day
  \/ \E p \in DOMAIN widgets, f \in Fields :
       \/ \E v \in Entries(f, widgets[p][f].editor) : EditDate(p, f, v)
       \/ SwitchEditor(p, f)
  \/ SwitchMode
  \/ OpenWizard
  \/ CloseWizard
  \/ Restart
  \/ \E changed \in BOOLEAN : Prepare(changed)
  \/ \E p \in DOMAIN widgets, count \in Reminders : ExportCalendar(p, count)

Spec == Init /\ [][Next]_vars

-----------------------------------------------------------------------------
Dates == [kind : {"rel", "abs"}, n : Int]

(* The types; the tabs have the same editor, and the Date editor shows     *)
(* moments.                                                                *)
TypeOK ==
  /\ today \in 1 .. MaxDay
  /\ mode \in {"basic", "advanced"}
  /\ settings \in [Fields -> Dates]
  /\ DOMAIN widgets \in {Tabs, Tabs \cup {"wizard"}}
  /\ \A p \in DOMAIN widgets, f \in Fields :
       /\ widgets[p][f] \in [editor : {0, 1}, picked : BOOLEAN, value : Dates]
       /\ widgets[p][f].editor = 1 <=> ~IsRel(widgets[p][f].value)
       /\ p \in Tabs => widgets[p][f].editor = widgets["will"][f].editor
  /\ alarm \in [DOMAIN widgets -> [locktime : Int, threshold : Int, of : [Fields -> Dates]]]
  /\ built \in Nat
  /\ recipe \in Dates
  /\ prepared.settings \in [Fields -> Dates]
  /\ prepared.mode \in {"basic", "advanced", "none"}
  /\ calendar.from \in DOMAIN widgets \cup {"nobody"}
  /\ edits \in 0 .. MaxEdits

(* What a widget shows is what is stored, except for a stored duration in  *)
(* a Date editor: whichever widget was edited, and after an anticipation   *)
(* (_sync_locktime_to_built_txs, update_setting_widgets).                  *)
ShownIsStored ==
  \A p \in DOMAIN widgets, f \in Fields :
    \/ widgets[p][f].value = settings[f]
    \/ IsRel(settings[f]) /\ widgets[p][f].editor = 1

(* The widgets have their types and tell the truth.                        *)
WidgetsInOrder == TypeOK /\ ShownIsStored

(* Nothing was changed since the will was built.                           *)
Unchanged ==
  /\ built # NoWill
  /\ prepared = [settings |-> settings, mode |-> mode]

(* The Check Alive date of the built will.                                 *)
AliveDate ==
  IF IsRel(settings.threshold) THEN MidnightOf(built) - OneDay * settings.threshold.n
  ELSE settings.threshold.n

(* An unchanged will is found coherent on every day up to its Check Alive  *)
(* date, in BASIC up to its delivery, and never after it: it neither reads *)
(* as postponed nor as expired because days went by (resolve_date_to_check,*)
(* resolve_locktime_against_tx, _sync_locktime_to_built_txs).              *)
UnchangedStaysAlive ==
  Unchanged =>
    Verdict(FALSE) =
      IF mode = "basic" THEN IF Now > built THEN "expired" ELSE "coherent"
      ELSE IF Now > AliveDate THEN "check alive" ELSE "coherent"

(* The guard of Prepare only refuses what a build would find no delivery   *)
(* for, whatever will was built before (resolve_guard_threshold).          *)
GuardAgrees ==
  BelowThreshold => Delivery(settings) <= DateToCheck(settings, Delivery(settings))

(* A widget can be behind with its alarms, but for a Raw editor only: text *)
(* set in it from elsewhere has its signals blocked.                       *)
OnlyRawIsBehind ==
  \A p \in DOMAIN widgets, f \in Fields :
    widgets[p][f].editor = 1 => alarm[p].of[f] = widgets[p][f].value

(* As long as nothing was changed, the calendar of every widget that worked*)
(* it out of the stored dates runs from the Check Alive date to the        *)
(* delivery of the built will, however many days ago it did.               *)
AlarmsMatchWill ==
  Unchanged =>
    \A p \in DOMAIN widgets :
      alarm[p].of = settings => alarm[p].locktime = built /\ alarm[p].threshold = AliveDate

(* ... so every reminder comes in that period, the last one a day before   *)
(* the delivery (compute_reminder_offsets).                                *)
RemindersInAlivePeriod ==
  (calendar # NoCalendar /\ Unchanged /\ alarm[calendar.from].of = settings) =>
    /\ built - OneDay \in calendar.events
    /\ \A t \in calendar.events : AliveDate <= t /\ t < built

(* The calendar is that of the built will, in its alarms and its reminders.*)
CalendarMatchesWill == OnlyRawIsBehind /\ AlarmsMatchWill /\ RemindersInAlivePeriod

(* In BASIC the stored dates change only when the owner edits one, or when *)
(* the delivery follows the anticipated transactions: neither a wizard     *)
(* that opens nor a restart moves them.                                    *)
BasicKeepsDates ==
  [][(mode = "basic" /\ mode' = "basic" /\ settings' # settings) =>
       \/ \E p \in DOMAIN widgets, f \in Fields :
            \E v \in Entries(f, widgets[p][f].editor) : EditDate(p, f, v)
       \/ settings' = [settings EXCEPT !.locktime = Abs(built')]]_vars

=============================================================================
