----------------------------- MODULE QrTransfer -----------------------------
(***************************************************************************)
(* A will is carried from one device to another as QR codes.  The export   *)
(* page (dialogs.py, BalQrExportWidget) shows one code at a time, by hand  *)
(* or as a slideshow, and begins anew when the will, the format or the     *)
(* size of the codes is changed.  A camera reads what is shown: that of    *)
(* the import page of the plugin on the desktop (BalQrImportWidget), with  *)
(* its debounce, or that of the Android reader, which feeds every code it  *)
(* reads to the same receive session (core/animated_qr.py).                *)
(*                                                                         *)
(* A code can be read or missed, never misread: codes have checksums.      *)
(***************************************************************************)
EXTENDS Naturals, Sequences, FiniteSets, Functions, TLC, Fountain

CONSTANTS
  Apps,           \* the receivers looked at: "desktop", "phone"
  Formats,        \* "balqr", "ur1", "ur2", "bbqr"
  Wills,          \* what can be exported
  Sizes,          \* of a code: CHUNK_PRESETS
  Parts,          \* number of parts, by receiver (cameras take codes of different
                  \* sizes), format, will and size
  Packed,         \* the wills that compression makes shorter
  Chosen,         \* fragments of the mixed parts: [n -> [part -> subset]]
  ReadsPerCode,   \* readings the camera manages while the slideshow shows a code
  MaxChanges      \* bound on changes at the export page

ASSUME QrAssumption ==
  /\ Apps \subseteq {"desktop", "phone"}
  /\ Formats \subseteq {"balqr", "ur1", "ur2", "bbqr"}
  /\ Parts \in [Apps -> [Formats -> [Wills -> [Sizes -> Nat \ {0}]]]]
  /\ Packed \subseteq Wills /\ {"none", "mixed"} \cap Wills = {}
  /\ \A a \in Apps, f \in Formats, w \in Wills, s \in Sizes :
       LET n == Parts[a][f][w][s] IN
       n > 1 => Chosen[n] \in [n + 1 .. 2 * n -> (SUBSET Fragments(n)) \ {{}}]
  /\ ReadsPerCode \in Nat \ {0} /\ MaxChanges \in Nat

VARIABLES
  page,      \* what is exported: [fmt, will, size], and the index of the code shown
  show,      \* the slideshow: "off", "once" or "loop"
  reads,     \* readings of the code shown, up to ReadsPerCode
  changes,
  app,       \* the receiver that is used
  session,   \* AnimatedQrSession
  slots,     \* frames of the import page: the slots that are filled
  debounce,  \* _debounce
  scanning,  \* the camera is on
  pending,   \* _finish_pending
  deferred,  \* the singleShot timer of _maybe_auto_finish
  outcome    \* of the last _review_and_sign, or of finishScan

exportVars == <<page, show, changes>>
receiverVars == <<session, slots, debounce, scanning, pending, deferred, outcome>>
vars == <<exportVars, reads, app, receiverVars>>

None == "none"
StableReads == 2

-----------------------------------------------------------------------------
(* Codes.                                                                  *)

Total(fmt, w, s) == Parts[app][fmt][w][s]

(* ur2_frames: the fragments, then as many mixed parts.                    *)
Ur2Codes(n) == IF n = 1 THEN 1 ELSE 2 * n

Codes(p) ==
  LET n == Total(p.fmt, p.will, p.size) IN IF p.fmt = "ur2" THEN Ur2Codes(n) ELSE n

(* The code at an index of the export page; BBQR counts from 0.            *)
Code(p) ==
  [fmt |-> p.fmt, will |-> p.will, size |-> p.size, total |-> Total(p.fmt, p.will, p.size),
   seq |-> IF p.fmt = "bbqr" THEN p.index - 1 ELSE p.index]

(* What a code says of the transfer it belongs to: nothing in BAL QR, the  *)
(* digest in BC-UR 1, length and checksum in BC-UR 2, the encoding in BBQR.*)
Header(c) ==
  CASE c.fmt = "ur1"   -> c.will
    [] c.fmt = "ur2"   -> c.will
    [] c.fmt = "bbqr"  -> IF c.will \in Packed THEN "Z" ELSE "2"
    [] OTHER           -> None

(* session_key of parse_for_detection; BC-UR 1 leaves the total out.       *)
Key(c) == <<c.fmt, IF c.fmt = "ur1" THEN 0 ELSE c.total, Header(c)>>

NoCode == [fmt |-> None, will |-> None, size |-> None, total |-> 0, seq |-> 0]

(* _reset_debounce                                                         *)
Quiet == [key |-> Key(NoCode), last |-> NoCode, next |-> NoCode, count |-> 0]

-----------------------------------------------------------------------------
(* The receive session.                                                    *)

NoSession == [fmt |-> None, total |-> 0, header |-> None, flag |-> FALSE,
              parts |-> <<>>, fountain |-> Empty]

(* Faulty: a session takes any code of its format and total.               *)
ConflictsOnTotal(s, c) == s.fmt # None /\ (c.fmt # s.fmt \/ c.total # s.total)

Conflicts(s, c) ==
  s.fmt # None /\ (c.fmt # s.fmt \/ c.total # s.total \/ Header(c) # s.header)

Started(s, c) ==
  IF s.fmt # None THEN s
  ELSE [s EXCEPT !.fmt = c.fmt, !.total = c.total, !.header = Header(c),
                 !.flag = c.will \in Packed]

(* add of the four sessions: a part that is there is not replaced.  What a *)
(* part holds is told by the will and the size it was cut to.              *)
AddPart(s, c) ==
  LET t == Started(s, c)
      indexes == ChooseFragments(c.seq, c.total, Chosen) IN
  IF c.fmt = "ur2"
  THEN [t EXCEPT !.fountain = Receive(@, indexes, Mix(c.will, indexes), c.total)]
  ELSE [t EXCEPT !.parts =
          [k \in DOMAIN @ \cup {c.seq} |-> IF k \in DOMAIN @ THEN @[k] ELSE <<c.will, c.size>>]]

IsDup(s, c) == c.fmt # "ur2" /\ c.seq \in DOMAIN s.parts

Done(s) ==
  /\ s.fmt # None
  /\ IF s.fmt = "ur2" THEN Complete(s.fountain, s.total)
     ELSE Cardinality(DOMAIN s.parts) >= s.total

Sources(s) == IF s.fmt = "ur2" THEN {<<s.header, "any">>} ELSE Range(s.parts)

Outcome(kind, what) == [kind |-> kind, what |-> what]
NoOutcome == Outcome(None, None)

(* What parts that do not belong together give in the formats that have no *)
(* digest: something that does not decompress, which raises where nobody   *)
(* catches it (BAL QR) or is refused (BBQR), text that does not parse, or  *)
(* text that does.                                                         *)
Garbled(s) ==
  IF s.fmt = "bbqr"
  THEN {Outcome("refused", None), Outcome("unparsed", None), Outcome("review", "mixed")}
  ELSE IF s.flag THEN {Outcome("raised", None)}
  ELSE {Outcome("unparsed", None), Outcome("review", "mixed")}

(* Faulty: the digest of BC-UR 1 is not compared.                          *)
DecodedUnchecked(s) ==
  IF Cardinality(Sources(s)) = 1
  THEN {Outcome("review", src[1]) : src \in Sources(s)}
  ELSE Garbled(s)

(* resolve, decode_transfer and decode_will_payload: parts of one will,    *)
(* cut to one size, give that will; others are refused by the digest.      *)
Decoded(s) ==
  IF Cardinality(Sources(s)) = 1
  THEN {Outcome("review", src[1]) : src \in Sources(s)}
  ELSE IF s.fmt = "ur1" THEN {Outcome("refused", None)}
  ELSE Garbled(s)

-----------------------------------------------------------------------------
(* The export page.                                                        *)

Shown == Code(page)

Init ==
  /\ page \in [fmt : Formats, will : Wills, size : Sizes, index : {1}]
  /\ show = "off" /\ reads = 0 /\ changes = 0
  /\ app \in Apps
  /\ session = NoSession /\ slots = {} /\ outcome = NoOutcome
  /\ debounce = Quiet
  /\ scanning = (app = "phone") /\ pending = FALSE /\ deferred = FALSE

(* Faulty: the index is kept.                                              *)
ReexportInPlace(p) ==
  /\ changes < MaxChanges /\ p # page
  /\ page' = p
  /\ show' = "off" /\ reads' = 0 /\ changes' = changes + 1
  /\ UNCHANGED <<app, receiverVars>>

(* set_tx_strings, _on_format_change and _on_chunk_change                  *)
Reexport(p) ==
  /\ changes < MaxChanges /\ p # page
  /\ page' = [p EXCEPT !.index = 1]
  /\ show' = "off" /\ reads' = 0 /\ changes' = changes + 1
  /\ UNCHANGED <<app, receiverVars>>

ChangeExport ==
  \/ \E w \in Wills : Reexport([page EXCEPT !.will = w])
  \/ \E f \in Formats : Reexport([page EXCEPT !.fmt = f])
  \/ \E s \in Sizes : Reexport([page EXCEPT !.size = s])

(* _toggle_auto, and the Loop box.                                         *)
ToggleAuto ==
  /\ IF show # "off" THEN show' = "off"
     ELSE Codes(page) > 1 /\ show' \in {"once", "loop"}
  /\ UNCHANGED <<page, reads, changes, app, receiverVars>>

Turn(index) ==
  /\ page' = [page EXCEPT !.index = index] /\ reads' = 0
  /\ UNCHANGED <<changes, app, receiverVars>>

(* _prev and _next                                                         *)
Browse ==
  /\ \/ page.index > 1 /\ Turn(page.index - 1)
     \/ page.index < Codes(page) /\ Turn(page.index + 1)
  /\ UNCHANGED show

(* _auto_step.  A code stays long enough for ReadsPerCode readings.        *)
AutoStep ==
  /\ show # "off" /\ (reads = ReadsPerCode \/ ~scanning)
  /\ IF page.index < Codes(page) THEN Turn(page.index + 1) /\ UNCHANGED show
     ELSE IF show = "loop" THEN Turn(1) /\ UNCHANGED show
     ELSE show' = "off" /\ UNCHANGED <<page, reads, changes, app, receiverVars>>

CountRead == reads' = IF reads < ReadsPerCode THEN reads + 1 ELSE reads

-----------------------------------------------------------------------------
(* The import page of the plugin.                                          *)

(* _stop_scan                                                              *)
CameraOff == scanning' = FALSE /\ debounce' = Quiet

(* Faulty: the slots are kept.                                             *)
ResetAllButSlots ==
  CameraOff /\ pending' = FALSE /\ session' = NoSession /\ UNCHANGED slots

(* _reset_all                                                              *)
ResetAll ==
  CameraOff /\ pending' = FALSE /\ session' = NoSession /\ slots' = {}

(* Slots count from 1 in every format.                                     *)
Slot(c) == IF c.fmt = "bbqr" THEN c.seq + 1 ELSE c.seq

(* Faulty: the camera goes on.                                             *)
FinishScanning(d) ==
  debounce' = d /\ pending' = TRUE /\ deferred' = TRUE /\ UNCHANGED scanning

(* _maybe_auto_finish                                                      *)
Finish(d) == CameraOff /\ pending' = TRUE /\ deferred' = TRUE

(* _add_frame.  A code with another key, or one that the session refuses,  *)
(* resets the import; it is not kept.  Only the camera finishes by itself. *)
(* The debounce becomes d, unless it is reset.                             *)
AddFrame(c, d) ==
  LET added == AddPart(session, c)
      filled == IF IsDup(session, c) THEN slots ELSE slots \cup {Slot(c)}
      done == Done(added) /\ Cardinality(filled) >= added.total IN
  IF Conflicts(session, c)
  THEN ResetAll /\ UNCHANGED deferred
  ELSE /\ session' = added /\ slots' = filled
       /\ IF done /\ scanning /\ ~pending THEN Finish(d)
          ELSE debounce' = d /\ UNCHANGED <<scanning, pending, deferred>>

(* Faulty: compared with the code that was accepted.                       *)
WaitingForLast(c) ==
  [debounce EXCEPT !.next = c, !.count = IF debounce.last = c THEN @ + 1 ELSE 1]

(* qr_import_accept_frame                                                  *)
Waiting(c) ==
  [debounce EXCEPT !.next = c, !.count = IF debounce.next = c THEN @ + 1 ELSE 1]

(* _on_scan_tick and _handle_scanned_text.                                 *)
Tick ==
  /\ app = "desktop" /\ scanning /\ ~deferred
  /\ CountRead /\ UNCHANGED <<exportVars, app, outcome>>
  /\ LET c == Shown
         waiting == Waiting(c) IN
     IF debounce.key # Quiet.key /\ Key(c) # debounce.key
     THEN ResetAll /\ UNCHANGED deferred
     ELSE IF c = debounce.last
     THEN UNCHANGED <<session, slots, debounce, scanning, pending, deferred>>
     ELSE IF waiting.count >= StableReads
     THEN AddFrame(c, [key |-> Key(c), last |-> c, next |-> NoCode, count |-> 0])
     ELSE debounce' = waiting /\ UNCHANGED <<session, slots, scanning, pending, deferred>>

(* _add_from_manual: the code shown is typed or pasted.                    *)
AddManually ==
  /\ app = "desktop" /\ ~deferred
  /\ AddFrame(Shown, debounce)
  /\ UNCHANGED <<exportVars, reads, app, outcome>>

(* _start_scan; _stop_scan by the button, an error or the page being left. *)
ToggleScan ==
  /\ app = "desktop"
  /\ IF scanning THEN CameraOff /\ UNCHANGED pending
     ELSE scanning' = TRUE /\ debounce' = Quiet /\ pending' = FALSE
  /\ UNCHANGED <<exportVars, reads, app, session, slots, deferred, outcome>>

(* The Reset button; and opening the dialog again after it was closed.     *)
Reset ==
  /\ app = "desktop" /\ ResetAll
  /\ outcome' = NoOutcome /\ UNCHANGED <<exportVars, reads, app, deferred>>

(* _review_and_sign, by the button or by the timer, with _complete_import: *)
(* the dialog closes, which stops the camera, when there is a will to look *)
(* at.  What raises or does not parse leaves the codes where they are.     *)
ReviewAndSign ==
  /\ app = "desktop"
  /\ \/ deferred
     \/ Done(session) /\ Cardinality(slots) >= session.total
  /\ deferred' = FALSE
  /\ IF ~Done(session)
     THEN UNCHANGED <<session, slots, debounce, scanning, pending, outcome>>
     ELSE /\ outcome' \in Decoded(session)
          /\ CASE outcome'.kind = "refused" -> ResetAll
               [] outcome'.kind = "review"  -> CameraOff /\ UNCHANGED <<session, slots, pending>>
               [] OTHER -> UNCHANGED <<session, slots, debounce, scanning, pending>>
  /\ UNCHANGED <<exportVars, reads, app>>

-----------------------------------------------------------------------------
(* The Android reader (BalDecoder.kt, MainActivity.kt, bridge.py).         *)

(* handleFrame.  Only a change of the format is told apart by the text of  *)
(* the error: that starts a new session, without the code; every other     *)
(* conflict is ignored, as garbage is.  A finished scan is decoded at once.*)
PhoneReads ==
  /\ app = "phone" /\ scanning
  /\ CountRead
  /\ LET c == Shown
         added == AddPart(session, c) IN
     IF session.fmt \notin {None, c.fmt}
     THEN session' = NoSession /\ UNCHANGED <<scanning, outcome>>
     ELSE IF Conflicts(session, c)
     THEN UNCHANGED <<session, scanning, outcome>>
     ELSE /\ session' = added
          /\ IF Done(added) /\ ~IsDup(session, c)
             THEN scanning' = FALSE /\ outcome' \in Decoded(added)
             ELSE UNCHANGED <<scanning, outcome>>
  /\ UNCHANGED <<exportVars, app, slots, debounce, pending, deferred>>

(* onResume, when the result was looked at.                                *)
PhoneResumes ==
  /\ app = "phone" /\ ~scanning
  /\ scanning' = TRUE /\ session' = NoSession /\ outcome' = NoOutcome
  /\ UNCHANGED <<exportVars, reads, app, slots, debounce, pending, deferred>>

-----------------------------------------------------------------------------
Next ==
  \/ ChangeExport \/ ToggleAuto \/ Browse \/ AutoStep
  \/ Tick \/ AddManually \/ ToggleScan \/ Reset \/ ReviewAndSign
  \/ PhoneReads \/ PhoneResumes

Spec == Init /\ [][Next]_vars

(* The slideshow and the scan are driven by timers; the camera that is on  *)
(* reads what is held before it.                                           *)
FairSpec ==
  /\ Spec
  /\ WF_vars(AutoStep) /\ WF_vars(Tick) /\ WF_vars(deferred /\ ReviewAndSign)
  /\ WF_vars(PhoneReads)

-----------------------------------------------------------------------------
TypeOK ==
  /\ page \in [fmt : Formats, will : Wills, size : Sizes, index : Nat \ {0}]
  /\ page.index <= Codes(page)
  /\ show \in {"off", "once", "loop"} /\ reads \in 0 .. ReadsPerCode
  /\ changes \in 0 .. MaxChanges /\ app \in Apps
  /\ session.fmt \in Formats \cup {None} /\ session.total \in Nat
  /\ slots \subseteq Nat \ {0} /\ debounce.count \in 0 .. StableReads - 1
  /\ {scanning, pending, deferred} \subseteq BOOLEAN
  /\ outcome.kind \in {None, "review", "refused", "raised", "unparsed"}

(* What is reviewed is a will that was shown, whatever was changed at the  *)
(* export page while the codes were read and whichever codes were missed;  *)
(* only the two formats whose codes do not name their transfer can give a  *)
(* mixture (animated_qr.py:858, 1080).                                     *)
MixedOnlyWithoutDigest ==
  [][outcome'.what = "mixed" /\ outcome' # outcome => session'.fmt \in {"balqr", "bbqr"}]_vars

(* The parts in a session belong together as far as their headers tell,    *)
(* although the export was changed while they were read and the session    *)
(* began with whichever code came first (animated_qr.py:858 to 1117).      *)
SessionOfOneHeader ==
  session.fmt # None =>
    \A k \in DOMAIN session.parts :
      LET w == session.parts[k][1]
          s == session.parts[k][2] IN
      /\ Total(session.fmt, w, s) = session.total
      /\ Header([fmt |-> session.fmt, will |-> w]) = session.header

(* The import page's own slots and the session tell the same story: no     *)
(* session without slots, the same parts in both, and a session that is    *)
(* done can be reviewed (_update_status asks both).                        *)
SlotsMatchSession ==
  app = "desktop" =>
    /\ session.fmt = None <=> slots = {}
    /\ session.fmt \in {"balqr", "ur1"} => slots = DOMAIN session.parts
    /\ session.fmt = "bbqr" => slots = {k + 1 : k \in DOMAIN session.parts}
    /\ Done(session) => Cardinality(slots) >= session.total

(* The fountain decoder never computes a wrong fragment, whatever parts    *)
(* came in whatever order; and it never needs a mixed part once the plain  *)
(* ones have come (animated_qr.py:993).                                    *)
FountainSound ==
  session.fmt = "ur2" =>
    /\ Genuine(session.fountain, session.header)
    /\ \A k \in DOMAIN session.fountain.mixed :
         session.fountain.mixed[k].data = Mix(session.header, session.fountain.mixed[k].indexes)
    /\ Done(session) \/ session.fountain.queue = <<>>
    /\ 1 .. session.total \subseteq slots => Done(session)

(* The review that is about to open finds the camera released, unless the  *)
(* user has switched it on again (dialogs.py:3923).                        *)
FinishedOnce == deferred /\ pending => ~scanning

(* The import page is in order: its types, one transfer, slots that tell   *)
(* the truth, and a review that finds the camera released.                 *)
ImportInOrder == TypeOK /\ SessionOfOneHeader /\ SlotsMatchSession /\ FinishedOnce

(* With the slideshow in a loop, and the user not turning it back all the  *)
(* time, the camera is not on forever: the will is read, or the import is  *)
(* reset.  The phone has to begin with this transfer, since it ignores the *)
(* codes of another one of the same format (dialogs.py:3496,               *)
(* BalDecoder.kt:79).                                                      *)
ScanEnds ==
  \/ []<>~scanning
  \/ []<>(show # "loop")
  \/ []<><<Browse /\ ~AutoStep>>_vars
  \/ app = "phone" /\ []<>Conflicts(session, Shown)
=============================================================================
