----------------------------- MODULE WidgetSlot -----------------------------
(***************************************************************************)
(* What a session promises about the widget that awaits a human: there is  *)
(* one slot; a widget is put into it once, stays until it is taken out or  *)
(* replaced by a newer one, and never comes back.  Restarts are not        *)
(* visible: the slot is durable.  The detailed specification               *)
(* (SessionHistory) keeps the slot in two files.                           *)
(***************************************************************************)
EXTENDS Naturals

CONSTANT Widget     \* widgets, in the order in which they are emitted

NoWidget == 0

VARIABLES slot,     \* the widget a client that connects is shown
          gone      \* widgets that have left the slot

Init == slot = NoWidget /\ gone = {}

Leaves == gone' = IF slot = NoWidget THEN gone ELSE gone \cup {slot}

Put(w) ==
  /\ w \notin gone /\ w # slot
  /\ slot' = w
  /\ Leaves

Take ==
  /\ slot # NoWidget
  /\ slot' = NoWidget
  /\ Leaves

Next == Take \/ \E w \in Widget : Put(w)

Spec == Init /\ [][Next]_<<slot, gone>>
=============================================================================
