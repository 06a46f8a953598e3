-------------------------------- MODULE Toasts --------------------------------
(***************************************************************************)
(* The toasts of the client (NotificationService): at most MaxToasts, one  *)
(* per message; a repeated message restarts the timer of the one that is   *)
(* there.  A toast that is dismissed, by its timer or by a click, leaves   *)
(* for the length of an animation and is then removed.  Every duration the *)
(* client passes is positive.                                              *)
(***************************************************************************)
EXTENDS Naturals, Sequences

CONSTANTS Messages,
          MaxToasts   (* MAX_NOTIFICATIONS, 5 in the code *)

ASSUME ToastsAssumption == MaxToasts \in Nat \ {0}

VARIABLES toasts,
          reclosed    (* history: messages closed while they were leaving *)

toastVars == <<toasts, reclosed>>

Toast(m) == [msg |-> m, leaving |-> FALSE, timer |-> TRUE, removal |-> FALSE]

ToastsInit == toasts = <<>> /\ reclosed = {}

Newest(list) ==
  IF Len(list) > MaxToasts THEN SubSeq(list, Len(list) - MaxToasts + 1, Len(list)) ELSE list

\* Mutated form: a toast that is leaving is left to leave, without its removal.
PushedKeepingLeaving(list, m) ==
  LET same == {i \in DOMAIN list : list[i].msg = m} IN
  IF same = {} THEN Newest(Append(list, Toast(m)))
  ELSE [i \in DOMAIN list |-> IF i \in same THEN [list[i] EXCEPT !.removal = FALSE] ELSE list[i]]

\* pushNotification: a duplicate stays, or comes back from leaving.
Pushed(list, m) ==
  LET same == {i \in DOMAIN list : list[i].msg = m} IN
  IF same = {} THEN Newest(Append(list, Toast(m)))
  ELSE [i \in DOMAIN list |-> IF i \in same THEN Toast(m) ELSE list[i]]

\* dismiss cancels the pending removal before it looks whether the toast is
\* leaving already.
Dismissed(toast) ==
  IF toast.leaving THEN [toast EXCEPT !.timer = FALSE, !.removal = FALSE]
                   ELSE [toast EXCEPT !.timer = FALSE, !.leaving = TRUE, !.removal = TRUE]

CloseToast(i) ==
  /\ i \in DOMAIN toasts
  /\ toasts' = [toasts EXCEPT ![i] = Dismissed(@)]
  /\ reclosed' = IF toasts[i].leaving THEN reclosed \cup {toasts[i].msg} ELSE reclosed

ToastTimer(i) ==
  /\ i \in DOMAIN toasts /\ toasts[i].timer
  /\ toasts' = [toasts EXCEPT ![i] = Dismissed(@)]
  /\ UNCHANGED reclosed

RemoveToast(i) ==
  /\ i \in DOMAIN toasts /\ toasts[i].removal
  /\ toasts' = SubSeq(toasts, 1, i - 1) \o SubSeq(toasts, i + 1, Len(toasts))
  /\ UNCHANGED reclosed

\* Every toast is on its way out: its timer runs, or its removal, unless it was
\* closed a second time while it was leaving.  Nothing is shown twice, and
\* there are never more than MaxToasts.
ToastsGoAway ==
  /\ Len(toasts) <= MaxToasts
  /\ \A i \in DOMAIN toasts :
       /\ toasts[i].timer \/ toasts[i].removal \/ toasts[i].msg \in reclosed
       /\ toasts[i].timer => ~toasts[i].leaving
       /\ \A j \in DOMAIN toasts : toasts[i].msg = toasts[j].msg => i = j

===============================================================================
