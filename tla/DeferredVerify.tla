--------------------------- MODULE DeferredVerify ---------------------------
(***************************************************************************)
(* The verify_recorded checks of a finished run, answered from the frames  *)
(* of its recording: src/automation/runners/deferred_verify.py.            *)
(*                                                                         *)
(* events is events.jsonl, a sequence of [event, step, label, ts]; frames  *)
(* is filtered_index.jsonl, a sequence of records with a ts; a check is a  *)
(* record with its step and the two ends of its window, each a step number *)
(* or a label.                                                             *)
(***************************************************************************)
EXTENDS Integers, Sequences, FiniteSets

\* what _resolve_endpoint raises as DeferredVerifyError
Unresolved == -1

\* the last record of a step wins: a rewind runs it again
TimesOf(events, step, event) ==
  {i \in DOMAIN events : events[i].step = step /\ events[i].event = event}
LastOf(is) == CHOOSE i \in is : \A j \in is : j <= i

StepsWith(events, label) ==
  {events[i].step : i \in {j \in DOMAIN events : events[j].event = "step_start" /\ events[j].label = label}}

\* step_start if there is one, else step_end
TimeOfStep(events, step) ==
  LET starts == TimesOf(events, step, "step_start")
      ends   == TimesOf(events, step, "step_end")
  IN  CASE starts # {} -> events[LastOf(starts)].ts
        [] starts = {} /\ ends # {} -> events[LastOf(ends)].ts
        [] OTHER -> Unresolved

\* a label must name exactly one step
_resolve_endpoint(ref, events) ==
  IF ref.kind = "num"
  THEN TimeOfStep(events, ref.num)
  ELSE LET steps == StepsWith(events, ref.label)
       IN  IF Cardinality(steps) # 1 THEN Unresolved
           ELSE TimeOfStep(events, CHOOSE n \in steps : TRUE)

Window(check, events) == <<_resolve_endpoint(check.from, events), _resolve_endpoint(check.to, events)>>
Resolved(check, events) == Unresolved \notin {Window(check, events)[1], Window(check, events)[2]}

\* the frames between the two ends, in whichever order they came
Candidates(check, events, frames) ==
  LET w == Window(check, events)
  IN  {i \in DOMAIN frames : \/ w[1] <= frames[i].ts /\ frames[i].ts <= w[2]
                             \/ w[2] <= frames[i].ts /\ frames[i].ts <= w[1]}
=============================================================================
