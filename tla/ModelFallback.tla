--------------------------- MODULE ModelFallback ---------------------------
(***************************************************************************)
(* What a provider call promises, without HTTP: the configured models are  *)
(* asked one after the other, none twice; the call ends with the answer of *)
(* the first one that gives one, or with the failure of the one at which   *)
(* it stopped.  Provider implements this specification.                    *)
(***************************************************************************)
EXTENDS Naturals, Sequences

VARIABLES
    preferred, \* the configured names, with repetitions
    models,    \* the models of this call
    turn,      \* the model that is asked, as an index; 0 before the call
    outcome    \* "open", "answered", "failed"

vars == <<preferred, models, turn, outcome>>

Init == preferred # <<>> /\ models = <<>> /\ turn = 0 /\ outcome = "open"

\* The configured names and no others, each before those that were configured after it.
InPreference(ms) ==
    /\ {ms[i] : i \in DOMAIN ms} = {preferred[i] : i \in DOMAIN preferred}
    /\ \A i, j \in DOMAIN ms : i < j =>
          \E p \in DOMAIN preferred :
              preferred[p] = ms[i] /\ \A q \in 1..p : preferred[q] # ms[j]

\* A call starts with the first of its models, or fails before any is asked.
Call ==
    /\ turn = 0 /\ outcome = "open"
    /\ \/ InPreference(models') /\ turn' = 1 /\ UNCHANGED outcome
       \/ outcome' = "failed" /\ UNCHANGED <<models, turn>>
    /\ UNCHANGED preferred

\* The model asked is given up for the next one.
Fall ==
    /\ turn \in 1..(Len(models) - 1) /\ outcome = "open"
    /\ turn' = turn + 1
    /\ UNCHANGED <<preferred, models, outcome>>

\* The call ends at the model asked.
End ==
    /\ turn \in 1..Len(models) /\ outcome = "open"
    /\ outcome' \in {"answered", "failed"}
    /\ UNCHANGED <<preferred, models, turn>>

Next == Call \/ Fall \/ End

Spec == Init /\ [][Next]_vars
=============================================================================
