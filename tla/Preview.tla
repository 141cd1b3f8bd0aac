------------------------------- MODULE Preview -------------------------------
(***************************************************************************)
(* The placement preview of the dashboard (ui/nats-kv-user/src/lib.rs,     *)
(* refreshPlacementPreview in the script of DASH_HTML): every change of    *)
(* the form asks for a new preview while earlier ones are under way, and   *)
(* their answers come in any order, or not at all.                         *)
(***************************************************************************)
EXTENDS Naturals

CONSTANTS
    Choice,     \* anchor and number of replicas in the form
    MaxPreviews \* bound: previews asked for

ASSUME PreviewAssumption == MaxPreviews \in Nat

VARIABLES
    form,       \* the choice in the form, and is geo "auto"
    seq,        \* _previewSeq
    previews,   \* the previews asked for: at is "fetch" or "body"
    preview,    \* the preview element: visible, and what it shows
    slow        \* history: was a body being read when the last preview was asked for

previewVars == <<form, seq, previews, preview, slow>>
-----------------------------------------------------------------------------

\* refreshPlacementPreview, up to its first await, for form f; without "auto" it only
\* hides the element.
RefreshPreview(f) ==
    \/ /\ f.auto
       /\ seq < MaxPreviews
       /\ seq' = seq + 1
       /\ previews' = previews \cup {[id |-> seq + 1, choice |-> f.choice, at |-> "fetch"]}
       /\ preview' = [visible |-> TRUE, shows |-> "computing", choice |-> f.choice]
       /\ slow' = \E p \in previews : p.at = "body"
    \/ /\ ~f.auto
       /\ preview' = [preview EXCEPT !.visible = FALSE]
       /\ UNCHANGED <<seq, previews, slow>>

\* Another anchor or number of replicas.
Choose(c) ==
    /\ seq > 0 /\ form.choice # c
    /\ form' = [form EXCEPT !.choice = c]
    /\ RefreshPreview(form')

OnGeoChange ==
    /\ seq > 0
    /\ form' = [form EXCEPT !.auto = ~@]
    /\ RefreshPreview(form')

\* Mutant of PreviewAnswered: whatever answer comes is read.
PreviewAnsweredLate(p) ==
    /\ p.at = "fetch"
    /\ previews' = (previews \ {p}) \cup {[p EXCEPT !.at = "body"]}
    /\ UNCHANGED <<form, seq, preview, slow>>

\* The fetch of preview p is through: it goes on unless a newer one was asked for.
PreviewAnswered(p) ==
    /\ p.at = "fetch"
    /\ previews' = (previews \ {p}) \cup {q \in {[p EXCEPT !.at = "body"]} : p.id = seq}
    /\ UNCHANGED <<form, seq, preview, slow>>

\* Its body is through, a placement or an error: shown without another look at seq.
PreviewRead(p) ==
    /\ p.at = "body"
    /\ previews' = previews \ {p}
    /\ \E shows \in {"placement", "error"} :
        preview' = [preview EXCEPT !.shows = shows, !.choice = p.choice]
    /\ UNCHANGED <<form, seq, slow>>

\* Mutant of PreviewFails: nothing is said.
PreviewFailsQuiet(p) ==
    /\ previews' = previews \ {p}
    /\ UNCHANGED <<form, seq, preview, slow>>

\* Its fetch or its body fails: said unless a newer one was asked for.
PreviewFails(p) ==
    /\ previews' = previews \ {p}
    /\ preview' = IF p.id = seq
                  THEN [preview EXCEPT !.shows = "error", !.choice = p.choice] ELSE preview
    /\ UNCHANGED <<form, seq, slow>>

-----------------------------------------------------------------------------
\* The page is about to load: the form has its defaults.
PreviewInit ==
    /\ form \in [choice : Choice, auto : {TRUE}]
    /\ seq = 0
    /\ previews = {}
    /\ preview = [visible |-> FALSE, shows |-> "nothing", choice |-> form.choice]
    /\ slow = FALSE

\* onGeoChange at the load of the page, for the first preview.
FirstPreview ==
    /\ seq = 0
    /\ RefreshPreview(form)
    /\ UNCHANGED form

PreviewStep == \E p \in previews : PreviewAnswered(p) \/ PreviewRead(p) \/ PreviewFails(p)

PreviewNext == FirstPreview \/ (\E c \in Choice : Choose(c)) \/ OnGeoChange \/ PreviewStep
-----------------------------------------------------------------------------
(* No preview is under way that was not asked for, and the element shows what the script writes. *)
PreviewTypeOK ==
    /\ seq \in 0 .. MaxPreviews
    /\ previews \subseteq [id : 1 .. seq, choice : Choice, at : {"fetch", "body"}]
    /\ preview \in [visible : BOOLEAN, shows : {"nothing", "computing", "placement", "error"},
                   choice : Choice]
    /\ form \in [choice : Choice, auto : BOOLEAN]
    /\ slow \in BOOLEAN

(* The preview is about the form: however the answers to quick changes are ordered or
   lost, what is shown was computed for the anchor and the replicas chosen now, unless
   the body of an earlier preview was being read when this one was asked for. *)
PreviewIsCurrent == preview.visible /\ ~slow => preview.choice = form.choice

(* "computing placement" does not stay: the newest preview is shown or fails, although
   every older answer is dropped. *)
PreviewSettles ==
    preview.visible /\ preview.shows = "computing" ~> ~preview.visible \/ preview.shows # "computing"
=============================================================================
