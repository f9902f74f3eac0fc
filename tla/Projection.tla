----------------------------- MODULE Projection -----------------------------
(***************************************************************************)
(* The readiness map of a session (build_projection_summary of the server, *)
(* artpkg_archify_projection and artpkg_archify_runner), next to the       *)
(* answers of Conditionals that it shows.                                  *)
(*                                                                         *)
(* A projection is made from the document in memory, after the plan, and   *)
(* is refused when answers.json says otherwise of the authority; Archify,  *)
(* a program of its own, renders it to the HTML that the session serves    *)
(* from then on.  Projections and the requests that save the session have  *)
(* its lock; the command line tool has not.                                *)
(***************************************************************************)
EXTENDS Conditionals

VARIABLES
    projection,  \* the request that projects, and what its answer was
    html         \* artpkg-readiness.architecture.html, which GET serves

projecting == <<projection, html>>

-----------------------------------------------------------------------------
Authority == {[value |-> v, by |-> b] : v \in Choices("AUT-001"), b \in {"script", "source"}}
Unknown == [value |-> "ABSENT", by |-> "nobody"]

\* _source_answer: what the sidecar tells of AUT-001.
Source(d) == [value |-> Value(d, "AUT-001"), by |-> d.answers["AUT-001"].by]

\* _read_projection_sources: the document in answers.json, read again.
Reread == Source(doc)

NoHtml == [form |-> "absent", shows |-> Unknown, saved |-> Unknown]

ProjectionTypeOK ==
    /\ TypeOK
    /\ projection \in [at : {"idle", "loaded", "cleared", "delivered", "checking"},
                      authority : Authority \cup {Unknown}, ready : BOOLEAN]
    /\ html \in [form : {"absent", "cut off", "plain", "decorated"},
                shows : Authority \cup {Unknown}, saved : Authority \cup {Unknown}]

Idle == [at |-> "idle", authority |-> Unknown, ready |-> FALSE]

ProjectionInit ==
    /\ Init
    /\ projection = Idle
    /\ html = NoHtml

At(here) == projection.at = here

\* An answer that is not ready, or none.
GiveUp == projection' = Idle

-----------------------------------------------------------------------------
\* POST /api/session/project: the lock, and load_intake_session.
LoadSession ==
    /\ At("idle")
    /\ projection' = [at |-> "loaded", authority |-> Source(Loaded(doc)), ready |-> FALSE]
    /\ UNCHANGED <<vars, html>>

\* validate_projection_mapping reads answers.json again.  Where it agrees, the
\* map, the sidecar and the verdict are written, validated, and the HTML of the
\* last projection is removed.
KeepHtml ==
    /\ At("loaded")
    /\ projection.authority = Reread
    /\ projection' = [projection EXCEPT !.at = "cleared"]
    /\ UNCHANGED <<vars, html>>
TrustMemory ==
    /\ At("loaded")
    /\ projection' = [projection EXCEPT !.at = "cleared"]
    /\ html' = [NoHtml EXCEPT !.saved = Reread]
    /\ UNCHANGED vars
BuildProjection ==
    /\ At("loaded")
    /\ projection.authority = Reread
    /\ projection' = [projection EXCEPT !.at = "cleared"]
    /\ html' = [NoHtml EXCEPT !.saved = Reread]
    /\ UNCHANGED vars

\* What Archify leaves of the HTML: nothing, a part, or the map.  Its word and
\* the file decide; it may say ok and leave nothing, or leave a part and fail
\* or exceed its minute.
Render(form) ==
    html' = IF form = "absent" THEN html
            ELSE [html EXCEPT !.form = form, !.shows = projection.authority]

Deliver ==
    /\ At("cleared")
    /\ \/ /\ \E form \in {"absent", "plain"} : Render(form)
          /\ html'.form # "absent"
          /\ projection' = [projection EXCEPT !.at = "delivered"]
       \/ /\ \E form \in {"absent", "cut off", "plain"} : Render(form)
          /\ GiveUp
    /\ UNCHANGED vars

\* decorate_projection_html, which leaves a decorated page alone.
Decorate ==
    /\ At("delivered")
    /\ projection' = [projection EXCEPT !.at = "checking"]
    /\ html' = [html EXCEPT !.form = "decorated"]
    /\ UNCHANGED vars

\* The visual check, which decides nothing, and the answer.
AnswerReady ==
    /\ At("checking")
    /\ projection' = [projection EXCEPT !.at = "idle", !.ready = TRUE]
    /\ UNCHANGED <<vars, html>>

\* A projection that is BLOCKED, an exception, or the death of the server, which
\* may be in the middle of decorating the page.
FailProjection ==
    /\ ~At("idle")
    /\ GiveUp
    /\ \/ UNCHANGED html
       \/ /\ At("delivered")
          /\ html' = [html EXCEPT !.form = "cut off"]
    /\ UNCHANGED vars

Project ==
    LoadSession \/ BuildProjection \/ Deliver \/ Decorate \/ AnswerReady \/ FailProjection

-----------------------------------------------------------------------------
Web ==
    /\ At("idle")
    /\ \/ \E q \in Question : \E v \in Choices(q) : ProvideAnswer(q, v)
       \/ Refresh
    /\ UNCHANGED projecting

CommandLine ==
    /\ \/ \E q \in Question : \E v \in Choices(q) : Interactive(q, v)
       \/ \E enabled \in BOOLEAN : SetHarnessMode(enabled)
    /\ UNCHANGED projecting

ProjectionNext == Project \/ Web \/ CommandLine

projectionVars == <<vars, projecting>>
ProjectionSpec == ProjectionInit /\ [][ProjectionNext]_projectionVars

-----------------------------------------------------------------------------
\* The map never shows an authority that was not in answers.json when it was
\* built, although it is drawn from the document in memory, where the plan has
\* answered AUT-001, and the command line writes the file without the lock
\* ("Archify rendering cannot change ArtPkg authority").
ShownAsSaved == html.form # "absent" => html.shows = html.saved

\* A projection that was answered ready is the map that is served, whole and
\* decorated, until the next one: no older map passes for it when Archify
\* leaves nothing, or half a map.
ReadyIsServed ==
    At("idle") /\ projection.ready =>
        html.form = "decorated" /\ html.shows = projection.authority
=============================================================================
