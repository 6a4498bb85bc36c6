---------------------------- MODULE TeamSchedule ----------------------------
(***************************************************************************)
(* The team schedule of a project (schedule_doc of kind "team"): a document *)
(* with protected blocks, of which every version is kept.  The coordinator *)
(* has the language model rewrite it: the blocks are taken out, replaced   *)
(* by placeholders and put back.  The administrator pastes a version of    *)
(* his own or goes back to an old one, while the model is at work.  A page *)
(* that shows the latest version is cached under its signature.            *)
(***************************************************************************)
EXTENDS Integers, Sequences, FiniteSets

CONSTANTS
  Blocks,   \* WP:KEEP blocks a document can have
  Viewers,  \* requests for the page at one time
  Bounds    \* bounds: each behaviour has one of them

ASSUME TeamAssumption == \A b \in Bounds : b.versions \in Nat /\ b.views \in Nat

VARIABLES
  bound,  \* how much of everything may happen
  team,   \* the versions: their blocks and who wrote them
  coord,  \* CoordinateProject in progress, and the version it has read
  paste,  \* postScheduleDoc in progress
  cache,  \* the cached page: its signature and the version it shows
  view,   \* requests for the page, and the version that was the latest before each
  views   \* requests so far

pageVars == <<cache, view, views>>
docVars  == <<team, coord, paste>>
teamVars == <<bound, docVars, pageVars>>

Version   == [blocks : SUBSET Blocks, by : {"coordinate", "paste", "rollback"}]
CoordIdle == [doing |-> "idle", read |-> 0]
PasteIdle == [doing |-> "idle", blocks |-> {}]
NoPage    == [sig |-> 0, shows |-> 0]
ViewIdle  == [doing |-> "idle", sig |-> 0, shows |-> 0]

TeamInit == bound \in Bounds /\ team = <<>> /\ coord = CoordIdle /\ paste = PasteIdle
            /\ cache = NoPage /\ view = [v \in Viewers |-> ViewIdle] /\ views = 0

\* AppendScheduleDoc: the next version, whatever the writer has read.
Append1(blocks, by) ==
  /\ Len(team) < bound.versions
  /\ team' = Append(team, [blocks |-> blocks, by |-> by])
BlocksOf(n) == IF n = 0 THEN {} ELSE team[n].blocks

\* restoreKeepBlocks: the placeholders that the model has left out.
Missing(kept, blocks) == blocks \ kept
\* validateTeamDoc counts the blocks.
Valid(blocks, prev) == Cardinality(blocks) >= Cardinality(prev)

----------------------------------------------------------------------------
\* CoordinateProject reads the latest version and calls the model.
Ask ==
  /\ coord.doing = "idle"
  /\ coord' = [doing |-> "ask", read |-> Len(team)]
  /\ UNCHANGED <<bound, pageVars, team, paste>>

\* The model answers with the placeholders it kept and blocks it made up.
Answered ==
  /\ coord.doing = "ask"
  /\ \E kept \in SUBSET BlocksOf(coord.read), own \in SUBSET Blocks :
       /\ Missing(kept, BlocksOf(coord.read)) = {}
       /\ Valid(kept \union own, BlocksOf(coord.read))
       /\ Append1(kept \union own, "coordinate")
  /\ coord' = [coord EXCEPT !.doing = "tell"]
  /\ UNCHANGED <<bound, pageVars, paste>>

\* The model fails, or the answer is refused: nothing is written.
AskFailed ==
  /\ coord.doing = "ask"
  /\ coord' = CoordIdle
  /\ UNCHANGED <<bound, pageVars, team, paste>>

\* NotifyProject; that it fails makes the whole call fail, the version stays.
TeamTold ==
  /\ coord.doing = "tell"
  /\ coord' = CoordIdle
  /\ UNCHANGED <<bound, pageVars, team, paste>>

\* postScheduleDoc: the text is compared with the latest version ...
PasteChecked(blocks) ==
  /\ paste.doing = "idle" /\ Len(team) < bound.versions
  /\ Valid(blocks, BlocksOf(Len(team)))
  /\ paste' = [doing |-> "write", blocks |-> blocks]
  /\ UNCHANGED <<bound, pageVars, team, coord>>
\* ... and appended.
Pasted ==
  /\ paste.doing = "write"
  /\ Append1(paste.blocks, "paste")
  /\ paste' = PasteIdle
  /\ UNCHANGED <<bound, pageVars, coord>>
PasteFailed ==
  /\ paste.doing = "write"
  /\ paste' = PasteIdle
  /\ UNCHANGED <<bound, pageVars, team, coord>>

\* rollbackScheduleDoc does not check: the text was a version once.
RolledBack ==
  /\ \E n \in DOMAIN team : Append1(team[n].blocks, "rollback")
  /\ UNCHANGED <<bound, pageVars, coord, paste>>

----------------------------------------------------------------------------
\* Render: the signature names the latest version.  The personal schedules the
\* page shows as well are left out.
Signed(v) ==
  /\ view[v].doing = "idle" /\ views < bound.views
  /\ view' = [view EXCEPT ![v] = [doing |-> "look", sig |-> Len(team), shows |-> 0]]
  /\ views' = views + 1
  /\ UNCHANGED <<bound, docVars, cache>>
\* The cache has the page ...
FromCache(v) ==
  /\ view[v].doing = "look" /\ cache.sig = view[v].sig
  /\ view' = [view EXCEPT ![v] = [doing |-> "shown", sig |-> @.sig, shows |-> cache.shows]]
  /\ UNCHANGED <<bound, docVars, cache, views>>
\* ... or not, or not any more: it is made of what is the latest version now,
Rendered(v) ==
  /\ view[v].doing = "look"
  /\ view' = [view EXCEPT ![v] = [doing |-> "store", sig |-> @.sig, shows |-> Len(team)]]
  /\ UNCHANGED <<bound, docVars, cache, views>>
\* and stored under the signature of before.
StoredAnew(v) ==
  /\ view[v].doing = "store"
  /\ cache' = [sig |-> Len(team), shows |-> view[v].shows]
  /\ view' = [view EXCEPT ![v].doing = "shown"]
  /\ UNCHANGED <<bound, docVars, views>>
Stored(v) ==
  /\ view[v].doing = "store"
  /\ cache' = [sig |-> view[v].sig, shows |-> view[v].shows]
  /\ view' = [view EXCEPT ![v].doing = "shown"]
  /\ UNCHANGED <<bound, docVars, views>>
Seen(v) ==
  /\ view[v].doing = "shown"
  /\ view' = [view EXCEPT ![v] = ViewIdle]
  /\ UNCHANGED <<bound, docVars, cache, views>>

TeamRestart ==
  /\ coord' = CoordIdle /\ paste' = PasteIdle
  /\ cache' = NoPage /\ view' = [v \in Viewers |-> ViewIdle]
  /\ UNCHANGED <<bound, team, views>>

PageStep(v) ==
  \/ Signed(v)
  \/ FromCache(v)
  \/ Rendered(v)
  \/ Stored(v)
  \/ Seen(v)

TeamStep ==
  \/ Answered
  \/ AskFailed
  \/ TeamTold
  \/ \E blocks \in SUBSET Blocks : PasteChecked(blocks)
  \/ Pasted
  \/ PasteFailed
  \/ RolledBack
  \/ \E v \in Viewers : PageStep(v)

TeamTypeOK ==
  /\ bound \in Bounds /\ team \in Seq(Version) /\ Len(team) <= bound.versions
  /\ coord \in [doing : {"idle", "ask", "tell"}, read : 0..Len(team)]
  /\ paste \in [doing : {"idle", "write"}, blocks : SUBSET Blocks]
  /\ cache \in [sig : 0..Len(team), shows : 0..Len(team)]
  /\ view \in [Viewers -> [doing : {"idle", "look", "store", "shown"}, sig : 0..Len(team),
                          shows : 0..Len(team)]]
  /\ views \in 0..bound.views

----------------------------------------------------------------------------

\* The page shows a version at least as new as the latest one when it was asked
\* for, whoever renders and stores it meanwhile: the signature is read before the
\* page is made.
PageFresh == \A v \in Viewers : view[v].doing = "shown" => view[v].shows >= view[v].sig

=============================================================================
