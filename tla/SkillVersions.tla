--------------------------- MODULE SkillVersions ----------------------------
(***************************************************************************)
(* The row of a skill and the history of its versions (lib/skills.ts): it  *)
(* is created or forked, edited, restored, published, and healed by runs   *)
(* that found better selectors.  Each writer reads, decides and writes in  *)
(* statements of its own, and several may be at it.                        *)
(*                                                                         *)
(* A content is known by the edit it came from; the plan is kept apart     *)
(* from the rest of it, the form (name, fields, hosts), because a heal     *)
(* writes the plan alone.  Better selectors leave a plan the same content. *)
(***************************************************************************)
EXTENDS Naturals

CONSTANTS
    Writer, Content, NoContent,
    Runs,        \* the pairs of a plan and a form that are fit to publish
    Edits,       \* the pairs that owners send, NoContent for what they leave out
    Kept,        \* MAX_VERSION_HISTORY
    MaxVersion, MaxBreaks   \* bounds of the model

ASSUME ContentAssumption == NoContent \notin Content /\ Runs \subseteq Content \X Content
                     /\ Edits \subseteq (Content \cup {NoContent}) \X (Content \cup {NoContent})
ASSUME VersionsAssumption ==
    Kept \in Nat \ {0} /\ MaxVersion \in Nat \ {0} /\ MaxBreaks \in Nat

VARIABLES
    skill,     \* the row of skills
    history,   \* the rows of skill_versions
    writer,    \* the calls in progress
    breaks,
    torn,      \* history: the last edit of the row was not recorded undisturbed
    crossed    \* history: what decided on publishing was overtaken

skillVars == <<skill, history, writer, breaks, torn, crossed>>

Maybe == Content \cup {NoContent}
Version == 1..MaxVersion
Snapshots == [plan : Content, form : Content]
NoWriter == [pc |-> "idle", plan |-> NoContent, form |-> NoContent, published |-> FALSE,
             version |-> 0, overtaken |-> FALSE]

SkillTypeOK ==
    /\ skill \in [plan : Maybe, form : Maybe, published : BOOLEAN, version : 0..MaxVersion]
    /\ DOMAIN history \subseteq Version /\ \A v \in DOMAIN history : history[v] \in Snapshots
    /\ writer \in [Writer -> [pc : {"idle", "load", "max", "update", "snapshot", "prune",
                                    "heal", "publish"},
                              plan : Maybe, form : Maybe, published : BOOLEAN,
                              version : 0..MaxVersion, overtaken : BOOLEAN]]
    /\ breaks \in 0..MaxBreaks /\ torn \in BOOLEAN /\ crossed \in BOOLEAN

SkillInit ==
    /\ skill = [plan |-> NoContent, form |-> NoContent, published |-> FALSE, version |-> 0]
    /\ history = [v \in {} |-> NoContent]
    /\ writer = [w \in Writer |-> NoWriter]
    /\ breaks = 0 /\ torn = FALSE /\ crossed = FALSE

-----------------------------------------------------------------------------
There == skill.plan # NoContent

\* COALESCE(MAX(version), 0)
Newest == CHOOSE n \in 0..MaxVersion :
              /\ n = 0 \/ n \in DOMAIN history
              /\ \A v \in DOMAIN history : v <= n

\* w goes on, and whoever has read before this write has been overtaken.
Wrote(w, me) ==
    writer' = [u \in Writer |->
                  IF u = w THEN me
                  ELSE IF writer[u].pc \in {"idle", "prune"} THEN writer[u]
                  ELSE [writer[u] EXCEPT !.overtaken = TRUE]]

GoTo(w, me) == writer' = [writer EXCEPT ![w] = me]
Unoccupied(w) == writer[w].pc = "idle"

\* Mutated form: versions are counted from 0.
ZeroVersion == 0

FirstVersion == 1

\* createSkill and forkSkill: the row, and then its first snapshot.
CreateSkill(w, x) ==
    /\ Unoccupied(w) /\ ~There
    /\ skill' = [plan |-> x, form |-> x, published |-> FALSE, version |-> FirstVersion]
    /\ Wrote(w, [NoWriter EXCEPT !.pc = "snapshot", !.plan = x, !.form = x,
                                 !.version = FirstVersion])
    /\ torn' = TRUE /\ UNCHANGED <<history, breaks, crossed>>

\* PUT /api/skills/[id]: what the owner leaves out is kept as it was read here.
EditSkill(w, plan, form) ==
    /\ Unoccupied(w) /\ There
    /\ GoTo(w, [NoWriter EXCEPT !.pc = "load",
                                !.plan = IF plan = NoContent THEN skill.plan ELSE plan,
                                !.form = IF form = NoContent THEN skill.form ELSE form])
    /\ UNCHANGED <<skill, history, breaks, torn, crossed>>

\* restoreSkillVersion
RestoreSkill(w, v) ==
    /\ Unoccupied(w) /\ There /\ v \in DOMAIN history
    /\ GoTo(w, [NoWriter EXCEPT !.pc = "load", !.plan = history[v].plan,
                                !.form = history[v].form])
    /\ UNCHANGED <<skill, history, breaks, torn, crossed>>

-----------------------------------------------------------------------------
(* updateSkill.                                                            *)

LoadRow(w) ==
    /\ writer[w].pc = "load"
    /\ GoTo(w, [writer[w] EXCEPT !.pc = "max", !.published = skill.published])
    /\ UNCHANGED <<skill, history, breaks, torn, crossed>>

\* Mutated form: the version that is cached in the row.
NextFromRow == skill.version + 1

\* "Derive the next version from the snapshot table's MAX"
NextVersion == Newest + 1

ReadMax(w) ==
    /\ writer[w].pc = "max" /\ NextVersion <= MaxVersion
    /\ GoTo(w, [writer[w] EXCEPT !.pc = "update", !.version = NextVersion])
    /\ UNCHANGED <<skill, history, breaks, torn, crossed>>

\* Mutated form: only publishing checks that a skill runs.
UnpublishesNever(w) == FALSE

\* An edit of a published skill that leaves it unfit takes it off the market.
Unpublishes(w) ==
    writer[w].published /\ <<writer[w].plan, writer[w].form>> \notin Runs

UpdateRow(w) ==
    LET me == writer[w] IN
    /\ me.pc = "update"
    /\ skill' = [plan |-> me.plan, form |-> me.form, version |-> me.version,
                 published |-> skill.published /\ ~Unpublishes(w)]
    /\ Wrote(w, [me EXCEPT !.pc = "snapshot", !.published = FALSE])
    /\ torn' = TRUE /\ crossed' = me.overtaken
    /\ UNCHANGED <<history, breaks>>

\* The index on (skill_id, version) refuses a version that is there already.
InsertSnapshot(w) ==
    LET me == writer[w] IN
    /\ me.pc = "snapshot"
    /\ IF me.version \in DOMAIN history
       THEN GoTo(w, NoWriter) /\ UNCHANGED <<history, torn>>
       ELSE /\ history' = [v \in DOMAIN history \cup {me.version} |->
                              IF v = me.version THEN [plan |-> me.plan, form |-> me.form]
                              ELSE history[v]]
            /\ Wrote(w, [NoWriter EXCEPT !.pc = "prune"])
            /\ torn' = me.overtaken
    /\ UNCHANGED <<skill, breaks, crossed>>

\* Mutated form: the newest is counted once more.
OutdatedToo(v) == v + Kept <= Newest + 1

Outdated(v) == v + Kept <= Newest

PruneHistory(w) ==
    /\ writer[w].pc = "prune"
    /\ history' = [v \in {v \in DOMAIN history : ~Outdated(v)} |-> history[v]]
    /\ GoTo(w, NoWriter)
    /\ UNCHANGED <<skill, breaks, torn, crossed>>

-----------------------------------------------------------------------------
(* Heals and publishing.                                                   *)

\* learnSelectors: getSkill, then an UPDATE of the plan alone.
ReadPlan(w) ==
    /\ Unoccupied(w) /\ There
    /\ GoTo(w, [NoWriter EXCEPT !.pc = "heal", !.plan = skill.plan])
    /\ UNCHANGED <<skill, history, breaks, torn, crossed>>

WritePlan(w) ==
    LET me == writer[w] IN
    /\ me.pc = "heal"
    /\ skill' = [skill EXCEPT !.plan = me.plan]
    /\ Wrote(w, NoWriter)
    /\ torn' = (torn \/ me.overtaken) /\ crossed' = (crossed \/ me.overtaken)
    /\ UNCHANGED <<history, breaks>>

\* Mutated form: the editor is trusted with what it saves.
PublishableAny == TRUE

\* unpublishableReason
Publishable == <<skill.plan, skill.form>> \in Runs

\* setPublished: the check, then the flag.
CheckSkill(w) ==
    /\ Unoccupied(w) /\ There /\ Publishable
    /\ GoTo(w, [NoWriter EXCEPT !.pc = "publish"])
    /\ UNCHANGED <<skill, history, breaks, torn, crossed>>

Publish(w) ==
    /\ writer[w].pc = "publish"
    /\ skill' = [skill EXCEPT !.published = TRUE]
    /\ Wrote(w, NoWriter)
    /\ crossed' = writer[w].overtaken /\ UNCHANGED <<history, breaks, torn>>

Unpublish ==
    /\ skill.published /\ skill' = [skill EXCEPT !.published = FALSE]
    /\ UNCHANGED <<history, writer, breaks, torn, crossed>>

\* A statement fails, or the process dies.
BreakOff(w) ==
    /\ ~Unoccupied(w) /\ breaks < MaxBreaks /\ breaks' = breaks + 1
    /\ GoTo(w, NoWriter)
    /\ UNCHANGED <<skill, history, torn, crossed>>

SkillNext ==
    \/ \E w \in Writer :
          \/ \E x \in Content : CreateSkill(w, x)
          \/ \E edit \in Edits : EditSkill(w, edit[1], edit[2])
          \/ \E v \in Version : RestoreSkill(w, v)
          \/ LoadRow(w) \/ ReadMax(w) \/ UpdateRow(w)
          \/ InsertSnapshot(w) \/ PruneHistory(w)
          \/ ReadPlan(w) \/ WritePlan(w)
          \/ CheckSkill(w) \/ Publish(w) \/ BreakOff(w)
    \/ Unpublish

SkillSpec == SkillInit /\ [][SkillNext]_skillVars

-----------------------------------------------------------------------------
(* Properties.                                                             *)

\* "a concurrent collision fail loudly": an edit that nobody overtakes never meets
\* its own version number, whatever lost edits, failures and prunings came before,
\* and leaves a row that its newest snapshot restores.
EditRecorded ==
    /\ \A w \in Writer : writer[w].pc = "snapshot" /\ ~writer[w].overtaken =>
          writer[w].version \notin DOMAIN history
    /\ There /\ ~torn =>
          /\ skill.version \in DOMAIN history
          /\ history[skill.version] = [plan |-> skill.plan, form |-> skill.form]

\* "leaves a broken skill live in the marketplace": what is published can run, unless
\* who decided on it was overtaken (the check of setPublished, the flag an edit read,
\* the plan a heal read).
PublishedRuns ==
    skill.published => <<skill.plan, skill.form>> \in Runs \/ crossed

\* Versions and the marketplace agree with the row.
SkillKept == EditRecorded /\ PublishedRuns
=============================================================================
