---------------------------- MODULE SearchIndex ----------------------------
(***************************************************************************)
(* The derived full-text index of one agent (search.ts): rows in sqlite, a *)
(* manifest that records the signature of the files they were made from,   *)
(* and builds that bring both up to date.                                  *)
(*                                                                         *)
(* A source is a file the rows are made from: a conversation's transcript, *)
(* or the memory blocks.  Its state is the stamp of its last write: the    *)
(* stamp stands for the content, the size and the mtime together.  Writes  *)
(* take even stamps; a checkout or a copy that keeps times brings in a     *)
(* state with an older, odd stamp.  The signature of the files is then the *)
(* function of the stamps.                                                 *)
(* A build waits between two reads, so files change while it collects; it  *)
(* writes rows and manifest under the lock, one disk write after the       *)
(* other, and the process can die between the two.                         *)
(*                                                                         *)
(* `gaps' is history: the sources whose last change fell into one of the  *)
(* holes of the code that this model names in Slips, RestoreSource,        *)
(* RemoveIndex and BuildDies.                                              *)
(***************************************************************************)
EXTENDS Naturals, FiniteSets, FiniteSetsExt

CONSTANTS Source,      \* the conversations and the block directory
          MaxStamp,    \* bound: twice the number of writes
          MaxRestore,  \* bound: states brought in with an older time
          MaxFaults    \* bound: crashes, deletions of a source or the index

ASSUME SearchBounds ==
  MaxStamp \in Nat /\ MaxRestore \in Nat /\ MaxFaults \in Nat

VARIABLES sources,   \* sources[s]: the stamp of source s; 0: there is none
          clock,     \* the last stamp given
          rows,      \* rows[s]: the stamp the rows of s were made from
          manifest,  \* the signature and newest stamp on record, or NoManifest
          build,     \* the build in flight (inflightBuilds), or NoBuild
          gaps,      \* history: see above
          restores, faults

searchVars == <<sources, clock, rows, manifest, build, gaps, restores, faults>>

Stamp == 0..MaxStamp
NoManifest == [signature |-> [s \in Source |-> 0], at |-> MaxStamp + 1]
NoBuild == [plan |-> "none", step |-> "idle", got |-> [s \in Source |-> 0],
            todo |-> {}, signature |-> [s \in Source |-> 0], cutoff |-> 0,
            slipped |-> {}]

Builds == [plan : {"none", "full", "incremental"},
           step : {"idle", "begin", "read", "stat", "commit", "record"},
           got : [Source -> Stamp], todo : SUBSET Source,
           signature : [Source -> Stamp], cutoff : 0..(MaxStamp + 1),
           slipped : SUBSET Source]

SearchTypeOK ==
  /\ sources \in [Source -> Stamp] /\ rows \in [Source -> Stamp]
  /\ clock \in Stamp
  /\ manifest \in [signature : [Source -> Stamp], at : 0..(MaxStamp + 1)]
  /\ build \in Builds
  /\ gaps \subseteq Source
  /\ restores \in 0..MaxRestore /\ faults \in 0..MaxFaults

SearchInit ==
  /\ sources = [s \in Source |-> 0]
  /\ rows = [s \in Source |-> 0]
  /\ clock = 0
  /\ manifest = NoManifest
  /\ build = NoBuild
  /\ gaps = {}
  /\ restores = 0 /\ faults = 0

Existing == {s \in Source : sources[s] # 0}
NewestOf(stamps) == Max({stamps[s] : s \in Source} \cup {0})
Building == build # NoBuild

----------------------------------------------------------------------------
(* What to build                                                           *)

\* Mutant: the plan only asks whether the newest file is newer
PlannedByNewest ==
  IF manifest = NoManifest THEN "full"
  ELSE IF manifest.signature = sources THEN "fresh"
  ELSE IF NewestOf(sources) > manifest.at THEN "incremental" ELSE "full"

\* planBuild: a forward change is folded in; a file older than the newest one
\* on record means history was rewritten, and everything is read again
Planned ==
  IF manifest = NoManifest THEN "full"
  ELSE IF manifest.signature = sources THEN "fresh"
  ELSE IF (\E s \in Existing : sources[s] < manifest.at)
          \/ NewestOf(sources) <= manifest.at
  THEN "full" ELSE "incremental"

\* A search (ensureIndex, dispatchBuild): an index in date is served as it is;
\* otherwise the search joins the build in flight or starts one
Search ==
  /\ ~Building
  /\ Planned # "fresh"
  /\ build' = [NoBuild EXCEPT
       !.plan = Planned, !.cutoff = manifest.at,
       !.step = IF Planned = "full" THEN "read" ELSE "begin",
       !.todo = IF Planned = "full" THEN Source ELSE {}]
  /\ UNCHANGED <<sources, clock, rows, manifest, gaps, restores, faults>>

\* POST search/rebuild: a full build, unless one is in flight
Rebuild ==
  /\ ~Building
  /\ build' = [NoBuild EXCEPT !.plan = "full", !.step = "read",
                              !.todo = Source]
  /\ UNCHANGED <<sources, clock, rows, manifest, gaps, restores, faults>>

----------------------------------------------------------------------------
(* The build                                                               *)

\* incrementalUpdate looks at the files first, and will read those past the
\* newest stamp on record
LookAhead ==
  /\ build.step = "begin"
  /\ LET ahead == {s \in Existing : sources[s] > build.cutoff}
     IN build' = [build EXCEPT
          !.step = IF ahead = {} THEN "commit" ELSE "read",
          !.todo = ahead, !.signature = sources]
  /\ UNCHANGED <<sources, clock, rows, manifest, gaps, restores, faults>>

AfterReading == IF build.plan = "full" THEN "stat" ELSE "commit"

\* One conversation (or the blocks) is read; the next one after an await
ReadSource(s) ==
  /\ build.step = "read" /\ s \in build.todo
  /\ build' = [build EXCEPT
       !.got[s] = sources[s], !.todo = @ \ {s},
       !.step = IF build.todo = {s} THEN AfterReading ELSE @]
  /\ UNCHANGED <<sources, clock, rows, manifest, gaps, restores, faults>>

\* fullRebuild looks at the files only when it has read them all
StatSources ==
  /\ build.step = "stat"
  /\ build' = [build EXCEPT !.step = "commit", !.signature = sources]
  /\ UNCHANGED <<sources, clock, rows, manifest, gaps, restores, faults>>

\* The sources whose rows this build replaces
Replaced ==
  IF build.plan = "full" THEN Source
  ELSE {s \in Source : build.signature[s] > build.cutoff}

\* The rows after the transaction: deleted and inserted again where the build
\* has read, kept elsewhere, those of a source that is gone included
Rewritten ==
  [s \in Source |-> IF s \in Replaced THEN build.got[s] ELSE rows[s]]

\* The transaction, under the lock
Commit ==
  /\ build.step = "commit"
  /\ rows' = Rewritten
  /\ gaps' = (gaps \ Replaced) \cup build.slipped
  /\ build' = [build EXCEPT !.step = "record"]
  /\ UNCHANGED <<sources, clock, manifest, restores, faults>>

\* The manifest takes its place, and the build is over
Record ==
  /\ build.step = "record"
  /\ manifest' = [signature |-> build.signature,
                  at |-> NewestOf(build.signature)]
  /\ build' = NoBuild
  /\ UNCHANGED <<sources, clock, rows, gaps, restores, faults>>

----------------------------------------------------------------------------
(* Meanwhile                                                               *)

\* A time and size that the manifest or the build in flight has down already:
\* where it is on record for this source, the rows may be of a state that was
\* read after the look, and where it is the newest time of another, no update
\* will read this one
ComesBack(stamp) ==
  stamp # 0 /\ \E s \in Source :
                 stamp \in {manifest.signature[s], build.signature[s]}

\* A change a build does not notice: s was read for a full build that has not
\* looked at the files yet; or s goes back behind the cutoff of an update that
\* was planned but has not looked; or it comes back
Slips(s, stamp) ==
  \/ /\ build.plan = "full" /\ build.step \in {"read", "stat"}
     /\ s \notin build.todo
  \/ build.step = "begin" /\ stamp <= build.cutoff
  \/ Building /\ ComesBack(stamp)

SourceChanged(s, stamp) ==
  /\ sources' = [sources EXCEPT ![s] = stamp]
  /\ build' = [build EXCEPT
       !.slipped = IF Slips(s, stamp) THEN @ \cup {s} ELSE @]

\* A turn, the user or the CLI writes a source
WriteSource(s) ==
  /\ clock + 2 <= MaxStamp
  /\ clock' = clock + 2
  /\ SourceChanged(s, clock + 2)
  /\ UNCHANGED <<rows, manifest, gaps, restores, faults>>

\* Another state of a source comes in, with an older time
RestoreSource(s, stamp) ==
  /\ restores < MaxRestore
  /\ stamp % 2 = 1 /\ stamp < sources[s]
  /\ restores' = restores + 1
  /\ SourceChanged(s, stamp)
  /\ gaps' = IF ComesBack(stamp) THEN gaps \cup {s} ELSE gaps
  /\ UNCHANGED <<clock, rows, manifest, faults>>

\* The conversation is deleted
DeleteSource(s) ==
  /\ faults < MaxFaults
  /\ s \in Existing
  /\ faults' = faults + 1
  /\ SourceChanged(s, 0)
  /\ UNCHANGED <<clock, rows, manifest, gaps, restores>>

\* DELETE search/index: the directory goes.  An update in flight then fills an
\* empty table with the sources it has read, and records the rest as present
RemoveIndex ==
  /\ faults < MaxFaults
  /\ build.step # "record"
  /\ faults' = faults + 1
  /\ rows' = [s \in Source |-> 0]
  /\ manifest' = NoManifest
  /\ gaps' = {}
  /\ build' = [build EXCEPT
       !.slipped = IF build.plan = "incremental" THEN Source ELSE @]
  /\ UNCHANGED <<sources, clock, restores>>

\* The process dies: the build is gone.  After the transaction the manifest
\* still tells of the rows before it
BuildDies ==
  /\ faults < MaxFaults
  /\ Building
  /\ faults' = faults + 1
  /\ gaps' = IF build.step = "record" THEN gaps \cup Replaced ELSE gaps
  /\ build' = NoBuild
  /\ UNCHANGED <<sources, clock, rows, manifest, restores>>

SearchNext ==
  \/ Search \/ Rebuild \/ LookAhead \/ StatSources \/ Commit \/ Record
  \/ \E s \in Source : ReadSource(s) \/ WriteSource(s) \/ DeleteSource(s)
                       \/ \E stamp \in Stamp : RestoreSource(s, stamp)
  \/ RemoveIndex \/ BuildDies

SearchSpec == SearchInit /\ [][SearchNext]_searchVars

----------------------------------------------------------------------------
(* Properties                                                              *)

\* An index that the next search serves as it is holds every existing source
\* as it stands, except for changes that fell into a gap of the code: updates
\* by stamp and full builds, whatever they interleave with, never lose one
\* otherwise ("never serve stale", planBuild).
FreshIsCurrent ==
  manifest # NoManifest /\ Planned = "fresh" /\ build.step # "record" =>
    \A s \in Existing \ gaps : rows[s] = sources[s]
============================================================================
