-------------------------------- MODULE Upload --------------------------------
(***************************************************************************)
(* How an update reaches the device: the resumable upload store            *)
(* (resumable_upload.py), the service that hands a verified artifact to    *)
(* its installer (services/update_service.py), the plan that binds the two *)
(* components of a universal release (universal_upload.py) and the release *)
(* download of the running application, with the browsers that drive them. *)
(*                                                                         *)
(* An artifact is Size chunks long.  The store and the plan run without an *)
(* await, so two requests never mix inside of them; requests come between  *)
(* the chunks and while an installer works, and power is lost between any  *)
(* two writes.  What becomes of a staged component is DeviceUpdate's; here *)
(* it is reset, tried, and confirmed or rolled back.                       *)
(***************************************************************************)
EXTENDS Naturals, Sequences, FiniteSets

CONSTANTS
  Tab,         \* browsers, and other clients of the portal
  Owner,       \* the one that wants the universal release Wanted
  Id,          \* identifiers of upload sessions
  MaxRelease,  \* a bound of the model: the last release
  Wanted,      \* the universal release
  IdOf,        \* the identifier the portal's page gives an artifact
  Size,        \* a bound of the model: chunks of an artifact
  MaxTries,    \* a bound of the model: what others than the owner begin
  MaxFaults,   \* a bound of the model: losses of power, connection, space
  Excused      \* the exposures after which nothing is guaranteed

Kind     == {"firmware", "application"}
Release  == 2 .. MaxRelease                   \* 1 is the delivered release
Artifact == [kind : Kind, release : Release]
Chunk    == [of : Artifact, at : 1 .. Size]

ASSUME TabAssumption  == Owner \in Tab
ASSUME IdAssumption   == IdOf \in [Artifact -> Id]
ASSUME SizeAssumption == Size \in Nat \ {0} /\ MaxTries \in Nat /\ MaxFaults \in Nat
ASSUME ReleaseAssumption == MaxRelease \in Nat /\ Wanted \in Release

VARIABLES
  meta,     \* <id>.json: the session
  part,     \* <id>.part: the chunks received
  plan,     \* .universal-upload-plan.json
  comp,     \* the record of each component and the release that runs
  uni,      \* .universal-update-state.json
  on,       \* the application runs
  install,  \* the artifact UpdateService hands to an installer
  fetch,    \* the artifact the release download stages
  tab,      \* what each browser waits for
  tries,    \* bound: uploads and downloads begun by others
  faults,   \* bound: faults
  exposed   \* history: the uncovered events that have happened

store == <<meta, part>>
flash == <<meta, part, plan, comp, uni>>
hist  == <<tries, faults, exposed>>
vars  == <<meta, part, plan, comp, uni, on, install, fetch, tab, tries, faults,
           exposed>>

(***************************************************************************)
(* What the code does not cover (README, Exposures):                       *)
(*   missing    power is lost while a payload is cut to its acknowledged   *)
(*              length: the session stays, its payload does not            *)
(*   planLost   power is lost while the plan is rewritten                  *)
(*   booted     a component of the plan is activated before the plan is    *)
(*              finalized                                                  *)
(*   replaced   a component of a finalized pair is staged over             *)
(*   overTrial  a component is staged while it is on trial (DeviceUpdate)  *)
(***************************************************************************)
Exposure == {"missing", "planLost", "booted", "replaced", "overTrial"}

NoArtifact == [kind |-> "none", release |-> 0]
NoSession  == [art |-> NoArtifact, received |-> 0, complete |-> FALSE]
NoPayload  == [exists |-> FALSE, chunks |-> <<>>]
NoPlan     == [release |-> 0, need |-> {}, done |-> {}, bound |-> {}]
NoPair     == [status |-> "idle", release |-> 0, need |-> {}]
NoInstall  == [art |-> NoArtifact, id |-> CHOOSE i \in Id : TRUE]
NoRequest  == [step |-> "idle", id |-> CHOOSE i \in Id : TRUE, art |-> NoArtifact,
               offset |-> 0, planned |-> FALSE]

Request == [step : {"idle", "begin", "chunk", "complete", "wait", "finalize"},
            id : Id, art : Artifact \cup {NoArtifact}, offset : 0 .. Size,
            planned : BOOLEAN]

TypeOK ==
  /\ \A i \in Id :
       /\ meta[i].art \in Artifact \cup {NoArtifact}
       /\ meta[i].received \in 0 .. Size /\ meta[i].complete \in BOOLEAN
       /\ part[i].exists \in BOOLEAN /\ part[i].chunks \in Seq(Chunk)
       /\ Len(part[i].chunks) <= Size
  /\ plan.release \in {0, Wanted} /\ plan.need \subseteq Kind
  /\ plan.done \subseteq plan.need /\ plan.bound \subseteq plan.need \X Id
  /\ comp \in [Kind -> [status : {"idle", "ready", "selected", "trial"},
                        release : {0} \cup Release, running : 1 .. MaxRelease]]
  /\ uni.status \in {"idle", "ready", "activating"}
  /\ uni.need \subseteq Kind /\ uni.release \in {0, Wanted}
  /\ on \in BOOLEAN
  /\ install.art \in Artifact \cup {NoArtifact} /\ install.id \in Id
  /\ fetch \in Artifact \cup {NoArtifact}
  /\ tab \in [Tab -> Request]
  /\ tries \in 0 .. MaxTries /\ faults \in 0 .. MaxFaults
  /\ exposed \subseteq Exposure

-----------------------------------------------------------------------------
(* The store.  A value of it is [meta |-> ..., part |-> ...]; an operation *)
(* is the sequence of the values its writes go through.                    *)

Stored == [meta |-> meta, part |-> part]

Whole(a) == [k \in 1 .. Size |-> [of |-> a, at |-> k]]

\* Mutant: a payload that is longer than acknowledged is refused.
LoadsExactly(s, i) ==
  /\ s.meta[i] # NoSession
  /\ s.part[i].exists
  /\ Len(s.part[i].chunks) = s.meta[i].received

\* _load: the session is there and its payload holds what it acknowledged.
Loads(s, i) ==
  /\ s.meta[i] # NoSession
  /\ s.part[i].exists
  /\ Len(s.part[i].chunks) >= s.meta[i].received

\* _reconcile_payload
Reconciled(s, i) ==
  [s EXCEPT !.part[i].chunks = SubSeq(@, 1, s.meta[i].received)]

\* Without file.truncate the payload is copied, removed and renamed.
Reconciling(s, i) ==
  IF Len(s.part[i].chunks) > s.meta[i].received
  THEN <<[s EXCEPT !.part[i] = NoPayload], Reconciled(s, i)>>
  ELSE <<s>>

Left(ws) == ws[Len(ws)]

\* A directory is listed by name: the session goes before its payload.
DropOthers(s, i) ==
  LET unlisted == [s EXCEPT !.meta = [j \in Id |-> IF j = i THEN @[j] ELSE NoSession]]
  IN <<unlisted,
       [unlisted EXCEPT !.part = [j \in Id |-> IF j = i THEN @[j] ELSE NoPayload]]>>

Removed(s, i) == <<[s EXCEPT !.meta[i] = NoSession],
                   [s EXCEPT !.meta[i] = NoSession, !.part[i] = NoPayload]>>

Opened(s, i, a) ==
  LET empty == [s EXCEPT !.part[i] = [exists |-> TRUE, chunks |-> <<>>]]
  IN <<empty, [empty EXCEPT !.meta[i] = [NoSession EXCEPT !.art = a]]>>

Resume(s, i) ==
  LET cut == Reconciling(s, i) IN cut \o DropOthers(Left(cut), i)

Restart(s, i, a) ==
  LET gone  == Removed(s, i)
      alone == DropOthers(Left(gone), i)
  IN gone \o alone \o Opened(Left(alone), i, a)

\* begin: the session of the same artifact is resumed, unless there is no
\* space for the rest of it; any other session gives way.
Begins(s, i, a) ==
  IF s.meta[i].art = a THEN {Resume(s, i), Restart(s, i, a)} ELSE {Restart(s, i, a)}

CanBegin(s, i) == s.meta[i] = NoSession \/ Loads(s, i)

\* append: the chunk c, then the session, which is removed and renamed.
Appends(s, i, c) ==
  LET cut  == Reconciling(s, i)
      more == [Left(cut) EXCEPT !.part[i].chunks = Append(@, c)]
  IN cut \o <<more, [more EXCEPT !.meta[i] = NoSession],
              [more EXCEPT !.meta[i].received = @ + 1]>>

CanAppend(s, i, offset) ==
  /\ Loads(s, i)
  /\ ~s.meta[i].complete
  /\ offset = s.meta[i].received
  /\ s.meta[i].received < Size

\* Mutant: the digest is not compared.
VerifiesSize(s, i) == s.meta[i].received = Size

Verifies(s, i) ==
  s.meta[i].received = Size /\ Reconciled(s, i).part[i].chunks = Whole(s.meta[i].art)

\* complete, then handoff: the session goes before an installer changes the
\* payload.
Completes(s, i) ==
  LET cut == Reconciling(s, i)
  IN cut \o <<[Left(cut) EXCEPT !.meta[i] = NoSession],
              [Left(cut) EXCEPT !.meta[i].complete = TRUE],
              [Left(cut) EXCEPT !.meta[i] = NoSession]>>

Write(ws) == meta' = Left(ws).meta /\ part' = Left(ws).part

-----------------------------------------------------------------------------
(* The components, as far as the pipeline reads them.                      *)

\* running_release_sequence: the release that was confirmed last, on trial too.
Sequence(k) == comp[k].running

Forgotten(c) == [c EXCEPT !.status = "idle", !.release = 0]

Staged(c, r) == [c EXCEPT !.status = "ready", !.release = r]

\* firmware_update and app_update refuse what is not newer.
Newer(a) == Sequence(a.kind) < a.release

\* The state file of the core goes before its partition is written.
InstallerBegins(a) ==
  IF a.kind = "firmware" THEN [comp EXCEPT !["firmware"] = Forgotten(@)] ELSE comp

\* universal_update.reconcile_pending, for the records c and u.
Discards(c, u) ==
  /\ u.status = "ready"
  /\ \E k \in u.need : c[k].status # "ready"
  /\ \A k \in Kind : c[k].status \in {"idle", "ready"}

Forgets(c, u) ==
  u.status = "activating" /\ \A k \in u.need : c[k].status = "idle"

ReconciledComp(c, u) ==
  IF Discards(c, u) THEN [k \in Kind |-> IF k \in u.need THEN Forgotten(c[k]) ELSE c[k]]
  ELSE c

ReconciledUni(c, u) == IF Discards(c, u) \/ Forgets(c, u) THEN NoPair ELSE u

Installing == install.art # NoArtifact
Fetching   == fetch # NoArtifact

\* update_support.acquire_update_lock
Locked == Installing \/ Fetching

-----------------------------------------------------------------------------
Init ==
  /\ meta = [i \in Id |-> NoSession]
  /\ part = [i \in Id |-> NoPayload]
  /\ plan = NoPlan
  /\ comp = [k \in Kind |-> [status |-> "idle", release |-> 0, running |-> 1]]
  /\ uni = NoPair
  /\ on = TRUE
  /\ install = NoInstall
  /\ fetch = NoArtifact
  /\ tab = [t \in Tab |-> NoRequest]
  /\ tries = 0 /\ faults = 0
  /\ exposed = {}

Fault == faults < MaxFaults /\ faults' = faults + 1

Answer(t, r) == tab' = [tab EXCEPT ![t] = r]

\* The error is shown; the page does nothing by itself.
Refused(t) == Answer(t, NoRequest)

Expose(e, happened) == exposed' = IF happened THEN exposed \cup {e} ELSE exposed

\* Only the owner comes back for ever.
Tries(t) ==
  IF t = Owner THEN UNCHANGED tries ELSE tries < MaxTries /\ tries' = tries + 1

(***************************************************************************)
(* The requests of a browser.                                              *)
(***************************************************************************)

\* A bundle of its own.  The page derives the identifier from the artifact,
\* another client may choose it.
ChooseBundle(t, i, a) ==
  /\ on /\ t # Owner /\ tab[t].step = "idle"
  /\ Tries(t)
  /\ Answer(t, [NoRequest EXCEPT !.step = "begin", !.id = i, !.art = a])
  /\ UNCHANGED <<flash, on, install, fetch, faults, exposed>>

Component(k) == [kind |-> k, release |-> Wanted]

\* The page uploads what the plan requires, the core first.
NextComponent(need) ==
  LET k == IF "firmware" \in need THEN "firmware" ELSE "application"
  IN [NoRequest EXCEPT !.step = "begin", !.art = Component(k),
                       !.id = IdOf[Component(k)], !.planned = TRUE]

Needs == {k \in Kind : Sequence(k) < Wanted}

Planned(need) == [release |-> Wanted, need |-> need, done |-> {}, bound |-> {}]

\* Who has what it wants stops asking.
Served ==
  \/ uni.status # "idle"
  \/ \A k \in Kind : Sequence(k) >= Wanted
  \/ \E k \in Kind : Sequence(k) > Wanted

Prepare(t) ==
  /\ on /\ tab[t].step = "idle"
  /\ t = Owner => ~Served
  /\ Tries(t)
  /\ \/ /\ plan.release = Wanted
        /\ Answer(t, NextComponent(plan.need))
        /\ UNCHANGED <<plan, comp, uni>>
     \/ /\ plan.release # Wanted
        /\ comp' = ReconciledComp(comp, uni) /\ uni' = ReconciledUni(comp, uni)
        /\ uni'.status = "idle"
        /\ \A k \in Kind : Sequence(k) <= Wanted
        /\ Needs # {}
        /\ \A k \in Needs : comp'[k].status = "idle"
        /\ plan' = Planned(Needs)
        /\ Answer(t, NextComponent(Needs))
  /\ UNCHANGED <<store, on, install, fetch, faults, exposed>>

\* authorize_upload: the identifier is bound until the component is done.
Authorized(t) ==
  LET k == tab[t].art.kind
  IN /\ plan.release = tab[t].art.release
     /\ k \in plan.need
     /\ k \in plan.done \/ \A b \in plan.bound : b[1] = k => b[2] = tab[t].id

Bind(t) ==
  [plan EXCEPT !.bound = {b \in @ : b[1] # tab[t].art.kind}
                            \cup {<<tab[t].art.kind, tab[t].id>>}]

AuthorizedPlan(t) == IF tab[t].planned THEN Bind(t) ELSE plan

MayBegin(t) ==
  /\ tab[t].planned => Authorized(t)
  /\ ~Installing
  /\ CanBegin(Stored, tab[t].id)

Begin(t) ==
  /\ on /\ tab[t].step = "begin"
  /\ MayBegin(t)
  /\ plan' = AuthorizedPlan(t)
  /\ \E ws \in Begins(Stored, tab[t].id, tab[t].art) :
       /\ Write(ws)
       /\ IF ws = Resume(Stored, tab[t].id) \/ meta[tab[t].id].art # tab[t].art
          THEN UNCHANGED faults ELSE Fault
       /\ LET got == Left(ws).meta[tab[t].id].received
          IN Answer(t, [tab[t] EXCEPT !.step = IF got = Size THEN "complete" ELSE "chunk",
                                      !.offset = got])
  /\ UNCHANGED <<comp, uni, on, install, fetch, tries, exposed>>

\* Refused: what authorize_upload wrote before the refusal stays.
BeginRefused(t) ==
  /\ on /\ tab[t].step = "begin"
  /\ ~MayBegin(t)
  /\ plan' = IF tab[t].planned /\ Authorized(t) THEN Bind(t) ELSE plan
  /\ Refused(t)
  /\ UNCHANGED <<store, comp, uni, on, install, fetch, hist>>

\* The chunk of its file that the browser sends next.
NextChunk(t) == [of |-> tab[t].art, at |-> tab[t].offset + 1]

AppendChunk(t) ==
  /\ on /\ tab[t].step = "chunk"
  /\ IF CanAppend(Stored, tab[t].id, tab[t].offset)
     THEN /\ Write(Appends(Stored, tab[t].id, NextChunk(t)))
          /\ Answer(t, [tab[t] EXCEPT !.offset = @ + 1,
                          !.step = IF tab[t].offset + 1 = Size THEN "complete" ELSE @])
     ELSE UNCHANGED store /\ Refused(t)
  /\ UNCHANGED <<plan, comp, uni, on, install, fetch, hist>>

\* The flash is full: the chunk may be there, its acknowledgement is not.
AppendFails(t) ==
  /\ on /\ tab[t].step = "chunk"
  /\ CanAppend(Stored, tab[t].id, tab[t].offset)
  /\ Fault
  /\ \E ws \in {Reconciling(Stored, tab[t].id),
                SubSeq(Appends(Stored, tab[t].id, NextChunk(t)), 1,
                       Len(Reconciling(Stored, tab[t].id)) + 1)} : Write(ws)
  /\ Refused(t)
  /\ UNCHANGED <<plan, comp, uni, on, install, fetch, tries, exposed>>

(***************************************************************************)
(* UpdateService.complete.  Whatever goes wrong once it has begun, the     *)
(* session is removed.                                                     *)
(***************************************************************************)
Accepts(t) ==
  LET i == tab[t].id
  IN Verifies(Stored, i) /\ ~Locked /\ Newer(meta[i].art)

Complete(t) ==
  /\ on /\ tab[t].step = "complete"
  /\ ~Installing /\ Loads(Stored, tab[t].id)
  /\ Accepts(t)
  /\ LET i == tab[t].id
         a == meta[i].art
     IN /\ Write(Completes(Stored, i))
        /\ install' = [art |-> a, id |-> i]
        /\ comp' = InstallerBegins(a)
        /\ Expose("overTrial", comp[a.kind].status \in {"selected", "trial"})
  /\ Answer(t, [tab[t] EXCEPT !.step = "wait"])
  /\ UNCHANGED <<plan, uni, on, fetch, tries, faults>>

CompleteRefused(t) ==
  /\ on /\ tab[t].step = "complete"
  /\ ~(~Installing /\ Loads(Stored, tab[t].id) /\ Accepts(t))
  /\ IF Installing \/ ~Loads(Stored, tab[t].id) THEN UNCHANGED store
     ELSE Write(Removed(Stored, tab[t].id))
  /\ Refused(t)
  /\ UNCHANGED <<plan, comp, uni, on, install, fetch, hist>>

\* What a browser does after its component is staged.
AfterComponent(t) ==
  IF ~tab[t].planned THEN NoRequest
  ELSE IF tab[t].art.kind = "firmware" /\ "application" \in plan.need
  THEN NextComponent({"application"})
  ELSE [NoRequest EXCEPT !.step = "finalize", !.planned = TRUE]

Waiting(i) == {t \in Tab : tab[t].step = "wait" /\ tab[t].id = i}

\* mark_complete: the upload the plan is bound to stages the plan's component.
Marks(i, a) == <<a.kind, i>> \in plan.bound

StagesOver(a) ==
  uni.status = "ready" /\ a.kind \in uni.need /\ a.release # uni.release

InstallEnds ==
  /\ on /\ Installing
  /\ LET i == install.id
         a == install.art
     IN /\ comp' = [comp EXCEPT ![a.kind] = Staged(@, a.release)]
        /\ Write(Removed(Stored, i))
        /\ Expose("replaced", StagesOver(a))
        /\ LET fits == Marks(i, a) => a.release = plan.release
           IN /\ plan' = IF Marks(i, a) /\ fits
                         THEN [plan EXCEPT !.done = @ \cup {a.kind}] ELSE plan
              /\ tab' = [t \in Tab |-> IF t \notin Waiting(i) THEN tab[t]
                                       ELSE IF fits THEN AfterComponent(t)
                                       ELSE NoRequest]
  /\ install' = NoInstall
  /\ UNCHANGED <<uni, on, fetch, tries, faults>>

\* A bundle is rejected, or the flash is full; an application that was adopted
\* takes the record of the one before with it.
InstallFails ==
  /\ on /\ Installing
  /\ Fault
  /\ Write(Removed(Stored, install.id))
  /\ comp' \in {comp, [comp EXCEPT ![install.art.kind] = Forgotten(@)]}
  /\ tab' = [t \in Tab |-> IF t \in Waiting(install.id) THEN NoRequest ELSE tab[t]]
  /\ install' = NoInstall
  /\ UNCHANGED <<plan, uni, on, fetch, tries, exposed>>

Ready(k, r) == comp[k].status = "ready" /\ comp[k].release = r

\* finalize and stage_preverified
Pairable(r) ==
  /\ plan.release = r
  /\ plan.need \subseteq plan.done
  /\ \A k \in Kind : IF k \in plan.need THEN Ready(k, r) ELSE Sequence(k) = r

Finalize(t) ==
  /\ on /\ tab[t].step = "finalize"
  /\ IF Pairable(Wanted)
     THEN /\ uni' = [status |-> "ready", release |-> Wanted, need |-> plan.need]
          /\ plan' = NoPlan
     ELSE UNCHANGED <<uni, plan>>
  /\ Refused(t)
  /\ UNCHANGED <<store, comp, on, install, fetch, hist>>

\* The connection drops, or the page is closed; what was asked may be done.
GiveUp(t) ==
  /\ tab[t].step # "idle"
  /\ IF t = Owner THEN Fault ELSE UNCHANGED faults
  /\ Refused(t)
  /\ UNCHANGED <<flash, on, install, fetch, tries, exposed>>

-----------------------------------------------------------------------------
(* The release download stages what the channel offers, beside the uploads. *)

StartFetch(a) ==
  /\ on /\ ~Locked
  /\ tries < MaxTries /\ tries' = tries + 1
  /\ Newer(a)
  /\ fetch' = a
  /\ comp' = InstallerBegins(a)
  /\ Expose("overTrial", comp[a.kind].status \in {"selected", "trial"})
  /\ UNCHANGED <<store, plan, uni, on, install, tab, faults>>

EndFetch ==
  /\ on /\ Fetching
  /\ comp' \in {comp, [comp EXCEPT ![fetch.kind] = Staged(@, fetch.release)]}
  /\ Expose("replaced", StagesOver(fetch) /\ comp' # comp)
  /\ fetch' = NoArtifact
  /\ UNCHANGED <<store, plan, uni, on, install, tab, tries, faults>>

-----------------------------------------------------------------------------
(* Activation, reset and the outcome of the trials.                        *)

InPlan(k) == plan # NoPlan /\ k \in plan.need

Select(k) == [comp EXCEPT ![k].status = "selected"]

ActivateCore ==
  /\ on /\ ~Locked
  /\ comp["firmware"].status = "ready"
  /\ comp' = Select("firmware")
  /\ Expose("booted", InPlan("firmware"))
  /\ UNCHANGED <<store, plan, uni, on, install, fetch, tab, tries, faults>>

Activatable == uni.status = "ready" /\ \A k \in uni.need : comp[k].status = "ready"

ActivateUniversal ==
  /\ on /\ Activatable
  /\ "firmware" \in uni.need => ~Locked
  /\ comp' = IF "firmware" \in uni.need THEN Select("firmware") ELSE comp
  /\ uni' = [uni EXCEPT !.status = "activating"]
  /\ UNCHANGED <<store, plan, on, install, fetch, tab, hist>>

\* What a loss of power ends; the browsers see their connections fail.
PowerDown ==
  /\ on' = FALSE
  /\ install' = NoInstall
  /\ fetch' = NoArtifact
  /\ tab' = [t \in Tab |-> NoRequest]

\* An administrator, or the download that activates what it staged.
Reset ==
  /\ on
  /\ comp["application"].status = "ready" \/ comp["firmware"].status = "selected"
  /\ PowerDown
  /\ UNCHANGED <<flash, hist>>

\* recovery_boot.run up to the application: the bootloader gives up a core
\* that was not confirmed, a staged application is activated.
AfterBootloader ==
  [comp EXCEPT !["firmware"] =
     IF @.status = "trial" THEN Forgotten(@)
     ELSE IF @.status = "selected" THEN [@ EXCEPT !.status = "trial"] ELSE @]

Boot ==
  /\ ~on
  /\ on' = TRUE
  /\ LET c == ReconciledComp(AfterBootloader, uni)
     IN /\ comp' = [c EXCEPT !["application"].status =
                      IF @ = "ready" THEN "trial" ELSE @]
        /\ Expose("booted", InPlan("application") /\ c["application"].status = "ready")
  /\ uni' = ReconciledUni(AfterBootloader, uni)
  /\ UNCHANGED <<store, plan, install, fetch, tab, tries, faults>>

Confirmed(c) == [status |-> "idle", release |-> 0, running |-> c.release]

\* The trials end, each its own way; what stays unconfirmed is rolled back.
Decide ==
  /\ on
  /\ \E k \in Kind : comp[k].status = "trial"
  /\ \E kept \in SUBSET {k \in Kind : comp[k].status = "trial"} :
       comp' = [k \in Kind |-> IF comp[k].status # "trial" THEN comp[k]
                               ELSE IF k \in kept THEN Confirmed(comp[k])
                               ELSE Forgotten(comp[k])]
  /\ uni' = ReconciledUni(comp', uni)
  /\ UNCHANGED <<store, plan, on, install, fetch, tab, hist>>

-----------------------------------------------------------------------------
(* Power is lost: at rest, or after any write of a request that is served. *)

Values(ws) == {ws[k] : k \in DOMAIN ws}

Cuts(t) ==
  LET i == tab[t].id
      a == tab[t].art
  IN CASE tab[t].step = "begin" /\ MayBegin(t) ->
            UNION {Values(ws) : ws \in Begins(Stored, i, a)}
       [] tab[t].step = "chunk" /\ CanAppend(Stored, i, tab[t].offset) ->
            Values(Appends(Stored, i, NextChunk(t)))
       [] tab[t].step = "complete" /\ Loads(Stored, i) /\ Accepts(t) ->
            Values(Completes(Stored, i))
       [] OTHER -> {}

LostPayload(s) == \E i \in Id : s.meta[i] # NoSession /\ ~s.part[i].exists

PowerLoss ==
  /\ on /\ Fault
  /\ PowerDown
  /\ \E s \in {Stored} \cup UNION {Cuts(t) : t \in Tab} :
       /\ meta' = s.meta /\ part' = s.part
       /\ Expose("missing", LostPayload(s) /\ ~LostPayload(Stored))
  /\ UNCHANGED <<plan, comp, uni, tries>>

\* Between the remove and the rename of _write_plan.
PlanLost ==
  /\ on /\ Fault
  /\ PowerDown
  /\ \/ \E t \in Tab : tab[t].step = "begin" /\ tab[t].planned /\ Authorized(t)
     \/ Installing /\ Marks(install.id, install.art)
  /\ plan' = NoPlan
  /\ Expose("planLost", TRUE)
  /\ comp' \in {comp} \cup
       IF Installing THEN {[comp EXCEPT ![install.art.kind] = Staged(@, install.art.release)]}
       ELSE {}
  /\ UNCHANGED <<store, uni, tries>>

\* The component is staged and its plan does not say so.
Unmarked ==
  /\ on /\ Fault /\ Installing
  /\ PowerDown
  /\ comp' = [comp EXCEPT ![install.art.kind] = Staged(@, install.art.release)]
  /\ meta' \in {meta} /\ part' \in {part, Left(Removed(Stored, install.id)).part}
  /\ Expose("replaced", StagesOver(install.art))
  /\ UNCHANGED <<plan, uni, tries>>

\* The pair is recorded and the plan is still there.
Unplanned ==
  /\ on /\ Fault
  /\ \E t \in Tab : tab[t].step = "finalize"
  /\ Pairable(Wanted)
  /\ PowerDown
  /\ uni' = [status |-> "ready", release |-> Wanted, need |-> plan.need]
  /\ UNCHANGED <<store, plan, comp, tries, exposed>>

-----------------------------------------------------------------------------
Browse(t) ==
  \/ \E i \in Id, a \in Artifact : ChooseBundle(t, i, a)
  \/ Prepare(t)
  \/ Begin(t) \/ BeginRefused(t)
  \/ AppendChunk(t) \/ AppendFails(t)
  \/ Complete(t) \/ CompleteRefused(t)
  \/ Finalize(t)
  \/ GiveUp(t)

Device ==
  \/ InstallEnds \/ InstallFails
  \/ \E a \in Artifact : StartFetch(a)
  \/ EndFetch
  \/ ActivateCore \/ ActivateUniversal
  \/ Reset \/ Boot \/ Decide
  \/ PowerLoss \/ PlanLost \/ Unmarked \/ Unplanned

Next == (\E t \in Tab : Browse(t)) \/ Device

(***************************************************************************)
(* A request that a browser has made is served, an installer and a         *)
(* download come to an end, the device boots and its trials are decided.   *)
(* The owner tries again whenever it is refused; requests of others may    *)
(* come in between (the strong fairness).  Nothing makes an administrator  *)
(* activate or the others begin.                                           *)
(***************************************************************************)
Serve(t) ==
  \/ Begin(t) \/ BeginRefused(t) \/ AppendChunk(t)
  \/ Complete(t) \/ CompleteRefused(t) \/ Finalize(t)

Fairness ==
  /\ \A t \in Tab : WF_vars(Serve(t))
  /\ SF_vars(Prepare(Owner))
  /\ WF_vars(InstallEnds) /\ WF_vars(EndFetch)
  /\ WF_vars(Boot) /\ WF_vars(Decide)

Spec == Init /\ [][Next]_vars /\ Fairness

-----------------------------------------------------------------------------
(* Correctness, up to the first excused exposure.                          *)

Promised == exposed \cap Excused = {}

\* What an installer is given is the artifact its session declared, every
\* chunk of it, whoever else wrote to the session; and no session is left that
\* would resume the payload the installer changes.
HandedWhole ==
  Installing => /\ part[install.id].chunks = Whole(install.art)
                /\ meta[install.id] = NoSession

\* An acknowledged chunk is in the payload, at its place, whenever power is lost
\* and whichever of two clients of one session is answered first.
AcknowledgedIsStored ==
  Promised => \A i \in Id :
    /\ Len(part[i].chunks) >= meta[i].received
    /\ \A k \in 1 .. meta[i].received : part[i].chunks[k].at = k

\* The flash holds one payload, abandoned ones included.
OnePayload == Cardinality({i \in Id : part[i].exists}) <= 1

\* A core is never recorded as staged while its partition is being written.
StagedCoreIsWhole ==
  (Promised /\ comp["firmware"].status = "ready") =>
    install.art.kind # "firmware" /\ fetch.kind # "firmware"

\* Activation is offered for a pair of one release only.
PairMatches ==
  (Promised /\ Activatable) => \A k \in uni.need : comp[k].release = uni.release

\* Whoever goes on asking for the universal release is served in the end,
\* unless another update was staged first.
Blocked ==
  \E k \in Kind :
    /\ comp[k].status # "idle"
    /\ plan = NoPlan \/ comp[k].release # Wanted

OwnerServed == <>(Served \/ Blocked \/ ~Promised)

\* What is stored, handed over and staged is whole, whoever else writes, and what can be
\* activated is of one release.
StoreIsSound ==
  TypeOK /\ HandedWhole /\ AcknowledgedIsStored /\ OnePayload /\ StagedCoreIsWhole /\ PairMatches

==============================================================================
