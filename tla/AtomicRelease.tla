---------------------------- MODULE AtomicRelease ----------------------------
(***************************************************************************)
(* What an application update promises, with no file, slot or power loss:  *)
(* the installed pair (application release, module settings) changes as a  *)
(* whole, only to a candidate that is running on trial, and a candidate    *)
(* that is not kept leaves no trace; an administrator can only return to   *)
(* the release the last update replaced.  AppUpdate and DeviceUpdate       *)
(* implement this module.                                                  *)
(***************************************************************************)
EXTENDS Naturals

CONSTANT Generation          \* releases of the application, and 0 for none

VARIABLES
  app,          \* the application generation that is installed
  settings,     \* the generation of module_settings.json that is installed
  kept,         \* the generation one can return to, or 0
  candidate,    \* the pair on trial, or NoCandidate
  excused       \* an event happened after which nothing more is promised

absVars == <<app, settings, kept, candidate, excused>>

NoCandidate == [app |-> 0, settings |-> 0]

\* 0 in a candidate: it leaves that half of the installed pair alone.
Candidate == [app : Generation, settings : Generation]

Merge(new, old) == IF new = 0 THEN old ELSE new

AbsInit ==
  /\ app \in Generation
  /\ settings \in Generation
  /\ kept = 0
  /\ candidate = NoCandidate
  /\ excused = FALSE

Try ==
  /\ candidate = NoCandidate
  /\ candidate' \in Candidate
  /\ UNCHANGED <<app, settings, kept>>

Keep ==
  /\ candidate # NoCandidate
  /\ app' = Merge(candidate.app, app)
  /\ settings' = Merge(candidate.settings, settings)
  /\ kept' \in {IF candidate.app = 0 THEN kept ELSE app, 0}
  /\ candidate' = NoCandidate

Abandon ==
  /\ candidate # NoCandidate
  /\ candidate' = NoCandidate
  /\ UNCHANGED <<app, settings, kept>>

SwitchBack ==
  /\ candidate = NoCandidate
  /\ kept # 0
  /\ app' = kept
  /\ kept' \in {app, 0}
  /\ UNCHANGED <<settings, candidate>>

\* The room of the generation that was kept is needed.
Forget ==
  /\ kept' = 0
  /\ UNCHANGED <<app, settings, candidate>>

AbsNext ==
  \/ ~excused /\ ~excused' /\ (Try \/ Keep \/ Abandon \/ SwitchBack \/ Forget)
  \/ excused'

AbsSpec == AbsInit /\ [][AbsNext]_absVars
==============================================================================
