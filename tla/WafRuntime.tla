------------------------------- MODULE WafRuntime -------------------------------
(***************************************************************************)
(* The runtime that keeps NGINX in line with the desired state of the web  *)
(* application firewall: the synchronizer (worker), the operator's command *)
(* (control), the files of /pr7-state both work on under one file lock,    *)
(* and NGINX, which reads the selected file when it gets to a reload.      *)
(*                                                                         *)
(* A configuration is the snapshot it was rendered from: the rules carry   *)
(* the revision, so two snapshots with rules never render alike, and all   *)
(* snapshots without rules render to the canonical empty file.             *)
(*                                                                         *)
(* File replacements are atomic.  Two of them are one step here when the   *)
(* state in between equals an earlier one for everybody: the copy to       *)
(* previous.conf before a selection, the end of a validation before it.    *)
(* A reload that was not confirmed in time may still happen later.         *)
(***************************************************************************)
EXTENDS Naturals

CONSTANTS
    RuleSets,        \* non-empty rule sets a snapshot may list
    NoRules,         \* the rule set of a snapshot without items
    NoProc,          \* the file lock is free
    NoPolicy,        \* no authoritative snapshot (used by the refinement)
    Modes,           \* values of PR7_WAF_MODE the container is started with
    MaxRevision,     \* bound on the revision, for TLC
    BackupRestores,  \* may the database come back with an older revision?
    LateReloads      \* may NGINX reload after its confirmation timed out?

ASSUME RuleSetsAssumption == NoRules \notin RuleSets
ASSUME ProcAssumption == NoProc \notin {"worker", "control"}
ASSUME ModesAssumption == Modes \subseteq {"off", "dry_run", "enforce"} /\ Modes # {}
ASSUME BoundAssumption ==
    MaxRevision \in Nat /\ BackupRestores \in BOOLEAN /\ LateReloads \in BOOLEAN

VARIABLES
    policy,         \* the snapshot the control plane serves
    mode,           \* mode of the running container
    disabled,       \* the DISABLED latch file exists
    selected,       \* selected.conf
    previous,       \* previous.conf
    metadata,       \* selected.json
    holder,         \* process that holds activation.lock
    proc,           \* progress of each process
    loaded,         \* configuration NGINX serves
    reloadPending,  \* NGINX was signalled and has not reloaded yet
    interrupted     \* history: a process ended inside its critical section,
                    \* and no transition has been confirmed since

vars == <<policy, mode, disabled, selected, previous, metadata, holder, proc,
          loaded, reloadPending, interrupted>>
files == <<disabled, selected, previous, metadata>>
nginx == <<loaded, reloadPending>>

Procs == {"worker", "control"}
EmptyKinds == {"mode_empty", "disabled_empty", "pending_empty"}

Snapshots == [revision: Nat, rules: RuleSets \cup {NoRules}]
Empty == [revision |-> 0, rules |-> NoRules]
Rendered(s) == IF s.rules = NoRules THEN Empty ELSE s

\* selected_kind, the source fields and whether selected_at is set
Metadata == [kind: EmptyKinds \cup {"authoritative"}, source: Snapshots,
             confirmed: BOOLEAN]
Authoritative(s) == [kind |-> "authoritative", source |-> s, confirmed |-> TRUE]
EmptyMetadata(kind) == [kind |-> kind, source |-> Empty, confirmed |-> TRUE]
StartMetadata(kind) == [EmptyMetadata(kind) EXCEPT !.confirmed = FALSE]

\* the file whose checksum the metadata records
FileOf(m) == Rendered(m.source)

(* A process waits for the lock in check, recheck and activate, and holds   *)
(* it from latched to signalled.  goal says what it is confirming; record   *)
(* is the metadata an empty transition writes, or a failed candidate        *)
(* restores; original the file a validation moved aside; then where it goes *)
(* after an empty transition; reloaded whether new NGINX workers have       *)
(* appeared since its reload signal.                                        *)
Critical == {"latched", "validating", "selected", "signalled"}
Pcs == {"idle", "check", "fetch", "recheck", "activate", "dead"} \cup Critical
Goals == {"candidate", "restore", "fallback", "empty", "retry", "rehearsal"}
Proc == [pc: Pcs, goal: Goals, snapshot: Snapshots, record: Metadata,
         original: Snapshots, then: {"idle", "check", "fetch"}, reloaded: BOOLEAN]
Idle == [pc |-> "idle", goal |-> "empty", snapshot |-> Empty,
         record |-> EmptyMetadata("mode_empty"), original |-> Empty,
         then |-> "idle", reloaded |-> FALSE]

--------------------------------------------------------------------------------
\* empty_state_matches
EmptyFileMatches(kind) == selected = Empty
EmptyStateMatches(kind) == metadata = EmptyMetadata(kind) /\ selected = Empty

(* _revision_decision: the snapshot is older, contradicts the recorded one, *)
(* or is the recorded one and still selected.                               *)
SettledByRevision(s) ==
    metadata.kind = "authoritative" /\ s.revision <= metadata.source.revision
SettledNever(s) == FALSE
Settled(s) ==
    /\ metadata.kind = "authoritative"
    /\ \/ s.revision < metadata.source.revision
       \/ /\ s.revision = metadata.source.revision
          /\ s # metadata.source \/ selected = FileOf(metadata)

\* where reconcile starts
ReconcileFrom == IF mode = "dry_run" THEN "fetch" ELSE "check"

\* p leaves its critical section, if it was in one, in good order
Leave(p, pc) ==
    /\ proc' = [proc EXCEPT ![p] = [Idle EXCEPT !.pc = pc]]
    /\ holder' = NoProc
    /\ UNCHANGED interrupted

(* An exception that nothing handles ends p and leaves the files as they    *)
(* are: the command prints it, the worker takes its container down.         *)
Abort(p) ==
    /\ proc' = [proc EXCEPT ![p] = [Idle EXCEPT !.pc =
                    IF p = "worker" THEN "dead" ELSE "idle"]]
    /\ holder' = NoProc
    /\ interrupted' = TRUE

\* select_candidate
Select(conf) == previous' = selected /\ selected' = conf

\* deactivate_empty up to its first reload; record is what it will write
SelectEmpty(p, record, then) ==
    /\ Select(Empty)
    /\ proc' = [proc EXCEPT ![p] = [Idle EXCEPT !.pc = "selected", !.goal = "empty",
                                                !.record = record, !.then = then]]
    /\ holder' = p
    /\ UNCHANGED <<disabled, metadata, interrupted>>

\* validate_candidate moves the candidate into the live path
ValidateForReal(p, goal) ==
    /\ selected' = Rendered(proc[p].snapshot)
    /\ proc' = [proc EXCEPT ![p].pc = "validating", ![p].goal = "candidate",
                            ![p].record = metadata, ![p].original = selected]
    /\ holder' = p
    /\ UNCHANGED <<disabled, previous, metadata, interrupted>>
Validate(p, goal) ==
    /\ selected' = Rendered(proc[p].snapshot)
    /\ proc' = [proc EXCEPT ![p].pc = "validating", ![p].goal = goal,
                            ![p].record = metadata, ![p].original = selected]
    /\ holder' = p
    /\ UNCHANGED <<disabled, previous, metadata, interrupted>>

--------------------------------------------------------------------------------
Init ==
    /\ policy = Empty
    /\ mode \in Modes
    /\ disabled = FALSE
    /\ selected = Empty
    /\ previous = Empty
    /\ metadata = StartMetadata(IF mode = "enforce" THEN "pending_empty" ELSE "mode_empty")
    /\ holder = NoProc
    /\ proc = [p \in Procs |-> Idle]
    /\ loaded = Empty
    /\ reloadPending = FALSE
    /\ interrupted = FALSE

\* A mutation of the desired state commits a new revision.
Publish ==
    /\ policy.revision < MaxRevision
    /\ \E r \in RuleSets \cup {NoRules} :
          policy' = [revision |-> policy.revision + 1, rules |-> r]
    /\ UNCHANGED <<mode, files, holder, proc, nginx, interrupted>>

\* The database is restored from a backup, and may have diverged from it since.
RestoreBackup ==
    /\ BackupRestores
    /\ \E n \in 0 .. policy.revision, r \in RuleSets \cup {NoRules} :
          policy' = [revision |-> n, rules |-> r]
    /\ UNCHANGED <<mode, files, holder, proc, nginx, interrupted>>

StartPoll ==
    /\ proc["worker"].pc = "idle"
    /\ proc' = [proc EXCEPT !["worker"].pc = ReconcileFrom]
    /\ UNCHANGED <<policy, mode, files, holder, nginx, interrupted>>

\* reconcile, first critical section: mode off, and the latch
CheckMode(p) ==
    /\ proc[p].pc = "check" /\ holder = NoProc
    /\ LET kind == IF mode = "off" THEN "mode_empty" ELSE "disabled_empty" IN
       \/ /\ mode = "enforce" /\ ~disabled
          /\ Leave(p, "fetch") /\ UNCHANGED files
       \/ /\ mode = "off" \/ disabled
          /\ EmptyStateMatches(kind)
          /\ Leave(p, "idle") /\ UNCHANGED files
       \/ /\ mode = "off" \/ disabled
          /\ ~EmptyStateMatches(kind)
          /\ SelectEmpty(p, EmptyMetadata(kind), "idle")
    /\ UNCHANGED <<policy, mode, nginx>>

\* The request is answered, outside the lock, with the policy of that moment.
Fetch(p) ==
    /\ proc[p].pc = "fetch"
    /\ proc' = [proc EXCEPT ![p].pc = "recheck", ![p].snapshot = policy]
    /\ UNCHANGED <<policy, mode, files, holder, nginx, interrupted>>

\* SnapshotRejected: an outage, a timeout, an answer that fails validation.
FetchRejected(p) ==
    /\ proc[p].pc = "fetch"
    /\ proc' = [proc EXCEPT ![p] = Idle]
    /\ UNCHANGED <<policy, mode, files, holder, nginx, interrupted>>

\* reconcile, second critical section
Recheck(p) ==
    /\ proc[p].pc = "recheck" /\ holder = NoProc
    /\ proc' = [proc EXCEPT ![p] = IF Settled(@.snapshot) THEN Idle
                                   ELSE [@ EXCEPT !.pc = "activate"]]
    /\ UNCHANGED <<policy, mode, files, holder, nginx, interrupted>>

(* activate, and the dry run, up to the validation of the candidate.  The   *)
(* last rule of the snapshot may be too close to its end to be probed.      *)
Activate(p) ==
    LET s == proc[p].snapshot
        latched == mode = "enforce" /\ disabled IN
    /\ proc[p].pc = "activate" /\ holder = NoProc
    /\ \/ latched /\ SelectEmpty(p, EmptyMetadata("disabled_empty"), "idle")
       \/ ~latched /\ Settled(s) /\ Leave(p, "idle") /\ UNCHANGED files
       \/ ~Settled(s) /\ mode = "dry_run" /\ Validate(p, "rehearsal")
       \/ /\ mode = "enforce" /\ ~latched /\ ~Settled(s)
          /\ s.rules = NoRules
          /\ SelectEmpty(p, Authoritative(s), "idle")
       \/ /\ mode = "enforce" /\ ~latched /\ ~Settled(s)
          /\ s.rules # NoRules
          /\ SelectEmpty(p, EmptyMetadata("pending_empty"), "idle")
             \/ Validate(p, "candidate")
    /\ UNCHANGED <<policy, mode, nginx>>

\* nginx -t accepts the candidate; a dry run then selects empty without a reload.
Validated(p) ==
    /\ proc[p].pc = "validating"
    /\ previous' = proc[p].original
    /\ \/ /\ proc[p].goal = "candidate"
          /\ proc' = [proc EXCEPT ![p].pc = "selected", ![p].original = Empty]
          /\ UNCHANGED <<selected, metadata, holder, interrupted>>
       \/ /\ proc[p].goal = "rehearsal"
          /\ selected' = Empty
          /\ metadata' = StartMetadata("mode_empty")
          /\ Leave(p, "idle")
    /\ UNCHANGED <<policy, mode, disabled, nginx>>

\* nginx -t rejects it: ActivationError, or in a dry run a plain RuntimeError.
Rejected(p) ==
    /\ proc[p].pc = "validating"
    /\ selected' = proc[p].original
    /\ IF proc[p].goal = "candidate" THEN Leave(p, "idle")
       ELSE Abort(p)
    /\ UNCHANGED <<policy, mode, disabled, previous, metadata, nginx>>

(* What p does when its configuration cannot be confirmed: a candidate is   *)
(* replaced by the previous file, that by the empty one; an empty selection *)
(* is tried twice, and then RollbackError is raised.                        *)
FallBackToNothing(p) ==
    \/ /\ proc[p].goal = "candidate"
       /\ Leave(p, "idle")
       /\ UNCHANGED <<selected, previous>>
    \/ /\ proc[p].goal \in {"restore", "empty"}
       /\ Select(Empty)
       /\ proc' = [proc EXCEPT ![p] = [@ EXCEPT !.pc = "selected", !.reloaded = FALSE,
                      !.goal = IF proc[p].goal = "restore" THEN "fallback" ELSE "retry"]]
       /\ UNCHANGED <<holder, interrupted>>
    \/ /\ proc[p].goal \in {"fallback", "retry"}
       /\ Abort(p)
       /\ UNCHANGED <<selected, previous>>
FallBack(p) ==
    \/ /\ proc[p].goal = "candidate"
       /\ selected' = previous
       /\ proc' = [proc EXCEPT ![p] = [@ EXCEPT !.pc = "selected", !.reloaded = FALSE,
                                                !.goal = "restore"]]
       /\ UNCHANGED <<previous, holder, interrupted>>
    \/ /\ proc[p].goal \in {"restore", "empty"}
       /\ Select(Empty)
       /\ proc' = [proc EXCEPT ![p] = [@ EXCEPT !.pc = "selected", !.reloaded = FALSE,
                      !.goal = IF proc[p].goal = "restore" THEN "fallback" ELSE "retry"]]
       /\ UNCHANGED <<holder, interrupted>>
    \/ /\ proc[p].goal \in {"fallback", "retry"}
       /\ Abort(p)
       /\ UNCHANGED <<selected, previous>>

\* nginx -s reload reaches the master process.
Signal(p) ==
    /\ proc[p].pc = "selected"
    /\ reloadPending' = TRUE
    /\ proc' = [proc EXCEPT ![p].pc = "signalled"]
    /\ UNCHANGED <<policy, mode, files, holder, loaded, interrupted>>

\* It does not, or the selected file no longer validates.
SignalFails(p) ==
    /\ proc[p].pc = "selected"
    /\ FallBack(p)
    /\ UNCHANGED <<policy, mode, disabled, metadata, nginx>>

\* the metadata p writes when NGINX serves what it selected
Written(p) ==
    CASE proc[p].goal = "candidate" -> Authoritative(proc[p].snapshot)
      [] proc[p].goal = "fallback" -> EmptyMetadata("pending_empty")
      [] OTHER -> proc[p].record

(* The probe of rules finds the revision tag of the metadata in the audit   *)
(* log, so a file without those rules fails it; the probe of an empty       *)
(* selection comes from the loopback address, which no rule blocks.         *)
ProbePasses(p) ==
    \/ proc[p].goal \in {"empty", "retry", "fallback"}
    \/ proc[p].goal = "restore" /\ proc[p].record.kind # "authoritative"
    \/ /\ Written(p).kind = "authoritative"
       /\ Written(p).source.rules # NoRules
       /\ loaded = FileOf(Written(p)) /\ selected = loaded

\* New workers have appeared and the probes pass: the metadata is written.
Confirm(p) ==
    /\ proc[p].pc = "signalled" /\ proc[p].reloaded
    /\ ProbePasses(p)
    /\ metadata' = Written(p)
    /\ proc' = [proc EXCEPT ![p] = [Idle EXCEPT !.pc = proc[p].then]]
    /\ holder' = NoProc
    /\ interrupted' = (interrupted /\ proc[p].goal = "restore")
    /\ UNCHANGED <<policy, mode, disabled, selected, previous, nginx>>

\* No new workers in time, or a probe fails.  The reload may still happen.
ConfirmFails(p) ==
    /\ proc[p].pc = "signalled"
    /\ FallBack(p)
    /\ UNCHANGED <<policy, mode, disabled, metadata, nginx>>

\* The last rule of the candidate runs out before its probe: a ValueError.
ProbeRaises(p) ==
    /\ proc[p].pc = "signalled" /\ proc[p].goal = "candidate" /\ proc[p].reloaded
    /\ Abort(p)
    /\ UNCHANGED <<policy, mode, files, nginx>>

\* The operator runs disable or enable: the latch changes first.
Disable ==
    /\ proc["control"].pc = "idle" /\ holder = NoProc
    /\ disabled' = TRUE
    /\ holder' = "control"
    /\ proc' = [proc EXCEPT !["control"] = [Idle EXCEPT !.pc = "latched",
                    !.record = EmptyMetadata("disabled_empty")]]
    /\ UNCHANGED <<policy, mode, selected, previous, metadata, nginx, interrupted>>

Enable ==
    /\ proc["control"].pc = "idle" /\ holder = NoProc
    /\ disabled' = FALSE
    /\ holder' = "control"
    /\ proc' = [proc EXCEPT !["control"] = [Idle EXCEPT !.pc = "latched",
                    !.record = EmptyMetadata("pending_empty"), !.then = ReconcileFrom]]
    /\ UNCHANGED <<policy, mode, selected, previous, metadata, nginx, interrupted>>

Deactivate ==
    /\ proc["control"].pc = "latched"
    /\ SelectEmpty("control", proc["control"].record, proc["control"].then)
    /\ UNCHANGED <<policy, mode, nginx>>

\* The command is killed; the system drops its file lock.
KillControl ==
    /\ proc["control"].pc # "idle"
    /\ proc' = [proc EXCEPT !["control"] = Idle]
    /\ holder' = IF holder = "control" THEN NoProc ELSE holder
    /\ interrupted' = (interrupted \/ holder = "control")
    /\ UNCHANGED <<policy, mode, files, nginx>>

\* NGINX gets to the reload and reads the selected file.
Reload ==
    /\ reloadPending
    /\ LateReloads \/ \E p \in Procs : proc[p].pc = "signalled"
    /\ reloadPending' = FALSE
    /\ loaded' = selected
    /\ proc' = [p \in Procs |-> [proc[p] EXCEPT !.reloaded = proc[p].pc = "signalled"]]
    /\ UNCHANGED <<policy, mode, files, holder, interrupted>>

\* NGINX gets to it and keeps the configuration it has.
ReloadRefused ==
    /\ reloadPending
    /\ reloadPending' = FALSE
    /\ UNCHANGED <<policy, mode, files, holder, proc, loaded, interrupted>>

(* The container stops, for a dead child or from outside, and starts again, *)
(* possibly in another mode: empty is selected before NGINX starts.         *)
StartKind(m) == IF disabled THEN "disabled_empty"
                ELSE IF m = "enforce" THEN "pending_empty" ELSE "mode_empty"
Restart ==
    /\ mode' \in Modes
    /\ Select(Empty)
    /\ metadata' = StartMetadata(StartKind(mode'))
    /\ proc' = [p \in Procs |-> Idle]
    /\ holder' = NoProc
    /\ loaded' = Empty
    /\ reloadPending' = FALSE
    /\ interrupted' = FALSE
    /\ UNCHANGED <<policy, disabled>>

Step(p) ==
    \/ CheckMode(p) \/ Fetch(p) \/ FetchRejected(p) \/ Recheck(p) \/ Activate(p)
    \/ Validated(p) \/ Rejected(p)
    \/ Signal(p) \/ SignalFails(p)
    \/ Confirm(p) \/ ConfirmFails(p) \/ ProbeRaises(p)

\* what happens in the container: a process, the operator, NGINX, or all of it
RuntimeStep ==
    \/ StartPoll
    \/ \E p \in Procs : Step(p)
    \/ Disable \/ Enable \/ Deactivate \/ KillControl
    \/ Reload \/ ReloadRefused
    \/ Restart

Next == Publish \/ RestoreBackup \/ RuntimeStep

(* A process that may run does run, and its subprocess calls and requests   *)
(* end, by an answer or a timeout.  A waiting process gets the file lock    *)
(* when it is free again and again; a dead worker takes its container down. *)
Waits(p) == CheckMode(p) \/ Recheck(p) \/ Activate(p)
Fairness ==
    /\ WF_vars(StartPoll) /\ WF_vars(Deactivate)
    /\ \A p \in Procs : WF_vars(Step(p)) /\ SF_vars(Waits(p))
    /\ WF_vars(proc["worker"].pc = "dead" /\ Restart)

(* Good conditions: in the end the backend answers, NGINX accepts, reloads  *)
(* and serves in time, no rule set is about to run out, and the container   *)
(* is restarted only for a dead worker.  Commands may still be killed.      *)
Setback(p) ==
    \/ FetchRejected(p) \/ Rejected(p) \/ SignalFails(p) \/ ConfirmFails(p) \/ ProbeRaises(p)
    \/ /\ proc'[p].pc = "selected" /\ proc'[p].record = EmptyMetadata("pending_empty")
       /\ Activate(p)
GoodConditions ==
    /\ WF_vars(Reload)
    /\ <>[][/\ \A p \in Procs : ~Setback(p)
            /\ ~ReloadRefused
            /\ Restart => proc["worker"].pc = "dead"]_vars

Spec == Init /\ [][Next]_vars

--------------------------------------------------------------------------------
(* Properties.                                                              *)

TypeOK ==
    /\ policy \in Snapshots
    /\ mode \in Modes
    /\ disabled \in BOOLEAN
    /\ selected \in Snapshots /\ previous \in Snapshots /\ loaded \in Snapshots
    /\ metadata \in Metadata
    /\ holder \in Procs \cup {NoProc}
    /\ proc \in [Procs -> Proc]
    /\ reloadPending \in BOOLEAN /\ interrupted \in BOOLEAN

(* Between critical sections the metadata, the selected file and what NGINX *)
(* serves are one and the same configuration, whatever failed and was       *)
(* rolled back, unless a process ended inside its critical section and      *)
(* nothing has been confirmed since.                                        *)
WhatIsRecordedIsServed ==
    holder = NoProc /\ ~interrupted =>
        /\ selected = FileOf(metadata)
        /\ loaded = selected
        /\ ~reloadPending

(* The recorded policy follows EnforcedPolicy: no adoption under the latch, *)
(* none of an older or a contradicting snapshot over a recorded one.        *)
Policy == INSTANCE EnforcedPolicy WITH
    None <- NoPolicy,
    recorded <- IF metadata.kind = "authoritative" THEN metadata.source ELSE NoPolicy,
    latched <- disabled
ImplementsEnforcedPolicy == Policy!Spec

(* In an enforcing container a set latch leads to NGINX serving empty, or   *)
(* the latch or the mode changes, although every single step may fail.      *)
DisableTakesEffect ==
    mode = "enforce" /\ disabled
        ~> loaded = Empty \/ ~disabled \/ mode # "enforce"

(* Only an enforcing container serves rules: the candidate a dry run moves  *)
(* into the live path for its validation is not loaded, provided NGINX does *)
(* not reload later than it is waited for.                                  *)
OnlyEnforceServesRules == mode # "enforce" => loaded = Empty

(* PR7_IMPLEMENTATION_SPEC 5.1 and 5.4: an empty kind stands for the        *)
(* canonical empty file, and a roll-back restores the file the metadata     *)
(* describes: a transition confirmed with an empty kind leaves NGINX empty. *)
(* Violated: when the file before was left by a killed validation.          *)
EmptyKindMeansEmpty ==
    [][\A p \in Procs :
          Confirm(p) /\ Written(p).kind \in EmptyKinds => loaded = Empty]_vars

================================================================================
