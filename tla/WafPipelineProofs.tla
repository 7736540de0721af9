--------------------------- MODULE WafPipelineProofs ---------------------------
(***************************************************************************)
(* Proofs about WafRuntime, for any policy, rule sets, modes and bounds:   *)
(* what is recorded is what NGINX serves, only an enforcing container      *)
(* serves rules, and the recorded policy implements EnforcedPolicy.  Then, *)
(* about WafPipeline: NGINX applies the rules of committed revisions only. *)
(***************************************************************************)
EXTENDS WafPipeline, TLAPS

--------------------------------------------------------------------------------
(* The inductive invariant.                                                 *)

\* metadata of an empty kind names no snapshot
WellFormed(m) == m.kind # "authoritative" => m.source = Empty

\* a snapshot that may be recorded now
Adoptable(s) ==
    /\ mode = "enforce" /\ ~disabled
    /\ metadata.kind = "authoritative" =>
          s = metadata.source \/ s.revision > metadata.source.revision

\* Nothing but the metadata and the files have changed since the lock was taken.
ValidatingFine(c) ==
    /\ c.goal \in {"candidate", "rehearsal"} /\ c.record = metadata
    /\ c.goal = "candidate" => Adoptable(c.snapshot) /\ selected = Rendered(c.snapshot)
    /\ c.goal = "rehearsal" => mode = "dry_run"
    /\ ~interrupted => /\ c.original = FileOf(metadata)
                       /\ loaded = c.original /\ ~reloadPending

\* What the process has selected is the file of what it is to record.
ConfirmingFine(c) ==
    /\ c.goal # "rehearsal" /\ WellFormed(c.record)
    /\ c.goal = "candidate" =>
          /\ Adoptable(c.snapshot) /\ selected = Rendered(c.snapshot)
          /\ ~interrupted => previous = FileOf(metadata)
    /\ c.goal = "restore" =>
          /\ mode = "enforce"
          /\ ~interrupted => selected = FileOf(metadata)
    /\ c.goal \in {"candidate", "restore"} => c.record = metadata
    /\ c.goal \in {"empty", "retry", "fallback"} => selected = Empty
    /\ c.goal \in {"empty", "retry"} /\ c.record.kind = "authoritative" =>
          Adoptable(c.record.source) /\ c.record.source.rules = NoRules

\* What holds of a process inside its critical section.
CriticalFine(p) ==
    /\ proc[p].pc = "latched" =>
          proc[p].record.kind # "authoritative" /\ WellFormed(proc[p].record)
    /\ proc[p].pc = "validating" => ValidatingFine(proc[p])
    /\ proc[p].pc \in {"selected", "signalled"} => ConfirmingFine(proc[p])
    /\ proc[p].reloaded =>
          proc[p].pc = "signalled" /\ loaded = selected /\ ~reloadPending

Locked == \A p \in Procs : proc[p].pc \in Critical <=> holder = p
ProcsFine == \A p \in Procs : CriticalFine(p)
Recorded ==
    /\ WellFormed(metadata)
    /\ metadata.kind = "authoritative" => mode = "enforce"

IInv == TypeOK /\ Locked /\ ProcsFine /\ Recorded /\ WhatIsRecordedIsServed

--------------------------------------------------------------------------------
(* Types.                                                                   *)

LEMMA SnapshotType ==
    /\ Empty \in Snapshots /\ Empty.rules = NoRules /\ Rendered(Empty) = Empty
    /\ \A s \in Snapshots : Rendered(s) \in Snapshots /\ s.revision \in Nat
BY DEF Empty, Snapshots, Rendered

LEMMA MetadataType ==
    /\ \A kind \in EmptyKinds :
          /\ EmptyMetadata(kind) \in Metadata /\ StartMetadata(kind) \in Metadata
          /\ EmptyMetadata(kind).kind = kind /\ StartMetadata(kind).kind = kind
          /\ EmptyMetadata(kind).source = Empty /\ StartMetadata(kind).source = Empty
          /\ EmptyMetadata(kind).kind # "authoritative"
    /\ \A s \in Snapshots :
          /\ Authoritative(s) \in Metadata
          /\ Authoritative(s).kind = "authoritative" /\ Authoritative(s).source = s
    /\ \A m \in Metadata : m.source \in Snapshots /\ FileOf(m) \in Snapshots
BY SnapshotType DEF Metadata, EmptyKinds, EmptyMetadata, StartMetadata, Authoritative, FileOf

LEMMA IdleType ==
    /\ Idle \in Proc /\ Idle.pc = "idle" /\ ~Idle.reloaded
    /\ \A pc \in Pcs : /\ [Idle EXCEPT !.pc = pc] \in Proc
                       /\ [Idle EXCEPT !.pc = pc].pc = pc
                       /\ ~[Idle EXCEPT !.pc = pc].reloaded
<1>1. "mode_empty" \in EmptyKinds /\ "idle" \in Pcs
    BY DEF EmptyKinds, Pcs
<1>2. Idle \in Proc
    BY <1>1, SnapshotType, MetadataType DEF Idle, Proc, Goals
<1>3. Idle.pc = "idle" /\ ~Idle.reloaded
    BY DEF Idle
<1>4. ASSUME NEW pc \in Pcs
      PROVE  /\ [Idle EXCEPT !.pc = pc] \in Proc
             /\ [Idle EXCEPT !.pc = pc].pc = pc /\ ~[Idle EXCEPT !.pc = pc].reloaded
    BY <1>2, <1>3 DEF Proc
<1> QED
    BY <1>2, <1>3, <1>4

\* Another process is outside its critical section while the lock is p's or free.
LEMMA OthersOutside ==
    ASSUME IInv, NEW p \in Procs, holder \in {NoProc, p}, NEW q \in Procs, q # p
    PROVE  proc[q].pc \notin Critical
BY ProcAssumption DEF IInv, Locked, Procs

--------------------------------------------------------------------------------
(* What a step has to show.                                                 *)

\* A step of the process that holds the lock, takes it or finds it free.
LEMMA OneMoves ==
    ASSUME IInv, NEW p \in Procs, holder \in {NoProc, p},
           \A q \in Procs \ {p} : proc'[q] = proc[q],
           TypeOK', Recorded', WhatIsRecordedIsServed', CriticalFine(p)',
           \/ holder' = p /\ proc'[p].pc \in Critical
           \/ holder' = NoProc /\ proc'[p].pc \notin Critical
    PROVE  IInv'
<1>1. ASSUME NEW q \in Procs, q # p
      PROVE  /\ proc'[q].pc \notin Critical /\ holder' # q /\ CriticalFine(q)'
    <2>1. proc'[q] = proc[q] /\ proc[q].pc \notin Critical
        BY <1>1, OthersOutside
    <2>2. ~proc[q].reloaded
        BY <2>1 DEF IInv, ProcsFine, CriticalFine, Critical
    <2>3. CriticalFine(q)'
        BY <2>1, <2>2 DEF CriticalFine, Critical
    <2> QED
        BY <1>1, <2>1, <2>3, ProcAssumption DEF Procs
<1>2. Locked' /\ ProcsFine'
    BY <1>1, ProcAssumption DEF Locked, ProcsFine, Procs
<1> QED
    BY <1>2 DEF IInv

\* A step of a process outside its critical section.
LEMMA MovesOutside ==
    ASSUME IInv, NEW p \in Procs, UNCHANGED <<mode, files, holder, nginx, interrupted>>,
           \A q \in Procs \ {p} : proc'[q] = proc[q],
           TypeOK', proc[p].pc \notin Critical, proc'[p].pc \notin Critical, ~proc'[p].reloaded
    PROVE  IInv'
<1>1. Recorded' /\ WhatIsRecordedIsServed'
    BY DEF IInv, Recorded, WhatIsRecordedIsServed, files, nginx
<1>2. Locked'
    BY DEF IInv, Locked
<1>3. CriticalFine(p)'
    BY DEF CriticalFine, Critical
<1>4. ASSUME NEW q \in Procs, q # p
      PROVE  CriticalFine(q)'
    <2>1. proc'[q] = proc[q] /\ CriticalFine(q)
        BY <1>4 DEF IInv, ProcsFine
    <2> QED
        BY <2>1 DEF CriticalFine, ValidatingFine, ConfirmingFine, Adoptable, files, nginx
<1> QED
    BY <1>1, <1>2, <1>3, <1>4 DEF IInv, ProcsFine

--------------------------------------------------------------------------------
(* Steps that touch neither files nor the lock.                             *)

LEMMA PolicyChanges ==
    ASSUME IInv, UNCHANGED <<mode, files, holder, proc, nginx, interrupted>>, policy' \in Snapshots
    PROVE  IInv'
<1>1. TypeOK'
    BY DEF IInv, TypeOK, files, nginx
<1>2. Locked' /\ ProcsFine' /\ Recorded' /\ WhatIsRecordedIsServed'
    BY DEF IInv, Locked, ProcsFine, CriticalFine, ValidatingFine, ConfirmingFine, Adoptable,
           Recorded, WhatIsRecordedIsServed, files, nginx
<1> QED
    BY <1>1, <1>2 DEF IInv

\* A process outside its critical section asks, waits or gives up.
LEMMA AsksOutside ==
    ASSUME IInv,
           NEW p \in Procs, Fetch(p) \/ FetchRejected(p) \/ Recheck(p) \/ (StartPoll /\ p = "worker")
    PROVE  IInv'
<1>1. UNCHANGED <<policy, mode, files, holder, nginx, interrupted>>
    BY DEF Fetch, FetchRejected, Recheck, StartPoll
<1>2. /\ TypeOK /\ proc \in [Procs -> Proc] /\ proc[p] \in Proc /\ policy \in Snapshots
      /\ proc[p].pc \in {"idle", "fetch", "recheck"}
    BY DEF IInv, TypeOK, Fetch, FetchRejected, Recheck, StartPoll
<1>3. ~proc[p].reloaded
    BY <1>2 DEF IInv, ProcsFine, CriticalFine
<1>4. PICK c \in Proc : proc' = [proc EXCEPT ![p] = c] /\ c.pc \notin Critical /\ ~c.reloaded
    <2>1. CASE Fetch(p)
        <3> DEFINE c == [proc[p] EXCEPT !.pc = "recheck", !.snapshot = policy]
        <3>1. c \in Proc /\ c.pc = "recheck" /\ c.reloaded = proc[p].reloaded
            BY <1>2 DEF Proc, Pcs
        <3>2. proc' = [proc EXCEPT ![p] = c]
            BY <2>1 DEF Fetch
        <3> QED
            BY <1>3, <3>1, <3>2 DEF Critical
    <2>2. CASE FetchRejected(p)
        BY <2>2, IdleType DEF FetchRejected, Critical
    <2>3. CASE Recheck(p)
        <3> DEFINE c == [proc[p] EXCEPT !.pc = "activate"]
        <3>1. c \in Proc /\ c.pc = "activate" /\ c.reloaded = proc[p].reloaded
            BY <1>2 DEF Proc, Pcs
        <3>2. proc' = [proc EXCEPT ![p] = c] \/ proc' = [proc EXCEPT ![p] = Idle]
            BY <2>3 DEF Recheck
        <3> QED
            BY <1>3, <3>1, <3>2, IdleType DEF Critical
    <2>4. CASE StartPoll /\ p = "worker"
        <3> DEFINE c == [proc[p] EXCEPT !.pc = ReconcileFrom]
        <3>1. c \in Proc /\ c.pc \in {"fetch", "check"} /\ c.reloaded = proc[p].reloaded
            BY <1>2 DEF Proc, Pcs, ReconcileFrom
        <3>2. proc' = [proc EXCEPT ![p] = c]
            BY <2>4 DEF StartPoll
        <3> QED
            BY <1>3, <3>1, <3>2 DEF Critical
    <2> QED
        BY <2>1, <2>2, <2>3, <2>4
<1>5. proc' \in [Procs -> Proc] /\ proc'[p] = c /\ \A q \in Procs \ {p} : proc'[q] = proc[q]
    BY <1>2, <1>4
<1>6. TypeOK'
    BY <1>1, <1>2, <1>5 DEF TypeOK, files, nginx
<1>7. proc[p].pc \notin Critical
    BY <1>2 DEF Critical
<1> QED
    BY <1>1, <1>4, <1>5, <1>6, <1>7, MovesOutside

--------------------------------------------------------------------------------
(* Taking the lock, and what is done under it.                              *)

\* The selection of the empty file, with the metadata it will write.
LEMMA SelectEmptyKeeps ==
    ASSUME IInv, NEW p \in Procs, holder \in {NoProc, p}, NEW record \in Metadata,
           NEW then \in {"idle", "check", "fetch"},
           SelectEmpty(p, record, then), UNCHANGED <<policy, mode, nginx>>,
           WellFormed(record),
           record.kind = "authoritative" => Adoptable(record.source) /\ record.source.rules = NoRules
    PROVE  IInv'
<1> DEFINE c == [Idle EXCEPT !.pc = "selected", !.goal = "empty", !.record = record, !.then = then]
<1>1. /\ UNCHANGED <<policy, mode, nginx, disabled, metadata, interrupted>>
      /\ previous' = selected /\ selected' = Empty /\ holder' = p
      /\ proc' = [proc EXCEPT ![p] = c] /\ TypeOK
    BY DEF SelectEmpty, Select, IInv
<1>2. /\ c \in Proc /\ c.pc = "selected" /\ c.goal = "empty" /\ c.record = record /\ ~c.reloaded
    BY IdleType DEF Proc, Pcs, Critical, Goals
<1>3. proc' \in [Procs -> Proc] /\ proc'[p] = c /\ \A q \in Procs \ {p} : proc'[q] = proc[q]
    BY <1>1, <1>2 DEF TypeOK
<1>4. TypeOK'
    BY <1>1, <1>3, SnapshotType DEF TypeOK, nginx
<1>5. Recorded' /\ WhatIsRecordedIsServed'
    BY <1>1, ProcAssumption DEF IInv, Recorded, WhatIsRecordedIsServed, Procs
<1>6. CriticalFine(p)'
    BY <1>1, <1>2, <1>3 DEF CriticalFine, ConfirmingFine, Adoptable
<1> QED
    BY <1>1, <1>2, <1>3, <1>4, <1>5, <1>6, OneMoves DEF Critical

\* p leaves with the lock free and the files as they were.
LEMMA LeaveKeeps ==
    ASSUME IInv, NEW p \in Procs, holder \in {NoProc, p}, NEW pc \in Pcs \ Critical,
           Leave(p, pc), UNCHANGED <<policy, mode, disabled>>,
           selected' \in Snapshots, previous' \in Snapshots, loaded' \in Snapshots,
           metadata' \in Metadata, reloadPending' \in BOOLEAN, Recorded', WhatIsRecordedIsServed'
    PROVE  IInv'
<1> DEFINE c == [Idle EXCEPT !.pc = pc]
<1>1. proc' = [proc EXCEPT ![p] = c] /\ holder' = NoProc /\ interrupted' = interrupted /\ TypeOK
    BY DEF Leave, IInv
<1>2. c \in Proc /\ c.pc = pc /\ ~c.reloaded
    BY IdleType
<1>3. proc' \in [Procs -> Proc] /\ proc'[p] = c /\ \A q \in Procs \ {p} : proc'[q] = proc[q]
    BY <1>1, <1>2 DEF TypeOK
<1>4. TypeOK'
    BY <1>1, <1>3 DEF TypeOK
<1>5. CriticalFine(p)'
    BY <1>2, <1>3 DEF CriticalFine, Critical
<1> QED
    BY <1>1, <1>2, <1>3, <1>4, <1>5, OneMoves

\* p ends without having confirmed anything.
LEMMA AbortKeeps ==
    ASSUME IInv, NEW p \in Procs, holder = p, Abort(p),
           UNCHANGED <<policy, mode, disabled, metadata>>,
           selected' \in Snapshots, previous' \in Snapshots, loaded' \in Snapshots,
           reloadPending' \in BOOLEAN
    PROVE  IInv'
<1> DEFINE c == [Idle EXCEPT !.pc = IF p = "worker" THEN "dead" ELSE "idle"]
<1>1. proc' = [proc EXCEPT ![p] = c] /\ holder' = NoProc /\ interrupted' = TRUE /\ TypeOK
    BY DEF Abort, IInv
<1>2. c \in Proc /\ c.pc \in {"dead", "idle"} /\ ~c.reloaded
    BY IdleType DEF Pcs
<1>3. proc' \in [Procs -> Proc] /\ proc'[p] = c /\ \A q \in Procs \ {p} : proc'[q] = proc[q]
    BY <1>1, <1>2 DEF TypeOK
<1>4. TypeOK'
    BY <1>1, <1>3 DEF TypeOK
<1>5. Recorded' /\ WhatIsRecordedIsServed'
    BY <1>1 DEF IInv, Recorded, WhatIsRecordedIsServed
<1>6. CriticalFine(p)'
    BY <1>2, <1>3 DEF CriticalFine
<1> QED
    BY <1>1, <1>2, <1>3, <1>4, <1>5, <1>6, OneMoves DEF Critical

LEMMA CheckModeKeeps ==
    ASSUME IInv, NEW p \in Procs, CheckMode(p)
    PROVE  IInv'
<1> DEFINE kind == IF mode = "off" THEN "mode_empty" ELSE "disabled_empty"
<1>1. holder = NoProc /\ UNCHANGED <<policy, mode, nginx>> /\ TypeOK
    BY DEF CheckMode, IInv
<1>2. ASSUME NEW pc \in {"fetch", "idle"}, Leave(p, pc), UNCHANGED files
      PROVE  IInv'
    <2>1. UNCHANGED <<holder, interrupted>>
        BY <1>1, <1>2 DEF Leave
    <2>2. Recorded' /\ WhatIsRecordedIsServed'
        BY <1>1, <1>2, <2>1 DEF IInv, Recorded, WhatIsRecordedIsServed, files, nginx
    <2> QED
        BY <1>1, <1>2, <2>2, LeaveKeeps DEF TypeOK, files, nginx, Pcs, Critical
<1>3. CASE SelectEmpty(p, EmptyMetadata(kind), "idle")
    <2>1. kind \in EmptyKinds
        BY DEF EmptyKinds
    <2> QED
        BY <1>1, <1>3, <2>1, MetadataType, SelectEmptyKeeps DEF WellFormed
<1> QED
    BY <1>2, <1>3 DEF CheckMode

\* A snapshot that is not settled takes the place of none it may not replace.
LEMMA UnsettledIsNewer ==
    ASSUME TypeOK, NEW s \in Snapshots, ~Settled(s), metadata.kind = "authoritative"
    PROVE  s = metadata.source \/ s.revision > metadata.source.revision
<1>1. s.revision \in Nat /\ metadata.source.revision \in Nat
    BY SnapshotType, MetadataType DEF TypeOK
<1>2. ~(s.revision < metadata.source.revision)
    BY DEF Settled
<1>3. s.revision = metadata.source.revision => s = metadata.source
    BY DEF Settled
<1> QED
    BY <1>1, <1>2, <1>3

LEMMA ValidateKeeps ==
    ASSUME IInv, NEW p \in Procs, holder = NoProc, NEW goal \in {"candidate", "rehearsal"},
           Validate(p, goal), UNCHANGED <<policy, mode, nginx>>,
           goal = "candidate" => Adoptable(proc[p].snapshot),
           goal = "rehearsal" => mode = "dry_run"
    PROVE  IInv'
<1> DEFINE c == [proc[p] EXCEPT !.pc = "validating", !.goal = goal, !.record = metadata, !.original = selected]
<1>1. /\ UNCHANGED <<policy, mode, nginx, disabled, previous, metadata, interrupted>>
      /\ selected' = Rendered(proc[p].snapshot) /\ holder' = p
      /\ TypeOK /\ proc \in [Procs -> Proc] /\ proc[p] \in Proc
      /\ metadata \in Metadata /\ selected \in Snapshots
    BY DEF Validate, IInv, TypeOK
<1>2. proc' = [proc EXCEPT ![p] = c]
    BY DEF Validate
<1>3. proc[p].pc \notin Critical
    BY ProcAssumption DEF IInv, Locked, Procs
<1>4. ~proc[p].reloaded
    BY <1>3 DEF IInv, ProcsFine, CriticalFine, Critical
<1>5. /\ c \in Proc /\ c.pc = "validating" /\ c.goal = goal /\ c.record = metadata
      /\ c.original = selected /\ c.snapshot = proc[p].snapshot /\ ~c.reloaded
    BY <1>1, <1>4 DEF Proc, Pcs, Critical, Goals
<1>6. proc' \in [Procs -> Proc] /\ proc'[p] = c /\ \A q \in Procs \ {p} : proc'[q] = proc[q]
    BY <1>1, <1>2, <1>5
<1>7. proc[p].snapshot \in Snapshots
    BY <1>1 DEF Proc
<1>8. TypeOK'
    BY <1>1, <1>6, <1>7, SnapshotType DEF TypeOK, nginx
<1>9. Recorded' /\ WhatIsRecordedIsServed'
    BY <1>1, ProcAssumption DEF IInv, Recorded, WhatIsRecordedIsServed, Procs
<1>10. CriticalFine(p)'
    <2>1. ~interrupted => selected = FileOf(metadata) /\ loaded = selected /\ ~reloadPending
        BY DEF IInv, WhatIsRecordedIsServed
    <2>2. ValidatingFine(proc[p])'
        BY <1>1, <1>5, <1>6, <2>1 DEF ValidatingFine, Adoptable, nginx, FileOf, Rendered
    <2> QED
        BY <1>5, <1>6, <2>2 DEF CriticalFine
<1> QED
    BY <1>1, <1>5, <1>6, <1>8, <1>9, <1>10, OneMoves DEF Critical

LEMMA ActivateKeeps ==
    ASSUME IInv, NEW p \in Procs, Activate(p)
    PROVE  IInv'
<1> DEFINE s == proc[p].snapshot
           latched == mode = "enforce" /\ disabled
<1>1. holder = NoProc /\ UNCHANGED <<policy, mode, nginx>> /\ TypeOK /\ s \in Snapshots
    BY DEF Activate, IInv, TypeOK, Proc
<1>2. ASSUME NEW kind \in EmptyKinds, SelectEmpty(p, EmptyMetadata(kind), "idle")
      PROVE  IInv'
    BY <1>1, <1>2, MetadataType, SelectEmptyKeeps DEF WellFormed
<1>3. CASE Leave(p, "idle") /\ UNCHANGED files
    <2>1. UNCHANGED <<holder, interrupted>>
        BY <1>1, <1>3 DEF Leave
    <2>2. Recorded' /\ WhatIsRecordedIsServed'
        BY <1>1, <1>3, <2>1 DEF IInv, Recorded, WhatIsRecordedIsServed, files, nginx
    <2> QED
        BY <1>1, <1>3, <2>2, LeaveKeeps DEF TypeOK, files, nginx, Pcs, Critical
<1>4. CASE mode = "dry_run" /\ Validate(p, "rehearsal")
    BY <1>1, <1>4, ValidateKeeps
<1>5. ASSUME mode = "enforce", ~disabled, ~Settled(s)
      PROVE  Adoptable(s)
    BY <1>1, <1>5, UnsettledIsNewer DEF Adoptable
<1>6. ASSUME Adoptable(s), s.rules = NoRules, SelectEmpty(p, Authoritative(s), "idle")
      PROVE  IInv'
    BY <1>1, <1>6, MetadataType, SelectEmptyKeeps DEF WellFormed
<1>7. ASSUME Adoptable(s), Validate(p, "candidate")
      PROVE  IInv'
    BY <1>1, <1>7, ValidateKeeps
<1>8. "disabled_empty" \in EmptyKinds /\ "pending_empty" \in EmptyKinds
    BY DEF EmptyKinds
<1> QED
    BY <1>2, <1>3, <1>4, <1>5, <1>6, <1>7, <1>8 DEF Activate

\* What p's place in its critical section says of the lock and of p.
LEMMA Inside ==
    ASSUME IInv, NEW p \in Procs, proc[p].pc \in Critical
    PROVE  /\ holder = p /\ TypeOK /\ proc[p] \in Proc /\ proc[p].snapshot \in Snapshots
           /\ proc[p].original \in Snapshots /\ proc[p].record \in Metadata
           /\ CriticalFine(p)
BY DEF IInv, TypeOK, Locked, ProcsFine, Proc

LEMMA ValidatedKeeps ==
    ASSUME IInv, NEW p \in Procs, Validated(p)
    PROVE  IInv'
<1>1. /\ proc[p].pc = "validating" /\ previous' = proc[p].original
      /\ UNCHANGED <<policy, mode, disabled, nginx>>
    BY DEF Validated
<1>2. /\ holder = p /\ TypeOK /\ proc[p] \in Proc /\ proc[p].original \in Snapshots
      /\ ValidatingFine(proc[p]) /\ ~proc[p].reloaded
    BY <1>1, Inside DEF Critical, CriticalFine
<1>3. CASE /\ proc[p].goal = "candidate"
           /\ proc' = [proc EXCEPT ![p].pc = "selected", ![p].original = Empty]
           /\ UNCHANGED <<selected, metadata, holder, interrupted>>
    <2> DEFINE c == [proc[p] EXCEPT !.pc = "selected", !.original = Empty]
    <2>1. proc' = [proc EXCEPT ![p] = c]
        BY <1>3
    <2>2. /\ c \in Proc /\ c.pc = "selected" /\ c.goal = "candidate" /\ c.record = proc[p].record
          /\ c.snapshot = proc[p].snapshot /\ ~c.reloaded
        BY <1>2, <1>3, SnapshotType DEF Proc, Pcs, Critical
    <2>3. proc' \in [Procs -> Proc] /\ proc'[p] = c /\ \A q \in Procs \ {p} : proc'[q] = proc[q]
        BY <1>2, <2>1, <2>2 DEF TypeOK
    <2>4. TypeOK'
        BY <1>1, <1>2, <1>3, <2>3 DEF TypeOK, nginx
    <2>5. Recorded' /\ WhatIsRecordedIsServed'
        BY <1>1, <1>2, <1>3, ProcAssumption DEF IInv, Recorded, WhatIsRecordedIsServed, Procs
    <2>6. ConfirmingFine(proc[p])'
        BY <1>1, <1>2, <1>3, <2>2, <2>3
           DEF ConfirmingFine, ValidatingFine, Adoptable, IInv, Recorded, WellFormed, FileOf
    <2>7. CriticalFine(p)'
        BY <2>2, <2>3, <2>6 DEF CriticalFine
    <2> QED
        BY <1>2, <1>3, <2>2, <2>3, <2>4, <2>5, <2>7, OneMoves DEF Critical
<1>4. CASE /\ proc[p].goal = "rehearsal" /\ selected' = Empty
           /\ metadata' = StartMetadata("mode_empty") /\ Leave(p, "idle")
    <2>1. "mode_empty" \in EmptyKinds
        BY DEF EmptyKinds
    <2>2. /\ metadata' \in Metadata /\ metadata'.kind = "mode_empty" /\ metadata'.source = Empty
        BY <1>4, <2>1, MetadataType
    <2>3. mode = "dry_run"
        BY <1>2, <1>4 DEF ValidatingFine
    <2>4. ~interrupted => loaded = Empty /\ ~reloadPending
        <3>1. metadata.source = Empty
            BY <2>3 DEF IInv, Recorded, WellFormed
        <3> QED
            BY <1>2, <3>1, SnapshotType DEF ValidatingFine, FileOf
    <2>5. Recorded' /\ WhatIsRecordedIsServed'
        <3>1. interrupted' = interrupted
            BY <1>4 DEF Leave
        <3> QED
            BY <1>1, <1>4, <2>2, <2>4, <3>1, SnapshotType
               DEF Recorded, WellFormed, WhatIsRecordedIsServed, FileOf, nginx
    <2> QED
        BY <1>1, <1>2, <1>4, <2>2, <2>5, SnapshotType, LeaveKeeps DEF TypeOK, nginx, Pcs, Critical
<1> QED
    BY <1>3, <1>4 DEF Validated

LEMMA RejectedKeeps ==
    ASSUME IInv, NEW p \in Procs, Rejected(p)
    PROVE  IInv'
<1>1. /\ proc[p].pc = "validating" /\ selected' = proc[p].original
      /\ UNCHANGED <<policy, mode, disabled, previous, metadata, nginx>>
    BY DEF Rejected
<1>2. /\ holder = p /\ TypeOK /\ proc[p] \in Proc /\ proc[p].original \in Snapshots
      /\ ValidatingFine(proc[p])
    BY <1>1, Inside DEF Critical, CriticalFine
<1>3. CASE Leave(p, "idle")
    <2>1. interrupted' = interrupted
        BY <1>3 DEF Leave
    <2>2. Recorded' /\ WhatIsRecordedIsServed'
        BY <1>1, <1>2, <2>1
           DEF ValidatingFine, IInv, Recorded, WhatIsRecordedIsServed, FileOf, nginx
    <2> QED
        BY <1>1, <1>2, <1>3, <2>2, LeaveKeeps DEF TypeOK, nginx, Pcs, Critical
<1>4. CASE Abort(p)
    BY <1>1, <1>2, <1>4, AbortKeeps DEF TypeOK, nginx
<1> QED
    BY <1>3, <1>4 DEF Rejected

\* p takes the next way out when it cannot confirm what it has selected.
LEMMA FallBackKeeps ==
    ASSUME IInv, NEW p \in Procs, proc[p].pc \in {"selected", "signalled"}, FallBack(p),
           UNCHANGED <<policy, mode, disabled, metadata, nginx>>
    PROVE  IInv'
<1>1. /\ holder = p /\ TypeOK /\ proc[p] \in Proc /\ ConfirmingFine(proc[p])
      /\ proc[p].record \in Metadata
    BY Inside DEF Critical, CriticalFine
<1> DEFINE to(goal) == [proc[p] EXCEPT !.pc = "selected", !.reloaded = FALSE, !.goal = goal]
<1>2. ASSUME NEW goal \in Goals
      PROVE  /\ to(goal) \in Proc /\ to(goal).pc = "selected" /\ to(goal).goal = goal
             /\ to(goal).record = proc[p].record /\ ~to(goal).reloaded
    BY <1>1 DEF Proc, Pcs, Critical
<1>3. ASSUME NEW goal \in {"restore", "fallback", "retry"}, proc' = [proc EXCEPT ![p] = to(goal)],
             UNCHANGED <<holder, interrupted>>,
             selected' \in Snapshots, previous' \in Snapshots, ConfirmingFine(proc[p])'
      PROVE  IInv'
    <2>1. goal \in Goals
        BY DEF Goals
    <2>2. proc' \in [Procs -> Proc] /\ proc'[p] = to(goal) /\ \A q \in Procs \ {p} : proc'[q] = proc[q]
        BY <1>1, <1>2, <1>3, <2>1 DEF TypeOK
    <2>3. TypeOK'
        BY <1>1, <1>3, <2>2 DEF TypeOK, nginx
    <2>4. Recorded' /\ WhatIsRecordedIsServed'
        BY <1>1, <1>3, ProcAssumption DEF IInv, Recorded, WhatIsRecordedIsServed, Procs
    <2>5. CriticalFine(p)'
        BY <1>2, <1>3, <2>1, <2>2 DEF CriticalFine
    <2> QED
        BY <1>1, <1>2, <1>3, <2>1, <2>2, <2>3, <2>4, <2>5, OneMoves DEF Critical
<1>4. CASE /\ proc[p].goal = "candidate" /\ selected' = previous
           /\ proc' = [proc EXCEPT ![p] = to("restore")]
           /\ UNCHANGED <<previous, holder, interrupted>>
    <2>1. "restore" \in Goals
        BY DEF Goals
    <2>2. proc'[p] = to("restore")
        BY <1>1, <1>4 DEF TypeOK
    <2>3. ConfirmingFine(proc[p])'
        BY <1>1, <1>2, <1>4, <2>1, <2>2 DEF ConfirmingFine, Adoptable, FileOf
    <2> QED
        BY <1>1, <1>3, <1>4, <2>3 DEF TypeOK
<1>5. ASSUME NEW goal \in {"fallback", "retry"},
             goal = "fallback" => proc[p].goal = "restore",
             goal = "retry" => proc[p].goal = "empty",
             Select(Empty), proc' = [proc EXCEPT ![p] = to(goal)],
             UNCHANGED <<holder, interrupted>>
      PROVE  IInv'
    <2>1. goal \in Goals /\ selected' = Empty /\ previous' = selected
        BY <1>5 DEF Goals, Select
    <2>2. proc'[p] = to(goal)
        BY <1>1, <1>5 DEF TypeOK
    <2>3. ConfirmingFine(proc[p])'
        BY <1>1, <1>2, <1>5, <2>1, <2>2 DEF ConfirmingFine, Adoptable
    <2> QED
        BY <1>1, <1>3, <1>5, <2>1, <2>3, SnapshotType DEF TypeOK
<1>6. CASE Abort(p) /\ UNCHANGED <<selected, previous>>
    BY <1>1, <1>6, AbortKeeps DEF TypeOK, nginx
<1>7. \/ /\ proc[p].goal = "candidate" /\ selected' = previous
         /\ proc' = [proc EXCEPT ![p] = to("restore")]
         /\ UNCHANGED <<previous, holder, interrupted>>
      \/ /\ proc[p].goal = "restore" /\ Select(Empty)
         /\ proc' = [proc EXCEPT ![p] = to("fallback")] /\ UNCHANGED <<holder, interrupted>>
      \/ /\ proc[p].goal = "empty" /\ Select(Empty)
         /\ proc' = [proc EXCEPT ![p] = to("retry")] /\ UNCHANGED <<holder, interrupted>>
      \/ Abort(p) /\ UNCHANGED <<selected, previous>>
    <2>1. CASE proc[p].goal = "candidate"
        BY <2>1 DEF FallBack
    <2>2. CASE proc[p].goal \in {"restore", "empty"}
        <3> DEFINE after == [proc[p] EXCEPT !.pc = "selected", !.reloaded = FALSE,
                                 !.goal = IF proc[p].goal = "restore" THEN "fallback" ELSE "retry"]
        <3>1. /\ Select(Empty) /\ proc' = [proc EXCEPT ![p] = after]
              /\ UNCHANGED <<holder, interrupted>>
            BY <1>1, <2>2 DEF FallBack
        <3>2. CASE proc[p].goal = "restore"
            BY <3>1, <3>2
        <3>3. CASE proc[p].goal = "empty"
            BY <3>1, <3>3
        <3> QED
            BY <2>2, <3>2, <3>3
    <2>3. CASE proc[p].goal \in {"fallback", "retry"}
        BY <2>3 DEF FallBack
    <2> QED
        BY <2>1, <2>2, <2>3 DEF FallBack
<1> QED
    BY <1>4, <1>5, <1>6, <1>7

LEMMA SignalKeeps ==
    ASSUME IInv, NEW p \in Procs, Signal(p)
    PROVE  IInv'
<1> DEFINE c == [proc[p] EXCEPT !.pc = "signalled"]
<1>1. /\ proc[p].pc = "selected" /\ reloadPending' = TRUE
      /\ UNCHANGED <<policy, mode, files, holder, loaded, interrupted>>
      /\ proc' = [proc EXCEPT ![p] = c]
    BY DEF Signal
<1>2. /\ holder = p /\ TypeOK /\ proc[p] \in Proc /\ ConfirmingFine(proc[p]) /\ ~proc[p].reloaded
    BY <1>1, Inside DEF Critical, CriticalFine
<1>3. /\ c \in Proc /\ c.pc = "signalled" /\ c.goal = proc[p].goal /\ c.record = proc[p].record
      /\ c.snapshot = proc[p].snapshot /\ ~c.reloaded
    BY <1>2 DEF Proc, Pcs, Critical
<1>4. proc' \in [Procs -> Proc] /\ proc'[p] = c /\ \A q \in Procs \ {p} : proc'[q] = proc[q]
    BY <1>1, <1>2, <1>3 DEF TypeOK
<1>5. TypeOK'
    BY <1>1, <1>2, <1>4 DEF TypeOK, files
<1>6. Recorded' /\ WhatIsRecordedIsServed'
    BY <1>1, <1>2, ProcAssumption DEF IInv, Recorded, WhatIsRecordedIsServed, Procs, files
<1>7. ConfirmingFine(proc[p])'
    BY <1>1, <1>2, <1>3, <1>4 DEF ConfirmingFine, Adoptable, files
<1>8. CriticalFine(p)'
    BY <1>3, <1>4, <1>7 DEF CriticalFine
<1> QED
    BY <1>1, <1>2, <1>3, <1>4, <1>5, <1>6, <1>8, OneMoves DEF Critical

\* What p records is well formed and names what is selected.
LEMMA WrittenIsSelected ==
    ASSUME IInv, NEW p \in Procs, proc[p].pc = "signalled"
    PROVE  /\ Written(p) \in Metadata /\ WellFormed(Written(p))
           /\ (interrupted /\ proc[p].goal = "restore") \/ selected = FileOf(Written(p))
           /\ Written(p).kind = "authoritative" =>
                 \/ Adoptable(Written(p).source)
                 \/ Written(p) = metadata
           /\ Written(p).kind = "authoritative" => mode = "enforce"
<1>1. /\ ConfirmingFine(proc[p]) /\ proc[p] \in Proc /\ proc[p].record \in Metadata
      /\ proc[p].snapshot \in Snapshots /\ Recorded
    BY Inside DEF Critical, CriticalFine, IInv
<1>2. CASE proc[p].goal = "candidate"
    <2>1. Written(p) = Authoritative(proc[p].snapshot)
        BY <1>2 DEF Written
    <2> QED
        BY <1>1, <1>2, <2>1, MetadataType DEF ConfirmingFine, WellFormed, FileOf, Adoptable
<1>3. CASE proc[p].goal = "fallback"
    <2>1. Written(p) = EmptyMetadata("pending_empty") /\ "pending_empty" \in EmptyKinds
        BY <1>3 DEF Written, EmptyKinds
    <2> QED
        BY <1>1, <1>3, <2>1, MetadataType, SnapshotType DEF ConfirmingFine, WellFormed, FileOf
<1>4. CASE proc[p].goal \in {"restore", "empty", "retry"}
    <2>1. Written(p) = proc[p].record
        BY <1>4 DEF Written
    <2>2. CASE proc[p].goal = "restore"
        BY <1>1, <2>1, <2>2 DEF ConfirmingFine, Recorded
    <2>3. CASE proc[p].goal \in {"empty", "retry"}
        BY <1>1, <2>1, <2>3, SnapshotType
           DEF ConfirmingFine, WellFormed, FileOf, Rendered, Adoptable
    <2> QED
        BY <1>4, <2>2, <2>3
<1> QED
    BY <1>1, <1>2, <1>3, <1>4 DEF ConfirmingFine, Proc, Goals

LEMMA ConfirmKeeps ==
    ASSUME IInv, NEW p \in Procs, Confirm(p)
    PROVE  IInv'
<1> DEFINE c == [Idle EXCEPT !.pc = proc[p].then]
<1>1. /\ proc[p].pc = "signalled" /\ proc[p].reloaded /\ metadata' = Written(p)
      /\ proc' = [proc EXCEPT ![p] = c] /\ holder' = NoProc
      /\ interrupted' = (interrupted /\ proc[p].goal = "restore")
      /\ UNCHANGED <<policy, mode, disabled, selected, previous, nginx>>
    BY DEF Confirm
<1>2. /\ holder = p /\ TypeOK /\ proc[p] \in Proc /\ loaded = selected /\ ~reloadPending
    BY <1>1, Inside DEF Critical, CriticalFine
<1>3. c \in Proc /\ c.pc \in {"idle", "check", "fetch"} /\ ~c.reloaded
    BY <1>2, IdleType DEF Proc, Pcs
<1>4. proc' \in [Procs -> Proc] /\ proc'[p] = c /\ \A q \in Procs \ {p} : proc'[q] = proc[q]
    BY <1>1, <1>2, <1>3 DEF TypeOK
<1>5. /\ Written(p) \in Metadata /\ WellFormed(Written(p))
      /\ (interrupted /\ proc[p].goal = "restore") \/ selected = FileOf(Written(p))
      /\ Written(p).kind = "authoritative" => mode = "enforce"
    BY <1>1, WrittenIsSelected
<1>6. interrupted' \in BOOLEAN
    BY <1>1
<1>7. TypeOK'
    BY <1>1, <1>2, <1>4, <1>5, <1>6 DEF TypeOK, nginx
<1>8. Recorded' /\ WhatIsRecordedIsServed'
    <2>1. metadata' = Written(p) /\ mode' = mode /\ selected' = selected /\ loaded' = selected
        BY <1>1, <1>2 DEF nginx
    <2>2. Recorded'
        BY <1>5, <2>1 DEF Recorded, WellFormed
    <2>3. ~interrupted' => selected = FileOf(Written(p))
        BY <1>1, <1>5
    <2>4. WhatIsRecordedIsServed'
        BY <1>1, <1>2, <2>1, <2>3 DEF WhatIsRecordedIsServed, FileOf, nginx
    <2> QED
        BY <2>2, <2>4
<1>9. CriticalFine(p)'
    BY <1>3, <1>4 DEF CriticalFine
<1> QED
    BY <1>1, <1>2, <1>3, <1>4, <1>7, <1>8, <1>9, OneMoves DEF Critical

LEMMA FailuresKeep ==
    ASSUME IInv, NEW p \in Procs, SignalFails(p) \/ ConfirmFails(p) \/ ProbeRaises(p)
    PROVE  IInv'
<1>1. CASE SignalFails(p) \/ ConfirmFails(p)
    BY <1>1, FallBackKeeps DEF SignalFails, ConfirmFails
<1>2. CASE ProbeRaises(p)
    <2>1. holder = p /\ TypeOK
        BY <1>2, Inside DEF ProbeRaises, Critical
    <2> QED
        BY <1>2, <2>1, AbortKeeps DEF ProbeRaises, TypeOK, files, nginx
<1> QED
    BY <1>1, <1>2

--------------------------------------------------------------------------------
(* The operator, NGINX and the container.                                   *)

LEMMA LatchKeeps ==
    ASSUME IInv, Disable \/ Enable
    PROVE  IInv'
<1> DEFINE disable == [Idle EXCEPT !.pc = "latched", !.record = EmptyMetadata("disabled_empty")]
           enable == [Idle EXCEPT !.pc = "latched", !.record = EmptyMetadata("pending_empty"),
                                  !.then = ReconcileFrom]
<1>1. /\ "control" \in Procs /\ holder = NoProc /\ holder' = "control" /\ disabled' \in BOOLEAN
      /\ UNCHANGED <<policy, mode, selected, previous, metadata, nginx, interrupted>> /\ TypeOK
      /\ \/ proc' = [proc EXCEPT !["control"] = disable]
         \/ proc' = [proc EXCEPT !["control"] = enable]
    BY DEF Disable, Enable, Procs, IInv
<1>2. "disabled_empty" \in EmptyKinds /\ "pending_empty" \in EmptyKinds
    BY DEF EmptyKinds
<1>3. /\ disable \in Proc /\ disable.pc = "latched" /\ ~disable.reloaded
      /\ disable.record = EmptyMetadata("disabled_empty")
    BY <1>2, IdleType, MetadataType DEF Proc, Pcs, Critical
<1>4. /\ enable \in Proc /\ enable.pc = "latched" /\ ~enable.reloaded
      /\ enable.record = EmptyMetadata("pending_empty")
    BY <1>2, IdleType, MetadataType DEF Proc, Pcs, Critical, ReconcileFrom
<1>5. /\ proc' \in [Procs -> Proc] /\ \A q \in Procs \ {"control"} : proc'[q] = proc[q]
      /\ proc'["control"] = disable \/ proc'["control"] = enable
    BY <1>1, <1>3, <1>4 DEF TypeOK
<1>6. TypeOK'
    BY <1>1, <1>5 DEF TypeOK, nginx
<1>7. Recorded' /\ WhatIsRecordedIsServed'
    BY <1>1, ProcAssumption DEF IInv, Recorded, WhatIsRecordedIsServed
<1>8. CriticalFine("control")'
    <2>1. /\ proc'["control"].pc = "latched" /\ ~proc'["control"].reloaded
          /\ \E kind \in EmptyKinds : proc'["control"].record = EmptyMetadata(kind)
        BY <1>2, <1>3, <1>4, <1>5
    <2>2. /\ proc'["control"].record.kind # "authoritative"
          /\ proc'["control"].record.source = Empty
        BY <2>1, MetadataType
    <2> QED
        BY <2>1, <2>2 DEF CriticalFine, WellFormed
<1> QED
    BY <1>1, <1>3, <1>4, <1>5, <1>6, <1>7, <1>8, OneMoves DEF Critical

LEMMA DeactivateKeeps ==
    ASSUME IInv, Deactivate
    PROVE  IInv'
<1>1. /\ "control" \in Procs /\ proc["control"].pc = "latched"
      /\ SelectEmpty("control", proc["control"].record, proc["control"].then)
      /\ UNCHANGED <<policy, mode, nginx>>
    BY DEF Deactivate, Procs
<1>2. /\ holder = "control" /\ proc["control"].record \in Metadata
      /\ proc["control"].then \in {"idle", "check", "fetch"}
      /\ proc["control"].record.kind # "authoritative" /\ WellFormed(proc["control"].record)
    BY <1>1, Inside DEF Critical, CriticalFine, Proc
<1> QED
    BY <1>1, <1>2, SelectEmptyKeeps

LEMMA KillKeeps ==
    ASSUME IInv, KillControl
    PROVE  IInv'
<1>1. /\ "control" \in Procs /\ proc' = [proc EXCEPT !["control"] = Idle]
      /\ UNCHANGED <<policy, mode, files, nginx>> /\ TypeOK
    BY DEF KillControl, Procs, IInv
<1>2. /\ proc' \in [Procs -> Proc] /\ proc'["control"] = Idle
      /\ \A q \in Procs \ {"control"} : proc'[q] = proc[q]
    BY <1>1, IdleType DEF TypeOK
<1>3. CASE holder = "control"
    <2>1. holder' = NoProc /\ interrupted' = TRUE
        BY <1>3 DEF KillControl
    <2>2. TypeOK'
        BY <1>1, <1>2, <2>1 DEF TypeOK, files, nginx
    <2>3. Recorded' /\ WhatIsRecordedIsServed' /\ CriticalFine("control")'
        BY <1>1, <1>2, <2>1, IdleType
           DEF IInv, Recorded, WhatIsRecordedIsServed, CriticalFine, files
    <2> QED
        BY <1>1, <1>2, <1>3, <2>1, <2>2, <2>3, IdleType, OneMoves DEF Critical
<1>4. CASE holder # "control"
    <2>1. holder' = holder /\ interrupted' = interrupted
        BY <1>1, <1>4 DEF KillControl, TypeOK
    <2>2. TypeOK'
        BY <1>1, <1>2, <2>1 DEF TypeOK, files, nginx
    <2>3. proc["control"].pc \notin Critical
        BY <1>1, <1>4 DEF IInv, Locked
    <2> QED
        BY <1>1, <1>2, <2>1, <2>2, <2>3, IdleType, MovesOutside DEF Critical
<1> QED
    BY <1>3, <1>4

LEMMA ReloadKeeps ==
    ASSUME IInv, Reload
    PROVE  IInv'
<1>1. /\ reloadPending /\ reloadPending' = FALSE /\ loaded' = selected /\ TypeOK
      /\ UNCHANGED <<policy, mode, files, holder, interrupted>>
      /\ proc' = [p \in Procs |-> [proc[p] EXCEPT !.reloaded = proc[p].pc = "signalled"]]
    BY DEF Reload, IInv
<1>2. ASSUME NEW p \in Procs
      PROVE  /\ proc'[p] \in Proc /\ proc'[p].pc = proc[p].pc
             /\ proc'[p].goal = proc[p].goal /\ proc'[p].snapshot = proc[p].snapshot
             /\ proc'[p].record = proc[p].record /\ proc'[p].original = proc[p].original
             /\ proc'[p].reloaded = (proc[p].pc = "signalled")
    <2>1. proc[p] \in Proc
        BY <1>1 DEF TypeOK
    <2>2. proc'[p] = [proc[p] EXCEPT !.reloaded = (proc[p].pc = "signalled")]
        BY <1>1
    <2>3. (proc[p].pc = "signalled") \in BOOLEAN
        OBVIOUS
    <2> QED
        BY <2>1, <2>2, <2>3 DEF Proc
<1>3. TypeOK'
    <2>1. proc' \in [Procs -> Proc]
        BY <1>1, <1>2
    <2> QED
        BY <1>1, <2>1 DEF TypeOK, files
<1>4. Locked' /\ Recorded' /\ WhatIsRecordedIsServed'
    BY <1>1, <1>2 DEF IInv, Locked, Recorded, WhatIsRecordedIsServed, files
<1>5. ASSUME NEW p \in Procs
      PROVE  CriticalFine(p)'
    <2>1. CriticalFine(p)
        BY DEF IInv, ProcsFine
    <2>2. /\ proc[p].pc = "validating" => ValidatingFine(proc[p])'
          /\ proc[p].pc \in {"selected", "signalled"} => ConfirmingFine(proc[p])'
        BY <1>1, <1>2, <2>1
           DEF CriticalFine, ValidatingFine, ConfirmingFine, Adoptable, files
    <2> QED
        BY <1>1, <1>2, <2>1, <2>2 DEF CriticalFine, files
<1> QED
    BY <1>3, <1>4, <1>5 DEF IInv, ProcsFine

LEMMA ReloadRefusedKeeps ==
    ASSUME IInv, ReloadRefused
    PROVE  IInv'
<1>1. /\ reloadPending' = FALSE /\ UNCHANGED <<policy, mode, files, holder, proc, loaded, interrupted>>
    BY DEF ReloadRefused
<1>2. TypeOK' /\ Locked' /\ Recorded' /\ WhatIsRecordedIsServed'
    BY <1>1 DEF IInv, TypeOK, Locked, Recorded, WhatIsRecordedIsServed, files
<1>3. ProcsFine'
    BY <1>1 DEF IInv, ProcsFine, CriticalFine, ValidatingFine, ConfirmingFine, Adoptable, files
<1> QED
    BY <1>2, <1>3 DEF IInv

LEMMA RestartKeeps ==
    ASSUME IInv, Restart
    PROVE  IInv'
<1>1. PICK kind \in EmptyKinds : metadata' = StartMetadata(kind)
    BY DEF Restart, StartKind, EmptyKinds
<1>2. /\ mode' \in Modes /\ selected' = Empty /\ previous' = selected /\ loaded' = Empty
      /\ proc' = [p \in Procs |-> Idle] /\ holder' = NoProc
      /\ reloadPending' = FALSE /\ interrupted' = FALSE /\ UNCHANGED <<policy, disabled>> /\ TypeOK
    BY DEF Restart, Select, IInv
<1>3. \A p \in Procs : proc'[p] = Idle
    BY <1>2
<1>4. Locked' /\ ProcsFine'
    BY <1>2, <1>3, IdleType, ProcAssumption DEF Locked, ProcsFine, CriticalFine, Critical, Procs
<1>5. metadata'.kind # "authoritative" /\ metadata'.source = Empty
    BY <1>1, MetadataType DEF EmptyKinds
<1>6. Recorded' /\ WhatIsRecordedIsServed'
    BY <1>2, <1>5, SnapshotType DEF Recorded, WellFormed, WhatIsRecordedIsServed, FileOf
<1>7. TypeOK'
    BY <1>1, <1>2, <1>3, IdleType, SnapshotType, MetadataType DEF TypeOK
<1> QED
    BY <1>4, <1>6, <1>7 DEF IInv

LEMMA InitHolds ==
    ASSUME Init
    PROVE  IInv
<1>1. PICK kind \in EmptyKinds : metadata = StartMetadata(kind)
    BY DEF Init, EmptyKinds
<1>2. \A p \in Procs : proc[p] = Idle
    BY DEF Init
<1>3. Locked /\ ProcsFine
    BY <1>2, IdleType, ProcAssumption DEF Init, Locked, ProcsFine, CriticalFine, Critical, Procs
<1>4. metadata.kind # "authoritative" /\ metadata.source = Empty
    BY <1>1, MetadataType DEF EmptyKinds
<1>5. Recorded /\ WhatIsRecordedIsServed
    BY <1>4, SnapshotType DEF Init, Recorded, WellFormed, WhatIsRecordedIsServed, FileOf
<1>6. TypeOK
    BY <1>1, <1>2, IdleType, SnapshotType, MetadataType DEF Init, TypeOK
<1> QED
    BY <1>3, <1>5, <1>6 DEF IInv

LEMMA NextHolds ==
    ASSUME IInv, [Next]_vars
    PROVE  IInv'
<1>1. CASE Publish \/ RestoreBackup
    <2>1. UNCHANGED <<mode, files, holder, proc, nginx, interrupted>> /\ policy' \in Snapshots
        BY <1>1 DEF IInv, TypeOK, Publish, RestoreBackup, Snapshots
    <2> QED
        BY <2>1, PolicyChanges
<1>2. CASE StartPoll
    BY <1>2, AsksOutside DEF Procs
<1>3. ASSUME NEW p \in Procs, Step(p)
      PROVE  IInv'
    BY <1>3, CheckModeKeeps, AsksOutside, ActivateKeeps, ValidatedKeeps, RejectedKeeps,
       SignalKeeps, ConfirmKeeps, FailuresKeep DEF Step
<1>4. CASE Disable \/ Enable
    BY <1>4, LatchKeeps
<1>5. CASE Deactivate
    BY <1>5, DeactivateKeeps
<1>6. CASE KillControl
    BY <1>6, KillKeeps
<1>7. CASE Reload
    BY <1>7, ReloadKeeps
<1>8. CASE ReloadRefused
    BY <1>8, ReloadRefusedKeeps
<1>9. CASE Restart
    BY <1>9, RestartKeeps
<1>10. CASE UNCHANGED vars
    BY <1>10 DEF vars, files, nginx, IInv, TypeOK, Locked, ProcsFine, CriticalFine, ValidatingFine,
                 ConfirmingFine, Adoptable, Recorded, WhatIsRecordedIsServed
<1> QED
    BY <1>1, <1>2, <1>3, <1>4, <1>5, <1>6, <1>7, <1>8, <1>9, <1>10 DEF Next, RuntimeStep

(* The inductive invariant: of the two processes at most the holder of the  *)
(* file lock is inside its critical section, and every place in one has its *)
(* own relation of files, metadata and NGINX.                               *)
THEOREM RuntimeInvariant == Spec => []IInv
<1>1. Init => IInv
    BY InitHolds
<1>2. IInv /\ [Next]_vars => IInv'
    BY NextHolds
<1> QED
    BY <1>1, <1>2, PTL DEF Spec

--------------------------------------------------------------------------------
(* What follows from it.                                                    *)

\* Every variable keeps its type.
THEOREM TypeCorrect == Spec => []TypeOK
<1>1. IInv => TypeOK
    BY DEF IInv
<1> QED
    BY <1>1, RuntimeInvariant, PTL

(* Between critical sections metadata, selected file and NGINX agree,       *)
(* whatever failed and was rolled back, unless a process ended inside one   *)
(* and nothing has been confirmed since.                                    *)
THEOREM RecordedIsServed == Spec => []WhatIsRecordedIsServed
<1>1. IInv => WhatIsRecordedIsServed
    BY DEF IInv
<1> QED
    BY <1>1, RuntimeInvariant, PTL

(* The policy of EnforcedPolicy, as the metadata records it.                *)
policyVars == <<IF metadata.kind = "authoritative" THEN metadata.source ELSE NoPolicy, disabled>>

\* A step that writes no metadata and leaves the latch alone.
LEMMA UnrecordedStutters ==
    ASSUME UNCHANGED <<metadata, disabled>>
    PROVE  [Policy!Next]_policyVars
BY DEF policyVars

LEMMA ConfirmAdopts ==
    ASSUME IInv, NEW p \in Procs, Confirm(p)
    PROVE  [Policy!Next]_policyVars
<1>1. proc[p].pc = "signalled" /\ metadata' = Written(p) /\ disabled' = disabled
    BY DEF Confirm
<1>2. /\ Written(p) \in Metadata
      /\ Written(p).kind = "authoritative" =>
            Adoptable(Written(p).source) \/ Written(p) = metadata
    BY <1>1, WrittenIsSelected
<1>3. CASE Written(p).kind # "authoritative"
    BY <1>1, <1>3 DEF Policy!Next, Policy!Drop
<1>4. CASE Written(p) = metadata
    BY <1>1, <1>4, UnrecordedStutters
<1>5. CASE Written(p).kind = "authoritative" /\ Adoptable(Written(p).source)
    <2>1. Written(p).source \in Snapshots
        BY <1>2, MetadataType
    <2> QED
        BY <1>1, <1>5, <2>1 DEF Policy!Next, Policy!Adopt, Adoptable
<1> QED
    BY <1>2, <1>3, <1>4, <1>5

(* The runtime implements EnforcedPolicy: no snapshot is adopted under the  *)
(* latch, over a newer one, or over another of the same revision.           *)
THEOREM RefinesEnforcedPolicy == Spec => ImplementsEnforcedPolicy
<1>1. Init => Policy!Init
    <2> SUFFICES ASSUME Init PROVE Policy!Init
        OBVIOUS
    <2>1. metadata.kind # "authoritative" /\ disabled = FALSE
        BY DEF Init, StartMetadata, EmptyMetadata
    <2> QED
        BY <2>1 DEF Policy!Init
<1>2. IInv /\ [Next]_vars => [Policy!Next]_policyVars
    <2> SUFFICES ASSUME IInv, [Next]_vars PROVE [Policy!Next]_policyVars
        OBVIOUS
    <2>1. ASSUME NEW p \in Procs, Confirm(p)
          PROVE  [Policy!Next]_policyVars
        BY <2>1, ConfirmAdopts
    <2>2. ASSUME NEW p \in Procs, Validated(p)
          PROVE  [Policy!Next]_policyVars
        <3>1. disabled' = disabled
            BY <2>2 DEF Validated
        <3>2. metadata' = metadata \/ metadata'.kind = "mode_empty"
            BY <2>2, MetadataType DEF Validated, EmptyKinds
        <3> QED
            BY <3>1, <3>2, UnrecordedStutters DEF Policy!Next, Policy!Drop
    <2>3. CASE Disable \/ Enable
        <3>1. metadata' = metadata /\ disabled' \in BOOLEAN
            BY <2>3 DEF Disable, Enable
        <3> QED
            BY <3>1 DEF Policy!Next, Policy!Latch
    <2>4. CASE Restart
        <3>1. disabled' = disabled /\ metadata'.kind # "authoritative"
            BY <2>4, MetadataType DEF Restart, StartKind, EmptyKinds
        <3> QED
            BY <3>1 DEF Policy!Next, Policy!Drop
    <2>5. \/ UNCHANGED <<metadata, disabled>>
          \/ \E p \in Procs : Confirm(p) \/ Validated(p)
          \/ Disable \/ Enable \/ Restart
        BY DEF Next, RuntimeStep, vars, files, Publish, RestoreBackup, StartPoll, Step, CheckMode, Leave,
               SelectEmpty, Fetch, FetchRejected, Recheck, Activate, Validate, Rejected, Signal,
               SignalFails, ConfirmFails, ProbeRaises, Deactivate, KillControl, Reload, ReloadRefused
    <2> QED
        BY <2>1, <2>2, <2>3, <2>4, <2>5, UnrecordedStutters
<1> QED
    BY <1>1, <1>2, RuntimeInvariant, PTL DEF Spec, ImplementsEnforcedPolicy, Policy!Spec, policyVars

\* A reload that is waited for finds rules only if they are to be enforced.
LEMMA LoadsWhenEnforcing ==
    ASSUME LateReloads = FALSE, IInv, OnlyEnforceServesRules, [Next]_vars
    PROVE  OnlyEnforceServesRules'
<1>1. CASE UNCHANGED <<mode, loaded>>
    BY <1>1 DEF OnlyEnforceServesRules
<1>2. CASE Restart
    BY <1>2 DEF Restart, OnlyEnforceServesRules
<1>3. CASE Reload
    <2>1. PICK p \in Procs : proc[p].pc = "signalled"
        BY <1>3 DEF Reload
    <2>2. ConfirmingFine(proc[p]) /\ proc[p] \in Proc
        BY <2>1, Inside DEF Critical, CriticalFine
    <2>3. mode # "enforce" => selected = Empty
        BY <2>2 DEF ConfirmingFine, Adoptable, Proc, Goals
    <2> QED
        BY <1>3, <2>3 DEF Reload, OnlyEnforceServesRules
<1>4. UNCHANGED <<mode, loaded>> \/ Restart \/ Reload
    BY DEF Next, RuntimeStep, vars, nginx, Publish, RestoreBackup, StartPoll, Step, CheckMode, Fetch,
           FetchRejected, Recheck, Activate, Validated, Rejected, Signal, SignalFails, Confirm,
           ConfirmFails, ProbeRaises, Disable, Enable, Deactivate, KillControl, ReloadRefused
<1> QED
    BY <1>1, <1>2, <1>3, <1>4

(* Where NGINX does not reload later than it is waited for, only an         *)
(* enforcing container serves rules.                                        *)
THEOREM RulesOnlyWhenEnforcing ==
    ASSUME LateReloads = FALSE
    PROVE  Spec => []OnlyEnforceServesRules
<1>1. Init => OnlyEnforceServesRules
    BY DEF Init, OnlyEnforceServesRules
<1>2. IInv /\ OnlyEnforceServesRules /\ [Next]_vars => OnlyEnforceServesRules'
    BY LoadsWhenEnforcing
<1> QED
    BY <1>1, <1>2, RuntimeInvariant, PTL DEF Spec

--------------------------------------------------------------------------------
(* The runtime and the database together.                                   *)

\* Whatever a snapshot is read from, the runtime has no others but G.
OfThese(c, G) == c.snapshot \in G /\ c.original \in G /\ c.record.source \in G
HasOnly(G) ==
    /\ policy \in G /\ selected \in G /\ previous \in G /\ loaded \in G
    /\ metadata.source \in G
    /\ \A p \in Procs : OfThese(proc[p], G)

\* A process has none but G, and so has it after a step that puts c in its place.
LEMMA ProcMoves ==
    ASSUME TypeOK, NEW G, HasOnly(G), NEW p \in Procs, NEW c,
           proc' = [proc EXCEPT ![p] = c], OfThese(c, G)
    PROVE  \A q \in Procs : OfThese(proc'[q], G)
BY DEF TypeOK, HasOnly

\* A process that leaves, ends or starts over knows the empty snapshot only.
LEMMA IdleHasEmpty ==
    ASSUME NEW G, Empty \in G
    PROVE  /\ OfThese(Idle, G)
           /\ \A pc \in Pcs : OfThese([Idle EXCEPT !.pc = pc], G)
           /\ \A kind \in EmptyKinds : /\ EmptyMetadata(kind).source \in G
                                       /\ StartMetadata(kind).source \in G
BY IdleType, MetadataType DEF OfThese, Idle, EmptyMetadata, StartMetadata

LEMMA LeaveHasOnly ==
    ASSUME TypeOK, NEW G, Empty \in G, HasOnly(G), NEW p \in Procs,
           (\E pc \in Pcs : Leave(p, pc)) \/ Abort(p)
    PROVE  \A q \in Procs : OfThese(proc'[q], G)
<1>1. PICK pc \in Pcs : proc' = [proc EXCEPT ![p] = [Idle EXCEPT !.pc = pc]]
    BY DEF Leave, Abort, Pcs
<1> QED
    BY <1>1, IdleHasEmpty, ProcMoves

LEMMA SelectEmptyHasOnly ==
    ASSUME TypeOK, NEW G, Empty \in G, HasOnly(G), NEW p \in Procs, NEW record,
           record.source \in G, NEW then, SelectEmpty(p, record, then)
    PROVE  selected' \in G /\ previous' \in G /\ \A q \in Procs : OfThese(proc'[q], G)
<1> DEFINE c == [Idle EXCEPT !.pc = "selected", !.goal = "empty", !.record = record, !.then = then]
<1>1. proc' = [proc EXCEPT ![p] = c] /\ selected' = Empty /\ previous' = selected
    BY DEF SelectEmpty, Select
<1>2. c.snapshot = Empty /\ c.original = Empty /\ c.record = record
    BY DEF Idle
<1>3. OfThese(c, G)
    BY <1>2 DEF OfThese
<1> QED
    BY <1>1, <1>3, ProcMoves DEF HasOnly

\* The steps of one process.
LEMMA StepHasOnly ==
    ASSUME TypeOK, NEW G, Empty \in G, HasOnly(G), NEW p \in Procs, Step(p)
    PROVE  HasOnly(G)'
<1>1. /\ proc[p] \in Proc /\ OfThese(proc[p], G) /\ Rendered(proc[p].snapshot) \in G
      /\ EmptyMetadata("pending_empty").source \in G /\ StartMetadata("mode_empty").source \in G
    BY IdleHasEmpty DEF TypeOK, HasOnly, OfThese, Rendered, EmptyKinds
<1>2. CASE CheckMode(p)
    <2>1. CASE \E pc \in {"fetch", "idle"} : Leave(p, pc) /\ UNCHANGED files
        BY <1>2, <2>1, LeaveHasOnly DEF CheckMode, HasOnly, files, nginx, Pcs
    <2>2. CASE \E kind \in EmptyKinds : SelectEmpty(p, EmptyMetadata(kind), "idle")
        <3>1. PICK kind \in EmptyKinds : SelectEmpty(p, EmptyMetadata(kind), "idle")
            BY <2>2
        <3>2. EmptyMetadata(kind).source \in G
            BY IdleHasEmpty
        <3>3. selected' \in G /\ previous' \in G /\ \A q \in Procs : OfThese(proc'[q], G)
            BY <3>1, <3>2, SelectEmptyHasOnly
        <3> QED
            BY <1>2, <3>1, <3>3 DEF CheckMode, SelectEmpty, HasOnly, nginx
    <2> QED
        BY <1>2, <2>1, <2>2 DEF CheckMode, EmptyKinds
<1>3. CASE Fetch(p) \/ FetchRejected(p) \/ Recheck(p)
    <2>1. PICK c : proc' = [proc EXCEPT ![p] = c] /\ OfThese(c, G)
        <3>1. OfThese([proc[p] EXCEPT !.pc = "recheck", !.snapshot = policy], G)
            BY <1>1 DEF Proc, OfThese, HasOnly
        <3>2. OfThese([proc[p] EXCEPT !.pc = "activate"], G)
            BY <1>1 DEF Proc, OfThese
        <3>3. /\ Fetch(p) => proc' = [proc EXCEPT
                    ![p] = [proc[p] EXCEPT !.pc = "recheck", !.snapshot = policy]]
              /\ FetchRejected(p) => proc' = [proc EXCEPT ![p] = Idle]
              /\ Recheck(p) => \/ proc' = [proc EXCEPT ![p] = Idle]
                               \/ proc' = [proc EXCEPT ![p] = [proc[p] EXCEPT !.pc = "activate"]]
            BY DEF Fetch, FetchRejected, Recheck
        <3> QED
            BY <1>3, <3>1, <3>2, <3>3, IdleHasEmpty
    <2> QED
        BY <1>3, <2>1, ProcMoves DEF Fetch, FetchRejected, Recheck, HasOnly, files, nginx
<1>4. CASE Activate(p)
    <2>1. CASE Leave(p, "idle") /\ UNCHANGED files
        BY <1>4, <2>1, LeaveHasOnly DEF Activate, HasOnly, files, nginx, Pcs
    <2>2. CASE \E record : record.source \in G /\ SelectEmpty(p, record, "idle")
        <3>1. PICK record : record.source \in G /\ SelectEmpty(p, record, "idle")
            BY <2>2
        <3>2. selected' \in G /\ previous' \in G /\ \A q \in Procs : OfThese(proc'[q], G)
            BY <3>1, SelectEmptyHasOnly
        <3> QED
            BY <1>4, <3>1, <3>2 DEF Activate, SelectEmpty, HasOnly, nginx
    <2>3. CASE \E goal : Validate(p, goal)
        <3>1. PICK goal : Validate(p, goal)
            BY <2>3
        <3> DEFINE c == [proc[p] EXCEPT !.pc = "validating", !.goal = goal, !.record = metadata,
                                        !.original = selected]
        <3>2. OfThese(c, G)
            BY <1>1 DEF Proc, OfThese, HasOnly
        <3>3. proc' = [proc EXCEPT ![p] = c]
            BY <3>1 DEF Validate, TypeOK
        <3> QED
            BY <1>1, <1>4, <3>1, <3>2, <3>3, ProcMoves DEF Activate, Validate, HasOnly, nginx
    <2>4. Authoritative(proc[p].snapshot).source \in G /\ EmptyMetadata("disabled_empty").source \in G
        BY <1>1, IdleHasEmpty DEF Authoritative, OfThese, EmptyKinds
    <2> QED
        BY <1>1, <1>4, <2>1, <2>2, <2>3, <2>4 DEF Activate
<1>5. CASE Validated(p)
    <2>1. OfThese([proc[p] EXCEPT !.pc = "selected", !.original = Empty], G)
        BY <1>1 DEF Proc, OfThese
    <2>2. \A q \in Procs : OfThese(proc'[q], G)
        BY <1>5, <2>1, ProcMoves, LeaveHasOnly DEF Validated, Pcs, TypeOK
    <2> QED
        BY <1>1, <1>5, <2>2 DEF Validated, HasOnly, OfThese, nginx
<1>6. CASE Rejected(p)
    <2>1. \A q \in Procs : OfThese(proc'[q], G)
        BY <1>6, LeaveHasOnly DEF Rejected, Pcs
    <2> QED
        BY <1>1, <1>6, <2>1 DEF Rejected, HasOnly, OfThese, nginx
<1>7. CASE Signal(p)
    <2>1. OfThese([proc[p] EXCEPT !.pc = "signalled"], G)
        BY <1>1 DEF Proc, OfThese
    <2> QED
        BY <1>7, <2>1, ProcMoves DEF Signal, HasOnly, files
<1>8. CASE SignalFails(p) \/ ConfirmFails(p)
    <2>1. \A goal : OfThese([proc[p] EXCEPT !.pc = "selected", !.reloaded = FALSE, !.goal = goal], G)
        BY <1>1 DEF Proc, OfThese
    <2>2. FallBack(p) /\ UNCHANGED <<policy, metadata, loaded>>
        BY <1>8 DEF SignalFails, ConfirmFails, nginx
    <2>3. \A q \in Procs : OfThese(proc'[q], G)
        BY <2>1, <2>2, ProcMoves, LeaveHasOnly DEF FallBack
    <2>4. selected' \in G /\ previous' \in G
        BY <2>2 DEF FallBack, Select, HasOnly
    <2> QED
        BY <2>2, <2>3, <2>4 DEF HasOnly
<1>9. CASE Confirm(p)
    <2>1. Written(p).source \in G
        BY <1>1 DEF Written, Authoritative, OfThese
    <2>2. \A q \in Procs : OfThese(proc'[q], G)
        BY <1>1, <1>9, IdleHasEmpty, ProcMoves DEF Confirm, Proc, Pcs
    <2> QED
        BY <1>9, <2>1, <2>2 DEF Confirm, HasOnly, nginx
<1>10. CASE ProbeRaises(p)
    BY <1>10, LeaveHasOnly DEF ProbeRaises, HasOnly, files, nginx
<1> QED
    BY <1>2, <1>3, <1>4, <1>5, <1>6, <1>7, <1>8, <1>9, <1>10 DEF Step

\* The runtime invents no snapshot: it serves, records and keeps those it was given.
LEMMA RuntimeHasOnly ==
    ASSUME TypeOK, NEW G, Empty \in G, HasOnly(G), RuntimeStep
    PROVE  HasOnly(G)'
<1>1. ASSUME NEW p \in Procs, Step(p)
      PROVE  HasOnly(G)'
    BY <1>1, StepHasOnly
<1>2. CASE StartPoll
    <2> DEFINE c == [proc["worker"] EXCEPT !.pc = ReconcileFrom]
    <2>1. proc' = [proc EXCEPT !["worker"] = c] /\ "worker" \in Procs
        BY <1>2 DEF StartPoll, Procs
    <2>2. OfThese(c, G)
        BY <2>1 DEF TypeOK, HasOnly, Proc, OfThese
    <2> QED
        BY <1>2, <2>1, <2>2, ProcMoves DEF StartPoll, HasOnly, files, nginx
<1>3. CASE Disable \/ Enable
    <2>1. "control" \in Procs /\ \A kind \in EmptyKinds : EmptyMetadata(kind).source \in G
        BY IdleHasEmpty DEF Procs
    <2>2. PICK c : proc' = [proc EXCEPT !["control"] = c] /\ OfThese(c, G)
        <3>1. \A kind \in EmptyKinds : \A then :
                  OfThese([Idle EXCEPT !.pc = "latched", !.record = EmptyMetadata(kind), !.then = then], G)
            BY <2>1 DEF OfThese, Idle
        <3>2. OfThese([Idle EXCEPT !.pc = "latched", !.record = EmptyMetadata("disabled_empty")], G)
            BY <2>1 DEF OfThese, Idle, EmptyKinds
        <3>3. CASE Disable
            BY <3>2, <3>3 DEF Disable
        <3>4. CASE Enable
            BY <3>1, <3>4 DEF Enable, EmptyKinds
        <3> QED
            BY <1>3, <3>3, <3>4
    <2> QED
        BY <1>3, <2>1, <2>2, ProcMoves DEF Disable, Enable, HasOnly, nginx
<1>4. CASE Deactivate
    <2>1. "control" \in Procs /\ proc["control"].record.source \in G
        BY DEF Procs, HasOnly, OfThese
    <2>2. SelectEmpty("control", proc["control"].record, proc["control"].then)
        BY <1>4 DEF Deactivate
    <2>3. selected' \in G /\ previous' \in G /\ \A q \in Procs : OfThese(proc'[q], G)
        BY <2>1, <2>2, SelectEmptyHasOnly
    <2> QED
        BY <1>4, <2>2, <2>3 DEF Deactivate, SelectEmpty, HasOnly, nginx
<1>5. CASE KillControl
    <2>1. proc' = [proc EXCEPT !["control"] = Idle] /\ "control" \in Procs
        BY <1>5 DEF KillControl, Procs
    <2> QED
        BY <1>5, <2>1, IdleHasEmpty, ProcMoves DEF KillControl, HasOnly, files, nginx
<1>6. CASE Reload
    <2>1. \A q \in Procs : OfThese(proc'[q], G)
        BY <1>6 DEF Reload, TypeOK, Proc, HasOnly, OfThese
    <2> QED
        BY <1>6, <2>1 DEF Reload, HasOnly, files
<1>7. CASE ReloadRefused
    BY <1>7 DEF ReloadRefused, HasOnly, OfThese, files
<1>8. CASE Restart
    <2>1. metadata'.source \in G
        BY <1>8, IdleHasEmpty DEF Restart, StartKind, EmptyKinds
    <2>2. \A q \in Procs : OfThese(proc'[q], G)
        BY <1>8, IdleHasEmpty DEF Restart
    <2> QED
        BY <1>8, <2>1, <2>2 DEF Restart, Select, HasOnly
<1> QED
    BY <1>1, <1>2, <1>3, <1>4, <1>5, <1>6, <1>7, <1>8 DEF RuntimeStep

\* A commit changes the ACTIVE rows with a new revision, or not at all.
Commits == revision' = revision + 1 \/ UNCHANGED <<revision, rows>>
LEMMA DatabaseCommits ==
    ASSUME rows = [e \in Events |-> rows[e]], Call \/ Transact
    PROVE  Commits /\ rows' = [e \in Events |-> rows'[e]]
<1>1. ASSUME NEW s, NEW category, NEW change, State!Commit(s, category, change)
      PROVE  Commits /\ rows' = [e \in Events |-> rows'[e]]
    BY <1>1 DEF State!Commit, State!NextRevision, State!Stamped, Commits
<1>2. ASSUME NEW s, State!Mutate(s)
      PROVE  \/ UNCHANGED <<revision, rows>>
             \/ \E category, change : State!Commit(s, category, change)
    <2>1. CASE State!InsertRecommendation(s)
        BY <2>1 DEF State!InsertRecommendation
    <2>2. CASE State!RejectExpired(s) \/ State!Replay(s)
        BY <2>2 DEF State!RejectExpired, State!Replay
    <2>3. CASE State!Consider(s)
        BY <2>3 DEF State!Consider
    <2>4. CASE State!Revoke(s)
        BY <2>4 DEF State!Revoke
    <2> QED
        BY <1>2, <2>1, <2>2, <2>3, <2>4 DEF State!Mutate
<1>3. UNCHANGED <<revision, rows>> \/ \E s : State!Mutate(s)
    BY DEF Call, Transact, State!Begin, State!LockControl
<1> QED
    BY <1>1, <1>2, <1>3 DEF Commits

(* A snapshot with rules is one of a committed revision, and one of the     *)
(* current revision lists the ACTIVE rows.                                  *)
Genuine(s) ==
    s.rules # {} =>
        /\ s.revision <= revision
        /\ s.revision = revision => s.rules = State!ActiveRows
GenuineSnapshots == {s \in Snapshots : Genuine(s)}
PipelineIInv ==
    /\ IInv
    /\ revision \in Nat /\ rows = [e \in Events |-> rows[e]]
    /\ policy = Snapshot
    /\ HasOnly(GenuineSnapshots)

LEMMA SnapshotGenuine ==
    ASSUME RulesAreBlocks
    PROVE  /\ revision \in Nat => Snapshot \in GenuineSnapshots /\ Empty \in GenuineSnapshots
           /\ (revision \in Nat => Snapshot \in GenuineSnapshots /\ Empty \in GenuineSnapshots)'
<1>1. State!ActiveRows \in RuleSets \cup {NoRules} /\ State!ActiveRows' \in RuleSets \cup {NoRules}
    BY DEF RulesAreBlocks, State!ActiveRows
<1> QED
    BY <1>1 DEF RulesAreBlocks, Snapshot, Snapshots, GenuineSnapshots, Genuine, Empty

LEMMA PipelineStarts ==
    ASSUME RulesAreBlocks, PipelineInit
    PROVE  PipelineIInv
<1>1. IInv /\ revision = 0 /\ rows = [e \in Events |-> rows[e]]
    BY InitHolds DEF PipelineInit, State!Init
<1>2. \A e \in Events : rows[e].status = "ABSENT"
    BY DEF PipelineInit, State!Init, State!NoRow
<1>3. policy = Snapshot
    BY <1>1, <1>2 DEF PipelineInit, Init, Snapshot, Empty, RulesAreBlocks, State!ActiveRows
<1>4. Empty \in GenuineSnapshots
    BY <1>1, SnapshotGenuine
<1>5. HasOnly(GenuineSnapshots)
    BY <1>4, IdleHasEmpty DEF PipelineInit, Init, HasOnly, EmptyKinds
<1> QED
    BY <1>1, <1>3, <1>5 DEF PipelineIInv

LEMMA BackendKeeps ==
    ASSUME RulesAreBlocks, PipelineIInv, Backend
    PROVE  PipelineIInv'
<1>1. /\ UNCHANGED <<mode, files, holder, proc, nginx, interrupted>>
      /\ policy' = Snapshot' /\ Commits /\ rows' = [e \in Events |-> rows'[e]]
    BY DatabaseCommits DEF Backend, PipelineIInv
<1>2. revision' \in Nat
    BY <1>1 DEF PipelineIInv, Commits
<1>3. Snapshot' \in GenuineSnapshots' /\ Snapshot' \in Snapshots
    BY <1>2, SnapshotGenuine DEF GenuineSnapshots, Snapshots
<1>4. IInv'
    BY <1>1, <1>3, PolicyChanges DEF PipelineIInv
<1>5. GenuineSnapshots \subseteq GenuineSnapshots'
    <2> SUFFICES ASSUME NEW s \in Snapshots, Genuine(s) PROVE Genuine(s)'
        BY DEF GenuineSnapshots, Snapshots
    <2>1. s.revision \in Nat
        BY DEF Snapshots
    <2>2. CASE revision' = revision + 1
        BY <2>1, <2>2 DEF Genuine, PipelineIInv
    <2>3. CASE UNCHANGED <<revision, rows>>
        BY <2>3 DEF Genuine, State!ActiveRows
    <2> QED
        BY <1>1, <2>2, <2>3 DEF Commits
<1>6. HasOnly(GenuineSnapshots)'
    <2>1. /\ selected' \in GenuineSnapshots' /\ previous' \in GenuineSnapshots'
          /\ loaded' \in GenuineSnapshots' /\ metadata'.source \in GenuineSnapshots'
        BY <1>1, <1>5 DEF PipelineIInv, HasOnly, files, nginx
    <2>2. \A q \in Procs : OfThese(proc'[q], GenuineSnapshots')
        BY <1>1, <1>5 DEF PipelineIInv, HasOnly, OfThese
    <2> QED
        BY <1>1, <1>3, <2>1, <2>2 DEF HasOnly, OfThese
<1> QED
    BY <1>1, <1>2, <1>4, <1>6 DEF PipelineIInv

LEMMA EnforcementKeeps ==
    ASSUME RulesAreBlocks, PipelineIInv, Enforcement
    PROVE  PipelineIInv'
<1>1. RuntimeStep /\ UNCHANGED <<revision, rows>> /\ IInv /\ TypeOK
    BY DEF Enforcement, database, PipelineIInv, IInv
<1>2. IInv'
    BY <1>1, NextHolds DEF Next
<1>3. UNCHANGED policy
    BY <1>1 DEF RuntimeStep, StartPoll, Step, CheckMode, Fetch, FetchRejected, Recheck, Activate,
           Validated, Rejected, Signal, SignalFails, Confirm, ConfirmFails, ProbeRaises, Disable,
           Enable, Deactivate, KillControl, Reload, ReloadRefused, Restart
<1>4. Snapshot' = Snapshot /\ GenuineSnapshots' = GenuineSnapshots
    BY <1>1 DEF Snapshot, GenuineSnapshots, Genuine, Snapshots, State!ActiveRows
<1>5. PICK G : G = GenuineSnapshots
    OBVIOUS
<1>6. HasOnly(G)'
    BY <1>1, <1>5, RuntimeHasOnly, SnapshotGenuine DEF PipelineIInv
<1>7. HasOnly(GenuineSnapshots)'
    BY <1>4, <1>5, <1>6 DEF HasOnly, OfThese
<1> QED
    BY <1>1, <1>2, <1>3, <1>4, <1>7 DEF PipelineIInv

(* The inductive invariant of the pipeline: that of the runtime, and that   *)
(* every snapshot in its files, in its processes and in NGINX was genuine.  *)
THEOREM PipelineInvariant ==
    ASSUME RulesAreBlocks
    PROVE  PipelineSpec => []PipelineIInv
<1>1. PipelineInit => PipelineIInv
    BY PipelineStarts
<1>2. PipelineIInv /\ [PipelineNext]_pipelineVars => PipelineIInv'
    <2> SUFFICES ASSUME PipelineIInv, [PipelineNext]_pipelineVars PROVE PipelineIInv'
        OBVIOUS
    <2>1. CASE Backend
        BY <2>1, BackendKeeps
    <2>2. CASE Enforcement
        BY <2>2, EnforcementKeeps
    <2>3. CASE UNCHANGED pipelineVars
        <3>1. UNCHANGED vars /\ UNCHANGED <<revision, rows>>
            BY <2>3 DEF pipelineVars, database
        <3>2. IInv'
            BY <3>1, NextHolds DEF PipelineIInv
        <3>3. Snapshot' = Snapshot /\ GenuineSnapshots' = GenuineSnapshots
            BY <3>1 DEF Snapshot, GenuineSnapshots, Genuine, Snapshots, State!ActiveRows
        <3>4. HasOnly(GenuineSnapshots)'
            BY <3>1, <3>3 DEF vars, PipelineIInv, HasOnly, OfThese
        <3> QED
            BY <3>1, <3>2, <3>3, <3>4 DEF vars, PipelineIInv
    <2> QED
        BY <2>1, <2>2, <2>3 DEF PipelineNext
<1> QED
    BY <1>1, <1>2, PTL DEF PipelineSpec

(* Whatever was asked, delayed, put back or killed in between: NGINX        *)
(* applies no rules but those of a committed revision, and of the current   *)
(* revision those of the ACTIVE rows.                                       *)
THEOREM AppliedAreTheRevisions ==
    ASSUME RulesAreBlocks
    PROVE  PipelineSpec => []AppliedRulesAreTheRevisions
<1>1. PipelineIInv => AppliedRulesAreTheRevisions
    BY DEF PipelineIInv, HasOnly, GenuineSnapshots, Genuine, AppliedRulesAreTheRevisions
<1> QED
    BY <1>1, PipelineInvariant, PTL

(* In the pipeline, too, only an enforcing container serves rules.          *)
THEOREM PipelineRulesOnlyWhenEnforcing ==
    ASSUME RulesAreBlocks, LateReloads = FALSE
    PROVE  PipelineSpec => []OnlyEnforceServesRules
<1>1. PipelineInit => OnlyEnforceServesRules
    BY DEF PipelineInit, Init, OnlyEnforceServesRules
<1>2. PipelineIInv /\ OnlyEnforceServesRules /\ [PipelineNext]_pipelineVars => OnlyEnforceServesRules'
    <2>1. Backend => UNCHANGED <<mode, loaded>>
        BY DEF Backend, nginx
    <2>2. Enforcement \/ UNCHANGED pipelineVars => [Next]_vars
        BY DEF Enforcement, Next, pipelineVars
    <2> QED
        BY <2>1, <2>2, LoadsWhenEnforcing DEF PipelineIInv, PipelineNext, OnlyEnforceServesRules
<1> QED
    BY <1>1, <1>2, PipelineInvariant, PTL DEF PipelineSpec

================================================================================
