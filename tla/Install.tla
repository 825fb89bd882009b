------------------------------ MODULE Install -------------------------------
(***************************************************************************)
(* The installer (install/install.sh, install/install.ps1) and the engine's*)
(* part in it: the plan for the machine and the files' check               *)
(* (engine/src/install.c).  A run fetches the engine and checks it, asks it*)
(* for a plan, fetches the plan's files, has them checked, fetches anew    *)
(* those that are wrong, once, and starts the server.  It may be cut short *)
(* anywhere, by the machine, the user or the network, and run again, by    *)
(* the same release or another; the directory keeps what it has.           *)
(*                                                                         *)
(* Bytes are known by what they are the beginning of: a pinned file, by its*)
(* SHA-256, or nothing that is pinned.  Sizes are in units a few to a file.*)
(***************************************************************************)
EXTENDS Integers, FiniteSetsExt, SequencesExt

CONSTANTS
  Releases,     \* release: engine (its SHA-256), size, models, as its catalogue lists them
  Machines,     \* machine: windows, memory, gpus, cuda_built, drive
  DISK_MARGIN,
  MaxRuns, MaxFaults  \* bounds of the model

Models == UNION {Range(r.models) : r \in Releases}
Paths == UNION {{m.files[k].path : k \in DOMAIN m.files} : m \in Models}
Ids == {m.id : m \in Models}

InstallAssumption ==
  /\ DISK_MARGIN \in Nat /\ IsFiniteSet(Paths)
  /\ \A m \in Machines : m.windows \in BOOLEAN /\ m.drive \in Nat /\ m.memory \in Nat
  /\ \A r, s \in Releases :  \* a SHA-256 is of one engine; there is room for the one in place and the one fetched
       /\ r.engine = s.engine => r = s
       /\ \A m \in Machines : r.size + s.size <= m.drive
       /\ \A t \in Releases : r.size + s.size <= t.size + DISK_MARGIN
  /\ \A r \in Releases : r.size \in Nat /\ r.models \in Seq(Range(r.models))
  /\ \A m \in Models :  \* a model has files, none of them empty, each at a path of its own
       /\ m.files \in Seq(Range(m.files)) \ {<<>>}
       /\ \A k \in DOMAIN m.files : m.files[k].size \in Nat \ {0}
       /\ \A k, l \in DOMAIN m.files : m.files[k].path = m.files[l].path => k = l

Wrong == "wrong"      \* what is not the beginning of any pinned file
NoFile == [of |-> "none", size |-> 0]
NoModel == [id |-> "none"]
Anything == "any"     \* no $VITNA_MODEL

VARIABLES
  machine,
  engine, part, \* $home/bin/vitna-anchor and vitna-anchor.part
  files,        \* what is at each path of $home/models
  script,       \* serve.sh: the release and model it starts, and whether it is whole
  pc,           \* where the installer is: "away" if it does not run
  release, wish, plan, i, round, bad,  \* its variables: i counts the plan's files
  fault,        \* whether anything outside has failed in this run
  before,       \* history: how the last run that asked for a plan was begun, and its plan
  runs, faults

disk == <<engine, part, files, script>>
run == <<release, wish, plan, i, round, bad>>
vars == <<machine, disk, pc, run, fault, before, runs, faults>>

-----------------------------------------------------------------------------
(* The plan. *)

Used == SumFunction([p \in Paths |-> files[p].size]) + engine.size + part.size

disk_free == machine.drive - Used

\* Mutant: a file fetched in part is counted as if none of it were there.
AllOfIt(f) == f.size

still_to_fetch(f) ==
  LET have == files[f.path].size IN IF have > f.size THEN f.size ELSE f.size - have

Fetch(m) == SumFunction([k \in DOMAIN m.files |-> still_to_fetch(m.files[k])])

largest_gpu == IF machine.gpus = <<>> THEN 0 ELSE Max(Range(machine.gpus))

meets(m) ==
  /\ m.cuda => machine.cuda_built /\ machine.gpus # <<>> /\ largest_gpu >= m.gpu
  /\ machine.memory >= m.memory
  /\ disk_free >= Fetch(m) + DISK_MARGIN

\* The first entry whose memory the machine has.
Afforded(entries, otherwise) ==
  LET can == {k \in DOMAIN entries : machine.memory >= entries[k].memory}
  IN  IF can = {} THEN otherwise ELSE entries[Min(can)].value

\* The first model of the catalogue that fits, or the one asked for if it does.
vitna_plan(models, want) ==
  LET asked == {k \in DOMAIN models : want \in {Anything, models[k].id}}
      first == IF want = Anything THEN {k \in asked : meets(models[k])} ELSE {k \in {Min(asked)} : meets(models[k])}
  IN  IF asked = {} \/ first = {} THEN NoModel
      ELSE LET m == models[Min(first)]
           IN  [id |-> m.id, files |-> m.files, ctx |-> Afforded(m.ctx, 4096), cache |-> Afforded(m.cache, 0)]

-----------------------------------------------------------------------------
(* Fetching.  curl ends with the whole of what is served, or fails with some of*)
(* it; what is there already is gone on from and not looked at.               *)

Goes(have, of) == IF have.size = 0 \/ have.of = of THEN of ELSE Wrong

\* What there is after curl has gone on from have with a served file of this size.
Whole(have, of, size) == [of |-> Goes(have, of), size |-> size]
Some(have, of, size) == {[of |-> Goes(have, of), size |-> n] : n \in have.size .. size} \ {Whole(have, of, size)}

\* No more is written than there is room for, what it replaces being gone.
Cut(have, got, room) ==
  IF got.size - have.size <= room THEN got ELSE [got EXCEPT !.size = have.size + room]

\* What is served in place of a file when something is wrong with the server: no
\* longer than the file, as a page that says so is.
Served(size) == {[of |-> Wrong, size |-> n] : n \in 1 .. size}

Fault == fault' = TRUE /\ faults < MaxFaults /\ faults' = faults + 1
NoFault == UNCHANGED <<fault, faults>>

-----------------------------------------------------------------------------
Init ==
  /\ machine \in Machines
  /\ engine = NoFile /\ part = NoFile /\ files = [p \in Paths |-> NoFile]
  /\ script = [release |-> "none", id |-> "none", whole |-> FALSE]
  /\ pc = "away" /\ release \in Releases /\ wish = Anything /\ plan = NoModel
  /\ i = 1 /\ round = 1 /\ bad = {}
  /\ fault = FALSE /\ faults = 0 /\ runs = 0
  /\ before = [release |-> "none", wish |-> Anything, id |-> "none"]

Start ==
  /\ pc \in {"away", "died", "serve"} /\ runs < MaxRuns
  /\ release' \in Releases /\ wish' \in Ids \cup {Anything}
  /\ runs' = runs + 1 /\ fault' = FALSE
  /\ i' = 1 /\ round' = 1 /\ bad' = {} /\ plan' = NoModel
  /\ pc' = "engine"
  /\ UNCHANGED <<machine, disk, before, faults>>

\* curl -o engine.part, which begins anew.
FetchEngine ==
  /\ pc = "engine"
  /\ \/ /\ part' = Cut(NoFile, [of |-> release.engine, size |-> release.size], disk_free + part.size)
        /\ pc' = (IF part'.size = release.size THEN "check" ELSE "died")
        /\ NoFault
     \/ Fault /\ part' \in Served(release.size) /\ pc' = "check"
     \/ Fault /\ part' \in Some(NoFile, release.engine, release.size) /\ pc' = "died"
  /\ UNCHANGED <<machine, engine, files, script, run, before, runs>>

\* Mutant: the engine is put in place before it is checked.
CheckLate ==
  /\ pc = "check"
  /\ engine' = part /\ part' = NoFile
  /\ pc' = IF part = [of |-> release.engine, size |-> release.size] THEN "plan" ELSE "died"
  /\ UNCHANGED <<machine, files, script, run, fault, before, runs, faults>>

Check ==
  /\ pc = "check"
  /\ \/ /\ part = [of |-> release.engine, size |-> release.size] /\ pc' = "move" /\ UNCHANGED part
     \/ /\ part # [of |-> release.engine, size |-> release.size] /\ pc' = "died" /\ part' = NoFile
  /\ UNCHANGED <<machine, engine, files, script, run, fault, before, runs, faults>>

\* On Windows an engine that runs is not replaced.
Move ==
  /\ pc = "move"
  /\ \/ engine' = part /\ part' = NoFile /\ pc' = "plan" /\ NoFault
     \/ machine.windows /\ engine # NoFile /\ Fault /\ pc' = "died" /\ UNCHANGED <<engine, part>>
  /\ UNCHANGED <<machine, files, script, run, before, runs>>

Plan ==
  /\ pc = "plan"
  /\ plan' = vitna_plan(release.models, wish)
  /\ pc' = IF plan' = NoModel THEN "unfit" ELSE "fetch"
  /\ before' = [release |-> release.engine, wish |-> wish, id |-> plan'.id]
  /\ UNCHANGED <<machine, disk, release, wish, i, round, bad, fault, runs, faults>>

\* The plan's files one after another: the file i, and the one after.
Next_(n) == IF n < Len(plan.files) THEN i' = n + 1 /\ pc' = "fetch" ELSE i' = 1 /\ pc' = "verify"

FetchFile ==
  /\ pc = "fetch"
  /\ LET f == plan.files[i]
         have == IF files[f.path].size > f.size THEN NoFile ELSE files[f.path]
         room == disk_free + files[f.path].size - have.size
         got == Cut(have, Whole(have, f.sha, f.size), room)
     IN  \/ /\ have.size = f.size \/ got.size = f.size
            /\ files' = [files EXCEPT ![f.path] = IF have.size = f.size THEN have ELSE got]
            /\ Next_(i) /\ NoFault
         \/ /\ have.size # f.size /\ got.size # f.size
            /\ files' = [files EXCEPT ![f.path] = got]
            /\ pc' = "died" /\ NoFault /\ UNCHANGED i
         \/ /\ have.size # f.size /\ Fault
            /\ \E s \in {Whole(have, w.of, w.size) : w \in {v \in Served(f.size) : v.size >= have.size}} :
                 files' = [files EXCEPT ![f.path] = Cut(have, s, room)]
            /\ Next_(i)
         \/ /\ have.size # f.size /\ Fault
            /\ \E s \in Some(have, f.sha, f.size) : files' = [files EXCEPT ![f.path] = Cut(have, s, room)]
            /\ pc' = "died" /\ UNCHANGED i
  /\ UNCHANGED <<machine, engine, part, script, release, wish, plan, round, bad, before, runs>>

vitna_verify == {f \in Range(plan.files) : files[f.path] # [of |-> f.sha, size |-> f.size]}

Verify ==
  /\ pc = "verify"
  /\ bad' = {f.path : f \in vitna_verify}
  /\ pc' = IF bad' = {} THEN "script" ELSE IF round = 2 THEN "died" ELSE "remove"
  /\ UNCHANGED <<machine, disk, release, wish, plan, i, round, fault, before, runs, faults>>

\* Mutant: a file that is wrong is gone on from.
KeepBad(p) == files

RemoveBad(p) == [files EXCEPT ![p] = NoFile]

RemoveOne(p) ==
  /\ pc = "remove" /\ p \in bad
  /\ files' = RemoveBad(p)
  /\ bad' = bad \ {p}
  /\ IF bad' = {} THEN pc' = "fetch" /\ round' = 2 ELSE UNCHANGED <<pc, round>>
  /\ UNCHANGED <<machine, engine, part, script, release, wish, plan, i, fault, before, runs, faults>>

\* serve.sh is written in place, then made executable.
Write ==
  /\ pc = "script"
  /\ script' = [release |-> release.engine, id |-> plan.id, whole |-> FALSE]
  /\ pc' = "chmod"
  /\ UNCHANGED <<machine, engine, part, files, run, fault, before, runs, faults>>

Written ==
  /\ pc = "chmod"
  /\ script' = [script EXCEPT !.whole = TRUE]
  /\ pc' = "serve"
  /\ UNCHANGED <<machine, engine, part, files, run, fault, before, runs, faults>>

\* The machine stops, or the user stops the installer.
Interrupted ==
  /\ pc \notin {"away", "died", "unfit", "serve"} /\ Fault
  /\ pc' = "away"
  /\ UNCHANGED <<machine, disk, run, before, runs>>

Unfit ==
  /\ pc = "unfit" /\ pc' = "away"
  /\ UNCHANGED <<machine, disk, run, fault, before, runs, faults>>

Next ==
  \/ Start \/ FetchEngine \/ Check \/ Move \/ Plan \/ FetchFile \/ Verify \/ Write \/ Written
  \/ \E p \in bad : RemoveOne(p)
  \/ Interrupted \/ Unfit

Spec == Init /\ [][Next]_vars

-----------------------------------------------------------------------------
(* Properties *)

\* Whatever was cut short, the engine in place is a release's whole engine, and
\* what is started is what is pinned: every file of the model, by its bytes
\* (install.sh:5-13).
ServesPinned ==
  /\ engine = NoFile \/ \E r \in Releases : engine = [of |-> r.engine, size |-> r.size]
  /\ pc \in {"script", "chmod", "serve"} =>
       /\ engine.of = release.engine
       /\ \A f \in Range(plan.files) : files[f.path] = [of |-> f.sha, size |-> f.size]

\* A run in which nothing outside fails installs, whatever the runs before it
\* left in the directory: files cut short, of another release, or of bytes that
\* are not the file's.  The drive never fills, and a second round is enough.
CleanRunInstalls == pc = "died" => fault

\* Run again, the model it planned still fits, though part of it now takes room
\* on the drive and part of it may have been removed: it plans that one or one
\* the catalogue prefers, never a lesser one or none (install.sh:12).
PlansNoLess ==
  pc = "plan" /\ pc' # "away" /\ before.release = release.engine /\ before.wish = wish /\ before.id # "none" =>
    \E k, m \in DOMAIN release.models :
      k <= m /\ plan'.id = release.models[k].id /\ before.id = release.models[m].id
PlansAgain == [][PlansNoLess]_vars
=============================================================================
