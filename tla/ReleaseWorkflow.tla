---------------------------- MODULE ReleaseWorkflow ----------------------------
(***************************************************************************)
(* One run of .github/workflows/release.yml: a build and an independent    *)
(* rebuild per guest, the EF tests and the publication, as jobs that fail  *)
(* on their own and that a maintainer may run again one by one, while the  *)
(* artifacts handed from job to job expire.                                *)
(*                                                                         *)
(* The scheduler and the artifact store are external: a job starts when    *)
(* the jobs it needs have succeeded; running a job again also runs again   *)
(* the jobs that need it; an upload replaces the artifact of that name.    *)
(***************************************************************************)
EXTENDS Integers, FiniteSets

CONSTANTS
    Guests,         \* the matrix: sp1, zisk, openvm
    Elfs,           \* what a build may produce
    RETENTION_DAYS, \* 1
    MaxDays,        \* bound: days the run is looked at
    MaxReruns       \* bound: jobs run again

ASSUME WorkflowAssumption ==
    /\ IsFiniteSet(Guests)
    /\ RETENTION_DAYS \in Nat /\ MaxDays \in Nat /\ MaxReruns \in Nat

Build(g)        == <<"build", g>>
Reproduce(g)    == <<"reproducibility", g>>
EfTests         == <<"ef-tests">>
Release         == <<"release">>

Builds  == {Build(g) : g \in Guests}
Rebuilds == {Reproduce(g) : g \in Guests}
Jobs    == Builds \cup Rebuilds \cup {EfTests, Release}

VARIABLES
    status,         \* [Jobs -> "waiting", "ok" or "failed"]
    artifacts,      \* the staged artifacts: [guest, elf, vk, day]
    rebuilt,        \* ghost, option: the ELF the last rebuild of a guest made
    published,      \* files of the GitHub Release: [guest, elf, vk]
    day, reruns

vars == <<status, artifacts, rebuilt, published, day, reruns>>

Init ==
    /\ status = [j \in Jobs |-> "waiting"]
    /\ artifacts = {}
    /\ rebuilt = [g \in Guests |-> {}]
    /\ published = {}
    /\ day = 0 /\ reruns = 0

-----------------------------------------------------------------------------
\* Mistake: the publication does not wait for the rebuilds.
NeedsNoRebuild(j) ==
    CASE j[1] = "reproducibility" -> Builds
      [] j[1] = "release"         -> Builds \cup {EfTests}
      [] OTHER                    -> {}

\* Mistake: the rebuilds compare with what the publication puts out.
NeedsCyclic(j) ==
    CASE j[1] = "reproducibility" -> Builds \cup {Release}
      [] j[1] = "release"         -> Builds \cup {EfTests} \cup Rebuilds
      [] OTHER                    -> {}

Needs(j) ==
    CASE j[1] = "reproducibility" -> Builds
      [] j[1] = "release"         -> Builds \cup {EfTests} \cup Rebuilds
      [] OTHER                    -> {}

Ready(j) == status[j] = "waiting" /\ \A k \in Needs(j) : status[k] = "ok"

Ends(j, result) == status' = [status EXCEPT ![j] = result]

Expired(a) == day > a.day + RETENTION_DAYS

\* Any step of a job may fail.
JobFails(j) ==
    /\ Ready(j)
    /\ Ends(j, "failed")
    /\ UNCHANGED <<artifacts, rebuilt, published, day, reruns>>

\* The ELF, and the verifying key derived from it, are staged and uploaded.
BuildGuest(g, elf) ==
    /\ Ready(Build(g))
    /\ artifacts' = {a \in artifacts : a.guest # g}
                    \cup {[guest |-> g, elf |-> elf, vk |-> elf, day |-> day]}
    /\ Ends(Build(g), "ok")
    /\ UNCHANGED <<rebuilt, published, day, reruns>>

RunEfTests ==
    /\ Ready(EfTests)
    /\ Ends(EfTests, "ok")
    /\ UNCHANGED <<artifacts, rebuilt, published, day, reruns>>

\* The rebuild succeeds if the release build's artifact can still be
\* downloaded and its ELF is the same.
RebuildGuest(g, elf) ==
    /\ Ready(Reproduce(g))
    /\ rebuilt' = [rebuilt EXCEPT ![g] = {elf}]
    /\ Ends(Reproduce(g),
            IF \E a \in artifacts : a.guest = g /\ ~ Expired(a) /\ a.elf = elf
            THEN "ok" ELSE "failed")
    /\ UNCHANGED <<artifacts, published, day, reruns>>

\* All artifacts that can still be downloaded are published; with none of them
\* the checksum step has no file to work on and fails.
PublishRelease ==
    LET found == {a \in artifacts : ~ Expired(a)} IN
    /\ Ready(Release)
    /\ IF found = {}
       THEN Ends(Release, "failed") /\ UNCHANGED published
       ELSE /\ Ends(Release, "ok")
            /\ published' = {[guest |-> a.guest, elf |-> a.elf, vk |-> a.vk] : a \in found}
    /\ UNCHANGED <<artifacts, rebuilt, day, reruns>>

\* The jobs that wait, directly or not, for j.
Dependents(j) ==
    {k \in Jobs : j \in Needs(k) \/ \E l \in Needs(k) : j \in Needs(l)}

Settled == \A j \in Jobs : ~ Ready(j)

\* A maintainer runs a job of a settled run again.
Rerun(j) ==
    /\ Settled /\ status[j] # "waiting"
    /\ reruns < MaxReruns
    /\ status' = [k \in Jobs |-> IF k = j \/ k \in Dependents(j) THEN "waiting"
                                 ELSE status[k]]
    /\ reruns' = reruns + 1
    /\ UNCHANGED <<artifacts, rebuilt, published, day>>

DayPasses ==
    /\ day < MaxDays
    /\ day' = day + 1
    /\ UNCHANGED <<status, artifacts, rebuilt, published, reruns>>

JobStep ==
    \/ \E g \in Guests, e \in Elfs : BuildGuest(g, e) \/ RebuildGuest(g, e)
    \/ RunEfTests
    \/ PublishRelease
    \/ \E j \in Jobs : JobFails(j)

Over == Settled /\ day = MaxDays /\ reruns = MaxReruns /\ UNCHANGED vars

Next == JobStep \/ DayPasses \/ Over \/ \E j \in Jobs : Rerun(j)

Spec == Init /\ [][Next]_vars /\ WF_vars(JobStep)

-----------------------------------------------------------------------------
\* What a publication puts out is what was checked: whatever was run again in
\* the meantime, each file comes from the build that the last rebuild of that
\* guest reproduced, the last EF tests succeeded, and no guest has two files.
PublishesChecked ==
    [][published' # published =>
        /\ status[EfTests] = "ok"
        /\ \A p \in published' : rebuilt[p.guest] = {p.elf} /\ p.vk = p.elf
        /\ \A p, q \in published' : p.guest = q.guest => p = q]_vars

\* A job that never runs: one it waits for has failed.
Skipped(j) == \E k \in Jobs : status[k] = "failed" /\ j \in Dependents(k)

\* The run always comes to an end, after every re-run too: each job succeeds,
\* fails or is skipped because of a failure, and none waits for another forever.
RunSettles == []<>(\A j \in Jobs : status[j] = "waiting" => Skipped(j))

\* A release holds the files of every guest, as release.yml:4-7 says.
ReleaseIsComplete ==
    published # {} => \A g \in Guests : \E p \in published : p.guest = g
=============================================================================
