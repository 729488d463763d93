------------------------- MODULE ReleaseWorkflowProofs -------------------------
(***************************************************************************)
(* What a release publishes was checked, for any number of guests, builds, *)
(* days and re-runs.  The invariant says that a job which has ended found  *)
(* the jobs it needs successful and still does, and that the rebuild of a  *)
(* guest, once it has succeeded, made the ELF of the one staged artifact.  *)
(***************************************************************************)
EXTENDS ReleaseWorkflow, TLAPS

TypeOK ==
    /\ status \in [Jobs -> {"waiting", "ok", "failed"}]
    /\ rebuilt \in [Guests -> SUBSET Elfs]

\* Re-running a job takes the result of those that need it away.
NeedsAreOk ==
    \A j \in Jobs : status[j] # "waiting" => \A k \in Needs(j) : status[k] = "ok"

StagedOnce ==
    /\ \A a \in artifacts : a.guest \in Guests /\ a.vk = a.elf
    /\ \A a, b \in artifacts : a.guest = b.guest => a = b

Reproduced ==
    \A g \in Guests :
        status[Reproduce(g)] = "ok" =>
            \A a \in artifacts : a.guest = g => rebuilt[g] = {a.elf}

IInv == TypeOK /\ NeedsAreOk /\ StagedOnce /\ Reproduced

-----------------------------------------------------------------------------
LEMMA JobFacts ==
    /\ EfTests \in Jobs /\ Release \in Jobs /\ EfTests # Release
    /\ \A g \in Guests :
        /\ Build(g) \in Jobs /\ Reproduce(g) \in Jobs
        /\ Build(g) # EfTests /\ Build(g) # Release
        /\ Reproduce(g) # EfTests /\ Reproduce(g) # Release
    /\ \A g, h \in Guests :
        /\ Build(g) # Reproduce(h)
        /\ Build(g) = Build(h) => g = h
        /\ Reproduce(g) = Reproduce(h) => g = h
    /\ \A j \in Jobs :
        \/ \E g \in Guests : j = Build(g) \/ j = Reproduce(g)
        \/ j = EfTests \/ j = Release
  BY DEF Jobs, Builds, Rebuilds, Build, Reproduce, EfTests, Release

LEMMA NeedsFacts ==
    /\ Needs(EfTests) = {}
    /\ Needs(Release) = Builds \cup {EfTests} \cup Rebuilds
    /\ \A g \in Guests : Needs(Build(g)) = {} /\ Needs(Reproduce(g)) = Builds
    /\ \A j \in Jobs : Needs(j) \subseteq Jobs \ {Release}
    /\ \A g, h \in Guests :
        /\ Build(g) \in Needs(Reproduce(h)) /\ Build(g) \in Needs(Release)
        /\ Reproduce(g) \in Needs(Release)
  <1>1. Needs(EfTests) = {} /\ Needs(Release) = Builds \cup {EfTests} \cup Rebuilds
    BY DEF Needs, EfTests, Release
  <1>2. \A g \in Guests : Needs(Build(g)) = {} /\ Needs(Reproduce(g)) = Builds
    BY DEF Needs, Build, Reproduce
  <1>3. \A g \in Guests : Build(g) \in Builds /\ Reproduce(g) \in Rebuilds
    BY DEF Builds, Rebuilds
  <1>4. Builds \cup {EfTests} \cup Rebuilds \subseteq Jobs \ {Release}
    BY JobFacts DEF Builds, Rebuilds
  <1>5. \A j \in Jobs : Needs(j) \subseteq Jobs \ {Release}
    BY <1>1, <1>2, <1>4, JobFacts
  <1> QED BY <1>1, <1>2, <1>3, <1>5

\* Whoever waits for a job that is run again is run again too.
LEMMA DependentsAreClosed ==
    ASSUME NEW i \in Jobs, NEW j \in Jobs, NEW k \in Needs(j),
           k = i \/ k \in Dependents(i)
    PROVE  j \in Dependents(i)
  <1>1. k \in Jobs /\ k # Release
    BY NeedsFacts
  <1>2. CASE k = i
    BY <1>2 DEF Dependents
  <1>3. CASE k \in Dependents(i)
    <2>1. i \in Needs(k) \/ \E l \in Needs(k) : i \in Needs(l)
      BY <1>3 DEF Dependents
    <2>2. PICK g \in Guests : k = Reproduce(g)
      BY <1>1, <2>1, JobFacts, NeedsFacts
    <2>3. ~ \E l \in Needs(k) : i \in Needs(l)
      BY <2>2, NeedsFacts DEF Builds
    <2> QED BY <2>1, <2>3 DEF Dependents
  <1> QED BY <1>2, <1>3

-----------------------------------------------------------------------------
\* A job that is ready ends: only jobs that have not run yet need it.
LEMMA EndsKeepsNeeds ==
    ASSUME IInv, NEW i \in Jobs, Ready(i), NEW r \in {"ok", "failed"}, Ends(i, r)
    PROVE  status' \in [Jobs -> {"waiting", "ok", "failed"}] /\ NeedsAreOk'
  <1>1. /\ status \in [Jobs -> {"waiting", "ok", "failed"}]
        /\ status[i] = "waiting" /\ \A k \in Needs(i) : status[k] = "ok"
        /\ status' = [status EXCEPT ![i] = r]
    BY DEF IInv, TypeOK, Ready, Ends
  <1>2. ASSUME NEW j \in Jobs, status'[j] # "waiting", NEW k \in Needs(j)
        PROVE  status'[k] = "ok"
    <2>1. k \in Jobs
      BY NeedsFacts
    <2>2. status[k] = "ok"
      BY <1>1, <1>2 DEF IInv, NeedsAreOk
    <2> QED BY <1>1, <2>1, <2>2
  <1> QED BY <1>1, <1>2 DEF NeedsAreOk

LEMMA JobFailsInv == ASSUME IInv, NEW j \in Jobs, JobFails(j) PROVE IInv'
  <1>1. Ready(j) /\ Ends(j, "failed") /\ UNCHANGED <<artifacts, rebuilt>>
    BY DEF JobFails
  <1>2. TypeOK' /\ NeedsAreOk'
    BY <1>1, EndsKeepsNeeds DEF IInv, TypeOK
  <1>3. \A g \in Guests : status'[Reproduce(g)] = "ok" => status[Reproduce(g)] = "ok"
    BY <1>1, JobFacts DEF IInv, TypeOK, Ends
  <1> QED BY <1>1, <1>2, <1>3 DEF IInv, StagedOnce, Reproduced

LEMMA BuildGuestInv ==
    ASSUME IInv, NEW g \in Guests, NEW elf \in Elfs, BuildGuest(g, elf)
    PROVE  IInv'
  <1> DEFINE new == [guest |-> g, elf |-> elf, vk |-> elf, day |-> day]
  <1>1. /\ Ready(Build(g)) /\ Ends(Build(g), "ok") /\ UNCHANGED rebuilt
        /\ artifacts' = {a \in artifacts : a.guest # g} \cup {new}
    BY DEF BuildGuest
  <1>2. TypeOK' /\ NeedsAreOk'
    BY <1>1, EndsKeepsNeeds, JobFacts DEF IInv, TypeOK
  <1>3. new.guest = g /\ new.elf = elf /\ new.vk = elf
    OBVIOUS
  <1> HIDE DEF new
  <1>4. StagedOnce'
    BY <1>1, <1>3 DEF IInv, StagedOnce
  <1>5. \A h \in Guests : status[Reproduce(h)] # "ok" /\ status'[Reproduce(h)] # "ok"
    <2> TAKE h \in Guests
    <2>1. status[Build(g)] = "waiting"
      BY <1>1 DEF Ready
    <2>2. status[Reproduce(h)] = "waiting"
      BY <2>1, JobFacts, NeedsFacts DEF IInv, NeedsAreOk
    <2> QED BY <1>1, <2>2, JobFacts DEF IInv, TypeOK, Ends
  <1>6. Reproduced'
    BY <1>5 DEF Reproduced
  <1> QED BY <1>2, <1>4, <1>6 DEF IInv

LEMMA RunEfTestsInv == IInv /\ RunEfTests => IInv'
  <1> SUFFICES ASSUME IInv, RunEfTests PROVE IInv'
    OBVIOUS
  <1>1. Ready(EfTests) /\ Ends(EfTests, "ok") /\ UNCHANGED <<artifacts, rebuilt>>
    BY DEF RunEfTests
  <1>2. TypeOK' /\ NeedsAreOk'
    BY <1>1, EndsKeepsNeeds, JobFacts DEF IInv, TypeOK
  <1>3. \A g \in Guests : status'[Reproduce(g)] = status[Reproduce(g)]
    BY <1>1, JobFacts DEF IInv, TypeOK, Ends
  <1> QED BY <1>1, <1>2, <1>3 DEF IInv, StagedOnce, Reproduced

\* A rebuild only succeeds on the artifact that is staged, of which there is one.
LEMMA RebuildGuestInv ==
    ASSUME IInv, NEW g \in Guests, NEW elf \in Elfs, RebuildGuest(g, elf)
    PROVE  IInv'
  <1> DEFINE same == \E a \in artifacts : a.guest = g /\ ~ Expired(a) /\ a.elf = elf
             r == IF same THEN "ok" ELSE "failed"
  <1>1. /\ Ready(Reproduce(g)) /\ Ends(Reproduce(g), r) /\ UNCHANGED artifacts
        /\ rebuilt' = [rebuilt EXCEPT ![g] = {elf}]
    BY DEF RebuildGuest
  <1>2. r \in {"ok", "failed"} /\ (r = "ok" => same)
    OBVIOUS
  <1> HIDE DEF r
  <1>3. TypeOK' /\ NeedsAreOk'
    <2>1. Reproduce(g) \in Jobs
      BY JobFacts
    <2>2. status' \in [Jobs -> {"waiting", "ok", "failed"}] /\ NeedsAreOk'
      BY <1>1, <1>2, <2>1, EndsKeepsNeeds
    <2> QED BY <1>1, <2>2 DEF IInv, TypeOK
  <1>4. ASSUME NEW h \in Guests, status'[Reproduce(h)] = "ok",
               NEW a \in artifacts, a.guest = h
        PROVE  rebuilt'[h] = {a.elf}
    <2>1. CASE h = g
      <3>1. r = "ok"
        BY <1>1, <1>4, <2>1, JobFacts DEF IInv, TypeOK, Ends
      <3>2. a.elf = elf
        BY <1>2, <1>4, <2>1, <3>1 DEF IInv, StagedOnce
      <3> QED BY <1>1, <2>1, <3>2 DEF IInv, TypeOK
    <2>2. CASE h # g
      <3>1. status[Reproduce(h)] = "ok"
        BY <1>1, <1>4, <2>2, JobFacts DEF IInv, TypeOK, Ends
      <3>2. rebuilt[h] = {a.elf}
        BY <1>4, <3>1 DEF IInv, Reproduced
      <3> QED BY <1>1, <2>2, <3>2 DEF IInv, TypeOK
    <2> QED BY <2>1, <2>2
  <1>5. Reproduced' /\ StagedOnce'
    BY <1>1, <1>4 DEF IInv, Reproduced, StagedOnce
  <1> QED BY <1>3, <1>5 DEF IInv

LEMMA PublishReleaseInv == IInv /\ PublishRelease => IInv'
  <1> SUFFICES ASSUME IInv, PublishRelease PROVE IInv'
    OBVIOUS
  <1>1. PICK r \in {"ok", "failed"} : Ends(Release, r)
    BY DEF PublishRelease
  <1>2. Ready(Release) /\ UNCHANGED <<artifacts, rebuilt>>
    BY DEF PublishRelease
  <1>3. TypeOK' /\ NeedsAreOk'
    BY <1>1, <1>2, EndsKeepsNeeds, JobFacts DEF IInv, TypeOK
  <1>4. \A g \in Guests : status'[Reproduce(g)] = status[Reproduce(g)]
    BY <1>1, JobFacts DEF IInv, TypeOK, Ends
  <1> QED BY <1>2, <1>3, <1>4 DEF IInv, StagedOnce, Reproduced

LEMMA RerunInv == ASSUME IInv, NEW i \in Jobs, Rerun(i) PROVE IInv'
  <1> DEFINE again(k) == k = i \/ k \in Dependents(i)
  <1>1. /\ status' = [k \in Jobs |-> IF again(k) THEN "waiting" ELSE status[k]]
        /\ UNCHANGED <<artifacts, rebuilt>>
    BY DEF Rerun
  <1>2. TypeOK'
    BY <1>1 DEF IInv, TypeOK
  <1>3. ASSUME NEW j \in Jobs, status'[j] # "waiting", NEW k \in Needs(j)
        PROVE  status'[k] = "ok"
    <2>1. k \in Jobs
      BY NeedsFacts
    <2>2. ~ again(j) /\ status[j] # "waiting"
      BY <1>1, <1>3
    <2>3. status[k] = "ok"
      BY <2>2 DEF IInv, NeedsAreOk
    <2>4. ~ again(k)
      BY <2>2, DependentsAreClosed
    <2> QED BY <1>1, <2>1, <2>3, <2>4
  <1>4. NeedsAreOk'
    BY <1>3 DEF NeedsAreOk
  <1>5. \A g \in Guests : status'[Reproduce(g)] = "ok" => status[Reproduce(g)] = "ok"
    BY <1>1, JobFacts
  <1> QED BY <1>1, <1>2, <1>4, <1>5 DEF IInv, StagedOnce, Reproduced

-----------------------------------------------------------------------------
LEMMA InitIInv == Init => IInv
  <1> SUFFICES ASSUME Init PROVE IInv
    OBVIOUS
  <1>1. TypeOK
    BY DEF Init, TypeOK
  <1>2. NeedsAreOk
    BY DEF Init, NeedsAreOk
  <1>3. StagedOnce /\ Reproduced
    BY DEF Init, StagedOnce, Reproduced
  <1> QED BY <1>1, <1>2, <1>3 DEF IInv

LEMMA StepInv == IInv /\ [Next]_vars => IInv'
  <1> SUFFICES ASSUME IInv, [Next]_vars PROVE IInv'
    OBVIOUS
  <1>1. CASE UNCHANGED <<status, artifacts, rebuilt>>
    BY <1>1 DEF IInv, TypeOK, NeedsAreOk, StagedOnce, Reproduced
  <1>2. CASE JobStep
    BY <1>2, BuildGuestInv, RebuildGuestInv, RunEfTestsInv, PublishReleaseInv, JobFailsInv
       DEF JobStep
  <1>3. ASSUME NEW j \in Jobs, Rerun(j) PROVE IInv'
    BY <1>3, RerunInv
  <1>4. DayPasses \/ Over \/ UNCHANGED vars => UNCHANGED <<status, artifacts, rebuilt>>
    BY DEF DayPasses, Over, vars
  <1> QED BY <1>1, <1>2, <1>3, <1>4 DEF Next

\* Only the publication publishes; it finds every rebuild and the tests
\* successful, and the rebuilds were made of what is staged now.
LEMMA PublishesWhatWasChecked ==
    ASSUME IInv, [Next]_vars, published' # published
    PROVE  /\ status[EfTests] = "ok"
           /\ \A p \in published' : rebuilt[p.guest] = {p.elf} /\ p.vk = p.elf
           /\ \A p, q \in published' : p.guest = q.guest => p = q
  <1>1. PublishRelease
    BY DEF Next, JobStep, BuildGuest, RebuildGuest, RunEfTests, JobFails, DayPasses, Over,
           Rerun, vars
  <1> DEFINE found == {a \in artifacts : ~ Expired(a)}
             file(a) == [guest |-> a.guest, elf |-> a.elf, vk |-> a.vk]
  <1>2. Ready(Release) /\ published' = {file(a) : a \in found}
    BY <1>1 DEF PublishRelease
  <1>3. status[EfTests] = "ok" /\ \A g \in Guests : status[Reproduce(g)] = "ok"
    BY <1>2, NeedsFacts DEF Ready
  <1>4. \A p \in published' : \E a \in artifacts :
            p.guest = a.guest /\ p.elf = a.elf /\ p.vk = a.vk /\ p = file(a)
    BY <1>2
  <1>5. \A p \in published' : rebuilt[p.guest] = {p.elf} /\ p.vk = p.elf
    BY <1>3, <1>4 DEF IInv, StagedOnce, Reproduced
  <1>6. \A p, q \in published' : p.guest = q.guest => p = q
    BY <1>4 DEF IInv, StagedOnce
  <1> QED BY <1>3, <1>5, <1>6

\* Whatever fails, expires and is run again, a release publishes for a guest
\* the one build its last rebuild reproduced, after the tests (release.yml).
THEOREM ReleasePublishesChecked == Spec => PublishesChecked
  <1>1. IInv /\ [Next]_vars =>
          [published' # published =>
            /\ status[EfTests] = "ok"
            /\ \A p \in published' : rebuilt[p.guest] = {p.elf} /\ p.vk = p.elf
            /\ \A p, q \in published' : p.guest = q.guest => p = q]_vars
    BY PublishesWhatWasChecked
  <1> QED BY <1>1, InitIInv, StepInv, PTL DEF Spec, PublishesChecked
=============================================================================
