------------------------- MODULE ProberLauncherProofs -------------------------
(***************************************************************************)
(* Proofs about ProberLauncher for every set of attempts and UIDs.  Inv is *)
(* the inductive invariant; each lemma shows that one part of it survives  *)
(* every step, with one case per action.                                   *)
(***************************************************************************)
EXTENDS ProberLauncher, TLAPS

\* Types survive every step of the launcher, the jailer, the VMM and a crash.
LEMMA TypeStep ==
    ASSUME Inv, [Next]_vars PROVE TypeOK'
<1> USE LauncherAssumption
<1>1. ASSUME NEW a \in Attempts, Begin(a) PROVE TypeOK'
  BY <1>1 DEF Inv, TypeOK, CandidatePhase, Steps, Setup, Timed, Guards,
    Begin, Go, Fail, leaseVars, kernelVars
<1>2. ASSUME NEW a \in Attempts, NEW u \in Uids, Probe(a, u) PROVE TypeOK'
  BY <1>2 DEF Inv, TypeOK, CandidatePhase, Steps, Setup, Timed, Guards,
    Probe, Go, Fail, UidHasLiveProcess, leaseVars, kernelVars
<1>3. ASSUME NEW a \in Attempts, Exhausted(a) PROVE TypeOK'
  BY <1>3 DEF Inv, TypeOK, CandidatePhase, Steps, Setup, Timed, Guards,
    Exhausted, Go, Fail, leaseVars, kernelVars
<1>4. ASSUME NEW a \in Attempts, Create(a) PROVE TypeOK'
  <2>1. uid[a] \in Uids
    BY <1>4 DEF Inv, OwnState, Create
  <2>2. leaseFile' \in [Uids -> Attempts \cup {None}]
    BY <1>4, <2>1 DEF Inv, TypeOK, Create
  <2>3. tried' \in [Attempts -> SUBSET Uids]
    BY <1>4, <2>1 DEF Inv, TypeOK, Create
  <2>4. pc' \in [Attempts -> Steps]
        /\ outcome' \in [Attempts -> {"none", "ok", "err", "crashed"}]
    BY <1>4 DEF Create, Go, Fail, Inv, TypeOK, Steps, Setup
  <2> QED
    BY <1>4, <2>2, <2>3, <2>4 DEF Create, kernelVars, Inv, TypeOK
<1>5. ASSUME NEW a \in Attempts, Recheck(a) PROVE TypeOK'
  <2>1. uid[a] \in Uids
    BY <1>5 DEF Inv, OwnState, Recheck
  <2>2. leaseFile' \in [Uids -> Attempts \cup {None}]
    BY <1>5, <2>1 DEF Inv, TypeOK, Recheck
  <2>3. tried' \in [Attempts -> SUBSET Uids]
    BY <1>5, <2>1 DEF Inv, TypeOK, Recheck
  <2>4. guards' \in [Attempts -> SUBSET Guards]
    BY <1>5 DEF Recheck, Inv, TypeOK, Guards
  <2>5. pc' \in [Attempts -> Steps]
        /\ outcome' \in [Attempts -> {"none", "ok", "err", "crashed"}]
    BY <1>5 DEF Recheck, Go, Fail, Inv, TypeOK, Steps, Setup
  <2> QED
    BY <1>5, <2>2, <2>3, <2>4, <2>5 DEF Recheck, kernelVars, Inv, TypeOK
<1>6. ASSUME NEW a \in Attempts, PrepareJail(a) PROVE TypeOK'
  <2>1. jail' \in [Attempts -> BOOLEAN]
    BY <1>6, Zenon DEF PrepareJail, Inv, TypeOK
  <2>2. guards' \in [Attempts -> SUBSET Guards] /\ pc' \in [Attempts -> Steps]
        /\ outcome' \in [Attempts -> {"none", "ok", "err", "crashed"}]
    BY <1>6 DEF PrepareJail, Go, Fail, Inv, TypeOK, Guards, Steps
  <2> QED
    BY <1>6, <2>1, <2>2 DEF PrepareJail, leaseVars, kernelVars, Inv, TypeOK
<1>7. ASSUME NEW a \in Attempts, Stage(a) PROVE TypeOK'
  BY <1>7 DEF Inv, TypeOK, CandidatePhase, Steps, Setup, Timed, Guards,
    Stage, Go, Fail, leaseVars, kernelVars
<1>8. ASSUME NEW a \in Attempts, Spawn(a) PROVE TypeOK'
  BY <1>8 DEF Inv, TypeOK, CandidatePhase, Steps, Setup, Timed, Guards,
    Spawn, Go, Fail, leaseVars, kernelVars
<1>9. ASSUME NEW a \in Attempts, WaitBounded(a) PROVE TypeOK'
  BY <1>9, SMTT(30) DEF Inv, TypeOK, CandidatePhase, Steps, Setup, Timed, Guards,
    WaitBounded, Go, Fail, leaseVars, kernelVars
<1>10. ASSUME NEW a \in Attempts, CheckPopulated(a) PROVE TypeOK'
  BY <1>10 DEF Inv, TypeOK, CandidatePhase, Steps, Setup, Timed, Guards,
    CheckPopulated, Go, Fail, Populated, leaseVars, kernelVars
<1>11. ASSUME NEW a \in Attempts, CanaryWait(a) PROVE TypeOK'
  BY <1>11 DEF Inv, TypeOK, CandidatePhase, Steps, Setup, Timed, Guards,
    CanaryWait, Go, Fail, Populated, leaseVars, kernelVars
<1>12. ASSUME NEW a \in Attempts, CanaryClean(a) PROVE TypeOK'
  <2>1. jail' \in [Attempts -> BOOLEAN] /\ cgroup' \in [Attempts -> BOOLEAN]
    BY <1>12, Zenon DEF CanaryClean, RemoveJail, Inv, TypeOK
  <2>2. guards' \in [Attempts -> SUBSET Guards] /\ pc' \in [Attempts -> Steps]
        /\ outcome' \in [Attempts -> {"none", "ok", "err", "crashed"}]
    BY <1>12 DEF CanaryClean, RemoveJail, Fail, Inv, TypeOK, Guards, Steps
  <2> QED
    BY <1>12, <2>1, <2>2 DEF CanaryClean, RemoveJail, leaseVars, Inv, TypeOK
<1>13. ASSUME NEW a \in Attempts, Contain(a) PROVE TypeOK'
  BY <1>13 DEF Inv, TypeOK, CandidatePhase, Steps, Setup, Timed, Guards,
    Contain, Go, Fail, leaseVars, kernelVars
<1>14. ASSUME NEW a \in Attempts, Scan(a) PROVE TypeOK'
  <2>1. seen' \in [Attempts -> BOOLEAN]
    BY <1>14, Zenon DEF Scan, Inv, TypeOK
  <2>2. pc' \in [Attempts -> Steps]
        /\ outcome' \in [Attempts -> {"none", "ok", "err", "crashed"}]
    BY <1>14 DEF Scan, Go, Fail, Inv, TypeOK, Steps, Timed
  <2>3. vmm' \in [Attempts -> {"none", "root", "live", "confined", "doomedRoot",
                             "doomed", "zombie", "dead"}]
    BY <1>14 DEF Scan, KillCgroup, Doom, Inv, TypeOK
  <2> QED
    BY <1>14, <2>1, <2>2, <2>3 DEF Scan, leaseVars, Inv, TypeOK
<1>15. ASSUME NEW a \in Attempts, Events(a) PROVE TypeOK'
  BY <1>15, SMTT(30) DEF Inv, TypeOK, CandidatePhase, Steps, Setup, Timed, Guards,
    Events, Go, Fail, KillCgroup, Doom, Populated, leaseVars, kernelVars
<1>16. ASSUME NEW a \in Attempts, Capture(a) PROVE TypeOK'
  BY <1>16 DEF Inv, TypeOK, CandidatePhase, Steps, Setup, Timed, Guards,
    Capture, Go, Fail, ParseCandidateGuestResult, leaseVars, kernelVars
<1>17. ASSUME NEW a \in Attempts, Observe(a) PROVE TypeOK'
  <2>1. jail' \in [Attempts -> BOOLEAN] /\ cgroup' \in [Attempts -> BOOLEAN]
    BY <1>17, Zenon DEF Observe, RemoveJail, Inv, TypeOK
  <2>2. guards' \in [Attempts -> SUBSET Guards] /\ pc' \in [Attempts -> Steps]
        /\ phase' \in [Attempts -> CandidatePhase]
        /\ outcome' \in [Attempts -> {"none", "ok", "err", "crashed"}]
    BY <1>17 DEF Observe, RemoveJail, Go, Fail, Inv, TypeOK, Guards, Steps, Timed, CandidatePhase
  <2> QED
    BY <1>17, <2>1, <2>2 DEF Observe, RemoveJail, leaseVars, Inv, TypeOK
<1>18. ASSUME NEW a \in Attempts, Residue(a) PROVE TypeOK'
  BY <1>18 DEF Inv, TypeOK, CandidatePhase, Steps, Setup, Timed, Guards,
    Residue, Go, Fail, UidHasLiveProcess, leaseVars, kernelVars
<1>19. ASSUME NEW a \in Attempts, DropCgroup(a) PROVE TypeOK'
  BY <1>19 DEF Inv, TypeOK, CandidatePhase, Steps, Setup, Timed, Guards,
    DropCgroup, Go, Fail, KillCgroup, Doom, leaseVars, kernelVars
<1>20. ASSUME NEW a \in Attempts, PollCgroup(a) PROVE TypeOK'
  BY <1>20 DEF Inv, TypeOK, CandidatePhase, Steps, Setup, Timed, Guards,
    PollCgroup, Go, Fail, Doom, Populated, leaseVars, kernelVars
<1>21. ASSUME NEW a \in Attempts, DropJail(a) PROVE TypeOK'
  BY <1>21 DEF Inv, TypeOK, CandidatePhase, Steps, Setup, Timed, Guards,
    DropJail, RemoveJail, leaseVars, kernelVars
<1>22. ASSUME NEW a \in Attempts, DropLease(a) PROVE TypeOK'
  BY <1>22 DEF Inv, TypeOK, CandidatePhase, Steps, Setup, Timed, Guards,
    DropLease, leaseVars, kernelVars, OwnState
<1>23. ASSUME NEW a \in Attempts, Return(a) PROVE TypeOK'
  BY <1>23 DEF Inv, TypeOK, CandidatePhase, Steps, Setup, Timed, Guards,
    Return, Go, Fail, Forget, leaseVars, kernelVars
<1>24. ASSUME NEW a \in Attempts, JailerCgroup(a) PROVE TypeOK'
  BY <1>24 DEF Inv, TypeOK, CandidatePhase, Steps, Setup, Timed, Guards,
    JailerCgroup, leaseVars, kernelVars
<1>25. ASSUME NEW a \in Attempts, JailerFork(a) PROVE TypeOK'
  BY <1>25 DEF Inv, TypeOK, CandidatePhase, Steps, Setup, Timed, Guards,
    JailerFork, leaseVars, kernelVars
<1>26. ASSUME NEW a \in Attempts, JailerExit(a) PROVE TypeOK'
  BY <1>26 DEF Inv, TypeOK, CandidatePhase, Steps, Setup, Timed, Guards,
    JailerExit, leaseVars, kernelVars
<1>27. ASSUME NEW a \in Attempts, VmmMove(a) PROVE TypeOK'
  BY <1>27 DEF Inv, TypeOK, CandidatePhase, Steps, Setup, Timed, Guards,
    VmmMove, leaseVars, kernelVars
<1>28. ASSUME NEW a \in Attempts, VmmWrites(a) PROVE TypeOK'
  BY <1>28, ZenonT(60) DEF Inv, TypeOK, CandidatePhase, Steps, Setup, Timed, Guards,
    VmmWrites, leaseVars, kernelVars
<1>29. ASSUME NEW a \in Attempts, Expire(a) PROVE TypeOK'
  BY <1>29 DEF Inv, TypeOK, CandidatePhase, Steps, Setup, Timed, Guards,
    Expire, leaseVars, kernelVars
<1>30. ASSUME NEW a \in Attempts, IoError(a) PROVE TypeOK'
  BY <1>30 DEF Inv, TypeOK, CandidatePhase, Steps, Setup, Timed, Guards,
    IoError, Go, Fail, leaseVars, kernelVars
<1>31. ASSUME NEW a \in Attempts, Crash(a) PROVE TypeOK'
  BY <1>31 DEF Inv, TypeOK, CandidatePhase, Steps, Setup, Timed, Guards,
    Crash, Forget, leaseVars, kernelVars
<1>32. CASE UNCHANGED vars
  BY <1>32 DEF Inv, TypeOK, CandidatePhase, Steps, Setup, Timed, Guards, vars, UidHasLiveProcess
<1>33. ASSUME NEW a \in Attempts, Disown(a) PROVE TypeOK'
  BY <1>33 DEF Inv, TypeOK, CandidatePhase, Steps, Setup, Timed, Guards,
    Disown, Go, Fail, leaseVars, kernelVars
<1> QED
    BY <1>1, <1>2, <1>3, <1>4, <1>5, <1>6, <1>7, <1>8, <1>9, <1>10, <1>11,
    <1>12, <1>13, <1>14, <1>15, <1>16, <1>17, <1>18, <1>19, <1>20, <1>21,
    <1>22, <1>23, <1>24, <1>25, <1>26, <1>27, <1>28, <1>29, <1>30, <1>31,
    <1>32, <1>33 DEF Next, Launcher, Kernel

\* The guards of a launcher keep describing its lease file and its processes,
\* also while other launchers create and remove lease files.
LEMMA OwnStep ==
    ASSUME Inv, [Next]_vars PROVE \A b \in Attempts : OwnState(b)'
<1> USE LauncherAssumption
<1>1. ASSUME NEW a \in Attempts, Begin(a) PROVE \A b \in Attempts : OwnState(b)'
  BY <1>1 DEF Inv, TypeOK, OwnState, Setup, Timed, Running, Begin, Go, Fail,
    leaseVars, kernelVars
<1>2. ASSUME NEW a \in Attempts, NEW u \in Uids, Probe(a, u) PROVE \A b \in Attempts : OwnState(b)'
  BY <1>2 DEF Inv, TypeOK, OwnState, Setup, Timed, Running, Probe, Go, Fail,
    UidHasLiveProcess, leaseVars, kernelVars
<1>3. ASSUME NEW a \in Attempts, Exhausted(a) PROVE \A b \in Attempts : OwnState(b)'
  BY <1>3 DEF Inv, TypeOK, OwnState, Setup, Timed, Running, Exhausted, Go,
    Fail, leaseVars, kernelVars
<1>4. ASSUME NEW a \in Attempts, Create(a) PROVE \A b \in Attempts : OwnState(b)'
  BY <1>4 DEF Inv, TypeOK, OwnState, Setup, Timed, Running, Create, Go, Fail,
    leaseVars, kernelVars
<1>5. ASSUME NEW a \in Attempts, Recheck(a) PROVE \A b \in Attempts : OwnState(b)'
  BY <1>5 DEF Inv, TypeOK, OwnState, Setup, Timed, Running, Recheck, Go,
    Fail, UidHasLiveProcess, leaseVars, kernelVars
<1>6. ASSUME NEW a \in Attempts, PrepareJail(a) PROVE \A b \in Attempts : OwnState(b)'
  BY <1>6 DEF Inv, TypeOK, OwnState, Setup, Timed, Running, PrepareJail, Go,
    Fail, leaseVars, kernelVars
<1>7. ASSUME NEW a \in Attempts, Stage(a) PROVE \A b \in Attempts : OwnState(b)'
  BY <1>7 DEF Inv, TypeOK, OwnState, Setup, Timed, Running, Stage, Go, Fail,
    leaseVars, kernelVars
<1>8. ASSUME NEW a \in Attempts, Spawn(a) PROVE \A b \in Attempts : OwnState(b)'
  <2> SUFFICES ASSUME NEW b \in Attempts PROVE OwnState(b)'
    OBVIOUS
  <2>1. CASE b # a
    BY <1>8, <2>1 DEF Inv, TypeOK, OwnState, Spawn, Go, Fail, leaseVars, Setup, Timed,
      Running
  <2>2. CASE b = a /\ Go(a, "wait")
    BY <1>8, <2>2 DEF Inv, TypeOK, OwnState, Spawn, Go, Fail, leaseVars, Setup, Timed,
      Running
  <2>3. CASE b = a /\ Go(a, "disown")
    BY <1>8, <2>3 DEF Inv, TypeOK, OwnState, Spawn, Go, Fail, leaseVars, Setup, Timed,
      Running
  <2>4. CASE b = a /\ Fail(a)
    BY <1>8, <2>4 DEF Inv, TypeOK, OwnState, Spawn, Go, Fail, leaseVars, Setup, Timed,
      Running
  <2> QED
    BY <1>8, <2>1, <2>2, <2>3, <2>4 DEF Spawn
<1>9. ASSUME NEW a \in Attempts, WaitBounded(a) PROVE \A b \in Attempts : OwnState(b)'
  BY <1>9 DEF Inv, TypeOK, OwnState, Setup, Timed, Running, WaitBounded, Go,
    Fail, leaseVars, kernelVars
<1>10. ASSUME NEW a \in Attempts, CheckPopulated(a) PROVE \A b \in Attempts : OwnState(b)'
  BY <1>10 DEF Inv, TypeOK, OwnState, Setup, Timed, Running, CheckPopulated,
    Go, Fail, Populated, leaseVars, kernelVars
<1>11. ASSUME NEW a \in Attempts, CanaryWait(a) PROVE \A b \in Attempts : OwnState(b)'
  BY <1>11 DEF Inv, TypeOK, OwnState, Setup, Timed, Running, CanaryWait, Go,
    Fail, Populated, leaseVars, kernelVars
<1>12. ASSUME NEW a \in Attempts, CanaryClean(a) PROVE \A b \in Attempts : OwnState(b)'
  BY <1>12 DEF Inv, TypeOK, OwnState, Setup, Timed, Running, CanaryClean, RemoveJail, Go,
    Fail, leaseVars, kernelVars
<1>13. ASSUME NEW a \in Attempts, Contain(a) PROVE \A b \in Attempts : OwnState(b)'
  BY <1>13 DEF Inv, TypeOK, OwnState, Setup, Timed, Running, Contain, Go,
    Fail, leaseVars, kernelVars
<1>14. ASSUME NEW a \in Attempts, Scan(a) PROVE \A b \in Attempts : OwnState(b)'
  BY <1>14 DEF Inv, TypeOK, OwnState, Setup, Timed, Running, Scan, Go, Fail,
    KillCgroup, Doom, ParseCandidateGuestResult, leaseVars, kernelVars
<1>15. ASSUME NEW a \in Attempts, Events(a) PROVE \A b \in Attempts : OwnState(b)'
  BY <1>15 DEF Inv, TypeOK, OwnState, Setup, Timed, Running, Events, Go,
    Fail, KillCgroup, Doom, Populated, leaseVars, kernelVars
<1>16. ASSUME NEW a \in Attempts, Capture(a) PROVE \A b \in Attempts : OwnState(b)'
  BY <1>16 DEF Inv, TypeOK, OwnState, Setup, Timed, Running, Capture, Go,
    Fail, ParseCandidateGuestResult, leaseVars, kernelVars
<1>17. ASSUME NEW a \in Attempts, Observe(a) PROVE \A b \in Attempts : OwnState(b)'
  BY <1>17 DEF Inv, TypeOK, OwnState, Setup, Timed, Running, Observe, RemoveJail, Go,
    Fail, Populated, leaseVars, kernelVars
<1>18. ASSUME NEW a \in Attempts, Residue(a) PROVE \A b \in Attempts : OwnState(b)'
  BY <1>18 DEF Inv, TypeOK, OwnState, Setup, Timed, Running, Residue, Go,
    Fail, UidHasLiveProcess, leaseVars, kernelVars
<1>19. ASSUME NEW a \in Attempts, DropCgroup(a) PROVE \A b \in Attempts : OwnState(b)'
  BY <1>19 DEF Inv, TypeOK, OwnState, Setup, Timed, Running, DropCgroup, Go,
    Fail, KillCgroup, Doom, leaseVars, kernelVars
<1>20. ASSUME NEW a \in Attempts, PollCgroup(a) PROVE \A b \in Attempts : OwnState(b)'
  BY <1>20 DEF Inv, TypeOK, OwnState, Setup, Timed, Running, PollCgroup, Go,
    Fail, Doom, Populated, leaseVars, kernelVars
<1>21. ASSUME NEW a \in Attempts, DropJail(a) PROVE \A b \in Attempts : OwnState(b)'
  BY <1>21 DEF Inv, TypeOK, OwnState, Setup, Timed, Running, DropJail, RemoveJail,
    leaseVars, kernelVars
<1>22. ASSUME NEW a \in Attempts, DropLease(a) PROVE \A b \in Attempts : OwnState(b)'
  BY <1>22 DEF Inv, TypeOK, OwnState, Setup, Timed, Running, DropLease,
    leaseVars, kernelVars
<1>23. ASSUME NEW a \in Attempts, Return(a) PROVE \A b \in Attempts : OwnState(b)'
  BY <1>23 DEF Inv, TypeOK, OwnState, Setup, Timed, Running, Return, Go,
    Fail, Forget, leaseVars, kernelVars
<1>24. ASSUME NEW a \in Attempts, JailerCgroup(a) PROVE \A b \in Attempts : OwnState(b)'
  BY <1>24 DEF Inv, TypeOK, OwnState, Setup, Timed, Running, JailerCgroup,
    leaseVars, kernelVars
<1>25. ASSUME NEW a \in Attempts, JailerFork(a) PROVE \A b \in Attempts : OwnState(b)'
  BY <1>25 DEF Inv, TypeOK, OwnState, Setup, Timed, Running, JailerFork,
    leaseVars, kernelVars
<1>26. ASSUME NEW a \in Attempts, JailerExit(a) PROVE \A b \in Attempts : OwnState(b)'
  BY <1>26 DEF Inv, TypeOK, OwnState, Setup, Timed, Running, JailerExit,
    leaseVars, kernelVars
<1>27. ASSUME NEW a \in Attempts, VmmMove(a) PROVE \A b \in Attempts : OwnState(b)'
  BY <1>27 DEF Inv, TypeOK, OwnState, Setup, Timed, Running, VmmMove,
    leaseVars, kernelVars
<1>28. ASSUME NEW a \in Attempts, VmmWrites(a) PROVE \A b \in Attempts : OwnState(b)'
  BY <1>28 DEF Inv, TypeOK, OwnState, Setup, Timed, Running, VmmWrites,
    leaseVars, kernelVars
<1>29. ASSUME NEW a \in Attempts, Expire(a) PROVE \A b \in Attempts : OwnState(b)'
  BY <1>29 DEF Inv, TypeOK, OwnState, Setup, Timed, Running, Expire,
    leaseVars, kernelVars
<1>30. ASSUME NEW a \in Attempts, IoError(a) PROVE \A b \in Attempts : OwnState(b)'
  BY <1>30 DEF Inv, TypeOK, OwnState, Setup, Timed, Running, IoError, Go,
    Fail, leaseVars, kernelVars
<1>31. ASSUME NEW a \in Attempts, Crash(a) PROVE \A b \in Attempts : OwnState(b)'
  BY <1>31 DEF Inv, TypeOK, OwnState, Setup, Timed, Running, Crash, Forget,
    leaseVars, kernelVars
<1>32. CASE UNCHANGED vars
  BY <1>32 DEF Inv, TypeOK, OwnState, Setup, Timed, Running, vars, UidHasLiveProcess
<1>33. ASSUME NEW a \in Attempts, Disown(a) PROVE \A b \in Attempts : OwnState(b)'
  BY <1>33 DEF Inv, TypeOK, OwnState, Setup, Timed, Running, Disown, Go,
    Fail, leaseVars, kernelVars
<1> QED
    BY <1>1, <1>2, <1>3, <1>4, <1>5, <1>6, <1>7, <1>8, <1>9, <1>10, <1>11,
    <1>12, <1>13, <1>14, <1>15, <1>16, <1>17, <1>18, <1>19, <1>20, <1>21,
    <1>22, <1>23, <1>24, <1>25, <1>26, <1>27, <1>28, <1>29, <1>30, <1>31,
    <1>32, <1>33 DEF Next, Launcher, Kernel

\* What a launch has established on its way to Ok stays true.
LEMMA ProgressStep ==
    ASSUME Inv, [Next]_vars PROVE \A b \in Attempts : Progressed(b)'
<1> USE LauncherAssumption
<1>1. ASSUME NEW a \in Attempts, Begin(a) PROVE \A b \in Attempts : Progressed(b)'
  BY <1>1 DEF Inv, TypeOK, OwnState, Progressed, Setup, Timed, Running,
    Begin, Go, Fail, leaseVars, kernelVars
<1>2. ASSUME NEW a \in Attempts, NEW u \in Uids, Probe(a, u) PROVE \A b \in Attempts : Progressed(b)'
  BY <1>2 DEF Inv, TypeOK, OwnState, Progressed, Setup, Timed, Running,
    Probe, Go, Fail, UidHasLiveProcess, leaseVars, kernelVars
<1>3. ASSUME NEW a \in Attempts, Exhausted(a) PROVE \A b \in Attempts : Progressed(b)'
  BY <1>3 DEF Inv, TypeOK, OwnState, Progressed, Setup, Timed, Running,
    Exhausted, Go, Fail, leaseVars, kernelVars
<1>4. ASSUME NEW a \in Attempts, Create(a) PROVE \A b \in Attempts : Progressed(b)'
  BY <1>4 DEF Inv, TypeOK, OwnState, Progressed, Setup, Timed, Running,
    Create, Go, Fail, leaseVars, kernelVars
<1>5. ASSUME NEW a \in Attempts, Recheck(a) PROVE \A b \in Attempts : Progressed(b)'
  BY <1>5 DEF Inv, TypeOK, OwnState, Progressed, Setup, Timed, Running,
    Recheck, Go, Fail, UidHasLiveProcess, leaseVars, kernelVars
<1>6. ASSUME NEW a \in Attempts, PrepareJail(a) PROVE \A b \in Attempts : Progressed(b)'
  BY <1>6 DEF Inv, TypeOK, OwnState, Progressed, Setup, Timed, Running,
    PrepareJail, Go, Fail, leaseVars, kernelVars
<1>7. ASSUME NEW a \in Attempts, Stage(a) PROVE \A b \in Attempts : Progressed(b)'
  BY <1>7 DEF Inv, TypeOK, OwnState, Progressed, Setup, Timed, Running,
    Stage, Go, Fail, leaseVars, kernelVars
<1>8. ASSUME NEW a \in Attempts, Spawn(a) PROVE \A b \in Attempts : Progressed(b)'
  BY <1>8 DEF Inv, TypeOK, OwnState, Progressed, Setup, Timed, Running,
    Spawn, Go, Fail, leaseVars, kernelVars
<1>9. ASSUME NEW a \in Attempts, WaitBounded(a) PROVE \A b \in Attempts : Progressed(b)'
  BY <1>9 DEF Inv, TypeOK, OwnState, Progressed, Setup, Timed, Running,
    WaitBounded, Go, Fail, leaseVars, kernelVars
<1>10. ASSUME NEW a \in Attempts, CheckPopulated(a) PROVE \A b \in Attempts : Progressed(b)'
  BY <1>10 DEF Inv, TypeOK, OwnState, Progressed, Setup, Timed, Running,
    CheckPopulated, Go, Fail, Populated, leaseVars, kernelVars
<1>11. ASSUME NEW a \in Attempts, CanaryWait(a) PROVE \A b \in Attempts : Progressed(b)'
  BY <1>11 DEF Inv, TypeOK, OwnState, Progressed, Setup, Timed, Running,
    CanaryWait, Go, Fail, Populated, leaseVars, kernelVars
<1>12. ASSUME NEW a \in Attempts, CanaryClean(a) PROVE \A b \in Attempts : Progressed(b)'
  BY <1>12 DEF Inv, TypeOK, OwnState, Progressed, Setup, Timed, Running,
    CanaryClean, RemoveJail, Go, Fail, leaseVars, kernelVars
<1>13. ASSUME NEW a \in Attempts, Contain(a) PROVE \A b \in Attempts : Progressed(b)'
  BY <1>13 DEF Inv, TypeOK, OwnState, Progressed, Setup, Timed, Running,
    Contain, Go, Fail, leaseVars, kernelVars
<1>14. ASSUME NEW a \in Attempts, Scan(a) PROVE \A b \in Attempts : Progressed(b)'
  BY <1>14 DEF Inv, TypeOK, OwnState, Progressed, Setup, Timed, Running,
    Scan, Go, Fail, KillCgroup, Doom, ParseCandidateGuestResult, leaseVars,
    kernelVars
<1>15. ASSUME NEW a \in Attempts, Events(a) PROVE \A b \in Attempts : Progressed(b)'
  BY <1>15 DEF Inv, TypeOK, OwnState, Progressed, Setup, Timed, Running,
    Events, Go, Fail, KillCgroup, Doom, Populated, leaseVars, kernelVars
<1>16. ASSUME NEW a \in Attempts, Capture(a) PROVE \A b \in Attempts : Progressed(b)'
  BY <1>16 DEF Inv, TypeOK, OwnState, Progressed, Setup, Timed, Running,
    Capture, Go, Fail, ParseCandidateGuestResult, leaseVars, kernelVars
<1>17. ASSUME NEW a \in Attempts, Observe(a) PROVE \A b \in Attempts : Progressed(b)'
  BY <1>17 DEF Inv, TypeOK, OwnState, Progressed, Setup, Timed, Running,
    Observe, RemoveJail, Go, Fail, Populated, leaseVars, kernelVars
<1>18. ASSUME NEW a \in Attempts, Residue(a) PROVE \A b \in Attempts : Progressed(b)'
  BY <1>18 DEF Inv, TypeOK, OwnState, Progressed, Setup, Timed, Running,
    Residue, Go, Fail, UidHasLiveProcess, leaseVars, kernelVars
<1>19. ASSUME NEW a \in Attempts, DropCgroup(a) PROVE \A b \in Attempts : Progressed(b)'
  BY <1>19 DEF Inv, TypeOK, OwnState, Progressed, Setup, Timed, Running,
    DropCgroup, Go, Fail, KillCgroup, Doom, leaseVars, kernelVars
<1>20. ASSUME NEW a \in Attempts, PollCgroup(a) PROVE \A b \in Attempts : Progressed(b)'
  BY <1>20 DEF Inv, TypeOK, OwnState, Progressed, Setup, Timed, Running,
    PollCgroup, Go, Fail, Doom, Populated, leaseVars, kernelVars
<1>21. ASSUME NEW a \in Attempts, DropJail(a) PROVE \A b \in Attempts : Progressed(b)'
  BY <1>21 DEF Inv, TypeOK, OwnState, Progressed, Setup, Timed, Running,
    DropJail, RemoveJail, leaseVars, kernelVars
<1>22. ASSUME NEW a \in Attempts, DropLease(a) PROVE \A b \in Attempts : Progressed(b)'
  BY <1>22 DEF Inv, TypeOK, OwnState, Progressed, Setup, Timed, Running,
    DropLease, leaseVars, kernelVars
<1>23. ASSUME NEW a \in Attempts, Return(a) PROVE \A b \in Attempts : Progressed(b)'
  BY <1>23 DEF Inv, TypeOK, OwnState, Progressed, Setup, Timed, Running,
    Return, Go, Fail, Forget, leaseVars, kernelVars
<1>24. ASSUME NEW a \in Attempts, JailerCgroup(a) PROVE \A b \in Attempts : Progressed(b)'
  BY <1>24 DEF Inv, TypeOK, OwnState, Progressed, Setup, Timed, Running,
    JailerCgroup, leaseVars, kernelVars
<1>25. ASSUME NEW a \in Attempts, JailerFork(a) PROVE \A b \in Attempts : Progressed(b)'
  BY <1>25 DEF Inv, TypeOK, OwnState, Progressed, Setup, Timed, Running,
    JailerFork, leaseVars, kernelVars
<1>26. ASSUME NEW a \in Attempts, JailerExit(a) PROVE \A b \in Attempts : Progressed(b)'
  BY <1>26 DEF Inv, TypeOK, OwnState, Progressed, Setup, Timed, Running,
    JailerExit, leaseVars, kernelVars
<1>27. ASSUME NEW a \in Attempts, VmmMove(a) PROVE \A b \in Attempts : Progressed(b)'
  BY <1>27 DEF Inv, TypeOK, OwnState, Progressed, Setup, Timed, Running,
    VmmMove, leaseVars, kernelVars
<1>28. ASSUME NEW a \in Attempts, VmmWrites(a) PROVE \A b \in Attempts : Progressed(b)'
  BY <1>28 DEF Inv, TypeOK, OwnState, Progressed, Setup, Timed, Running,
    VmmWrites, leaseVars, kernelVars
<1>29. ASSUME NEW a \in Attempts, Expire(a) PROVE \A b \in Attempts : Progressed(b)'
  BY <1>29 DEF Inv, TypeOK, OwnState, Progressed, Setup, Timed, Running,
    Expire, leaseVars, kernelVars
<1>30. ASSUME NEW a \in Attempts, IoError(a) PROVE \A b \in Attempts : Progressed(b)'
  BY <1>30 DEF Inv, TypeOK, OwnState, Progressed, Setup, Timed, Running,
    IoError, Go, Fail, leaseVars, kernelVars
<1>31. ASSUME NEW a \in Attempts, Crash(a) PROVE \A b \in Attempts : Progressed(b)'
  BY <1>31 DEF Inv, TypeOK, OwnState, Progressed, Setup, Timed, Running,
    Crash, Forget, leaseVars, kernelVars
<1>32. CASE UNCHANGED vars
  BY <1>32 DEF Inv, TypeOK, OwnState, Progressed, Setup, Timed, Running, vars, UidHasLiveProcess
<1>33. ASSUME NEW a \in Attempts, Disown(a) PROVE \A b \in Attempts : Progressed(b)'
  BY <1>33 DEF Inv, TypeOK, OwnState, Progressed, Setup, Timed, Running,
    Disown, Go, Fail, leaseVars, kernelVars
<1> QED
    BY <1>1, <1>2, <1>3, <1>4, <1>5, <1>6, <1>7, <1>8, <1>9, <1>10, <1>11,
    <1>12, <1>13, <1>14, <1>15, <1>16, <1>17, <1>18, <1>19, <1>20, <1>21,
    <1>22, <1>23, <1>24, <1>25, <1>26, <1>27, <1>28, <1>29, <1>30, <1>31,
    <1>32, <1>33 DEF Next, Launcher, Kernel

\* A lease keeps foreign processes off its UID: only Recheck grants one, after a
\* look at /proc, and only a process whose launcher holds a lease gains a UID.
LEMMA ShieldStep ==
    ASSUME Inv, [Next]_vars PROVE LeaseShields' /\ UidExclusive'
<1> USE LauncherAssumption
<1>1. ASSUME NEW a \in Attempts, Begin(a) PROVE LeaseShields' /\ UidExclusive'
  BY <1>1 DEF Inv, TypeOK, OwnState, LeaseShields, UidExclusive, Setup,
    Timed, Running, Listed, Begin, Go, Fail, leaseVars, kernelVars
<1>2. ASSUME NEW a \in Attempts, NEW u \in Uids, Probe(a, u) PROVE LeaseShields' /\ UidExclusive'
  <2>1. "lease" \notin guards[a] /\ vmm[a] \notin Listed
    BY <1>2 DEF Inv, TypeOK, OwnState, Probe, Setup, Listed
  <2>2. \A b \in Attempts : b # a => uid'[b] = uid[b]
    BY <1>2 DEF Inv, TypeOK, Probe
  <2> QED
    BY <1>2, <2>1, <2>2 DEF Inv, LeaseShields, UidExclusive, Probe, kernelVars
<1>3. ASSUME NEW a \in Attempts, Exhausted(a) PROVE LeaseShields' /\ UidExclusive'
  BY <1>3 DEF Inv, TypeOK, OwnState, LeaseShields, UidExclusive, Setup,
    Timed, Running, Listed, Exhausted, Go, Fail, leaseVars, kernelVars
<1>4. ASSUME NEW a \in Attempts, Create(a) PROVE LeaseShields' /\ UidExclusive'
  BY <1>4 DEF Inv, TypeOK, OwnState, LeaseShields, UidExclusive, Setup,
    Timed, Running, Listed, Create, Go, Fail, leaseVars, kernelVars
<1>5. ASSUME NEW a \in Attempts, Recheck(a) PROVE LeaseShields' /\ UidExclusive'
  BY <1>5 DEF Inv, TypeOK, OwnState, LeaseShields, UidExclusive, Setup,
    Timed, Running, Listed, Recheck, Go, Fail, UidHasLiveProcess, leaseVars,
    kernelVars
<1>6. ASSUME NEW a \in Attempts, PrepareJail(a) PROVE LeaseShields' /\ UidExclusive'
  <2>1. \A b \in Attempts : "lease" \in guards'[b] => "lease" \in guards[b]
    BY <1>6 DEF Inv, TypeOK, OwnState, PrepareJail, Timed
  <2> QED
    BY <1>6, <2>1 DEF Inv, LeaseShields, UidExclusive, PrepareJail, leaseVars, kernelVars
<1>7. ASSUME NEW a \in Attempts, Stage(a) PROVE LeaseShields' /\ UidExclusive'
  <2>1. \A b \in Attempts : "lease" \in guards'[b] => "lease" \in guards[b]
    BY <1>7 DEF Inv, TypeOK, OwnState, Stage, Timed
  <2> QED
    BY <1>7, <2>1 DEF Inv, LeaseShields, UidExclusive, Stage, leaseVars, kernelVars
<1>8. ASSUME NEW a \in Attempts, Spawn(a) PROVE LeaseShields' /\ UidExclusive'
  BY <1>8 DEF Inv, TypeOK, OwnState, LeaseShields, UidExclusive, Setup,
    Timed, Running, Listed, Spawn, Go, Fail, leaseVars, kernelVars
<1>9. ASSUME NEW a \in Attempts, WaitBounded(a) PROVE LeaseShields' /\ UidExclusive'
  BY <1>9 DEF Inv, TypeOK, OwnState, LeaseShields, UidExclusive, Setup,
    Timed, Running, Listed, WaitBounded, Go, Fail, leaseVars, kernelVars
<1>10. ASSUME NEW a \in Attempts, CheckPopulated(a) PROVE LeaseShields' /\ UidExclusive'
  BY <1>10 DEF Inv, TypeOK, OwnState, LeaseShields, UidExclusive, Setup,
    Timed, Running, Listed, CheckPopulated, Go, Fail, Populated, leaseVars,
    kernelVars
<1>11. ASSUME NEW a \in Attempts, CanaryWait(a) PROVE LeaseShields' /\ UidExclusive'
  BY <1>11 DEF Inv, TypeOK, OwnState, LeaseShields, UidExclusive, Setup,
    Timed, Running, Listed, CanaryWait, Go, Fail, Populated, leaseVars,
    kernelVars
<1>12. ASSUME NEW a \in Attempts, CanaryClean(a) PROVE LeaseShields' /\ UidExclusive'
  <2>1. \A b \in Attempts : "lease" \in guards'[b] => "lease" \in guards[b]
    BY <1>12 DEF Inv, TypeOK, OwnState, CanaryClean, RemoveJail, Timed
  <2> QED
    BY <1>12, <2>1 DEF Inv, LeaseShields, UidExclusive, CanaryClean, RemoveJail, leaseVars
<1>13. ASSUME NEW a \in Attempts, Contain(a) PROVE LeaseShields' /\ UidExclusive'
  BY <1>13 DEF Inv, TypeOK, OwnState, LeaseShields, UidExclusive, Setup,
    Timed, Running, Listed, Contain, Go, Fail, leaseVars, kernelVars
<1>14. ASSUME NEW a \in Attempts, Scan(a) PROVE LeaseShields' /\ UidExclusive'
  BY <1>14, SMTT(30) DEF Inv, TypeOK, OwnState, LeaseShields, UidExclusive, Setup,
    Timed, Running, Listed, Scan, Go, Fail, KillCgroup, Doom,
    ParseCandidateGuestResult, leaseVars, kernelVars
<1>15. ASSUME NEW a \in Attempts, Events(a) PROVE LeaseShields' /\ UidExclusive'
  BY <1>15 DEF Inv, TypeOK, OwnState, LeaseShields, UidExclusive, Setup,
    Timed, Running, Listed, Events, Go, Fail, KillCgroup, Doom, Populated,
    leaseVars, kernelVars
<1>16. ASSUME NEW a \in Attempts, Capture(a) PROVE LeaseShields' /\ UidExclusive'
  BY <1>16 DEF Inv, TypeOK, OwnState, LeaseShields, UidExclusive, Setup,
    Timed, Running, Listed, Capture, Go, Fail, ParseCandidateGuestResult,
    leaseVars, kernelVars
<1>17. ASSUME NEW a \in Attempts, Observe(a) PROVE LeaseShields' /\ UidExclusive'
  <2>1. \A b \in Attempts : "lease" \in guards'[b] => "lease" \in guards[b]
    BY <1>17 DEF Inv, TypeOK, OwnState, Observe, RemoveJail, Timed
  <2> QED
    BY <1>17, <2>1 DEF Inv, LeaseShields, UidExclusive, Observe, RemoveJail, leaseVars, kernelVars
<1>18. ASSUME NEW a \in Attempts, Residue(a) PROVE LeaseShields' /\ UidExclusive'
  BY <1>18 DEF Inv, TypeOK, OwnState, LeaseShields, UidExclusive, Setup,
    Timed, Running, Listed, Residue, Go, Fail, UidHasLiveProcess, leaseVars,
    kernelVars
<1>19. ASSUME NEW a \in Attempts, DropCgroup(a) PROVE LeaseShields' /\ UidExclusive'
  BY <1>19 DEF Inv, TypeOK, OwnState, LeaseShields, UidExclusive, Setup,
    Timed, Running, Listed, DropCgroup, Go, Fail, KillCgroup, Doom,
    leaseVars, kernelVars
<1>20. ASSUME NEW a \in Attempts, PollCgroup(a) PROVE LeaseShields' /\ UidExclusive'
  BY <1>20 DEF Inv, TypeOK, OwnState, LeaseShields, UidExclusive, Setup,
    Timed, Running, Listed, PollCgroup, Go, Fail, Doom, Populated, leaseVars,
    kernelVars
<1>21. ASSUME NEW a \in Attempts, DropJail(a) PROVE LeaseShields' /\ UidExclusive'
  BY <1>21 DEF Inv, TypeOK, OwnState, LeaseShields, UidExclusive, Setup,
    Timed, Running, Listed, DropJail, RemoveJail, leaseVars, kernelVars
<1>22. ASSUME NEW a \in Attempts, DropLease(a) PROVE LeaseShields' /\ UidExclusive'
  BY <1>22 DEF Inv, TypeOK, OwnState, LeaseShields, UidExclusive, Setup,
    Timed, Running, Listed, DropLease, leaseVars, kernelVars
<1>23. ASSUME NEW a \in Attempts, Return(a) PROVE LeaseShields' /\ UidExclusive'
  BY <1>23 DEF Inv, TypeOK, OwnState, LeaseShields, UidExclusive, Setup,
    Timed, Running, Listed, Return, Go, Fail, Forget, leaseVars, kernelVars
<1>24. ASSUME NEW a \in Attempts, JailerCgroup(a) PROVE LeaseShields' /\ UidExclusive'
  BY <1>24 DEF Inv, TypeOK, OwnState, LeaseShields, UidExclusive, Setup,
    Timed, Running, Listed, JailerCgroup, leaseVars, kernelVars
<1>25. ASSUME NEW a \in Attempts, JailerFork(a) PROVE LeaseShields' /\ UidExclusive'
  BY <1>25 DEF Inv, TypeOK, OwnState, LeaseShields, UidExclusive, Setup,
    Timed, Running, Listed, JailerFork, leaseVars, kernelVars
<1>26. ASSUME NEW a \in Attempts, JailerExit(a) PROVE LeaseShields' /\ UidExclusive'
  BY <1>26 DEF Inv, TypeOK, OwnState, LeaseShields, UidExclusive, Setup,
    Timed, Running, Listed, JailerExit, leaseVars, kernelVars
<1>27. ASSUME NEW a \in Attempts, VmmMove(a) PROVE LeaseShields' /\ UidExclusive'
  BY <1>27 DEF Inv, TypeOK, OwnState, LeaseShields, UidExclusive, Setup,
    Timed, Running, Listed, VmmMove, leaseVars, kernelVars
<1>28. ASSUME NEW a \in Attempts, VmmWrites(a) PROVE LeaseShields' /\ UidExclusive'
  BY <1>28 DEF Inv, TypeOK, OwnState, LeaseShields, UidExclusive, Setup,
    Timed, Running, Listed, VmmWrites, leaseVars, kernelVars
<1>29. ASSUME NEW a \in Attempts, Expire(a) PROVE LeaseShields' /\ UidExclusive'
  BY <1>29 DEF Inv, TypeOK, OwnState, LeaseShields, UidExclusive, Setup,
    Timed, Running, Listed, Expire, leaseVars, kernelVars
<1>30. ASSUME NEW a \in Attempts, IoError(a) PROVE LeaseShields' /\ UidExclusive'
  BY <1>30 DEF Inv, TypeOK, OwnState, LeaseShields, UidExclusive, Setup,
    Timed, Running, Listed, IoError, Go, Fail, leaseVars, kernelVars
<1>31. ASSUME NEW a \in Attempts, Crash(a) PROVE LeaseShields' /\ UidExclusive'
  BY <1>31 DEF Inv, TypeOK, OwnState, LeaseShields, UidExclusive, Setup,
    Timed, Running, Listed, Crash, Forget, leaseVars, kernelVars
<1>32. CASE UNCHANGED vars
  BY <1>32 DEF Inv, TypeOK, OwnState, LeaseShields, UidExclusive, Setup, Timed, Running, Listed, vars, UidHasLiveProcess
<1>33. ASSUME NEW a \in Attempts, Disown(a) PROVE LeaseShields' /\ UidExclusive'
  BY <1>33 DEF Inv, TypeOK, OwnState, LeaseShields, UidExclusive, Setup,
    Timed, Running, Listed, Disown, Go, Fail, leaseVars, kernelVars
<1> QED
    BY <1>1, <1>2, <1>3, <1>4, <1>5, <1>6, <1>7, <1>8, <1>9, <1>10, <1>11,
    <1>12, <1>13, <1>14, <1>15, <1>16, <1>17, <1>18, <1>19, <1>20, <1>21,
    <1>22, <1>23, <1>24, <1>25, <1>26, <1>27, <1>28, <1>29, <1>30, <1>31,
    <1>32, <1>33 DEF Next, Launcher, Kernel

\* Nothing that an Ok launch removed comes back.
LEMMA CleanStep ==
    ASSUME Inv, [Next]_vars PROVE CleanSuccess'
<1> USE LauncherAssumption
<1>1. ASSUME NEW a \in Attempts, Begin(a) PROVE CleanSuccess'
  BY <1>1 DEF Inv, TypeOK, OwnState, Progressed, CleanSuccess, Setup,
    Running, Listed, Begin, Go, Fail, leaseVars, kernelVars
<1>2. ASSUME NEW a \in Attempts, NEW u \in Uids, Probe(a, u) PROVE CleanSuccess'
  BY <1>2 DEF Inv, TypeOK, OwnState, Progressed, CleanSuccess, Setup,
    Running, Listed, Probe, Go, Fail, UidHasLiveProcess, leaseVars, kernelVars
<1>3. ASSUME NEW a \in Attempts, Exhausted(a) PROVE CleanSuccess'
  BY <1>3 DEF Inv, TypeOK, OwnState, Progressed, CleanSuccess, Setup,
    Running, Listed, Exhausted, Go, Fail, leaseVars, kernelVars
<1>4. ASSUME NEW a \in Attempts, Create(a) PROVE CleanSuccess'
  BY <1>4 DEF Inv, TypeOK, OwnState, Progressed, CleanSuccess, Setup,
    Running, Listed, Create, Go, Fail, leaseVars, kernelVars
<1>5. ASSUME NEW a \in Attempts, Recheck(a) PROVE CleanSuccess'
  BY <1>5 DEF Inv, TypeOK, OwnState, Progressed, CleanSuccess, Setup,
    Running, Listed, Recheck, Go, Fail, UidHasLiveProcess, leaseVars,
    kernelVars
<1>6. ASSUME NEW a \in Attempts, PrepareJail(a) PROVE CleanSuccess'
  BY <1>6 DEF Inv, TypeOK, OwnState, Progressed, CleanSuccess, Setup,
    Running, Listed, PrepareJail, Go, Fail, leaseVars, kernelVars
<1>7. ASSUME NEW a \in Attempts, Stage(a) PROVE CleanSuccess'
  BY <1>7 DEF Inv, TypeOK, OwnState, Progressed, CleanSuccess, Setup,
    Running, Listed, Stage, Go, Fail, leaseVars, kernelVars
<1>8. ASSUME NEW a \in Attempts, Spawn(a) PROVE CleanSuccess'
  BY <1>8 DEF Inv, TypeOK, OwnState, Progressed, CleanSuccess, Setup,
    Running, Listed, Spawn, Go, Fail, leaseVars, kernelVars
<1>9. ASSUME NEW a \in Attempts, WaitBounded(a) PROVE CleanSuccess'
  BY <1>9 DEF Inv, TypeOK, OwnState, Progressed, CleanSuccess, Setup,
    Running, Listed, WaitBounded, Go, Fail, leaseVars, kernelVars
<1>10. ASSUME NEW a \in Attempts, CheckPopulated(a) PROVE CleanSuccess'
  BY <1>10 DEF Inv, TypeOK, OwnState, Progressed, CleanSuccess, Setup,
    Running, Listed, CheckPopulated, Go, Fail, Populated, leaseVars,
    kernelVars
<1>11. ASSUME NEW a \in Attempts, CanaryWait(a) PROVE CleanSuccess'
  BY <1>11 DEF Inv, TypeOK, OwnState, Progressed, CleanSuccess, Setup,
    Running, Listed, CanaryWait, Go, Fail, Populated, leaseVars, kernelVars
<1>12. ASSUME NEW a \in Attempts, CanaryClean(a) PROVE CleanSuccess'
  BY <1>12 DEF Inv, TypeOK, OwnState, Progressed, CleanSuccess, Setup,
    Running, Listed, CanaryClean, RemoveJail, Go, Fail, leaseVars, kernelVars
<1>13. ASSUME NEW a \in Attempts, Contain(a) PROVE CleanSuccess'
  BY <1>13 DEF Inv, TypeOK, OwnState, Progressed, CleanSuccess, Setup,
    Running, Listed, Contain, Go, Fail, leaseVars, kernelVars
<1>14. ASSUME NEW a \in Attempts, Scan(a) PROVE CleanSuccess'
  BY <1>14 DEF Inv, TypeOK, OwnState, Progressed, CleanSuccess, Setup,
    Running, Listed, Scan, Go, Fail, KillCgroup, Doom,
    ParseCandidateGuestResult, leaseVars, kernelVars
<1>15. ASSUME NEW a \in Attempts, Events(a) PROVE CleanSuccess'
  BY <1>15 DEF Inv, TypeOK, OwnState, Progressed, CleanSuccess, Setup,
    Running, Listed, Events, Go, Fail, KillCgroup, Doom, Populated,
    leaseVars, kernelVars
<1>16. ASSUME NEW a \in Attempts, Capture(a) PROVE CleanSuccess'
  BY <1>16 DEF Inv, TypeOK, OwnState, Progressed, CleanSuccess, Setup,
    Running, Listed, Capture, Go, Fail, ParseCandidateGuestResult, leaseVars,
    kernelVars
<1>17. ASSUME NEW a \in Attempts, Observe(a) PROVE CleanSuccess'
  BY <1>17 DEF Inv, TypeOK, OwnState, Progressed, CleanSuccess, Setup,
    Running, Listed, Observe, RemoveJail, Go, Fail, Populated, leaseVars, kernelVars
<1>18. ASSUME NEW a \in Attempts, Residue(a) PROVE CleanSuccess'
  BY <1>18 DEF Inv, TypeOK, OwnState, Progressed, CleanSuccess, Setup,
    Running, Listed, Residue, Go, Fail, UidHasLiveProcess, leaseVars,
    kernelVars
<1>19. ASSUME NEW a \in Attempts, DropCgroup(a) PROVE CleanSuccess'
  BY <1>19 DEF Inv, TypeOK, OwnState, Progressed, CleanSuccess, Setup,
    Running, Listed, DropCgroup, Go, Fail, KillCgroup, Doom, leaseVars,
    kernelVars
<1>20. ASSUME NEW a \in Attempts, PollCgroup(a) PROVE CleanSuccess'
  BY <1>20 DEF Inv, TypeOK, OwnState, Progressed, CleanSuccess, Setup,
    Running, Listed, PollCgroup, Go, Fail, Doom, Populated, leaseVars,
    kernelVars
<1>21. ASSUME NEW a \in Attempts, DropJail(a) PROVE CleanSuccess'
  BY <1>21 DEF Inv, TypeOK, OwnState, Progressed, CleanSuccess, Setup,
    Running, Listed, DropJail, RemoveJail, leaseVars, kernelVars
<1>22. ASSUME NEW a \in Attempts, DropLease(a) PROVE CleanSuccess'
  BY <1>22 DEF Inv, TypeOK, OwnState, Progressed, CleanSuccess, Setup,
    Running, Listed, DropLease, leaseVars, kernelVars
<1>23. ASSUME NEW a \in Attempts, Return(a) PROVE CleanSuccess'
  BY <1>23 DEF Inv, TypeOK, OwnState, Progressed, CleanSuccess, Setup,
    Running, Listed, Return, Go, Fail, Forget, leaseVars, kernelVars
<1>24. ASSUME NEW a \in Attempts, JailerCgroup(a) PROVE CleanSuccess'
  BY <1>24 DEF Inv, TypeOK, OwnState, Progressed, CleanSuccess, Setup,
    Running, Listed, JailerCgroup, leaseVars, kernelVars
<1>25. ASSUME NEW a \in Attempts, JailerFork(a) PROVE CleanSuccess'
  BY <1>25 DEF Inv, TypeOK, OwnState, Progressed, CleanSuccess, Setup,
    Running, Listed, JailerFork, leaseVars, kernelVars
<1>26. ASSUME NEW a \in Attempts, JailerExit(a) PROVE CleanSuccess'
  BY <1>26 DEF Inv, TypeOK, OwnState, Progressed, CleanSuccess, Setup,
    Running, Listed, JailerExit, leaseVars, kernelVars
<1>27. ASSUME NEW a \in Attempts, VmmMove(a) PROVE CleanSuccess'
  BY <1>27 DEF Inv, TypeOK, OwnState, Progressed, CleanSuccess, Setup,
    Running, Listed, VmmMove, leaseVars, kernelVars
<1>28. ASSUME NEW a \in Attempts, VmmWrites(a) PROVE CleanSuccess'
  BY <1>28 DEF Inv, TypeOK, OwnState, Progressed, CleanSuccess, Setup,
    Running, Listed, VmmWrites, leaseVars, kernelVars
<1>29. ASSUME NEW a \in Attempts, Expire(a) PROVE CleanSuccess'
  BY <1>29 DEF Inv, TypeOK, OwnState, Progressed, CleanSuccess, Setup,
    Running, Listed, Expire, Timed, leaseVars, kernelVars
<1>30. ASSUME NEW a \in Attempts, IoError(a) PROVE CleanSuccess'
  BY <1>30 DEF Inv, TypeOK, OwnState, Progressed, CleanSuccess, Setup,
    Running, Listed, IoError, Go, Fail, leaseVars, kernelVars
<1>31. ASSUME NEW a \in Attempts, Crash(a) PROVE CleanSuccess'
  BY <1>31 DEF Inv, TypeOK, OwnState, Progressed, CleanSuccess, Setup,
    Running, Listed, Crash, Forget, leaseVars, kernelVars
<1>32. CASE UNCHANGED vars
  BY <1>32 DEF Inv, TypeOK, OwnState, Progressed, CleanSuccess, Setup, Running, Listed, vars, UidHasLiveProcess
<1>33. ASSUME NEW a \in Attempts, Disown(a) PROVE CleanSuccess'
  BY <1>33 DEF Inv, TypeOK, OwnState, Progressed, CleanSuccess, Setup,
    Running, Listed, Disown, Go, Fail, leaseVars, kernelVars
<1> QED
    BY <1>1, <1>2, <1>3, <1>4, <1>5, <1>6, <1>7, <1>8, <1>9, <1>10, <1>11,
    <1>12, <1>13, <1>14, <1>15, <1>16, <1>17, <1>18, <1>19, <1>20, <1>21,
    <1>22, <1>23, <1>24, <1>25, <1>26, <1>27, <1>28, <1>29, <1>30, <1>31,
    <1>32, <1>33 DEF Next, Launcher, Kernel

\* The inductive invariant holds in every reachable state.
THEOREM Invariance == Spec => []Inv
<1>1. Init => Inv
  BY LauncherAssumption DEF Init, Inv, TypeOK, OwnState, Progressed, LeaseShields,
    UidExclusive, CleanSuccess, CandidatePhase, Steps, Setup, Timed, Guards, Running,
    Listed
<1>2. Inv /\ [Next]_vars => Inv'
  BY TypeStep, OwnStep, ProgressStep, ShieldStep, CleanStep DEF Inv
<1> QED
  BY <1>1, <1>2, PTL DEF Spec

\* Every variable keeps its type.
THEOREM TypeCorrect == Spec => []TypeOK
<1>1. Inv => TypeOK
  BY DEF Inv
<1> QED
  BY <1>1, Invariance, PTL

\* Processes of two attempts never share a leased UID, for any number of
\* launchers, UIDs and crashes (acquire_uid_lease and CandidateUidLease::drop).
THEOREM UidsAreExclusive == Spec => []UidExclusive
<1>1. Inv => UidExclusive
  BY DEF Inv
<1> QED
  BY <1>1, Invariance, PTL

\* The lease guard never removes the lease file of another attempt.
THEOREM LeasesAreOwn == Spec => []LeaseIsOwn
<1>1. Inv => LeaseIsOwn
  BY DEF Inv, OwnState, LeaseIsOwn
<1> QED
  BY <1>1, Invariance, PTL

\* A launch that returned has reaped its jailer and killed its VMM on every path.
THEOREM NoOrphans == Spec => []NoOrphan
<1>1. Inv => NoOrphan
  BY DEF Inv, OwnState, NoOrphan
<1> QED
  BY <1>1, Invariance, PTL

\* An Ok launch leaves no process, no cgroup leaf and no jail, and its result is
\* the only one in the serial file.
THEOREM SuccessIsClean == Spec => []CleanSuccess
<1>1. Inv => CleanSuccess
  BY DEF Inv
<1> QED
  BY <1>1, Invariance, PTL

\* A launcher kills by cgroup or, in CgroupCleanup::drop, by UID; the lease makes
\* sure that no process of another attempt is hit.
THEOREM KillsAreOwn == Spec => NoForeignKill
<1> DEFINE Own == \A a, b \in Attempts :
                     (a # b /\ pc[a] \in {"poll", "unwind", "result", "events"} /\ pc[a]' # pc[a])
                        => vmm'[b] = vmm[b]
<1>1. ASSUME Inv, NEW c \in Attempts, PollCgroup(c) PROVE Own
  <2>1. pc[c] = "poll" /\ pc' = [pc EXCEPT ![c] = "unwind"]
    BY <1>1 DEF PollCgroup, Go
  <2>2. \A a \in Attempts : pc[a]' # pc[a] => a = c
    BY <1>1, <2>1 DEF Inv, TypeOK
  <2>3. "lease" \in guards[c]
    BY <1>1, <2>1 DEF Inv, OwnState
  <2>4. ASSUME NEW b \in Attempts, b # c PROVE vmm'[b] = vmm[b]
    <3>1. vmm[b] \in Listed => uid[b] # uid[c]
      BY <1>1, <2>3, <2>4 DEF Inv, LeaseShields
    <3> QED BY <1>1, <3>1 DEF PollCgroup
  <2> QED BY <2>2, <2>4
<1>2. ASSUME Inv, NEW c \in Attempts, Scan(c) \/ Events(c) \/ DropCgroup(c) PROVE Own
  <2>1. \A a \in Attempts : pc[a]' # pc[a] => a = c
    BY <1>2 DEF Scan, Events, DropCgroup, Go, Fail, Inv, TypeOK
  <2>2. \A b \in Attempts : b # c => vmm'[b] = vmm[b]
    BY <1>2 DEF Scan, Events, DropCgroup, KillCgroup, Inv, TypeOK
  <2> QED BY <2>1, <2>2
<1>3. ASSUME NEW c \in Attempts, JailerFork(c) \/ VmmMove(c) PROVE Own
  BY <1>3 DEF JailerFork, VmmMove
<1>4. ASSUME UNCHANGED vmm PROVE Own
  BY <1>4
<1>5. Inv /\ [Next]_vars => [Own]_vars
  <2> SUFFICES ASSUME Inv, NEW c \in Attempts, Launcher(c) \/ Kernel(c) \/ IoError(c) \/ Crash(c)
               PROVE  Own
    BY DEF Next
  <2>1. CASE IoError(c) \/ Crash(c)
    <3>1. UNCHANGED vmm
      BY <2>1 DEF IoError, Crash
    <3> QED BY <1>4, <3>1
  <2>2. CASE Kernel(c)
    <3>1. JailerFork(c) \/ VmmMove(c) \/ UNCHANGED vmm
      BY <2>2 DEF Kernel, JailerCgroup, JailerExit, VmmWrites, Expire
    <3> QED BY <1>3, <1>4, <3>1
  <2>3. CASE Launcher(c)
    <3>1. PollCgroup(c) \/ Scan(c) \/ Events(c) \/ DropCgroup(c) \/ UNCHANGED vmm
      BY <2>3 DEF Launcher, Begin, Probe, Exhausted, Create, Recheck, PrepareJail, Stage, Spawn,
        Disown, WaitBounded, CheckPopulated, CanaryWait, CanaryClean, Contain, Capture, Observe, Residue,
        DropJail, DropLease, Return, kernelVars
    <3> QED BY <1>1, <1>2, <1>4, <3>1
  <2> QED BY <2>1, <2>2, <2>3
<1> QED
  BY <1>5, Invariance, PTL DEF Spec, NoForeignKill
=============================================================================
