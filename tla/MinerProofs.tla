---------------------------- MODULE MinerProofs ----------------------------
(***************************************************************************)
(* Proofs about Miner.tla, for every set of jobs and every bound.          *)
(***************************************************************************)
EXTENDS Miner, TLAPS

-----------------------------------------------------------------------------
(* Types *)

\* The initial state is well typed.
LEMMA InitTypeOK == Init => TypeOK
<1>. SUFFICES ASSUME Init  PROVE TypeOK
  OBVIOUS
<1>1. found \in Seq(Jobs)
  BY DEF Init
<1>. QED  BY <1>1 DEF Init, TypeOK, ThreadStates, OwnerStates

\* Handing over a job, decodable or not, keeps the types; so does stop().
LEMMA ReplaceTypeOK ==
  ASSUME TypeOK,
         NEW j \in Jobs \cup {NoJob},
         NEW decodes \in BOOLEAN,
         Replace(j, decodes)
  PROVE  TypeOK'
BY DEF TypeOK, Replace, Notify, ThreadStates

\* A job is never mistaken for the empty slot, or for the thread's first local job.
LEMMA JobsAreNotEmpty == NoJob \notin Jobs /\ NoLocalJob \notin Jobs /\ NoJob # NoLocalJob
<1>1. NoJob.page = NoPage /\ NoLocalJob.page = NoPage
  BY DEF NoJob, NoLocalJob
<1>2. NoJob.cookie = ZeroCookie /\ NoLocalJob.cookie = AllOnes
  BY DEF NoJob, NoLocalJob
<1>. QED  BY <1>1, <1>2, JobsAssumption

\* What the mining thread picks up: the shared job, or a job copied before whose
\* cookie is the same; or nothing, if the first job's cookie is 0xffffffff.
LEMMA PickUpType ==
  ASSUME TypeOK, ready => job \in Jobs, CanHash
  PROVE  /\ PickUp \in {job, local}
         /\ PickUp = job \/ SameCookie(local, job)
         /\ PickUp \in Jobs \/ (PickUp = NoLocalJob /\ local = NoLocalJob /\ job.cookie = AllOnes)
<1>1. NoLocalJob.cookie = AllOnes
  BY DEF NoLocalJob, NoJob
<1>2. job \in Jobs /\ local \in Jobs \cup {NoLocalJob}
  BY DEF CanHash, TypeOK
<1>. QED  BY <1>1, <1>2 DEF PickUp, SameCookie

\* The work is empty, or a job: what is handed over is always a whole job.
ReadyIsJob == ready => job \in Jobs

IInv == /\ TypeOK
        /\ ReadyIsJob
        /\ LabelSettles
        /\ NobodySleepsThroughJoin

\* A step of the mining thread keeps the invariant.
LEMMA ThreadStep == IInv /\ MiningThread => IInv'
<1>. SUFFICES ASSUME IInv, MiningThread  PROVE IInv'
  OBVIOUS
<1>. USE DEF IInv, TypeOK, ReadyIsJob, LabelSettles, NobodySleepsThroughJoin, shared
<1>1. CASE CheckWork
  <2>1. CASE Leave
    BY <1>1, <2>1 DEF CheckWork, Leave, ThreadStates
  <2>2. CASE Wait
    BY <1>1, <2>2 DEF CheckWork, Wait, ThreadStates
  <2>3. CASE StartHash
    <3>1. PickUp \in Jobs \cup {NoLocalJob}
      BY <2>3, PickUpType DEF StartHash
    <3>. QED  BY <1>1, <2>3, <3>1 DEF CheckWork, StartHash, ThreadStates
  <2>. QED  BY <1>1, <2>1, <2>2, <2>3 DEF CheckWork
<1>2. ASSUME NEW good \in BOOLEAN, FinishHash(good)  PROVE IInv'
  <2>1. found' \in Seq(Jobs)
    BY <1>2 DEF FinishHash
  <2>. QED  BY <1>2, <2>1 DEF FinishHash, ThreadStates
<1>3. ASSUME NEW elapsed \in BOOLEAN, CountHash(elapsed)  PROVE IInv'
  BY <1>3 DEF CountHash, ThreadStates
<1>4. CASE EmitRate
  BY <1>4 DEF EmitRate, ThreadStates
<1>5. CASE Fault
  BY <1>5 DEF Fault, ThreadStates, OwnerStates
<1>. QED  BY <1>1, <1>2, <1>3, <1>4, <1>5 DEF MiningThread

\* Handing over a job, news of the one being mined, or stop(), keeps it.
LEMMA ReplaceStep ==
  ASSUME IInv,
         NEW j \in Jobs \cup {NoJob},
         NEW decodes \in BOOLEAN,
         decodes => j \in Jobs,
         Replace(j, decodes)
  PROVE  IInv'
<1>1. TypeOK'
  BY ReplaceTypeOK DEF IInv
<1>. QED  BY <1>1 DEF IInv, ReadyIsJob, LabelSettles, NobodySleepsThroughJoin, Replace, Notify

\* A step of the main thread, or a spurious wake-up, keeps it.
LEMMA OwnerStep ==
  ASSUME IInv,
         \/ SpuriousWake
         \/ Timer
         \/ \E j \in Jobs, decodes \in BOOLEAN : Update(j, decodes)
         \/ Pause
         \/ Destroy
         \/ Join
         \/ DeliverFound
         \/ DeliverRate
  PROVE  IInv'
<1>. USE DEF IInv, TypeOK, ReadyIsJob, LabelSettles, NobodySleepsThroughJoin, shared, thread
<1>1. CASE SpuriousWake
  BY <1>1 DEF SpuriousWake, ThreadStates
<1>2. CASE Timer
  BY <1>2, ReplaceStep DEF Timer, SetHashingBlob, Stop
<1>3. CASE \E j \in Jobs, decodes \in BOOLEAN : Update(j, decodes)
  BY <1>3, ReplaceStep DEF Update
<1>4. CASE Pause
  BY <1>4 DEF Pause
<1>5. CASE Destroy
  BY <1>5 DEF Destroy, Notify, ThreadStates, OwnerStates
<1>6. CASE Join
  BY <1>6 DEF Join, OwnerStates
<1>7. CASE DeliverFound
  BY <1>7 DEF DeliverFound
<1>8. CASE DeliverRate
  BY <1>8 DEF DeliverRate
<1>. QED  BY <1>1, <1>2, <1>3, <1>4, <1>5, <1>6, <1>7, <1>8

\* The invariant holds at first and is kept by every step.
LEMMA InitIInv == Init => IInv
<1>. SUFFICES ASSUME Init  PROVE IInv
  OBVIOUS
<1>. QED  BY InitTypeOK DEF Init, IInv, ReadyIsJob, LabelSettles, NobodySleepsThroughJoin

LEMMA NextIInv == IInv /\ [Next]_vars => IInv'
<1>. SUFFICES ASSUME IInv, [Next]_vars  PROVE IInv'
  OBVIOUS
<1>1. ASSUME UNCHANGED vars  PROVE IInv'
  BY <1>1 DEF vars, IInv, TypeOK, ReadyIsJob, LabelSettles, NobodySleepsThroughJoin
<1>2. CASE MiningThread
  BY <1>2, ThreadStep
<1>. QED  BY <1>1, <1>2, OwnerStep DEF Next, Gone

THEOREM Invariance == Spec => []IInv
BY InitIInv, NextIInv, PTL DEF Spec

\* Every variable of the miner keeps its type.
THEOREM TypeCorrect == Spec => []TypeOK
<1>1. IInv => TypeOK
  BY DEF IInv
<1>. QED  BY Invariance, <1>1, PTL

\* When no rate signal is on its way the label agrees with the hash rate.
THEOREM LabelAgrees == Spec => []LabelSettles
<1>1. IInv => LabelSettles
  BY DEF IInv
<1>. QED  BY Invariance, <1>1, PTL

\* ~Miner's one notify reaches the mining thread, wherever it was: after it the
\* thread is never found waiting, so that what join waits for can happen.
THEOREM NobodySleeps == Spec => []NobodySleepsThroughJoin
<1>1. IInv => NobodySleepsThroughJoin
  BY DEF IInv
<1>. QED  BY Invariance, <1>1, PTL

-----------------------------------------------------------------------------
(* What the thread hashes *)

\* A step that brings the thread to hashing is StartHash.
LEMMA OnlyStartHashHashes ==
  ASSUME [Next]_vars, pc # "hash", pc' = "hash"
  PROVE  StartHash
<1>. USE DEF shared, thread
<1>1. CASE MiningThread
  BY <1>1 DEF MiningThread, CheckWork, Leave, Wait, FinishHash, Fault, CountHash, EmitRate
<1>2. \A j, decodes : ~ Replace(j, decodes)
  BY DEF Replace, Notify
<1>3. ~ (\/ Timer
         \/ \E j \in Jobs, decodes \in BOOLEAN : Update(j, decodes))
  BY <1>2 DEF Timer, SetHashingBlob, Stop, Update
<1>4. ~ (\/ SpuriousWake \/ Pause \/ Destroy \/ Join
         \/ DeliverFound \/ DeliverRate \/ UNCHANGED vars)
  BY DEF SpuriousWake, Pause, Destroy, Notify, Join, DeliverFound, DeliverRate, vars
<1>. QED  BY <1>1, <1>3, <1>4 DEF Next, Gone

\* A hash never begins on the empty vector that local_raw_hashing_blob starts as,
\* whatever the cookies of the jobs, zero included, but for one case: nothing was
\* copied before, and the job's cookie is 0xffffffff.
THEOREM NeverHashesEmptyBlob == Spec => HashesCopiedBlob
<1>1. IInv /\ [Next]_vars
        => [pc # "hash" /\ pc' = "hash" =>
              \/ local' \in Jobs
              \/ local = NoLocalJob /\ job.cookie = AllOnes]_vars
  <2>. SUFFICES ASSUME IInv, [Next]_vars, pc # "hash", pc' = "hash"
                PROVE  \/ local' \in Jobs
                       \/ local = NoLocalJob /\ job.cookie = AllOnes
    OBVIOUS
  <2>1. StartHash
    BY OnlyStartHashHashes
  <2>. QED  BY <2>1, PickUpType DEF StartHash, IInv, ReadyIsJob
<1>. QED  BY <1>1, Invariance, PTL DEF Spec, HashesCopiedBlob

-----------------------------------------------------------------------------
(* The refinement: each step of the miner is a step of WorkSlot or changes    *)
(* nothing that WorkSlot sees.                                                *)

SlotNow == IF ready THEN job ELSE NoJob

CopyNow == IF local = NoLocalJob THEN NoJob ELSE local

BusyNow == pc = "hash" /\ local # NoLocalJob

\* The miner starts as an empty slot.
LEMMA InitRefines == Init => Slot!Init
BY DEF Init, Slot!Init

\* A step that leaves slot, pause flag, current hash and reports alone.
LEMMA Stutters ==
  ASSUME UNCHANGED <<SlotNow, paused, CopyNow, BusyNow, found>>
  PROVE  UNCHANGED Slot!vars
BY DEF Slot!vars, SlotNow, CopyNow, BusyNow

\* The mining thread starts on the job in the slot, finishes, or does
\* something WorkSlot does not see.
LEMMA ThreadRefines ==
  ASSUME IInv, MiningThread
  PROVE  [Slot!Next]_(Slot!vars)
<1>. USE DEF shared
<1>1. CASE CheckWork
  <2>1. CASE Leave \/ Wait
    BY <1>1, <2>1, Stutters DEF CheckWork, Leave, Wait, SlotNow, CopyNow, BusyNow
  <2>2. CASE StartHash
    <3>1. /\ job \in Jobs /\ ready /\ ~paused
          /\ local' = PickUp /\ pc' = "hash" /\ pc = "check"
          /\ UNCHANGED <<job, ready, paused, found>>
      BY <1>1, <2>2 DEF CheckWork, StartHash, CanHash, IInv, ReadyIsJob
    <3>2. /\ PickUp = job \/ (PickUp = local /\ SameCookie(local, job))
          /\ PickUp \in Jobs \/ (PickUp = NoLocalJob /\ local = NoLocalJob)
      BY <2>2, <3>1, PickUpType DEF StartHash, IInv, TypeOK
    <3>3. CASE PickUp = NoLocalJob
      BY <3>1, <3>2, <3>3, JobsAreNotEmpty, Stutters DEF SlotNow, CopyNow, BusyNow
    <3>4. CASE PickUp # NoLocalJob
      <4>1. PickUp \in Jobs /\ PickUp # NoJob /\ job # NoJob
        BY <3>1, <3>2, <3>4, JobsAreNotEmpty
      <4>2. /\ CopyNow' = PickUp /\ BusyNow' /\ ~BusyNow
            /\ SlotNow = job /\ SlotNow' = SlotNow
        BY <3>1, <3>4 DEF CopyNow, BusyNow, SlotNow
      <4>3. CopyNow' = SlotNow \/ (CopyNow # NoJob /\ SameCookie(CopyNow, SlotNow) /\ CopyNow' = CopyNow)
        BY <3>2, <3>4, <4>1, <4>2 DEF CopyNow
      <4>4. Slot!Start
        BY <3>1, <4>1, <4>2, <4>3 DEF Slot!Start, CopyNow, BusyNow, SlotNow
      <4>. QED  BY <4>4 DEF Slot!Next
    <3>. QED  BY <3>3, <3>4
  <2>. QED  BY <1>1, <2>1, <2>2 DEF CheckWork
<1>2. ASSUME NEW good \in BOOLEAN, FinishHash(good)
      PROVE  [Slot!Next]_(Slot!vars)
  <2>1. Slot!Finish(good)
    BY <1>2 DEF FinishHash, Slot!Finish
  <2>. QED  BY <2>1 DEF Slot!Next
<1>3. ASSUME NEW elapsed \in BOOLEAN, CountHash(elapsed)
      PROVE  [Slot!Next]_(Slot!vars)
  BY <1>3, Stutters DEF CountHash, SlotNow, CopyNow, BusyNow
<1>4. CASE EmitRate
  BY <1>4, Stutters DEF EmitRate, SlotNow, CopyNow, BusyNow
<1>5. CASE Fault
  BY <1>5, Stutters DEF Fault, SlotNow, CopyNow, BusyNow
<1>. QED  BY <1>1, <1>2, <1>3, <1>4, <1>5 DEF MiningThread

\* Handing over puts the job in the slot, or empties it.
LEMMA ReplaceRefines ==
  ASSUME NEW j \in Jobs \cup {NoJob},
         NEW decodes \in BOOLEAN,
         Replace(j, decodes)
  PROVE  [Slot!Next]_(Slot!vars)
<1>1. SlotNow' \in Jobs \cup {NoJob}
  BY DEF Replace, SlotNow
<1>2. CopyNow' = CopyNow /\ BusyNow' = BusyNow
  BY DEF Replace, Notify, CopyNow, BusyNow
<1>3. Slot!Put(SlotNow')
  BY <1>2 DEF Replace, Slot!Put, SlotNow, CopyNow, BusyNow
<1>. QED  BY <1>1, <1>3 DEF Slot!Next

\* The main thread fills or empties the slot, pauses, takes a report, or does
\* something WorkSlot does not see.
LEMMA OwnerRefines ==
  ASSUME \/ SpuriousWake
         \/ Timer
         \/ \E j \in Jobs, decodes \in BOOLEAN : Update(j, decodes)
         \/ Pause
         \/ Destroy
         \/ Join
         \/ DeliverFound
         \/ DeliverRate
  PROVE  [Slot!Next]_(Slot!vars)
<1>. USE DEF shared, thread
<1>1. CASE SpuriousWake
  BY <1>1, Stutters DEF SpuriousWake, SlotNow, CopyNow, BusyNow
<1>2. CASE Timer
  BY <1>2, ReplaceRefines DEF Timer, SetHashingBlob, Stop
<1>3. CASE \E j \in Jobs, decodes \in BOOLEAN : Update(j, decodes)
  BY <1>3, ReplaceRefines DEF Update
<1>4. CASE Pause
  BY <1>4 DEF Pause, Slot!TogglePause, Slot!Next
<1>5. CASE Destroy
  BY <1>5, Stutters DEF Destroy, Notify, SlotNow, CopyNow, BusyNow
<1>6. CASE Join
  BY <1>6, Stutters DEF Join, SlotNow, CopyNow, BusyNow
<1>7. CASE DeliverFound
  BY <1>7 DEF DeliverFound, Slot!Take, Slot!Next
<1>8. CASE DeliverRate
  BY <1>8, Stutters DEF DeliverRate, SlotNow, CopyNow, BusyNow
<1>. QED  BY <1>1, <1>2, <1>3, <1>4, <1>5, <1>6, <1>7, <1>8

LEMMA NextRefines ==
  ASSUME IInv, [Next]_vars
  PROVE  [Slot!Next]_(Slot!vars)
<1>1. CASE UNCHANGED vars
  BY <1>1, Stutters DEF vars, SlotNow, CopyNow, BusyNow
<1>2. CASE MiningThread
  BY <1>2, ThreadRefines
<1>. QED  BY <1>1, <1>2, OwnerRefines DEF Next, Gone

\* Every hash is on the job handed over last, or on the one copied last if that has
\* the same cookie; it never starts while paused or without work; and each found
\* hash is reported once, in order, for the job that was hashed.
THEOREM MinerImplementsWorkSlot == Spec => ImplementsWorkSlot
<1>1. IInv /\ [Next]_vars => [Slot!Next]_(Slot!vars)
  BY NextRefines
<1>. QED  BY InitRefines, <1>1, Invariance, PTL
          DEF Spec, ImplementsWorkSlot, Slot!Spec
=============================================================================
