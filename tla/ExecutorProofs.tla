---------------------------- MODULE ExecutorProofs ----------------------------
(***************************************************************************)
(* Theorems about Executor and the table of sites, Db, for any sites,      *)
(* answers, amounts and periods.                                           *)
(***************************************************************************)
EXTENDS Executor, SequenceLemmas

\* OnePerPage, of any table.
Distinct(t) == \A i, k \in DOMAIN t : t[i].page = t[k].page => i = k

IsTable(t) == t \in Seq(Entries) /\ Distinct(t)

IInv == TypeOK /\ OnePerPage

WholeRows(t) == \A i \in DOMAIN t : WholeWork(t[i].work)

WInv == IInv /\ WholeRows(db) /\ WholeWork(job.work)

-----------------------------------------------------------------------------
(* The table *)

LEMMA DbTable ==
  ASSUME IInv
  PROVE  IsTable(db) /\ DOMAIN db = 1..Len(db) /\ Len(db) \in Nat
         /\ \A i \in DOMAIN db : db[i] \in Entries
BY LenProperties, ElementOfSeq DEF IInv, TypeOK, DbTypeOK, OnePerPage, IsTable, Distinct

\* find_mining_page returns the row of the page, or that there is none.
LEMMA FindsPage ==
  ASSUME IInv, NEW p
  PROVE  \/ FindMiningPage(p) = 0 /\ \A i \in DOMAIN db : db[i].page # p
         \/ FindMiningPage(p) \in DOMAIN db /\ db[FindMiningPage(p)].page = p
<1> DEFINE I == {i \in 1..Len(db) : db[i].page = p}
<1>1. FindMiningPage(p) = IF I # {} THEN Min(I) ELSE 0
  BY DEF FindMiningPage, SelectInSeq
<1>2. DOMAIN db = 1..Len(db) /\ Len(db) \in Nat
  BY DbTable
<1>3. CASE I = {}
  BY <1>1, <1>2, <1>3
<1>4. CASE I # {}
  <2>1. \E m \in I : \A n \in I : m <= n
    <3>1. I \in SUBSET Nat
      BY <1>2
    <3> HIDE DEF I
    <3> QED BY <1>4, <3>1, Least
  <2>2. Min(I) \in I
    BY <2>1 DEF Min
  <2> QED BY <1>1, <1>2, <1>4, <2>2
<1> QED BY <1>3, <1>4

\* The row that is wanted asks for credits and has work.
LEMMA WantsWork ==
  ASSUME IInv
  PROVE  \/ WantIndex = 0
         \/ WantIndex \in DOMAIN db /\ Asks(db[WantIndex]) /\ HasWork(db[WantIndex])
<1> DEFINE I == {i \in 1..Len(db) : Asks(db[i]) /\ HasWork(db[i])}
<1>1. WantIndex = IF I # {} THEN Max(I) ELSE 0
  BY DEF WantIndex, SelectLastInSeq
<1>2. DOMAIN db = 1..Len(db) /\ Len(db) \in Nat
  BY DbTable
<1>3. CASE I # {}
  <2>1. I \in SUBSET 1..Len(db)
    OBVIOUS
  <2>2. \E m \in I : \A n \in I : m >= n
    <3> HIDE DEF I
    <3> QED BY <1>2, <1>3, <2>1, Greatest
  <2>3. Max(I) \in I
    BY <2>2 DEF Max
  <2> QED BY <1>1, <1>2, <1>3, <2>3
<1> QED BY <1>1, <1>3

LEMMA KeepsPages ==
  ASSUME IInv, NEW t \in [DOMAIN db -> Entries],
         \A i \in DOMAIN db : t[i].page = db[i].page
  PROVE  IsTable(t)
<1>1. DOMAIN db = 1..Len(db) /\ Len(db) \in Nat /\ Distinct(db)
  BY DbTable DEF IsTable
<1>2. t \in Seq(Entries)
  BY <1>1, SeqDef
<1> QED BY <1>1, <1>2 DEF IsTable, Distinct

LEMMA BlobIsWork == "hashing_blob" \in WorkFields
BY DEF WorkFields

LEMMA NewEntryTyped == \A p \in Pages : NewEntry(p) \in Entries /\ WholeWork(NewEntry(p).work)
BY DbAssumption, BlobIsWork DEF NewEntry, Entries, WholeWork, Stale

LEMMA FillTyped ==
  ASSUME NEW e \in Entries, NEW r \in Replies
  PROVE  /\ Fill(e, r) \in Entries
         /\ Fill(e, r).page = e.page
         /\ ~Partial(r) /\ WholeWork(e.work) => WholeWork(Fill(e, r).work)
<1> DEFINE work == [f \in WorkFields |-> IF f \in r.fields THEN r.job ELSE e.work[f]]
<1>1. /\ r.job \in Jobs \cup {NoData} /\ r.fields \in ReplyShapes /\ r.credits \in Amounts
      /\ r.job = NoData <=> WorkFields \cap r.fields = {}
  BY DEF Replies
<1>2. e.work \in [WorkFields -> Jobs \cup {NoData}]
  BY DEF Entries
<1>3. work \in [WorkFields -> Jobs \cup {NoData}]
  BY <1>1, <1>2
<1>4. Fill(e, r) = [e EXCEPT !.named = @ \/ "name" \in r.fields,
                             !.balance = IF "credits" \in r.fields THEN r.credits ELSE @,
                             !.work = work,
                             !.blobAge = IF "hashing_blob" \in r.fields THEN 0 ELSE @]
  BY DEF Fill
<1>5. ~Partial(r) /\ WholeWork(e.work) => WholeWork(work)
  BY <1>1 DEF Partial, Whole, WholeWork, WorkFields
<1> HIDE DEF work
<1>6. 0 \in 0..Stale
  BY DbAssumption DEF Stale
<1> QED BY <1>1, <1>3, <1>4, <1>5, <1>6 DEF Entries

LEMMA UpdatedTable ==
  ASSUME IInv, NEW r \in Replies
  PROVE  /\ IsTable(Updated(r))
         /\ ~Partial(r) /\ WholeRows(db) => WholeRows(Updated(r))
<1> DEFINE f == FindMiningPage(r.page)
<1>1. IsTable(db) /\ DOMAIN db = 1..Len(db) /\ Len(db) \in Nat
      /\ \A i \in DOMAIN db : db[i] \in Entries
  BY DbTable
<1>2. r.page \in Pages
  BY DEF Replies
<1>3. CASE f # 0
  <2>1. f \in DOMAIN db /\ Updated(r) = [db EXCEPT ![f] = Fill(db[f], r)]
    BY <1>3, FindsPage DEF Updated, HasEntry
  <2> HIDE DEF f
  <2>2. \A i \in DOMAIN db : Updated(r)[i] = IF i = f THEN Fill(db[f], r) ELSE db[i]
    BY <2>1
  <2>3. DOMAIN Updated(r) = DOMAIN db
    BY <2>1
  <2>4. \A i \in DOMAIN db : Updated(r)[i] \in Entries /\ Updated(r)[i].page = db[i].page
    BY <1>1, <2>1, <2>2, FillTyped
  <2>5. Updated(r) \in [DOMAIN db -> Entries]
    BY <2>1, <2>3, <2>4
  <2>6. IsTable(Updated(r))
    BY <2>4, <2>5, KeepsPages
  <2>7. ASSUME ~Partial(r), WholeRows(db)
        PROVE  WholeRows(Updated(r))
    BY <1>1, <2>1, <2>2, <2>3, <2>7, FillTyped DEF WholeRows
  <2> QED BY <2>6, <2>7
<1>4. CASE f = 0
  <2> DEFINE filled == Fill(NewEntry(r.page), r)
             e == [filled EXCEPT !.balance = 0]
             t == Append(db, e)
  <2>1. /\ filled \in Entries /\ filled.page = r.page
        /\ ~Partial(r) => WholeWork(filled.work)
    BY <1>2, NewEntryTyped, FillTyped DEF NewEntry
  <2> HIDE DEF filled
  <2>2. /\ e \in Entries /\ e.page = r.page
        /\ ~Partial(r) => WholeWork(e.work)
    BY <2>1, DbAssumption DEF Entries
  <2>3. Updated(r) = t
    BY <1>4 DEF Updated, HasEntry, filled
  <2> HIDE DEF e
  <2>4. /\ t \in Seq(Entries) /\ DOMAIN t = 1..(Len(db) + 1)
        /\ \A i \in 1..Len(db) : t[i] = db[i]
        /\ t[Len(db) + 1] = e
    BY <1>1, <2>2, AppendProperties, LenProperties DEF IsTable
  <2> HIDE DEF t
  <2>5. \A i \in DOMAIN db : db[i].page # r.page
    BY <1>4, <1>1, FindsPage
  <2>6. \A i \in DOMAIN t : i \in DOMAIN db \/ i = Len(db) + 1
    BY <1>1, <2>4
  <2>7. Distinct(t)
    BY <1>1, <2>2, <2>4, <2>5, <2>6 DEF IsTable, Distinct
  <2>8. ~Partial(r) /\ WholeRows(db) => WholeRows(t)
    BY <1>1, <2>2, <2>4, <2>6 DEF WholeRows
  <2> QED BY <2>3, <2>4, <2>7, <2>8 DEF IsTable
<1> QED BY <1>3, <1>4

LEMMA WithoutTable ==
  ASSUME IInv, NEW i \in DOMAIN db
  PROVE  /\ IsTable(WithoutEntry(i))
         /\ WholeRows(db) => WholeRows(WithoutEntry(i))
<1> DEFINE t == WithoutEntry(i)
           Old(k) == IF k < i THEN k ELSE k + 1
<1>1. db \in Seq(Entries) /\ Distinct(db) /\ DOMAIN db = 1..Len(db) /\ Len(db) \in Nat
  BY DbTable DEF IsTable
<1>2. /\ t \in Seq(Entries) /\ DOMAIN t = 1..(Len(db) - 1)
      /\ \A k \in 1..(Len(db) - 1) : t[k] = IF k < i THEN db[k] ELSE db[k + 1]
  BY <1>1, Removed DEF WithoutEntry
<1> HIDE DEF t
<1>3. \A k \in DOMAIN t : Old(k) \in DOMAIN db /\ t[k] = db[Old(k)]
  BY <1>1, <1>2
<1>4. \A k, l \in DOMAIN t : Old(k) = Old(l) => k = l
  BY <1>1, <1>2
<1> HIDE DEF Old
<1>5. Distinct(t) /\ (WholeRows(db) => WholeRows(t))
  BY <1>1, <1>3, <1>4 DEF Distinct, WholeRows
<1> QED BY <1>2, <1>5 DEF IsTable, t

LEMMA ChangedTable ==
  ASSUME IInv, NEW i \in DOMAIN db
  PROVE  /\ \A amount \in Amounts : /\ IsTable(WithTarget(i, amount))
                                    /\ WholeRows(db) => WholeRows(WithTarget(i, amount))
         /\ \A on \in BOOLEAN : /\ IsTable(WithEnabled(i, on))
                                /\ WholeRows(db) => WholeRows(WithEnabled(i, on))
         /\ IsTable(WithInfoQueried(i))
         /\ WholeRows(db) => WholeRows(WithInfoQueried(i))
<1>1. \A k \in DOMAIN db : db[k] \in Entries
  BY DbTable
<1>2. ASSUME NEW amount \in Amounts
      PROVE  /\ WithTarget(i, amount) \in [DOMAIN db -> Entries]
             /\ \A k \in DOMAIN db : /\ WithTarget(i, amount)[k].page = db[k].page
                                     /\ WithTarget(i, amount)[k].work = db[k].work
  BY <1>1 DEF WithTarget, Entries
<1>3. ASSUME NEW on \in BOOLEAN
      PROVE  /\ WithEnabled(i, on) \in [DOMAIN db -> Entries]
             /\ \A k \in DOMAIN db : /\ WithEnabled(i, on)[k].page = db[k].page
                                     /\ WithEnabled(i, on)[k].work = db[k].work
  BY <1>1 DEF WithEnabled, Entries
<1>4. /\ WithInfoQueried(i) \in [DOMAIN db -> Entries]
      /\ \A k \in DOMAIN db : /\ WithInfoQueried(i)[k].page = db[k].page
                              /\ WithInfoQueried(i)[k].work = db[k].work
  <2>1. 0 \in 0..InfoPeriod
    BY DbAssumption
  <2> QED BY <1>1, <2>1 DEF WithInfoQueried, Entries
<1>5. ASSUME NEW t \in [DOMAIN db -> Entries],
             \A k \in DOMAIN db : t[k].page = db[k].page /\ t[k].work = db[k].work
      PROVE  IsTable(t) /\ (WholeRows(db) => WholeRows(t))
  BY <1>5, KeepsPages DEF WholeRows
<1> QED BY <1>2, <1>3, <1>4, <1>5

LEMMA AgedTable ==
  ASSUME IInv
  PROVE  IsTable(Aged) /\ (WholeRows(db) => WholeRows(Aged))
<1>1. \A k \in DOMAIN db : db[k] \in Entries
  BY DbTable
<1>2. /\ \A n \in 0..InfoPeriod : AtMost(InfoPeriod, n + 1) \in 0..InfoPeriod
      /\ \A n \in 0..Stale : AtMost(Stale, n + 1) \in 0..Stale
  BY DbAssumption DEF AtMost, Stale
<1>3. \A k \in DOMAIN db : /\ Aged[k] \in Entries
                           /\ Aged[k].page = db[k].page
                           /\ Aged[k].work = db[k].work
  <2> HIDE DEF AtMost, Stale
  <2> QED BY <1>1, <1>2 DEF Aged, Entries
<1>4. DOMAIN Aged = DOMAIN db /\ Aged \in [DOMAIN db -> Entries]
  BY <1>3 DEF Aged
<1> HIDE DEF Aged
<1> QED BY <1>3, <1>4, KeepsPages DEF WholeRows

-----------------------------------------------------------------------------
(* The steps *)

LEMMA CmdSiteInv ==
  ASSUME IInv, NEW r \in Replies, CmdSite(r), asked' \subseteq Pages, ticking' \in BOOLEAN
  PROVE  /\ IInv'
         /\ job'.page = job.page
         /\ ~Partial(r) /\ WInv => WInv'
<1>1. db' = Updated(r) /\ IsTable(Updated(r))
      /\ (~Partial(r) /\ WholeRows(db) => WholeRows(Updated(r)))
  BY UpdatedTable DEF CmdSite
<1>2. r.job \in Jobs \cup {NoData}
  BY DEF Replies
<1>3. job \in MinerJobs \cup {NoJob}
  BY DEF IInv, TypeOK
<1>4. CASE job' = job
  BY <1>1, <1>3, <1>4 DEF IInv, TypeOK, DbTypeOK, OnePerPage, IsTable, Distinct, WInv
<1>5. CASE job.page = r.page /\ job' = [job EXCEPT !.work = [f \in WorkFields |-> r.job]]
  <2>1. job \in MinerJobs
    <3>1. r.page \in Pages
      BY DEF Replies
    <3> QED BY <1>3, <1>5, <3>1, ExecutorAssumption DEF NoJob
  <2>2. job' \in MinerJobs /\ job'.page = job.page /\ job'.work = [f \in WorkFields |-> r.job]
    BY <1>2, <1>5, <2>1 DEF MinerJobs
  <2>3. WholeWork(job'.work)
    BY <2>2, BlobIsWork DEF WholeWork
  <2> QED BY <1>1, <2>2, <2>3 DEF IInv, TypeOK, DbTypeOK, OnePerPage, IsTable, Distinct, WInv
<1> QED BY <1>4, <1>5 DEF CmdSite, UpdateMiner

LEMMA TableInv ==
  ASSUME IInv, NEW t, IsTable(t), WholeRows(db) => WholeRows(t),
         db' = t, job' = job, asked' \subseteq Pages, ticking' \in BOOLEAN
  PROVE  IInv' /\ (WInv => WInv')
BY DEF IInv, TypeOK, DbTypeOK, OnePerPage, IsTable, Distinct, WInv

\* What tick mines for: a row that is mineable, or the row of the page that is
\* being mined while the row that is wanted is not mineable.
LEMMA MinesFor ==
  ASSUME IInv
  PROVE  \/ MineIndex = 0
         \/ MineIndex \in DOMAIN db /\ Mineable(db[MineIndex])
         \/ /\ MineIndex \in DOMAIN db
            /\ db[MineIndex].page = job.page
            /\ WantIndex \in DOMAIN db
            /\ Asks(db[WantIndex]) /\ HasWork(db[WantIndex]) /\ ~Mineable(db[WantIndex])
<1> DEFINE w == WantIndex
           c == CurrentIndex
<1>1. w = 0 \/ (w \in DOMAIN db /\ Asks(db[w]) /\ HasWork(db[w]))
  BY WantsWork
<1>2. c = 0 \/ (c \in DOMAIN db /\ db[c].page = job.page)
  BY FindsPage DEF CurrentIndex
<1>3. 0 \notin DOMAIN db
  BY DbTable
<1> HIDE DEF w, c
<1>4. CASE w = 0
  BY <1>4 DEF MineIndex, OrCurrent, w
<1>5. CASE w # 0 /\ Mineable(db[w])
  BY <1>1, <1>5 DEF MineIndex, OrCurrent, w
<1>6. CASE w # 0 /\ ~Mineable(db[w])
  <2>1. OrCurrent(WantIndex) = c
    BY <1>6 DEF OrCurrent, w, c
  <2>2. MineIndex = c
    BY <2>1 DEF MineIndex, OrCurrent, c
  <2> QED BY <1>1, <1>2, <1>6, <2>2 DEF w
<1> QED BY <1>4, <1>5, <1>6

LEMMA DecideInv ==
  ASSUME IInv, Decide
  PROVE  IInv' /\ (WInv => WInv')
<1>1. db' = db /\ asked' = asked /\ ticking' = FALSE /\ MineOrStop
  BY DEF Decide
<1>2. CASE MineIndex = 0
  <2>1. job' = NoJob
    BY <1>1, <1>2 DEF MineOrStop
  <2>2. WholeWork(NoJob.work)
    BY BlobIsWork DEF NoJob, NoWork, WholeWork
  <2> QED BY <1>1, <2>1, <2>2 DEF IInv, TypeOK, DbTypeOK, OnePerPage, WInv
<1>3. CASE MineIndex # 0
  <2>1. MineIndex \in DOMAIN db /\ db[MineIndex] \in Entries
    BY <1>3, MinesFor, DbTable
  <2>2. job' = [page |-> db[MineIndex].page, work |-> db[MineIndex].work]
    BY <1>1, <1>3 DEF MineOrStop
  <2> HIDE DEF MineIndex
  <2>3. job' \in MinerJobs /\ job'.work = db[MineIndex].work
    BY <2>1, <2>2 DEF MinerJobs, Entries
  <2>4. WholeRows(db) => WholeWork(job'.work)
    BY <2>1, <2>3 DEF WholeRows
  <2> QED BY <1>1, <2>3, <2>4 DEF IInv, TypeOK, DbTypeOK, OnePerPage, WInv
<1> QED BY <1>2, <1>3

LEMMA InitInv == Init => WInv
<1>1. ASSUME Init
      PROVE  WInv
  <2>1. db = <<>> /\ db \in Seq(Entries) /\ DOMAIN db = {}
    BY <1>1, EmptySeq DEF Init
  <2>2. job = NoJob /\ asked = {} /\ ticking = FALSE
    BY <1>1 DEF Init
  <2>3. WholeWork(NoJob.work)
    BY BlobIsWork DEF NoJob, NoWork, WholeWork
  <2> QED BY <2>1, <2>2, <2>3 DEF WInv, IInv, TypeOK, DbTypeOK, OnePerPage, WholeRows
<1> QED BY <1>1

\* Every step, and what it may do to the page being mined for.
LEMMA StepInv ==
  ASSUME IInv, [Next]_vars
  PROVE  /\ IInv'
         /\ \/ WInv => WInv'
            \/ \E r \in Replies : Partial(r) /\ (Browse(r) \/ Answer(r))
         /\ job'.page # job.page => Decide
<1>1. asked \subseteq Pages /\ ticking \in BOOLEAN /\ IsTable(db)
  BY DbTable DEF IInv, TypeOK
<1>2. CASE UNCHANGED vars
  BY <1>1, <1>2, TableInv DEF vars
<1>3. ASSUME NEW r \in Replies, Browse(r) \/ Answer(r)
      PROVE  /\ IInv' /\ job'.page = job.page
             /\ ~Partial(r) /\ WInv => WInv'
  BY <1>1, <1>3, CmdSiteInv DEF Browse, Answer
<1>4. ASSUME NEW p \in Pages, LoseInfo(p)
      PROVE  IInv' /\ (WInv => WInv') /\ job' = job
  BY <1>1, <1>4, TableInv DEF LoseInfo
<1>5. ASSUME ForgetAll
      PROVE  IInv' /\ (WInv => WInv') /\ job' = job
  <2>1. IsTable(<<>>) /\ WholeRows(<<>>)
    BY EmptySeq DEF IsTable, Distinct, WholeRows
  <2> QED BY <1>1, <1>5, <2>1, TableInv DEF ForgetAll
<1>6. ASSUME NEW i \in DOMAIN db,
             \/ DeleteEntry(i)
             \/ \E amount \in Amounts : SetTarget(i, amount)
             \/ \E on \in BOOLEAN : SetEnabled(i, on)
      PROVE  IInv' /\ (WInv => WInv') /\ job' = job
  <2>1. CASE DeleteEntry(i)
    BY <1>1, <2>1, WithoutTable, TableInv DEF DeleteEntry
  <2>2. CASE \E amount \in Amounts : SetTarget(i, amount)
    BY <1>1, <2>2, ChangedTable, TableInv DEF SetTarget
  <2>3. CASE \E on \in BOOLEAN : SetEnabled(i, on)
    BY <1>1, <2>3, ChangedTable, TableInv DEF SetEnabled
  <2> QED BY <1>6, <2>1, <2>2, <2>3
<1>7. ASSUME Timeout
      PROVE  IInv' /\ (WInv => WInv') /\ job' = job
  BY <1>1, <1>7, AgedTable, TableInv DEF Timeout
<1>8. ASSUME AskInfo
      PROVE  IInv' /\ (WInv => WInv') /\ job' = job
  <2>1. PICK i \in DOMAIN db : db' = WithInfoQueried(i) /\ asked' = asked \cup {db[i].page}
    BY <1>8 DEF AskInfo
  <2>2. job' = job /\ ticking' = ticking
    BY <1>8 DEF AskInfo
  <2>3. db[i].page \in Pages
    BY DbTable DEF Entries
  <2> QED BY <1>1, <2>1, <2>2, <2>3, ChangedTable, TableInv
<1> QED BY <1>2, <1>3, <1>4, <1>5, <1>6, <1>7, <1>8, DecideInv DEF Next, vars

-----------------------------------------------------------------------------
(* Theorems *)

\* The table and the miner's work keep their types: ages stay within their
\* bounds, and the miner is only given pages of the table.
THEOREM AlwaysTyped == Spec => []TypeOK
<1>1. Init => IInv
  BY InitInv DEF WInv
<1>2. IInv /\ [Next]_vars => IInv'
  BY StepInv
<1>3. IInv => TypeOK
  BY DEF IInv
<1> QED BY <1>1, <1>2, <1>3, PTL DEF Spec

\* A page never has two rows, so that what the window does to a row by number
\* is done to the site that find_mining_page finds.
THEOREM AlwaysOnePerPage == Spec => []OnePerPage
<1>1. Init => IInv
  BY InitInv DEF WInv
<1>2. IInv /\ [Next]_vars => IInv'
  BY StepInv
<1>3. IInv => OnePerPage
  BY DEF IInv
<1> QED BY <1>1, <1>2, <1>3, PTL DEF Spec

\* Only a reply that carries part of the work brings a row or the miner's job to mix
\* fields of different answers: DB::update stores each field on its own, and neither
\* it nor what tick and the window do to rows afterwards moves fields between jobs.
THEOREM OnlyPartsMix == Spec => OnlyPartialRepliesMix
<1> DEFINE Kept == AllWhole /\ ~AllWhole' =>
                     \E r \in Replies : Partial(r) /\ (Browse(r) \/ Answer(r))
<1>1. Init => IInv
  BY InitInv DEF WInv
<1>2. IInv /\ [Next]_vars => IInv'
  BY StepInv
<1>3. /\ IInv => (AllWhole <=> WInv)
      /\ IInv' => (AllWhole' <=> WInv')
  BY DEF AllWhole, JobsAreWhole, WInv, WholeRows
<1>4. IInv /\ [Next]_vars => [Kept]_vars
  BY <1>2, <1>3, StepInv
<1> QED BY <1>1, <1>2, <1>4, PTL DEF Spec, OnlyPartialRepliesMix

\* Only the decision at the end of NativeMessagingHandler::tick's loop changes
\* which page is mined for.
THEOREM OnlyTheTimerSwitches == Spec => OnlyTimerSwitches
<1>1. Init => IInv
  BY InitInv DEF WInv
<1>2. IInv /\ [Next]_vars => IInv'
  BY StepInv
<1>3. IInv /\ [Next]_vars => [job'.page # job.page => Decides]_vars
  BY StepInv DEF Decide, Decides
<1> QED BY <1>1, <1>2, <1>3, PTL DEF Spec, OnlyTimerSwitches

\* tick turns to a page only if it is listed, allowed, below its target and its
\* blob is young enough.
THEOREM AlwaysSwitchesToFreshWork == Spec => SwitchesToFreshWork
<1> DEFINE Fresh == job'.page \notin {job.page, NoPage} =>
                      \E i \in DOMAIN db : /\ db[i].page = job'.page
                                           /\ db[i].enabled
                                           /\ db[i].balance < db[i].target
                                           /\ db[i].blobAge <= BlobLife
<1>1. Init => IInv
  BY InitInv DEF WInv
<1>2. IInv /\ [Next]_vars => IInv'
  BY StepInv
<1>3. ASSUME IInv, Decide, job'.page \notin {job.page, NoPage}
      PROVE  \E i \in DOMAIN db : /\ db[i].page = job'.page
                                  /\ db[i].enabled
                                  /\ db[i].balance < db[i].target
                                  /\ db[i].blobAge <= BlobLife
  <2>1. MineIndex # 0
    BY <1>3 DEF Decide, MineOrStop, NoJob
  <2>2. job'.page = db[MineIndex].page
    BY <1>3, <2>1 DEF Decide, MineOrStop
  <2>3. MineIndex \in DOMAIN db /\ Mineable(db[MineIndex])
    BY <1>3, <2>1, <2>2, MinesFor
  <2> HIDE DEF MineIndex
  <2> QED BY <2>2, <2>3 DEF Mineable, Asks
<1>4. IInv /\ [Next]_vars => [Fresh]_vars
  BY <1>3, StepInv
<1> QED BY <1>1, <1>2, <1>4, PTL DEF Spec, SwitchesToFreshWork

\* After a decision the page mined for is listed, and one that is not wanted is
\* only mined for while a site that is wanted has but an old blob.
THEOREM AlwaysUnwantedOnlyInAWait == Spec => UnwantedOnlyInAWait
<1> DEFINE Waits == Decides /\ job'.page # NoPage =>
                      \E i \in DOMAIN db :
                        /\ db[i].page = job'.page
                        /\ \/ Asks(db[i])
                           \/ \E k \in DOMAIN db : /\ Asks(db[k])
                                                   /\ HasWork(db[k])
                                                   /\ db[k].blobAge > BlobLife
<1>1. Init => IInv
  BY InitInv DEF WInv
<1>2. IInv /\ [Next]_vars => IInv'
  BY StepInv
<1>3. ASSUME IInv, Decide, job'.page # NoPage
      PROVE  \E i \in DOMAIN db :
               /\ db[i].page = job'.page
               /\ \/ Asks(db[i])
                  \/ \E k \in DOMAIN db : /\ Asks(db[k])
                                          /\ HasWork(db[k])
                                          /\ db[k].blobAge > BlobLife
  <2>1. MineIndex # 0
    BY <1>3 DEF Decide, MineOrStop, NoJob
  <2>2. job'.page = db[MineIndex].page
    BY <1>3, <2>1 DEF Decide, MineOrStop
  <2>3. \A k \in DOMAIN db : db[k].blobAge \in Nat
    BY <1>3, DbTable, DbAssumption DEF Entries, Stale
  <2> HIDE DEF MineIndex
  <2>4. CASE MineIndex \in DOMAIN db /\ Mineable(db[MineIndex])
    BY <2>2, <2>4 DEF Mineable
  <2>5. CASE /\ MineIndex \in DOMAIN db
             /\ WantIndex \in DOMAIN db
             /\ Asks(db[WantIndex]) /\ HasWork(db[WantIndex]) /\ ~Mineable(db[WantIndex])
    <3>1. db[WantIndex].blobAge > BlobLife
      BY <2>3, <2>5, DbAssumption DEF Mineable
    <3> QED BY <2>2, <2>5, <3>1
  <2> QED BY <1>3, <2>1, <2>4, <2>5, MinesFor
<1>4. ASSUME IInv, Next, Decides
      PROVE  Decide
  BY <1>4 DEF Decides, Next, Browse, Answer, CmdSite, LoseInfo, ForgetAll, DeleteEntry, SetTarget,
              SetEnabled, Timeout, AskInfo
<1>5. IInv /\ [Next]_vars => [Waits]_vars
  BY <1>3, <1>4
<1> QED BY <1>1, <1>2, <1>5, PTL DEF Spec, UnwantedOnlyInAWait

\* What tick looks for in the table is the same after an info query.
LEMMA QueriedLooksSame ==
  ASSUME IInv, NEW i \in DOMAIN db, db' = WithInfoQueried(i), job' = job
  PROVE  /\ DOMAIN db' = DOMAIN db
         /\ WantIndex' = WantIndex /\ CurrentIndex' = CurrentIndex
         /\ \A k \in DOMAIN db : /\ db'[k].named = db[k].named
                                 /\ k # i => db'[k].infoAge = db[k].infoAge
         /\ db'[i].infoAge = 0
<1>1. /\ IsTable(db) /\ DOMAIN db = 1..Len(db) /\ Len(db) \in Nat
      /\ \A k \in DOMAIN db : db[k] \in Entries
  BY DbTable
<1>2. /\ DOMAIN db' = DOMAIN db
      /\ \A k \in DOMAIN db : db'[k] = IF k = i THEN [db[i] EXCEPT !.infoAge = 0] ELSE db[k]
  BY DEF WithInfoQueried
<1>3. \A k \in DOMAIN db : /\ db'[k].page = db[k].page
                           /\ db'[k].named = db[k].named
                           /\ db'[k].balance = db[k].balance
                           /\ db'[k].target = db[k].target
                           /\ db'[k].enabled = db[k].enabled
                           /\ db'[k].work = db[k].work
                           /\ k # i => db'[k].infoAge = db[k].infoAge
  BY <1>1, <1>2 DEF Entries
<1>4. db'[i].infoAge = 0
  BY <1>1, <1>2 DEF Entries
<1>5. db' \in Seq(Entries) /\ Len(db') = Len(db)
  <2>1. IsTable(WithInfoQueried(i))
    BY ChangedTable
  <2>2. DOMAIN db' = 1..Len(db') /\ Len(db') \in Nat
    BY <2>1, LenProperties DEF IsTable
  <2> QED BY <1>1, <1>2, <2>1, <2>2 DEF IsTable
<1> DEFINE I == {k \in 1..Len(db) : Asks(db[k]) /\ HasWork(db[k])}
           J == {k \in 1..Len(db) : db[k].page = job.page}
<1>6. I' = I /\ J' = J
  BY <1>1, <1>3, <1>5 DEF Asks, HasWork
<1>7. /\ WantIndex = IF I # {} THEN Max(I) ELSE 0
      /\ WantIndex' = IF I' # {} THEN Max(I') ELSE 0
  BY DEF WantIndex, SelectLastInSeq
<1>8. /\ CurrentIndex = IF J # {} THEN Min(J) ELSE 0
      /\ CurrentIndex' = IF J' # {} THEN Min(J') ELSE 0
  BY DEF CurrentIndex, FindMiningPage, SelectInSeq
<1> HIDE DEF I, J
<1>9. WantIndex' = WantIndex /\ CurrentIndex' = CurrentIndex
  BY <1>6, <1>7, <1>8
<1> QED BY <1>2, <1>3, <1>4, <1>9

\* Each info command that the loop of NativeMessagingHandler::tick sends leaves fewer
\* rows due, and none due that was not: the reason that the loop ends.
THEOREM AlwaysGetsFewer == Spec => RoundsGetFewer
<1>1. Init => IInv
  BY InitInv DEF WInv
<1>2. IInv /\ [Next]_vars => IInv'
  BY StepInv
<1>3. ASSUME IInv, AskInfo
      PROVE  Due' \subseteq Due /\ Due' # Due
  <2>1. PICK i \in DOMAIN db : DueForInfo(i) /\ db' = WithInfoQueried(i)
    BY <1>3 DEF AskInfo
  <2>2. job' = job
    BY <1>3 DEF AskInfo
  <2>3. /\ DOMAIN db' = DOMAIN db
        /\ WantIndex' = WantIndex /\ CurrentIndex' = CurrentIndex
        /\ \A k \in DOMAIN db : /\ db'[k].named = db[k].named
                                /\ k # i => db'[k].infoAge = db[k].infoAge
        /\ db'[i].infoAge = 0
    BY <1>3, <2>1, <2>2, QueriedLooksSame
  <2>4. i \in Due
    BY <2>1 DEF Due
  <2>5. i \notin Due'
    <3>1. ~(0 >= InfoPeriod)
      BY DbAssumption
    <3> QED BY <2>3, <3>1 DEF Due, DueForInfo
  <2>6. \A k \in Due' : k # i
    BY <2>5
  <2>7. Due' \subseteq Due
    BY <2>3, <2>6 DEF Due, DueForInfo
  <2> QED BY <2>4, <2>5, <2>7
<1>4. ASSUME IInv, Next, ticking, ticking'
      PROVE  AskInfo
  BY <1>4 DEF Next, Browse, Answer, CmdSite, LoseInfo, ForgetAll, DeleteEntry, SetTarget,
              SetEnabled, Timeout, Decide
<1>5. IInv /\ [Next]_vars => [ticking /\ ticking' => Due' \subseteq Due /\ Due' # Due]_vars
  BY <1>3, <1>4
<1> QED BY <1>1, <1>2, <1>5, PTL DEF Spec, RoundsGetFewer
=============================================================================
