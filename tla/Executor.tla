------------------------------ MODULE Executor ------------------------------
(***************************************************************************)
(* control-center/src/executor.cpp and the part of                         *)
(* native-messaging-handler.cpp that drives it: the Qt main thread, which  *)
(* handles one thing at a time: a message of the browser, a click, or the  *)
(* timer.  The timer calls Executor::tick until it returns "" and sends    *)
(* each command it returns before; nothing else runs in between.           *)
(*                                                                         *)
(* The miner is seen through its shared work only (Miner.tla): which page, *)
(* which fields, as set_hashing_blob, update and stop leave them.          *)
(***************************************************************************)
EXTENDS Db

CONSTANTS NoPage,       \* the empty mining page
          ReplyShapes   \* the sets of fields replies are seen with

ASSUME ExecutorAssumption ==
  /\ NoPage \notin Pages
  /\ ReplyShapes \subseteq SUBSET Fields

VARIABLES job,      \* the miner's shared work
          asked,    \* pages with an info request on its way or being answered
          ticking   \* in the loop of NativeMessagingHandler::tick

vars == <<db, job, asked, ticking>>

NoWork == [f \in WorkFields |-> NoData]

NoJob == [page |-> NoPage, work |-> NoWork]

MinerJobs == [page : Pages, work : [WorkFields -> Jobs \cup {NoData}]]

\* Without the field the message says nothing of a balance, without work of a job.
Replies == {r \in [page : Pages, fields : ReplyShapes, job : Jobs \cup {NoData}, credits : Amounts] :
              /\ r.job = NoData <=> WorkFields \cap r.fields = {}
              /\ "credits" \in r.fields \/ r.credits = 0}

TypeOK == /\ DbTypeOK
          /\ job \in MinerJobs \cup {NoJob}
          /\ asked \subseteq Pages
          /\ ticking \in BOOLEAN

Init == /\ db = <<>>
        /\ job = NoJob
        /\ asked = {}
        /\ ticking = FALSE

-----------------------------------------------------------------------------
(* Messages of the browser *)

\* Faulty: news about another site replaces the job that is being mined.
HandOverNews(r) == job' = IF WorkFields \subseteq r.fields
                            THEN [page |-> r.page, work |-> [f \in WorkFields |-> r.job]]
                            ELSE job

\* Miner::update, which cmd_site calls when every work field is there, drops
\* what is not about the page being mined.
UpdateMiner(r) == job' = IF WorkFields \subseteq r.fields /\ job.page = r.page
                           THEN [job EXCEPT !.work = [f \in WorkFields |-> r.job]]
                           ELSE job

\* cmd_site: the headers of a response, relayed by the extension.
CmdSite(r) == /\ ~ticking
              /\ db' = Updated(r)
              /\ UpdateMiner(r)

\* The user's own browsing, of any page of a site.
Browse(r) == /\ CmdSite(r)
             /\ UNCHANGED <<asked, ticking>>

\* The response to an info request.
Answer(r) == /\ r.page \in asked
             /\ r.fields \notin PaywallShapes
             /\ CmdSite(r)
             /\ asked' = asked \ {r.page}
             /\ UNCHANGED ticking

\* The request or the response got lost.
LoseInfo(p) == /\ ~ticking
               /\ p \in asked
               /\ asked' = asked \ {p}
               /\ UNCHANGED <<db, job, ticking>>

\* forget_all, and the window's "Forget all".
ForgetAll == /\ ~ticking
             /\ db' = <<>>
             /\ UNCHANGED <<job, asked, ticking>>

-----------------------------------------------------------------------------
(* The window *)

DeleteEntry(i) == /\ ~ticking
                  /\ db' = WithoutEntry(i)
                  /\ UNCHANGED <<job, asked, ticking>>

SetTarget(i, amount) == /\ ~ticking
                        /\ db' = WithTarget(i, amount)
                        /\ UNCHANGED <<job, asked, ticking>>

SetEnabled(i, on) == /\ ~ticking
                     /\ db' = WithEnabled(i, on)
                     /\ UNCHANGED <<job, asked, ticking>>

-----------------------------------------------------------------------------
(* The timer *)

\* A tick's time passes and the timer fires.
Timeout == /\ ~ticking
           /\ ticking' = TRUE
           /\ db' = Aged
           /\ UNCHANGED <<job, asked>>

Asks(e) == e.enabled /\ e.balance < e.target

HasWork(e) == /\ e.work["hashing_blob"] # NoData
              /\ e.work["difficulty"] # NoData

\* The last row that can be mined for, and the row being mined for; 0 for none.
WantIndex == SelectLastInSeq(db, LAMBDA e : Asks(e) /\ HasWork(e))

CurrentIndex == FindMiningPage(job.page)

\* Faulty: a row is no longer asked about once its site has a name.
DueUnlessNamed(i) == /\ db[i].infoAge >= InfoPeriod
                     /\ ~db[i].named

DueForInfo(i) == /\ db[i].infoAge >= InfoPeriod
                 /\ i \in {WantIndex, CurrentIndex} \/ ~db[i].named

\* tick returns an info command for the first row that is due.
AskInfo == /\ ticking
           /\ \E i \in DOMAIN db :
                /\ DueForInfo(i)
                /\ \A k \in 1..(i - 1) : ~DueForInfo(k)
                /\ db' = WithInfoQueried(i)
                /\ asked' = asked \cup {db[i].page}
           /\ UNCHANGED <<job, ticking>>

\* Faulty: the age of the blob is not looked at.
MineableAnyAge(e) == Asks(e) /\ HasWork(e)

Mineable(e) == Asks(e) /\ HasWork(e) /\ e.blobAge <= BlobLife

\* One iteration of the loop that looks for a row to mine for.
OrCurrent(i) == IF i # 0 /\ ~Mineable(db[i]) THEN CurrentIndex ELSE i

MineIndex == OrCurrent(OrCurrent(WantIndex))

\* Faulty: when no site is wanted the miner is left alone.
MineOrLeave == job' = IF MineIndex # 0
                        THEN [page |-> db[MineIndex].page, work |-> db[MineIndex].work]
                        ELSE job

\* set_hashing_blob with what the row holds, or stop.
MineOrStop == job' = IF MineIndex # 0
                       THEN [page |-> db[MineIndex].page, work |-> db[MineIndex].work]
                       ELSE NoJob

\* Nobody is due: tick decides what to mine for and returns "".
Decide == /\ ticking
          /\ \A i \in DOMAIN db : ~DueForInfo(i)
          /\ MineOrStop
          /\ ticking' = FALSE
          /\ UNCHANGED <<db, asked>>

-----------------------------------------------------------------------------
Next == \/ \E r \in Replies : Browse(r) \/ Answer(r)
        \/ \E p \in Pages : LoseInfo(p)
        \/ ForgetAll
        \/ \E i \in DOMAIN db : \/ DeleteEntry(i)
                                \/ \E amount \in Amounts : SetTarget(i, amount)
                                \/ \E on \in BOOLEAN : SetEnabled(i, on)
        \/ Timeout
        \/ AskInfo
        \/ Decide

Spec == Init /\ [][Next]_vars

\* Every field of the work, from one answer of the daemon.
Whole(r) == WorkFields \subseteq r.fields

AnswerWhole(p) == \E r \in Replies : r.page = p /\ Whole(r) /\ Answer(r)

\* The timer fires and its loop runs on; a site that is asked again and again
\* answers in full sooner or later.
Fairness == /\ WF_vars(Timeout)
            /\ WF_vars(AskInfo)
            /\ WF_vars(Decide)
            /\ \A p \in Pages : SF_vars(AnswerWhole(p))

FairSpec == Spec /\ Fairness
-----------------------------------------------------------------------------
(* Safety *)

Decides == ticking /\ ~ticking'

\* From one answer of the daemon, or from none at all.
WholeWork(work) == \A f \in WorkFields : work[f] = work["hashing_blob"]

\* The job never mixes fields of different answers: its blob is hashed to its
\* difficulty and reported with its top hash and cookie.  The code does not have
\* this.
JobsAreWhole == WholeWork(job.work)

AllWhole == JobsAreWhole /\ \A i \in DOMAIN db : WholeWork(db[i].work)

\* Some of the work fields, but not all.
Partial(r) == WorkFields \cap r.fields # {} /\ ~Whole(r)

\* The table and the miner only come to mix the fields of different answers when a
\* reply arrives that carries part of the work: forgetting sites and meeting them
\* again, switching, and replies with all of the work or none keep jobs whole.
OnlyPartialRepliesMix ==
  [][AllWhole /\ ~AllWhole' => \E r \in Replies : Partial(r) /\ (Browse(r) \/ Answer(r))]_vars

\* News about a site, browsing, clicks and lost requests never change which
\* page is mined for: only the timer's decision does.
OnlyTimerSwitches == [][job'.page # job.page => Decides]_vars

\* The timer only ever turns to a page that is listed, allowed, below its
\* target, and whose blob is young enough: the two rounds of falling back to
\* the current row never land on another row.
SwitchesToFreshWork ==
  [][job'.page \notin {job.page, NoPage} =>
       \E i \in DOMAIN db : /\ db[i].page = job'.page
                            /\ db[i].enabled
                            /\ db[i].balance < db[i].target
                            /\ db[i].blobAge <= BlobLife]_vars

\* After a decision the page mined for is still listed, and if it is not wanted
\* any more (not allowed, or target reached) that is because a site that is
\* wanted has only an old blob.  In particular a forgotten site is dropped at
\* the next decision, and mining stops when nothing is wanted.
UnwantedOnlyInAWait ==
  [][Decides /\ job'.page # NoPage =>
       \E i \in DOMAIN db :
         /\ db[i].page = job'.page
         /\ \/ Asks(db[i])
            \/ \E k \in DOMAIN db : /\ Asks(db[k])
                                    /\ HasWork(db[k])
                                    /\ db[k].blobAge > BlobLife]_vars

Due == {i \in DOMAIN db : DueForInfo(i)}

\* In a loop of the timer a request leaves fewer rows due, and only rows that were
\* due before: asking about one makes no other due, and the one is not asked again.
RoundsGetFewer == [][ticking /\ ticking' => Due' \subseteq Due /\ Due' # Due]_vars

\* After a decision the page mined for is one the user allows and whose target
\* is not reached ("Primo will mine until your balance reaches the target",
\* "you can select which sites you wish to mine for").  The code does not have
\* this: see UnwantedOnlyInAWait.
MinesOnlyWanted ==
  [][Decides /\ job'.page # NoPage =>
       \E i \in DOMAIN db : db[i].page = job'.page /\ Asks(db[i])]_vars

-----------------------------------------------------------------------------
(* Liveness *)

\* The loop in NativeMessagingHandler::tick ends.
TimerLoopEnds == ticking ~> ~ticking

\* p is the one site the user wants mining for.
SoleWanted(p) == /\ \E i \in DOMAIN db : db[i].page = p /\ Asks(db[i])
                 /\ \A i \in DOMAIN db : Asks(db[i]) => db[i].page = p

Mining(p) == job.page = p /\ job.work["hashing_blob"] # NoData

\* A row with a name and no blob: tick neither mines for it nor asks about it.
NamedWithoutWork(p) == \E i \in DOMAIN db : /\ db[i].page = p
                                           /\ db[i].named
                                           /\ ~HasWork(db[i])

\* A site that stays the only wanted one is mined for in the end, when the
\* first answer that names it also brings work.
WantedSiteGetsMined ==
  \A p \in Pages : <>[](SoleWanted(p) /\ ~NamedWithoutWork(p)) => []<>Mining(p)

\* The same without that condition: "To mine, set a target balance for this
\* site.  Primo will mine until your balance reaches the target."  The code does
\* not have this.
TargetGetsMined == \A p \in Pages : <>[]SoleWanted(p) => []<>Mining(p)
=============================================================================
