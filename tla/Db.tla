--------------------------------- MODULE Db ---------------------------------
(***************************************************************************)
(* control-center/src/db.cpp: the sites that have asked for payment, in    *)
(* the order they were first seen.  Rows are numbered as the window and    *)
(* Executor::tick number them, except that they start from 1.              *)
(*                                                                         *)
(* The fields that describe the work a server hands out are tagged with    *)
(* the job (one answer of the server's daemon) they came from, because     *)
(* each of them is assigned on its own.  Times are kept as ages in ticks   *)
(* of the control center's timer, saturated where the code stops telling   *)
(* them apart.  Location, payment, credits_per_hash_found and the account  *)
(* key decide nothing here and are left out; so are the locks, as only the *)
(* main thread ever calls the database.                                    *)
(***************************************************************************)
EXTENDS Naturals, Headers

CONSTANTS Pages,       \* mining pages, what identifies a site
          Jobs,        \* answers of the sites' daemons to rpc_access_info
          NoData,      \* a work field that was never filled in
          Amounts,     \* balances and targets, in credits
          InfoPeriod,  \* ticks before a site is asked for news again (10 s)
          BlobLife     \* ticks a hashing blob may be mined on (15 s)

ASSUME DbAssumption ==
  /\ NoData \notin Jobs
  /\ Amounts \subseteq Nat
  /\ 0 \in Amounts
  /\ InfoPeriod \in Nat \ {0}
  /\ BlobLife \in Nat
  /\ InfoPeriod <= BlobLife

VARIABLE db

Stale == BlobLife + 1

Entries == [page : Pages,
            named : BOOLEAN,
            balance : Amounts,
            target : Amounts,
            enabled : BOOLEAN,
            infoAge : 0..InfoPeriod,
            work : [WorkFields -> Jobs \cup {NoData}],
            blobAge : 0..Stale]

\* Both times start at 0, the epoch: long ago.
NewEntry(p) == [page |-> p,
                named |-> FALSE,
                balance |-> 0,
                target |-> 0,
                enabled |-> TRUE,
                infoAge |-> InfoPeriod,
                work |-> [f \in WorkFields |-> NoData],
                blobAge |-> Stale]

DbTypeOK == db \in Seq(Entries)

-----------------------------------------------------------------------------
(* Queries *)

\* Row of a page, 0 when there is none.
FindMiningPage(p) == SelectInSeq(db, LAMBDA e : e.page = p)

HasEntry(p) == FindMiningPage(p) # 0

-----------------------------------------------------------------------------
(* Updates: the new value of the table *)

\* Faulty: the new cookie of a site that is already known is not stored.
FillKeepingCookie(e, r) ==
  [e EXCEPT !.named = @ \/ "name" \in r.fields,
            !.balance = IF "credits" \in r.fields THEN r.credits ELSE @,
            !.work = [f \in WorkFields |->
                        IF f \in r.fields /\ (f # "cookie" \/ e.work[f] = NoData)
                          THEN r.job ELSE e.work[f]],
            !.blobAge = IF "hashing_blob" \in r.fields THEN 0 ELSE @]

\* A reply r says something about some of the fields of the entry e.
Fill(e, r) ==
  [e EXCEPT !.named = @ \/ "name" \in r.fields,
            !.balance = IF "credits" \in r.fields THEN r.credits ELSE @,
            !.work = [f \in WorkFields |-> IF f \in r.fields THEN r.job ELSE e.work[f]],
            !.blobAge = IF "hashing_blob" \in r.fields THEN 0 ELSE @]

\* Faulty: only the last row is looked at for the page.
UpdatedLastOnly(r) ==
  IF db # <<>> /\ Last(db).page = r.page
    THEN [db EXCEPT ![Len(db)] = Fill(@, r)]
    ELSE Append(db, [Fill(NewEntry(r.page), r) EXCEPT !.balance = 0])

\* DB::update: a new site starts with a balance of 0 whatever the reply says.
Updated(r) ==
  IF HasEntry(r.page)
    THEN [db EXCEPT ![FindMiningPage(r.page)] = Fill(@, r)]
    ELSE Append(db, [Fill(NewEntry(r.page), r) EXCEPT !.balance = 0])

WithoutEntry(i) == RemoveAt(db, i)

WithTarget(i, amount) == [db EXCEPT ![i].target = amount]

WithEnabled(i, on) == [db EXCEPT ![i].enabled = on]

\* Faulty: the time of the query is not noted.
WithoutInfoQueried(i) == db

WithInfoQueried(i) == [db EXCEPT ![i].infoAge = 0]

\* Faulty: ages are counted on.
Unbounded(bound, n) == n

AtMost(bound, n) == IF n > bound THEN bound ELSE n

\* One tick's worth of time passes.
Aged == [i \in DOMAIN db |->
           [db[i] EXCEPT !.infoAge = AtMost(InfoPeriod, @ + 1),
                         !.blobAge = AtMost(Stale, @ + 1)]]

-----------------------------------------------------------------------------
\* A page has one row: rows are found by page, and the window and the executor
\* then work on that row by number.
OnePerPage == \A i, k \in DOMAIN db : db[i].page = db[k].page => i = k
=============================================================================
