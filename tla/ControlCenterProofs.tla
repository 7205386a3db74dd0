------------------------ MODULE ControlCenterProofs ------------------------
(***************************************************************************)
(* Theorems about ControlCenter, for any sites, locations and bounds, and  *)
(* any width of the words that hashes are made of.                         *)
(***************************************************************************)
EXTENDS ControlCenter, DifficultyProofs, SequenceLemmas

\* The rows' accounts are different, and made for their sites.
RowsOwn ==
  /\ \A i \in DOMAIN rows : /\ rows[i].account \in DOMAIN owners
                            /\ owners[rows[i].account] = rows[i].page
  /\ \A i, k \in DOMAIN rows : rows[i].account = rows[k].account => i = k

\* Where j.account signed for j.url: the account's row, when it still is there,
\* fits the URL, and no row before it is the URL's own.
Fitted(j) ==
  /\ j.account \in DOMAIN owners
  /\ owners[j.account] \in Within[j.url]
  /\ \A k \in DOMAIN rows :
       rows[k].account = j.account =>
         /\ Fits(rows[k], j.url)
         /\ \A i \in 1..(k - 1) : rows[i].page # j.url

CarriersFitted == \A j \in Carriers : j.account # NoAccount => Fitted(j)

NoncePages == \A r \in requests : r.job # NoJob => r.job.url = r.url

HashIsThere == busy => copy \in Jobs /\ hash \in Samples

IInv == /\ TypeOK
        /\ HashIsThere
        /\ NoncePages
        /\ RowsOwn
        /\ CarriersFitted

-----------------------------------------------------------------------------
(* Data *)

LEMMA NoJobIsNone == NoJob \notin Jobs /\ NoJob.account = NoAccount /\ NoAccount \notin Accounts
BY ControlCenterAssumption DEF NoJob, Jobs, NoAccount, Accounts

\* find_url returns the first row that fits, if one does.
LEMMA FindUrlIsFirst ==
  ASSUME rows \in Seq(Rows), NEW p
  PROVE  \/ /\ FindUrl(p) = 0
            /\ \A i \in DOMAIN rows : ~Fits(rows[i], p)
         \/ /\ FindUrl(p) \in DOMAIN rows
            /\ Fits(rows[FindUrl(p)], p)
            /\ \A i \in 1..(FindUrl(p) - 1) : ~Fits(rows[i], p)
<1> DEFINE I == {i \in 1..Len(rows) : Fits(rows[i], p)}
<1>1. FindUrl(p) = IF I # {} THEN Min(I) ELSE 0
  BY DEF FindUrl, SelectInSeq
<1>2. DOMAIN rows = 1..Len(rows) /\ Len(rows) \in Nat
  BY LenProperties
<1>3. CASE I = {}
  BY <1>1, <1>2, <1>3
<1>4. CASE I # {}
  <2>1. \E m \in I : \A n \in I : m <= n
    <3>1. I \in SUBSET Nat
      BY <1>2
    <3> HIDE DEF I
    <3> QED BY <1>4, <3>1, Least
  <2>2. Min(I) \in I /\ \A n \in I : Min(I) <= n
    BY <2>1 DEF Min
  <2>3. FindUrl(p) \in I /\ \A n \in I : FindUrl(p) <= n
    BY <1>1, <1>4, <2>2
  <2>4. FindUrl(p) \in 1..Len(rows) /\ Fits(rows[FindUrl(p)], p)
    BY <2>3
  <2>5. \A i \in 1..(FindUrl(p) - 1) : ~Fits(rows[i], p)
    BY <1>2, <2>3, <2>4
  <2> QED BY <1>2, <2>4, <2>5
<1> QED BY <1>3, <1>4

\* Whom a request for a page is signed for.
LEMMA SignerFitted ==
  ASSUME IInv, NEW j, j.url \in Urls, j.account = AccountFor(j.url)
  PROVE  /\ j.account \in Accounts \cup {NoAccount}
         /\ j.account # NoAccount => Fitted(j)
<1> DEFINE f == FindUrl(j.url)
<1>1. rows \in Seq(Rows) /\ DOMAIN rows = 1..Len(rows) /\ Len(rows) \in Nat
  BY LenProperties DEF IInv, TypeOK
<1>2. CASE f = 0
  BY <1>2 DEF AccountFor
<1>3. CASE f # 0
  <2>1. /\ f \in DOMAIN rows /\ Fits(rows[f], j.url)
        /\ \A i \in 1..(f - 1) : ~Fits(rows[i], j.url)
    BY <1>1, <1>3, FindUrlIsFirst
  <2>2. j.account = rows[f].account
    BY <1>3 DEF AccountFor
  <2> HIDE DEF f
  <2>3. rows[f].account \in Accounts /\ rows[f].page \in Pages
    <3>1. rows[f] \in Rows
      BY <1>1, <2>1, ElementOfSeq
    <3> QED BY <3>1 DEF Rows
  <2>4. rows[f].page \in Within[j.url]
    BY <2>1, <2>3, ControlCenterAssumption DEF Fits
  <2>5. \A k \in DOMAIN rows : rows[k].account = j.account => k = f
    BY <2>1, <2>2 DEF IInv, RowsOwn
  <2>6. \A i \in 1..(f - 1) : rows[i].page # j.url
    BY <2>1 DEF Fits
  <2>7. Fitted(j)
    BY <2>1, <2>2, <2>4, <2>5, <2>6 DEF Fitted, IInv, RowsOwn
  <2> QED BY <2>2, <2>3, <2>7
<1> QED BY <1>2, <1>3

-----------------------------------------------------------------------------
(* Steps that leave the table alone *)

LEMMA SameTable ==
  ASSUME IInv, TypeOK', HashIsThere', NoncePages', UNCHANGED <<rows, owners>>,
         \A j \in Carriers' : j.account # NoAccount => j \in Carriers \/ Fitted(j)
  PROVE  IInv'
<1>1. RowsOwn'
  BY DEF IInv, RowsOwn
<1>2. ASSUME NEW j \in Carriers', j.account # NoAccount
      PROVE  Fitted(j)'
  <2>1. Fitted(j)
    BY <1>2 DEF IInv, CarriersFitted
  <2> QED BY <2>1 DEF Fitted
<1>3. CarriersFitted'
  BY <1>2 DEF CarriersFitted
<1> QED BY <1>1, <1>3 DEF IInv

LEMMA RequestInv ==
  ASSUME IInv, NEW url \in Urls, NEW job \in Carriers \cup {NoJob}, job \in Jobs \cup {NoJob},
         job # NoJob => job.url = url,
         Request(url, job), TypeOK', UNCHANGED <<rows, owners, slot, copy, busy, hash>>,
         ToSet(reports') \subseteq ToSet(reports)
  PROVE  IInv'
<1> DEFINE r == [url |-> url, job |-> job, sent |-> FALSE, account |-> NoAccount]
<1>1. requests' = requests \cup {r}
  BY DEF Request
<1>2. \A j \in Carriers' : j \in Carriers \cup {r, NoJob}
  BY <1>1 DEF Carriers
<1>3. NoncePages'
  BY <1>1 DEF IInv, NoncePages
<1>4. HashIsThere'
  BY DEF IInv, HashIsThere
<1> QED BY <1>2, <1>3, <1>4, NoJobIsNone, SameTable

LEMMA AskInv ==
  ASSUME IInv, NEW url \in Urls, Ask(url)
  PROVE  IInv'
<1>1. [url |-> url, job |-> NoJob, sent |-> FALSE, account |-> NoAccount] \in Requests
  BY DEF Requests
<1>2. TypeOK'
  BY <1>1 DEF IInv, TypeOK, Ask, Request, miner, Miner!TypeOK
<1> QED BY <1>2, RequestInv DEF Ask, miner

LEMMA SendInv ==
  ASSUME IInv, NEW r \in requests, NEW account \in {NoAccount, AccountFor(r.url)},
         Send(r, account)
  PROVE  IInv'
<1> DEFINE q == [r EXCEPT !.sent = TRUE, !.account = account]
<1>1. r \in Requests
  BY DEF IInv, TypeOK
<1>2. account \in Accounts \cup {NoAccount}
  <2> DEFINE j == [url |-> r.url, account |-> AccountFor(r.url)]
  <2>1. j.url \in Urls /\ j.account = AccountFor(j.url)
    BY <1>1 DEF Requests
  <2> QED BY <2>1, SignerFitted
<1>3. /\ q \in Requests /\ q.url = r.url /\ q.job = r.job /\ q.account = account
  BY <1>1, <1>2 DEF Requests
<1>4. requests' = (requests \ {r}) \cup {q}
  BY DEF Send
<1>5. q.account # NoAccount => Fitted(q)
  BY <1>1, <1>3, SignerFitted DEF Requests
<1> HIDE DEF q
<1>6. TypeOK'
  BY <1>3, <1>4 DEF IInv, TypeOK, Send, miner, Miner!TypeOK
<1>7. NoncePages'
  BY <1>3, <1>4 DEF IInv, NoncePages
<1>8. HashIsThere' /\ UNCHANGED <<rows, owners>>
  BY DEF IInv, HashIsThere, Send, miner
<1>9. \A j \in Carriers' : j \in Carriers \cup {q}
  BY <1>3, <1>4 DEF Carriers, Send, miner
<1> QED BY <1>5, <1>6, <1>7, <1>8, <1>9, SameTable

LEMMA LoseInv ==
  ASSUME IInv, NEW r \in requests, Lose(r)
  PROVE  IInv'
<1>1. TypeOK' /\ NoncePages' /\ HashIsThere' /\ UNCHANGED <<rows, owners>>
  BY DEF IInv, TypeOK, NoncePages, HashIsThere, Lose, miner, Miner!TypeOK
<1>2. Carriers' \subseteq Carriers
  BY DEF Carriers, Lose, miner
<1> QED BY <1>1, <1>2, SameTable

-----------------------------------------------------------------------------
(* Steps that change the table *)

RowsKept ==
  \A i \in DOMAIN rows : /\ i \in DOMAIN rows'
                         /\ rows'[i].page = rows[i].page
                         /\ rows'[i].account = rows[i].account
                         /\ rows[i].located => rows'[i].located

RowAdded(p) ==
  \A i \in DOMAIN rows' \ DOMAIN rows : /\ i = Len(rows) + 1
                                        /\ rows'[i].page = p
                                        /\ rows'[i].account = Len(owners) + 1

OwnerAdded(p) == \/ owners' = owners /\ DOMAIN rows' = DOMAIN rows
                 \/ owners' = Append(owners, p)

LEMMA Below ==
  /\ \A n \in Nat : n + 1 \notin 1..n /\ n + 1 \in 1..(n + 1) /\ 1..n \subseteq 1..(n + 1)
  /\ \A n \in Nat : \A k \in 1..n : 1..(k - 1) \subseteq 1..n
OBVIOUS

\* What keeps accounts apart when rows get locations and work, and a new row,
\* with a new account, may follow them.
LEMMA TableGrows ==
  ASSUME IInv, TypeOK', HashIsThere', NoncePages', NEW p \in Pages,
         RowsKept, RowAdded(p), OwnerAdded(p),
         \A j \in Carriers' : j.account # NoAccount => j \in Carriers \/ Fitted(j)
  PROVE  IInv'
<1>1. /\ DOMAIN owners = 1..Len(owners) /\ Len(owners) \in Nat
      /\ DOMAIN rows = 1..Len(rows) /\ Len(rows) \in Nat
      /\ DOMAIN rows' = 1..Len(rows') /\ Len(rows') \in Nat
      /\ owners \in Seq(Pages)
  BY LenProperties DEF IInv, TypeOK
<1>2. \A a \in DOMAIN owners : a \in DOMAIN owners' /\ owners'[a] = owners[a]
  <2>1. CASE owners' = owners
    BY <2>1
  <2>2. CASE owners' = Append(owners, p)
    <3>1. /\ DOMAIN owners' = 1..(Len(owners) + 1)
          /\ \A a \in 1..Len(owners) : owners'[a] = owners[a]
      BY <1>1, <2>2, AppendProperties, LenProperties
    <3> QED BY <1>1, <3>1, Below
  <2> QED BY <2>1, <2>2 DEF OwnerAdded
<1>3. \A i \in DOMAIN rows' \ DOMAIN rows :
        /\ Len(owners) + 1 \in DOMAIN owners'
        /\ owners'[Len(owners) + 1] = p
  <2>1. CASE owners' = owners /\ DOMAIN rows' = DOMAIN rows
    BY <2>1
  <2>2. CASE owners' = Append(owners, p)
    BY <1>1, <2>2, AppendProperties
  <2> QED BY <2>1, <2>2 DEF OwnerAdded
<1>4. RowsOwn'
  <2>1. ASSUME NEW i \in DOMAIN rows'
        PROVE  /\ rows'[i].account \in DOMAIN owners'
               /\ owners'[rows'[i].account] = rows'[i].page
    <3>1. CASE i \in DOMAIN rows
      BY <1>2, <3>1 DEF IInv, RowsOwn, RowsKept
    <3>2. CASE i \notin DOMAIN rows
      BY <1>3, <3>2 DEF RowAdded
    <3> QED BY <3>1, <3>2
  <2>2. ASSUME NEW i \in DOMAIN rows', NEW k \in DOMAIN rows',
               rows'[i].account = rows'[k].account
        PROVE  i = k
    <3>1. CASE i \in DOMAIN rows /\ k \in DOMAIN rows
      BY <2>2, <3>1 DEF IInv, RowsOwn, RowsKept
    <3>2. CASE i \notin DOMAIN rows /\ k \notin DOMAIN rows
      BY <3>2 DEF RowAdded
    <3>3. \A l \in DOMAIN rows : rows'[l].account \in 1..Len(owners)
      BY <1>1 DEF IInv, RowsOwn, RowsKept
    <3>4. \A l \in DOMAIN rows' \ DOMAIN rows : rows'[l].account = Len(owners) + 1
      BY DEF RowAdded
    <3>5. Len(owners) + 1 \notin 1..Len(owners)
      BY <1>1, Below
    <3> QED BY <2>2, <3>1, <3>2, <3>3, <3>4, <3>5
  <2> QED BY <2>1, <2>2 DEF RowsOwn
<1>5. ASSUME NEW j \in Carriers', j.account # NoAccount
      PROVE  Fitted(j)'
  <2>1. Fitted(j)
    BY <1>5 DEF IInv, CarriersFitted
  <2>2. j.account \in DOMAIN owners' /\ owners'[j.account] \in Within[j.url]
    BY <1>2, <2>1 DEF Fitted
  <2>3. ASSUME NEW k \in DOMAIN rows', rows'[k].account = j.account
        PROVE  /\ Fits(rows'[k], j.url)
               /\ \A i \in 1..(k - 1) : rows'[i].page # j.url
    <3>1. k \in DOMAIN rows
      <4>1. j.account \in 1..Len(owners)
        BY <1>1, <2>1 DEF Fitted
      <4>2. j.account # Len(owners) + 1
        BY <1>1, <4>1, Below
      <4> QED BY <2>3, <4>2 DEF RowAdded
    <3>2. Fits(rows[k], j.url) /\ \A i \in 1..(k - 1) : rows[i].page # j.url
      BY <2>1, <2>3, <3>1 DEF Fitted, RowsKept
    <3>3. \A i \in 1..(k - 1) : i \in DOMAIN rows
      BY <1>1, <3>1, Below
    <3> QED BY <3>1, <3>2, <3>3 DEF Fits, RowsKept
  <2> QED BY <2>2, <2>3 DEF Fitted
<1> QED BY <1>4, <1>5 DEF IInv, CarriersFitted

LEMMA KnownRows ==
  ASSUME IInv, NEW p \in Pages, HasRow(p) \/ Len(owners) < MaxAccounts
  PROVE  /\ Known(p) \in Seq(Rows)
         /\ \A i \in DOMAIN rows : i \in DOMAIN Known(p) /\ Known(p)[i] = rows[i]
         /\ \A i \in DOMAIN Known(p) \ DOMAIN rows : /\ ~HasRow(p)
                                                     /\ i = Len(rows) + 1
                                                     /\ Known(p)[i] = NewRow(p)
         /\ HasRow(p) => Known(p) = rows
<1>1. rows \in Seq(Rows) /\ DOMAIN rows = 1..Len(rows) /\ Len(rows) \in Nat
      /\ Len(owners) \in Nat
  BY LenProperties DEF IInv, TypeOK
<1>2. CASE HasRow(p)
  BY <1>1, <1>2 DEF Known
<1>3. CASE ~HasRow(p)
  <2>1. NewRow(p) \in Rows
    BY <1>1, <1>3, ControlCenterAssumption DEF NewRow, Rows, Accounts
  <2>2. Known(p) = Append(rows, NewRow(p))
    BY <1>3 DEF Known
  <2> DEFINE known == Append(rows, NewRow(p))
  <2>3. /\ known \in Seq(Rows)
        /\ Len(known) = Len(rows) + 1
        /\ \A i \in 1..Len(rows) : known[i] = rows[i]
        /\ known[Len(rows) + 1] = NewRow(p)
    <3> HIDE DEF NewRow
    <3> QED BY <1>1, <2>1, AppendProperties
  <2> HIDE DEF known
  <2>4. DOMAIN known = 1..(Len(rows) + 1)
    BY <2>3, LenProperties
  <2>5. known = Known(p)
    BY <2>2 DEF known
  <2> QED BY <1>1, <1>3, <2>3, <2>4, <2>5
<1> QED BY <1>2, <1>3

LEMMA AnswerInv ==
  ASSUME IInv, NEW r \in requests, NEW located \in BOOLEAN, NEW job \in Jobs \cup {NoJob},
         job # NoJob => job.url = r.url /\ job.account = r.account,
         Answer(r, located, job)
  PROVE  IInv'
<1> DEFINE p == Site[r.url]
           known == Known(p)
           Updated(row) == [row EXCEPT !.located = @ \/ located,
                                       !.job = IF job # NoJob THEN job ELSE @]
<1>1. r \in Requests /\ p \in Pages /\ r.account \in Accounts \cup {NoAccount}
  BY ControlCenterAssumption DEF IInv, TypeOK, Requests, Answer
<1>2. /\ known \in Seq(Rows)
      /\ \A i \in DOMAIN rows : i \in DOMAIN known /\ known[i] = rows[i]
      /\ \A i \in DOMAIN known \ DOMAIN rows : /\ ~HasRow(p)
                                               /\ i = Len(rows) + 1
                                               /\ known[i] = NewRow(p)
      /\ HasRow(p) => known = rows
  BY <1>1, KnownRows DEF Answer
<1>3. rows' = [i \in DOMAIN known |-> IF known[i].page = p THEN Updated(known[i]) ELSE rows[i]]
  BY DEF Answer
<1> HIDE DEF known
<1>4. ASSUME NEW row \in Rows
      PROVE  /\ Updated(row) \in Rows
             /\ Updated(row).page = row.page
             /\ Updated(row).account = row.account
             /\ row.located => Updated(row).located
             /\ Updated(row).job \in {job, row.job}
             /\ Updated(row).job = NoJob => row.job = NoJob
  BY <1>4 DEF Rows
<1> HIDE DEF Updated
<1>5. /\ DOMAIN rows' = DOMAIN known
      /\ \A i \in DOMAIN known : known[i] \in Rows
      /\ \A i \in DOMAIN rows : rows[i] \in Rows
  <2>1. DOMAIN rows' = DOMAIN known
    BY <1>3
  <2>2. rows \in Seq(Rows) /\ DOMAIN rows = 1..Len(rows) /\ DOMAIN known = 1..Len(known)
    BY <1>2, LenProperties DEF IInv, TypeOK
  <2> QED BY <1>2, <2>1, <2>2, ElementOfSeq
<1>6. ASSUME NEW i \in DOMAIN rows
      PROVE  /\ i \in DOMAIN rows'
             /\ rows'[i] = IF rows[i].page = p THEN Updated(rows[i]) ELSE rows[i]
  BY <1>2, <1>3, <1>5
<1>7. ASSUME NEW i \in DOMAIN rows' \ DOMAIN rows
      PROVE  /\ i = Len(rows) + 1
             /\ NewRow(p) \in Rows
             /\ rows'[i] = Updated(NewRow(p))
  <2>1. i \in DOMAIN known /\ known[i] = NewRow(p) /\ NewRow(p) \in Rows /\ i = Len(rows) + 1
    BY <1>2, <1>5, <1>7
  <2>2. known[i].page = p
    BY <2>1 DEF NewRow
  <2> QED BY <1>3, <2>1, <2>2
<1>8. \A i \in DOMAIN rows : /\ i \in DOMAIN rows'
                             /\ rows'[i] \in Rows
                             /\ rows'[i].page = rows[i].page
                             /\ rows'[i].account = rows[i].account
                             /\ rows[i].located => rows'[i].located
                             /\ rows'[i].job \in {job, rows[i].job}
  BY <1>4, <1>5, <1>6
<1>9. \A i \in DOMAIN rows' \ DOMAIN rows : /\ i = Len(rows) + 1
                                            /\ rows'[i] \in Rows
                                            /\ rows'[i].page = p
                                            /\ rows'[i].account = Len(owners) + 1
                                            /\ rows'[i].job \in {job, NoJob}
  BY <1>4, <1>7 DEF NewRow
<1>10. rows' \in Seq(Rows)
  <2>1. DOMAIN rows' = 1..Len(known) /\ Len(known) \in Nat
    BY <1>2, <1>5, LenProperties
  <2>2. rows' \in [1..Len(known) -> Rows]
    BY <1>3, <1>8, <1>9, <2>1
  <2> QED BY <2>1, <2>2, SeqDef
<1>11. \/ HasRow(p) /\ owners' = owners /\ DOMAIN rows' = DOMAIN rows
       \/ ~HasRow(p) /\ owners' = Append(owners, p) /\ Len(owners) < MaxAccounts
  BY <1>2, <1>5 DEF Answer
<1>12. owners' \in Seq(Pages) /\ Len(owners') <= MaxAccounts
  BY <1>1, <1>11, AppendProperties, LenProperties, ControlCenterAssumption DEF IInv, TypeOK
<1>13. /\ requests' = requests \ {r}
       /\ slot' \in {slot, job} /\ UNCHANGED <<paused, copy, busy, reports, hash>>
  BY NoJobIsNone DEF Answer, Miner!Put, miner
<1>14. TypeOK' /\ NoncePages' /\ HashIsThere'
  BY <1>10, <1>12, <1>13 DEF IInv, TypeOK, NoncePages, HashIsThere, Miner!TypeOK
<1>15. ASSUME NEW j \in Carriers', j.account # NoAccount
       PROVE  j \in Carriers \/ Fitted(j)
  <2>1. j \in Carriers \cup {job, NoJob}
    <3>1. \A i \in DOMAIN rows' : rows'[i].job \in {job, NoJob} \cup {rows[k].job : k \in DOMAIN rows}
      BY <1>8, <1>9
    <3> QED BY <1>13, <3>1 DEF Carriers
  <2>2. CASE j = job
    <3>1. r \in Carriers /\ r.account # NoAccount
      BY <1>15, <2>2, NoJobIsNone DEF Carriers
    <3>2. Fitted(r) /\ j.url = r.url /\ j.account = r.account
      BY <1>15, <2>2, <3>1, NoJobIsNone DEF IInv, CarriersFitted
    <3> QED BY <3>2 DEF Fitted
  <2> QED BY <1>15, <2>1, <2>2, NoJobIsNone
<1> HIDE DEF p
<1>16. RowsKept /\ RowAdded(p) /\ OwnerAdded(p)
  BY <1>8, <1>9, <1>11 DEF RowsKept, RowAdded, OwnerAdded
<1> QED BY <1>1, <1>14, <1>15, <1>16, TableGrows

LEMMA ForgetInv ==
  ASSUME IInv, NEW i \in DOMAIN rows, Forget(i)
  PROVE  IInv'
<1> DEFINE Old(k) == IF k < i THEN k ELSE k + 1
<1>1. rows \in Seq(Rows) /\ DOMAIN rows = 1..Len(rows) /\ Len(rows) \in Nat
  BY LenProperties DEF IInv, TypeOK
<1>2. /\ rows' = RemoveAt(rows, i)
      /\ UNCHANGED <<owners, requests, slot, paused, copy, busy, reports, hash>>
  BY DEF Forget, miner
<1>3. /\ rows' \in Seq(Rows)
      /\ DOMAIN rows' = 1..(Len(rows) - 1)
      /\ \A k \in DOMAIN rows' : rows'[k] = IF k < i THEN rows[k] ELSE rows[k + 1]
  BY <1>1, <1>2, Removed
<1>4. ASSUME NEW k \in DOMAIN rows'
      PROVE  /\ Old(k) \in DOMAIN rows
             /\ rows'[k] = rows[Old(k)]
             /\ \A l \in 1..(k - 1) : l \in DOMAIN rows' /\ Old(l) \in 1..(Old(k) - 1)
             /\ \A l \in DOMAIN rows' : Old(l) = Old(k) => l = k
  <2>1. k \in 1..(Len(rows) - 1) /\ i \in 1..Len(rows)
    BY <1>1, <1>3
  <2>2. rows'[k] = rows[Old(k)]
    BY <1>3
  <2>3. /\ Old(k) \in 1..Len(rows)
        /\ \A l \in 1..(k - 1) : l \in 1..(Len(rows) - 1) /\ Old(l) \in 1..(Old(k) - 1)
        /\ \A l \in 1..(Len(rows) - 1) : Old(l) = Old(k) => l = k
    BY <1>1, <2>1
  <2> QED BY <1>1, <1>3, <2>2, <2>3
<1> HIDE DEF Old
<1>5. TypeOK' /\ NoncePages' /\ HashIsThere'
  BY <1>2, <1>3 DEF IInv, TypeOK, NoncePages, HashIsThere, Miner!TypeOK
<1>6. RowsOwn'
  BY <1>2, <1>4 DEF IInv, RowsOwn
<1>7. Carriers' \subseteq Carriers
  BY <1>2, <1>4 DEF Carriers
<1>8. ASSUME NEW j, Fitted(j)
      PROVE  Fitted(j)'
  <2>1. ASSUME NEW k \in DOMAIN rows', rows'[k].account = j.account
        PROVE  /\ Fits(rows'[k], j.url)
               /\ \A l \in 1..(k - 1) : rows'[l].page # j.url
    <3>1. /\ Fits(rows[Old(k)], j.url)
          /\ \A l \in 1..(Old(k) - 1) : rows[l].page # j.url
      BY <1>4, <1>8, <2>1 DEF Fitted
    <3> QED BY <1>4, <3>1
  <2> QED BY <1>2, <1>8, <2>1 DEF Fitted, Fits
<1> QED BY <1>5, <1>6, <1>7, <1>8 DEF IInv, CarriersFitted

LEMMA ForgetAllInv ==
  ASSUME IInv, ForgetAll
  PROVE  IInv'
<1>1. /\ rows' = <<>> /\ DOMAIN rows' = {}
      /\ UNCHANGED <<owners, requests, slot, paused, copy, busy, reports, hash>>
  BY EmptySeq DEF ForgetAll, miner
<1>2. TypeOK' /\ NoncePages' /\ HashIsThere' /\ RowsOwn'
  BY <1>1 DEF IInv, TypeOK, NoncePages, HashIsThere, RowsOwn, Miner!TypeOK
<1>3. Carriers' \subseteq Carriers /\ \A j : Fitted(j) => Fitted(j)'
  BY <1>1 DEF Carriers, Fitted
<1> QED BY <1>2, <1>3 DEF IInv, CarriersFitted

-----------------------------------------------------------------------------
(* The timer's and the miner's steps *)

LEMMA DecideInv ==
  ASSUME IInv, Decide
  PROVE  IInv'
<1>1. /\ slot' \in {rows[i].job : i \in DOMAIN rows} \cup {NoJob}
      /\ UNCHANGED <<rows, owners, requests, paused, copy, busy, reports, hash>>
  BY DEF Decide, Miner!Put
<1>2. slot' \in Jobs \cup {NoJob}
  <2>1. \A i \in DOMAIN rows : rows[i] \in Rows
    BY ElementOfSeq, LenProperties DEF IInv, TypeOK
  <2> QED BY <1>1, <2>1 DEF Rows
<1>3. TypeOK' /\ NoncePages' /\ HashIsThere'
  BY <1>1, <1>2 DEF IInv, TypeOK, NoncePages, HashIsThere, Miner!TypeOK
<1>4. Carriers' \subseteq Carriers \cup {NoJob}
  BY <1>1 DEF Carriers
<1> QED BY <1>1, <1>3, <1>4, NoJobIsNone, SameTable

LEMMA PauseInv ==
  ASSUME IInv, Pause
  PROVE  IInv'
<1>1. /\ paused' \in BOOLEAN
      /\ UNCHANGED <<rows, owners, requests, slot, copy, busy, reports, hash>>
  BY DEF Pause, Miner!TogglePause
<1>2. TypeOK' /\ NoncePages' /\ HashIsThere' /\ Carriers' = Carriers
  BY <1>1 DEF IInv, TypeOK, NoncePages, HashIsThere, Miner!TypeOK, Carriers
<1> QED BY <1>1, <1>2, SameTable

LEMMA StartHashInv ==
  ASSUME IInv, StartHash
  PROVE  IInv'
<1>1. /\ copy' \in {slot, copy} /\ hash' \in Samples /\ slot # NoJob
      /\ copy' # NoJob
      /\ busy' = TRUE
      /\ UNCHANGED <<rows, owners, requests, slot, paused, reports>>
  BY DEF StartHash, Miner!Start
<1>2. TypeOK' /\ NoncePages' /\ HashIsThere'
  BY <1>1 DEF IInv, TypeOK, NoncePages, HashIsThere, Miner!TypeOK
<1>3. Carriers' \subseteq Carriers
  BY <1>1 DEF Carriers
<1> QED BY <1>1, <1>2, <1>3, SameTable

LEMMA FinishHashInv ==
  ASSUME IInv, FinishHash
  PROVE  IInv'
<1>1. /\ copy \in Jobs /\ busy' = FALSE /\ hash' = NoHash
      /\ reports' \in {reports, Append(reports, copy)}
      /\ UNCHANGED <<rows, owners, requests, slot, paused, copy>>
  BY DEF FinishHash, Miner!Finish, IInv, HashIsThere
<1>2. reports' \in Seq(Jobs) /\ ToSet(reports') \subseteq ToSet(reports) \cup {copy}
  <2>1. reports \in Seq(Jobs)
    BY DEF IInv, TypeOK, Miner!TypeOK
  <2>2. /\ Append(reports, copy) \in Seq(Jobs)
        /\ ToSet(Append(reports, copy)) \subseteq ToSet(reports) \cup {copy}
    BY <1>1, <2>1, AppendToSet
  <2> QED BY <1>1, <2>1, <2>2
<1>3. TypeOK' /\ NoncePages' /\ HashIsThere'
  BY <1>1, <1>2 DEF IInv, TypeOK, NoncePages, HashIsThere, Miner!TypeOK
<1>4. Carriers' \subseteq Carriers \cup {NoJob}
  BY <1>1, <1>2 DEF Carriers
<1> QED BY <1>1, <1>3, <1>4, NoJobIsNone, SameTable

LEMMA OnHashFoundInv ==
  ASSUME IInv, OnHashFound
  PROVE  IInv'
<1> DEFINE job == Head(reports)
<1>1. /\ reports # <<>> /\ reports' = Tail(reports)
      /\ UNCHANGED <<rows, owners, slot, paused, copy, busy, hash>>
      /\ IF HasRow(job.url) THEN Request(job.url, job) ELSE UNCHANGED requests
  BY DEF OnHashFound, Miner!Take
<1>2. /\ reports' \in Seq(Jobs)
      /\ ToSet(reports') \subseteq ToSet(reports)
      /\ job \in Jobs /\ job \in ToSet(reports)
  BY <1>1, TailOfSet DEF IInv, TypeOK, Miner!TypeOK
<1> HIDE DEF job
<1>3. CASE HasRow(job.url)
  <2>1. job.url \in Pages /\ job.url \in Urls
    BY <1>2, ControlCenterAssumption DEF Jobs
  <2>2. [url |-> job.url, job |-> job, sent |-> FALSE, account |-> NoAccount] \in Requests
    BY <1>2, <2>1 DEF Requests
  <2>3. TypeOK'
    BY <1>1, <1>2, <1>3, <2>2 DEF IInv, TypeOK, Request, Miner!TypeOK
  <2>4. job \in Carriers
    BY <1>2 DEF Carriers
  <2> QED BY <1>1, <1>2, <1>3, <2>1, <2>3, <2>4, RequestInv
<1>4. CASE ~HasRow(job.url)
  <2>1. TypeOK' /\ NoncePages' /\ HashIsThere'
    BY <1>1, <1>2, <1>4 DEF IInv, TypeOK, NoncePages, HashIsThere, Miner!TypeOK
  <2>2. Carriers' \subseteq Carriers
    BY <1>1, <1>2, <1>4 DEF Carriers
  <2> QED BY <1>1, <2>1, <2>2, SameTable
<1> QED BY <1>3, <1>4

-----------------------------------------------------------------------------
(* The invariant *)

LEMMA InitInv == Init => IInv
<1>1. ASSUME Init
      PROVE  IInv
  <2>1. /\ rows = <<>> /\ owners = <<>> /\ requests = {} /\ hash = NoHash
        /\ slot = NoJob /\ paused = FALSE /\ copy = NoJob /\ busy = FALSE /\ reports = <<>>
    BY <1>1 DEF Init, Miner!Init
  <2>2. /\ rows \in Seq(Rows) /\ owners \in Seq(Pages) /\ reports \in Seq(Jobs)
        /\ Len(owners) = 0 /\ DOMAIN rows = {} /\ ToSet(reports) = {}
    BY <2>1, EmptySeq DEF ToSet
  <2>3. TypeOK
    <3>1. Len(owners) <= MaxAccounts
      BY <2>2, ControlCenterAssumption
    <3>2. Miner!TypeOK
      BY <2>1, <2>2 DEF Miner!TypeOK
    <3>3. requests \subseteq Requests /\ hash \in Samples \cup {NoHash}
      BY <2>1
    <3> QED BY <2>2, <3>1, <3>2, <3>3 DEF TypeOK
  <2>4. \A j \in Carriers : j = NoJob
    BY <2>1, <2>2 DEF Carriers
  <2>5. CarriersFitted
    BY <2>4, NoJobIsNone DEF CarriersFitted
  <2> QED BY <2>1, <2>2, <2>3, <2>5 DEF IInv, HashIsThere, NoncePages, RowsOwn
<1> QED BY <1>1

LEMMA AnswersInv ==
  ASSUME IInv, NEW r \in requests, AnswerFully(r) \/ AnswerPartly(r)
  PROVE  IInv'
<1>1. r \in Requests
  BY DEF IInv, TypeOK
<1>2. CASE AnswerFully(r)
  <2>1. PICK d \in Difficulties :
          Answer(r, TRUE, [url |-> r.url, account |-> r.account, difficulty |-> d])
    BY <1>2 DEF AnswerFully
  <2> DEFINE job == [url |-> r.url, account |-> r.account, difficulty |-> d]
  <2>2. job.url = r.url /\ job.account = r.account
    OBVIOUS
  <2>3. job \in Jobs \cup {NoJob}
    <3>1. r.url \in Pages /\ r.account \in Accounts \cup {NoAccount}
      BY <1>1, <2>1 DEF Requests, Answer
    <3>2. job # NoJob
      BY <3>1, ControlCenterAssumption DEF NoJob
    <3>3. r.account # NoAccount
      BY <2>1, <3>2 DEF Answer
    <3> QED BY <3>1, <3>3 DEF Jobs
  <2> HIDE DEF job
  <2>4. Answer(r, TRUE, job)
    BY <2>1 DEF job
  <2> QED BY <2>2, <2>3, <2>4, AnswerInv
<1>3. CASE AnswerPartly(r)
  BY <1>3, AnswerInv DEF AnswerPartly
<1> QED BY <1>2, <1>3

LEMMA StepInv == IInv /\ [Next]_vars => IInv'
<1>1. ASSUME IInv, UNCHANGED vars
      PROVE  IInv'
  <2>1. TypeOK' /\ NoncePages' /\ HashIsThere' /\ Carriers' = Carriers
    BY <1>1 DEF IInv, TypeOK, NoncePages, HashIsThere, Miner!TypeOK, Carriers, vars, miner
  <2> QED BY <1>1, <2>1, SameTable DEF vars
<1>2. ASSUME IInv, Next
      PROVE  IInv'
  <2>1. CASE \E url \in Urls : Ask(url)
    BY <1>2, <2>1, AskInv
  <2>2. ASSUME NEW r \in requests,
               Sign(r) \/ SendUnsigned(r) \/ Lose(r) \/ AnswerFully(r) \/ AnswerPartly(r)
        PROVE  IInv'
    BY <1>2, <2>2, SendInv, LoseInv, AnswersInv DEF Sign, SendUnsigned
  <2> QED BY <1>2, <2>1, <2>2, DecideInv, ForgetInv, ForgetAllInv, PauseInv, StartHashInv,
             FinishHashInv, OnHashFoundInv DEF Next
<1> QED BY <1>1, <1>2

-----------------------------------------------------------------------------
(* Theorems *)

\* The table, the requests, the miner's slot and its reports hold what they
\* should, whatever happens in between.
THEOREM AlwaysTyped == Spec => []TypeOK
<1>1. IInv => TypeOK
  BY DEF IInv
<1> QED BY <1>1, InitInv, StepInv, PTL DEF Spec

\* No request, for whatever URL, and no work carries the account of a site whose
\* location the URL's path does not lie within, or whose location is not known yet:
\* signatures reach other hosts through locations only (DB::find_url).
THEOREM KeepsAccountsApart == Spec => []AccountsKeepApart
<1>1. IInv => AccountsKeepApart
  <2> SUFFICES ASSUME IInv, NEW j \in Carriers, j.account # NoAccount
               PROVE  /\ owners[j.account] \in Within[j.url]
                      /\ Listed(j.account) => Fits(rows[RowOf(j.account)], j.url)
    BY DEF AccountsKeepApart
  <2>1. Fitted(j)
    BY DEF IInv, CarriersFitted
  <2>2. Listed(j.account) => /\ RowOf(j.account) \in DOMAIN rows
                             /\ rows[RowOf(j.account)].account = j.account
    BY DEF Listed, RowOf
  <2> QED BY <2>1, <2>2 DEF Fitted
<1> QED BY <1>1, InitInv, StepInv, PTL DEF Spec

\* The miner reports a hash exactly when it meets the difficulty of its job,
\* although check_hash multiplies in pieces and adds up the carries.
THEOREM AlwaysReportsExactly == Spec => ReportsExactly
<1> DEFINE Exactly == busy /\ ~busy' =>
                        reports' = IF MeetsDifficulty(hash, copy.difficulty)
                                     THEN Append(reports, copy) ELSE reports
<1>1. ASSUME IInv, FinishHash
      PROVE  Exactly
  <2>1. /\ copy \in Jobs /\ hash \in Samples
        /\ reports' = IF CheckHash(hash, copy.difficulty)
                        THEN Append(reports, copy) ELSE reports
    BY <1>1 DEF IInv, TypeOK, Miner!TypeOK, HashIsThere, FinishHash, Miner!Finish
  <2>2. hash \in Hashes /\ copy.difficulty \in Nat
    BY <2>1, ControlCenterAssumption DEF Jobs
  <2>3. CheckHash(hash, copy.difficulty) <=> MeetsDifficulty(hash, copy.difficulty)
    BY <2>2, CheckHashIsExact
  <2> QED BY <2>1, <2>3
<1>2. ASSUME IInv, Next, ~FinishHash
      PROVE  ~busy \/ busy'
  BY <1>2 DEF Next, Ask, Request, Sign, SendUnsigned, Send, Lose, AnswerFully, AnswerPartly, Answer,
              Decide, Forget, ForgetAll, Pause, StartHash, OnHashFound, miner, Miner!Put,
              Miner!TogglePause, Miner!Start, Miner!Take
<1>3. IInv /\ [Next]_vars => [Exactly]_vars
  BY <1>1, <1>2
<1> QED BY <1>3, InitInv, StepInv, PTL DEF Spec, ReportsExactly

\* A found hash is claimed by the account its job was handed to, unless the user
\* has forgotten that account's site, or a row before it has got a location that
\* its page lies in: DB::find_url is asked when the nonce is sent.
THEOREM NoncesKeepTheirAccounts == Spec => NoncesAreTheirAccounts
<1> DEFINE Whose == \A r \in requests : r.job # NoJob /\ Sign(r) /\ Listed(r.job.account) =>
                      LET account == AccountFor(r.url)
                      IN  \/ account = r.job.account
                          \/ RowOf(account) < RowOf(r.job.account)
                               /\ owners[account] \in Within[r.url] \ {r.url}
<1>1. ASSUME IInv, NEW r \in requests, r.job # NoJob, Listed(r.job.account)
      PROVE  LET account == AccountFor(r.url)
             IN  \/ account = r.job.account
                 \/ RowOf(account) < RowOf(r.job.account)
                      /\ owners[account] \in Within[r.url] \ {r.url}
  <2> DEFINE j == r.job
             f == FindUrl(r.url)
  <2>1. /\ rows \in Seq(Rows) /\ DOMAIN rows = 1..Len(rows) /\ Len(rows) \in Nat
        /\ j \in Jobs /\ j.url = r.url /\ r.url \in Urls /\ j.account # NoAccount
    BY <1>1, LenProperties, NoJobIsNone DEF IInv, TypeOK, NoncePages, Requests, Jobs
  <2>2. Fitted(j)
    BY <1>1, <2>1 DEF IInv, CarriersFitted, Carriers
  <2>3. \A k \in DOMAIN rows : RowOf(rows[k].account) = k
    BY <1>1 DEF IInv, RowsOwn, RowOf
  <2>4. PICK k \in DOMAIN rows : rows[k].account = j.account
    BY <1>1 DEF Listed
  <2> HIDE DEF j
  <2>5. /\ Fits(rows[k], r.url)
        /\ \A i \in 1..(k - 1) : rows[i].page # r.url
        /\ RowOf(j.account) = k
    BY <2>1, <2>2, <2>3, <2>4 DEF Fitted
  <2>6. /\ f \in DOMAIN rows /\ Fits(rows[f], r.url)
        /\ \A i \in 1..(f - 1) : ~Fits(rows[i], r.url)
    BY <2>1, <2>5, FindUrlIsFirst
  <2>7. AccountFor(r.url) = rows[f].account
    BY <2>1, <2>6 DEF AccountFor
  <2> HIDE DEF f
  <2>8. f <= k
    BY <2>1, <2>5, <2>6
  <2>9. CASE f = k
    BY <2>4, <2>7, <2>9 DEF j
  <2>10. CASE f < k
    <3>1. f \in 1..(k - 1)
      BY <2>1, <2>6, <2>10
    <3>2. rows[f].page \in Within[r.url] \ {r.url}
      BY <2>5, <2>6, <3>1 DEF Fits
    <3>3. owners[rows[f].account] = rows[f].page
      BY <1>1, <2>6 DEF IInv, RowsOwn
    <3>4. RowOf(rows[f].account) < RowOf(j.account)
      BY <2>3, <2>5, <2>6, <2>10
    <3> QED BY <2>7, <3>2, <3>3, <3>4 DEF j
  <2> QED BY <2>1, <2>6, <2>8, <2>9, <2>10
<1>2. IInv /\ [Next]_vars => [Whose]_vars
  BY <1>1
<1> QED BY <1>2, InitInv, StepInv, PTL DEF Spec, NoncesAreTheirAccounts
=============================================================================
