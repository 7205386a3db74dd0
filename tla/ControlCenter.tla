---------------------------- MODULE ControlCenter ----------------------------
(***************************************************************************)
(* Who works and signs for whom.  The control center keeps a key, its      *)
(* account, for every row of its table, and signs each request the browser *)
(* makes, for whatever URL, with the key of the first row that fits it     *)
(* (DB::find_url).  A server hands out work to the account that signed;    *)
(* the miner hashes it, and a hash that meets its difficulty goes back as  *)
(* a nonce, in a request of its own that is signed when it is made.  In    *)
(* between replies arrive, and the user may forget the site.               *)
(*                                                                         *)
(* The servers are mod_primo's, or have nothing to do with it.  The other  *)
(* parts are those of the other modules: the miner is the slot of work     *)
(* that Miner implements, with any cookies in the jobs, so that it may     *)
(* take any job for the one it copied last; the timer turns to any row     *)
(* with work, of which Executor picks some; a reply brings all of the work *)
(* or none (Executor has the others); requests and replies get lost as in  *)
(* Extension and ModPrimo.  A job stands for its top hash, blob and        *)
(* cookie, and is tagged with the account it was handed to.                *)
(***************************************************************************)
EXTENDS Difficulty, FiniteSets, Sequences, SequencesExt

CONSTANTS Urls,          \* what the browser requests
          Pages,         \* the mining pages among them, what identifies a site
          NoPage,
          Site,          \* the mining page a URL's server names, if any
          Within,        \* the sites whose X-Primo-Location begins a URL's path
          Difficulties,  \* what the daemons ask for
          Samples,       \* hashes that come up
          MaxRequests,   \* bound: requests under way
          MaxAccounts,   \* bound: keys that are ever made
          MaxFound       \* bound: found hashes queued to the main thread

\* mod_primo insists on a mining page within its own location.
ASSUME ControlCenterAssumption ==
  /\ Pages \subseteq Urls
  /\ NoPage \notin Pages
  /\ Site \in [Urls -> Pages \cup {NoPage}]
  /\ Within \in [Urls -> SUBSET Pages]
  /\ \A p \in Pages : Site[p] = p /\ p \in Within[p]
  /\ Difficulties \subseteq Nat
  /\ Samples \subseteq Hashes
  /\ MaxRequests \in Nat /\ MaxAccounts \in Nat /\ MaxFound \in Nat \ {0}

VARIABLES rows,      \* the table
          owners,    \* the site each account was made for
          requests,  \* requests under way
          slot,      \* the miner's shared work
          paused,
          copy,      \* the job its thread copied last
          busy,      \* it is being hashed
          hash,      \* what comes out
          reports    \* hashFound signals queued to the main thread

miner == <<slot, paused, copy, busy, reports>>

vars == <<rows, owners, requests, miner, hash>>

Accounts == 1..MaxAccounts

\* For a URL that no row fits; the signature is empty then.
NoAccount == 0

Jobs == [url : Pages, account : Accounts, difficulty : Difficulties]

NoJob == [url |-> NoPage, account |-> NoAccount, difficulty |-> 0]

NoHash == <<>>

Rows == [page : Pages, account : Accounts, located : BOOLEAN, job : Jobs \cup {NoJob}]

\* A request with a job is the nonce for it.
Requests == [url : Urls, job : Jobs \cup {NoJob}, sent : BOOLEAN,
             account : Accounts \cup {NoAccount}]

\* Whatever the cookies of two jobs are, they may be the same.
MaybeSameCookie(j, k) == TRUE

Miner == INSTANCE WorkSlot
           WITH Idle <- NoJob, Alike <- MaybeSameCookie, MaxReports <- MaxFound

TypeOK == /\ rows \in Seq(Rows)
          /\ owners \in Seq(Pages) /\ Len(owners) <= MaxAccounts
          /\ requests \subseteq Requests
          /\ hash \in Samples \cup {NoHash}
          /\ Miner!TypeOK

Init == /\ rows = <<>>
        /\ owners = <<>>
        /\ requests = {}
        /\ hash = NoHash
        /\ Miner!Init

-----------------------------------------------------------------------------
(* Requests and signatures *)

\* has_entry
HasRow(p) == \E i \in DOMAIN rows : rows[i].page = p

\* Faulty: a row fits when it has any location.
FitsAnyLocation(row, url) == row.page = url \/ row.located

\* find_url: the page itself, or the path begins with the row's location.  The
\* host is not looked at.
Fits(row, url) == row.page = url \/ (row.located /\ row.page \in Within[url])

\* Faulty: the search goes on to the last row.
FindUrlLast(url) == SelectLastInSeq(rows, LAMBDA row : Fits(row, url))

FindUrl(url) == SelectInSeq(rows, LAMBDA row : Fits(row, url))

AccountFor(url) == IF FindUrl(url) = 0 THEN NoAccount ELSE rows[FindUrl(url)].account

Request(url, job) ==
  /\ Cardinality(requests) < MaxRequests
  /\ requests' = requests \cup {[url |-> url, job |-> job, sent |-> FALSE, account |-> NoAccount]}

\* The user browses, on any host, or the timer asks for news of a row.
Ask(url) == /\ Request(url, NoJob)
            /\ UNCHANGED <<rows, owners, miner, hash>>

Send(r, account) ==
  /\ r \in requests
  /\ ~r.sent
  /\ requests' = (requests \ {r}) \cup {[r EXCEPT !.sent = TRUE, !.account = account]}
  /\ UNCHANGED <<rows, owners, miner, hash>>

\* cmd_sign answers in time.
Sign(r) == Send(r, AccountFor(r.url))

\* It does not: the request goes out without a signature.
SendUnsigned(r) == Send(r, NoAccount)

\* Nothing comes back, or nothing of Primo.
Lose(r) == /\ r \in requests
           /\ requests' = requests \ {r}
           /\ UNCHANGED <<rows, owners, miner, hash>>

\* Faulty: a row starts without its work.
NewRowUnfilled(p) == [page |-> p, account |-> Len(owners) + 1, located |-> FALSE]

NewRow(p) == [page |-> p, account |-> Len(owners) + 1, located |-> FALSE, job |-> NoJob]

\* DB::update makes a row, with a new key, for a page it does not know.
Known(p) == IF HasRow(p) THEN rows ELSE Append(rows, NewRow(p))

\* The reply, and cmd_site, for the mining page the reply names.  A mining page's
\* own brings a job, for the account that signed, and the location, or the location,
\* which may be empty; any other only says which mining page to ask.
Answer(r, located, job) ==
  LET p == Site[r.url]
  IN  /\ r \in requests
      /\ r.sent
      /\ p # NoPage
      /\ located => r.url \in Pages
      /\ job # NoJob => located /\ r.account # NoAccount
      /\ requests' = requests \ {r}
      /\ HasRow(p) \/ Len(owners) < MaxAccounts
      /\ owners' = IF HasRow(p) THEN owners ELSE Append(owners, p)
      /\ rows' = [i \in DOMAIN Known(p) |->
                    IF Known(p)[i].page = p
                      THEN [Known(p)[i] EXCEPT !.located = @ \/ located,
                                               !.job = IF job # NoJob THEN job ELSE @]
                      ELSE rows[i]]
      /\ IF job # NoJob /\ slot.url = p THEN Miner!Put(job) ELSE UNCHANGED miner
      /\ UNCHANGED hash

AnswerFully(r) ==
  \E d \in Difficulties :
    Answer(r, TRUE, [url |-> r.url, account |-> r.account, difficulty |-> d])

AnswerPartly(r) == \E located \in BOOLEAN : Answer(r, located, NoJob)

-----------------------------------------------------------------------------
(* The timer, the user and the miner *)

\* tick turns the miner to a row, or stops it.
Decide == /\ \E w \in {rows[i].job : i \in DOMAIN rows} \cup {NoJob} : Miner!Put(w)
          /\ UNCHANGED <<rows, owners, requests, hash>>

Forget(i) == /\ rows' = RemoveAt(rows, i)
             /\ UNCHANGED <<owners, requests, miner, hash>>

ForgetAll == /\ rows' = <<>>
             /\ UNCHANGED <<owners, requests, miner, hash>>

Pause == /\ Miner!TogglePause
         /\ UNCHANGED <<rows, owners, requests, hash>>

StartHash == /\ Miner!Start
             /\ hash' \in Samples
             /\ UNCHANGED <<rows, owners, requests>>

FinishHash == /\ Miner!Finish(CheckHash(hash, copy.difficulty))
              /\ hash' = NoHash
              /\ UNCHANGED <<rows, owners, requests>>

\* Executor::onHashFound and submit_nonce: a found hash becomes a request, unless
\* its site is not listed any more.
OnHashFound == /\ Miner!Take
               /\ LET job == Head(reports)
                  IN  IF HasRow(job.url) THEN Request(job.url, job) ELSE UNCHANGED requests
               /\ UNCHANGED <<rows, owners, hash>>

-----------------------------------------------------------------------------
Next == \/ \E url \in Urls : Ask(url)
        \/ \E r \in requests : \/ Sign(r)
                               \/ SendUnsigned(r)
                               \/ Lose(r)
                               \/ AnswerFully(r)
                               \/ AnswerPartly(r)
        \/ Decide
        \/ \E i \in DOMAIN rows : Forget(i)
        \/ ForgetAll
        \/ Pause
        \/ StartHash
        \/ FinishHash
        \/ OnHashFound

Spec == Init /\ [][Next]_vars
-----------------------------------------------------------------------------
(* Safety *)

\* A hash is reported exactly when it meets the difficulty of the job it is
\* reported for: the daemon gets no wrong nonce, and none is thrown away.
ReportsExactly ==
  [][busy /\ ~busy' =>
       reports' = IF MeetsDifficulty(hash, copy.difficulty)
                    THEN Append(reports, copy) ELSE reports]_vars

\* What is there for a URL and an account: requests, and jobs wherever they are.
Carriers == requests \cup {r.job : r \in requests} \cup {rows[i].job : i \in DOMAIN rows}
              \cup {slot, copy} \cup ToSet(reports)

Listed(account) == \E i \in DOMAIN rows : rows[i].account = account

RowOf(account) == CHOOSE i \in DOMAIN rows : rows[i].account = account

\* An account is seen by its own mining page, and, once its site has told its
\* location, by every URL that lies within that, on whatever host, with Primo or
\* without: which requests carry an account, and whom work is handed to and done
\* for.  Where the location is "/" that is all of the web.
AccountsKeepApart ==
  \A j \in Carriers : j.account # NoAccount =>
    /\ owners[j.account] \in Within[j.url]
    /\ Listed(j.account) => Fits(rows[RowOf(j.account)], j.url)

\* A nonce is claimed by the account that its job was handed to, although it is
\* signed long after, unless the user has forgotten that account's site or a
\* row further up has got a location the page lies in.  Forgotten and seen again
\* the site has a new account, and its old jobs are wrong nonces of that.
NoncesAreTheirAccounts ==
  [][\A r \in requests : r.job # NoJob /\ Sign(r) /\ Listed(r.job.account) =>
       LET account == AccountFor(r.url)
       IN  \/ account = r.job.account
           \/ RowOf(account) < RowOf(r.job.account)
                /\ owners[account] \in Within[r.url] \ {r.url}]_vars
=============================================================================
