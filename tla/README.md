# Primo, specified and verified

TLA+ models of Primo (the control center, the browser extension, the Apache
module), TLC configurations that check them on small instances, and proofs
about them that TLAPS checks. Everything is translated from the sources; the
line numbers below and in the comments are those of the sources.

## The system

A web site asks to be paid in mining. Its Apache module answers a request to a
paid page after charging the visitor's account at the site's Monero daemon,
and hands out mining jobs on a *mining page*. The browser extension signs every
request, relays every Primo header it sees to the control center, and fetches
or posts to mining pages when the control center says so. The control center
keeps the table of sites, decides which one to mine for, mines, and reports the
hashes it finds.

| Part | State | Operations | Talks to |
|---|---|---|---|
| Miner (`miner.cpp`) | the shared job (page, blob, difficulty, height, top hash, cookie), `is_paused`, `running`, hash rate history; the thread's local copies | `set_hashing_blob`, `update`, `stop`, `pause`, destructor; the thread's loop | signals queued to the main thread: `hashFound`, `hashRateChanged` |
| Site database (`db.cpp`) | a row per mining page | `update`, `deleteEntry`, `deleteAllEntries`, `setTarget`, `setEnabled`, `setInfoQueried`, lookups by page and by URL | called by executor and window |
| Executor (`executor.cpp`) | the last found nonce | commands `site`, `sign`, `forget_all`, `summon`; `tick`; `onHashFound` | database, miner, messages out: `info`, `nonce` |
| Native messaging handler | the pipe's read position | `readCommand`, `send`, the one second timer | extension, executor |
| Window (`primo-control-center.qml`, `model.cpp`, `main.cpp`) | what is shown | pause, allow, target, forget, forget all | database, miner |
| Extension (`primo.js`) | the port, the request counter, listeners, timeouts | sign a request, relay response headers, run commands, summon | handler, web sites |
| Apache module (`mod_primo.c`) | its configuration | mining page (job, nonce), paid page (charge) | daemon, browsers |
| Monero daemon (external) | accounts, jobs | `rpc_access_info`, `rpc_access_submit_nonce`, `rpc_access_pay` | Apache module |
| Difficulty check (`difficulty.cpp`), signatures (`signature.cpp`) | none | pure functions | miner, database |
| cJSON, hash functions, epee, easylogging++ | vendored | | |

Threads: the control center has two, the mining thread and the Qt main thread.
Everything but the mining loop runs on the main thread, one handler at a time:
messages from the browser, clicks, the timer, queued signals. The database's
recursive mutex is therefore never contended; the miner's mutex is.

What makes each part correct, and what is hard about it:

* Miner. Hash only the job handed over last, never while paused; report each
  hash for the job it was computed on; be woken when there is work again; be
  joinable. Hard: everything happens between two critical sections, and the
  copy of the job is refreshed by comparing cookies only.
* Database and executor. One row per page; mine only what the user wants and
  what is fresh; never mix the fields of two replies; keep asking for news.
  Hard: replies are late, lost, partial and repeated, rows come and go between
  two ticks, and the fallback to the current site.
* Accounts. A site sees the account made for it, and others as far as their
  sites' locations reach; a hash is claimed by the account it was hashed for.
  Hard: every request of the browser is signed, and signed when it is made, long
  after the job it reports was handed out; rows come and go meanwhile.
* Extension. Every request goes on, signed or rejected, once. Hard: one port for
  replies and commands, timeouts against late replies, restarts.
* Apache module. No page without a charge, no charge without a page. Hard: the
  daemon's call can fail after it had its effect, and header by header replies.

## The modules

| Module | What it is |
|---|---|
| `Miner` | `miner.cpp`, at the grain of its critical sections |
| `WorkSlot` | what the miner promises: one slot of work, one hash at a time, on the job in the slot or one taken for it |
| `Wire` | how numbers of a reply arrive: saturated at `INT_MAX` and `INT_MIN`, cookies unsigned |
| `Headers` | the response headers, and the sets of them a reply may carry |
| `Db` | the table of sites and its updates |
| `Executor` | the main thread's handlers over `Db` and the miner's shared job |
| `Difficulty` | `difficulty.cpp` and both word products, as operators |
| `ControlCenter` | accounts, signatures, jobs, hashes and nonces, over `WorkSlot` and `Difficulty` |
| `ModPrimo` | the Apache module: requests side by side, each with calls to the daemon |
| `Paywall` | what a paid page promises |
| `Extension` | `primo.js`, the pipes, and the handler that reads them |
| `MinerProofs`, `ExecutorProofs`, `ControlCenterProofs`, `DifficultyProofs`, `ModPrimoProofs`, `ReplyShapeProofs`, `ExtensionProofs` | theorems about the module they extend |
| `SequenceLemmas` | what the other proofs need to know of sequences |
| `MCMiner`, `MCMinerSaturated`, `MCExecutor`, `MCControlCenter`, `MCModPrimo`, `MCExtension` | instances for TLC |

How they fit together. `WorkSlot` is the miner for everybody else: `Miner` is shown
to implement it, and `ControlCenter` instantiates it as its miner. `Paywall` is
what `ModPrimo` is shown to implement. `ModPrimo`'s `RepliesAreShapes` says which
sets of headers a server's replies carry; `Executor` takes replies of these sets
(`Headers` defines them for both), so that its runs use shapes that a server really
sends, partial ones among them. `ControlCenter` in turn allows
the timer every choice among the rows with work, of which `Executor` picks some,
and lets requests and replies get lost as `Extension` and `ModPrimo` do.

### Miner

`job` and `ready` are the fields under the mutex (`ready` is
`!hashing_blob.empty()`), `paused` and `rated` are `is_paused` and a non-empty
`hash_rate_history`, `local` the thread's `local_*` variables. `pc` is where the
thread is: about to take the lock at the top of the loop (`check`), in
`cond.wait` (`waiting`), hashing without the lock (`hash`), about to take it
again (`count`), about to emit the rate (`emit`). `notify_one` moves the thread
from `waiting` to `check`; `SpuriousWake` does too. `found` is the queue of
`hashFound` signals; `hashRateChanged` signals of the thread are one flag,
because delivering one only makes the window read the rate again, so that one
and several differ in nothing. Signals emitted on the main thread are direct
calls and belong to the action that emits them.

Nothing is assumed of cookies. They arrive as `Wire` says: those above the largest
int as one number, a server's own `X-Primo-Cookie: -1` as 0xffffffff, which is what
`local_cookie` starts with. As the thread copies the job only when the cookie
differs, two jobs with one cookie are taken for each other (`SameCookie`, which is
`WorkSlot`'s `Alike`), and a first job with cookie 0xffffffff is not copied at all:
the empty vector is read through a null pointer and the process is killed (`Fault`).

A job is a record of page, work and cookie; work stands for blob, difficulty,
height and top hash, which are assigned together and copied together. A blob
that does not decode is handed over with `decodes = FALSE`: the other fields are
stored and `ready` is false. What is left out: nonces and hash values (a hash is
good or not; see `ControlCenter`), the length of the rate window (it has elapsed
or not), the name.

Fairness: the thread is scheduled, the event loop delivers what is queued, the
timer fires and hands over a site or stops, and the join goes on when it can.
Nothing is assumed of pauses, clicks or spurious wake-ups.

### Db and Executor

A row's five work fields are tagged with the reply (*job*) that last set them.
Times are ages in ticks of the timer, saturated where the code stops telling
them apart: an info request is due after `InfoPeriod` ticks, a blob may be mined
on for `BlobLife`. The scaled values keep `InfoPeriod <= BlobLife`, as 10 s and
15 s do. A reply carries one of `ReplyShapes`: the module adds headers in a fixed
order and stops at the first field it lacks, so that `MiningPageShapes` are the
prefixes of `HeaderOrder`; a configuration picks some. Each action is a whole
handler. The timer's handler is the one that is split: it loops over
`Executor::tick`, one info request an iteration (`AskInfo`), until `tick` decides
(`Decide`); `ticking` keeps other handlers out meanwhile, and no time passes.
A tick lasts one unit of time: the timer is not late by more than that.

Account keys, signing, locations and found hashes are in `ControlCenter`. Payment
and `credits_per_hash_found` are only shown; a difficulty of 0 is left out. A
reply is tagged with a single job, although the answer to a nonce puts together
two of the daemon's (`mod_primo.c:240-256`).

Fairness (only for the liveness runs): the timer fires, its loop runs on, and a
site asked over and over answers in full at some time. Lost requests, clicks and
browsing are not fair.

### ControlCenter

A row keeps its account (`DB::Entry`'s key, a number in the order the keys are
made), whether its location has arrived, and the job of its last reply. A job
stands for top hash, blob and cookie, is tagged with the account it was handed
to, and has a difficulty. Every URL is signed (`primo.js:216-220`), so `Urls` are
mining pages and any others: `Site[u]` is the mining page that the server of `u`
names, or none where the server has nothing to do with Primo. `Within[u]` are the
sites whose location begins the path of `u`: `find_url` (`db.cpp:85`) compares paths
only, so that a location matches on every host, and `FindUrl` is the first row that
fits. A request is made (`Ask`, or `OnHashFound` for a nonce), later signed (`Sign`,
`cmd_sign`) or sent without a signature, and later answered or lost: the account is
that of the moment of `Sign`. A mining page's answer brings a job and the location,
or the location alone; that of another page names its mining page only. Servers are
`mod_primo`'s: none names another's mining page.

The miner is `WorkSlot`, with any two jobs alike, as their cookies may be; a hash that comes up is one of `Samples`, and `FinishHash`
reports it when `CheckHash` says so. `owners`, the site each account was made for,
is kept when the row goes: it is not in the code and lets the properties speak of
accounts that are forgotten.

`AccountsKeepApart` and `NoncesAreTheirAccounts` say how far accounts can be relied
on. That the host is not looked at means that a site's account is seen by every URL,
of whatever server, whose path lies within its location, once that is known: with
the location `/` by all of the web, until the user forgets the site, which is what
the window advises (`primo-control-center.qml:136-138`). Both properties name that
case instead of excluding it.

### Difficulty

`Half` stands for 2^32 and a word is below `Half * Half`. `Mul128` is epee's product
for x86_64, `PortableMul` the one for other machines; `Cadd` and `Cadc` are the
carries; `CheckHash64`, `CheckHash128` and `CheckHash` the functions of these names.
The definitions have no bound: a proof treats every even word width at once.

### ModPrimo

`req[s]` is the request that worker `s` handles: its kind (a mining page asked for
news, a mining page with a nonce, a paid page), its signature, the top hash the
miner worked on, and where it is (`at`): with a call on its way, with its outcome,
or answered. The handler runs from one call to the next, so that `Arrive` is
`primo_handler` up to the first call, `Resume` what follows a call. Between them
the other requests move. `AnswerOrder` lists the fields each method's answer is
read for, in the order of the code; an answer may lack fields, and what counts is
how far the handler reads before the first that is missing (`FieldSets`).

The daemon is external: one account's balance and a chain of blocks. A call is
processed and its answer arrives, whole or with gaps (`Process`; no fields at all
stands for a lost answer), or it is not processed (`CallFails`). `shown` is the
balance in the client's table, which each response that arrives overwrites, with a
number that is read from JSON a second time. `Paywall` counts a request that is
passed on unpaid (`PrimoPassthrough`) as refused: the handler behind may serve the
page, but not because the visitor has paid.

Fairness: a call returns, and the request is then handled and answered; the client
asks for news over and over, and sooner or later the daemon answers in full and
the response arrives (strong fairness, as each can be disabled by the others).
That calls return is an assumption: the code gives curl no timeout.

### Extension

`posts` are the messages the extension has posted, in the order of their ids, each
with its listener, its timer, and what has become of the web request that waits for
it. `wire` is the pipe to the control center, where a message is two chunks: read()
returns what is there, so `ReadCommand` gets a whole message only if both were
`visible`, and otherwise takes what it can for one, which leaves the rest to be
taken for a length. `replies` is the pipe back: replies, errors (whose id is 0 if
the message did not parse) and commands (no id). `Post` is `callbackOnId` with
`postMessage`, which throws on a dead port. A timeout leaves its listener.

Summon's timeout starts a control center (`spares`) whose port is dropped. `lost`,
the messages the handler has given up, is a history for the properties. The
browser is external: ports, timers, promises, and the blocking request listener.

Fairness: timers fire, the browser writes and reads its pipes, the control center's
event loop reads while it is alive and more than one chunk is in the pipe. With a
single one it may hang in `readCommand`: stdin blocks, and where exactly a length is
there, or a left-over of four bytes that is taken for one, the second `read`
(`native-messaging-handler.cpp:76`) waits for what comes next and takes it too.
That is a `ReadCommand` that comes later. Nothing makes a message parse, a user
click or a control center live on.

## The runs

| Run | Shows |
|---|---|
| `miner` | types; no hash begins on the empty initial blob, unless the first job's cookie is 0xffffffff; the label agrees with the rate once signals are delivered; `Miner` implements `WorkSlot`; nobody sleeps once the destructor has asked the thread to end; liveness: mining goes on whenever it can, the destructor's join returns, an idle miner's label clears |
| `miner_paused_label` (violation) | the label can say "Mining for" while paused, if the hash in flight lasts a rate window (a second) longer |
| `miner_saturated_cookies` (violation) | with equal received cookies the old site is hashed for |
| `executor` | types; one row per page; rows and jobs come to mix two answers only by a reply with part of the work; only a decision of the timer switches sites, and only to fresh wanted work; a site that is not wanted is only mined while a wanted one has but an old blob |
| `executor_live` | the timer's loop ends, as each round that goes on leaves fewer rows due; a site that stays the only wanted one is mined for, unless its row got a name without work |
| `executor_stuck` (violation) | without that condition it may never be |
| `executor_unwanted` (violation) | a site switched off, or paid up, is still handed over |
| `executor_nonce_reply` (violation) | a top hash that comes alone ends up beside an older blob |
| `control_center` | types; accounts are carried to their own mining pages, and to URLs of any host within their site's location once that is known; a hash is reported exactly when it meets its job's difficulty; a nonce is claimed by the account its job was handed to, unless that is forgotten or a row above covers the page |
| `mod_primo` | types; a page for a charge and one charge a request (`ImplementsPaywall`); a charged client is refused only when the call's answer was lost or cut; replies have the shapes that `Executor` relies on; the shown balance becomes right and stays so, and only an older answer that was under way can make a right one wrong |
| `extension` | types; a reply calls its own listener, but for message 0; listeners stay behind only with messages that were lost, did not parse or met a dead control center; no web request is held for ever; the handler finds the start of a message again, and a whole message behind nothing broken is kept until it is answered |
| `extension_restart` (violation) | summon starts a control center and goes on posting to the dead port |

Bounds.

* Miner: two sites, two jobs each (a new job of the same site, another site on the
  same chain), with the cookies 0, two above the largest int, which arrive equal, and
  -1, which arrives as 0xffffffff; at most two found hashes waiting; one thread, one
  owner. A hash spans every hand-over in between, so three jobs would give a copied,
  a current and an overwritten one. 69,864 states.
* Executor: two sites (the fallback needs a wanted and a current one), two replies
  (old and new), balances and targets 0 and 1, ages up to due and up to stale; replies
  of a paid page, of a mining page in full, and of one whose new job failed, which has
  a part of the work only. 514,630 states. The
  liveness runs use one reply and no balances, as their question is which requests
  are made.
* ControlCenter: two sites, the second one's mining page, and an article it charges
  for, within the first one's location; two accounts, so that a site can be forgotten
  and seen again; two requests under way (one of them a nonce that others overtake);
  one report waiting. Words of two bits, difficulty 3, and as hashes the two next to
  2^256 / 3, one just good and one just bad: the second one's carry runs through a
  word that is all ones. That these stand for all is what `CheckHashIsExact` proves.
  556,686 states.
* ModPrimo: two workers, three configurations (pass-through, no cost, insane
  location), two credits with one the largest int, two blocks, answers that are
  whole, empty or stop after one field. 196,496 states.
* Extension: three messages: one that is held or leaks, one that is cut, one after
  it. 237,303 states. The runs do not check for deadlock, as everything may have been
  said and the control center be gone.

Each property of a passing run was seen to fail when a definition is replaced by
the faulty variant beside it (the definitions commented "Faulty").

## What is proved

For every value of the constants that the named assumptions admit. Each module's
`IInv` is inductive; one lemma for each action shows that it is kept.

* `MinerProofs`, for every set of jobs, whatever their cookies. `IInv`: types,
  `ReadyIsJob` (a usable blob is part of a whole job), `LabelSettles` and
  `NobodySleepsThroughJoin`. From it follow `TypeCorrect`, `LabelAgrees`,
  `NeverHashesEmptyBlob` (the thread keeps its copy only when its cookie equals a real
  job's, so that the initial copy is kept for one cookie only), and `NobodySleeps`:
  from the moment the destructor clears `running`, under the lock and with a notify,
  the thread is not in its wait and cannot go there. That is the safety half of
  `JoinReturns`; what is left of it is that the thread gets to run.
  `MinerImplementsWorkSlot` is the refinement, with the copy and the hash in flight as
  the abstract worker's; `Fault` and a thread without a copy are stutters of it.
* `ExecutorProofs`. `IInv`: types and `OnePerPage`, which needs nothing else
  because `update` appends a row only when no row has the page. `AlwaysTyped`,
  `AlwaysOnePerPage`, `OnlyTheTimerSwitches`, `AlwaysSwitchesToFreshWork`,
  `AlwaysUnwantedOnlyInAWait`: the last two walk through both rounds of the
  fallback loop. `AlwaysGetsFewer` is why the timer's loop ends: a row that was asked
  about is not due again until time passes, and no time passes in the loop, so that
  the set of rows due loses one each round. `OnlyPartsMix` needs no assumption on
  replies: each action but `Browse` and `Answer` moves the work of a row as a whole,
  and those keep all work whole unless the reply carries a part of it, as the code
  allows (`executor_nonce_reply` has the case).
* `ControlCenterProofs`. `IInv`: types, a hash is there while it is hashed
  (`HashIsThere`), a nonce is for its job's page (`NoncePages`), a row's account
  was made for its page and differs from the other rows' (`RowsOwn`), and wherever
  an account is carried its site covers the URL, and its row, if there still is
  one, fits the URL and has no row of the URL itself before it
  (`CarriersFitted`). `AlwaysTyped`, `KeepsAccountsApart`,
  `NoncesKeepTheirAccounts`, and `AlwaysReportsExactly`, which uses
  `CheckHashIsExact`.
* `DifficultyProofs`, for every `Half >= 2`: `ProductsAlwaysAgree`, both products
  are the product, carry by carry; `CheckHashIsExact`, the carries decide exactly
  whether hash times difficulty is below 2^256.
* `ModPrimoProofs`. `IInv`: types, and for each request that only one for a paid
  page is charged, that what is served was charged, and that an answer says OK
  exactly to a charged request, unless it was cut or lost (`RequestInv`).
  `AlwaysTyped`, `NeverChargedInVain`, and `Paywalled`, the refinement: each step
  moves one request, and its phase as `Paywall` allows. `BalanceStaysRight` is the
  safety half of `BalanceSettles`: that the table, the answers and the responses
  under way agree with the account (`Agrees`) is kept by every step that leaves the
  account alone; what is left to liveness is that what is older gets through or lost.
* `ReplyShapeProofs`, on top of `ModPrimoProofs`: `RepliesAlwaysAreShapes`, for any
  `Gaps`. `SInv` says which headers a request has while a call is on its way (the
  name; with a second call, also balance and top hash) and that an answer is read up
  to its first gap; each list of fields continues the headers where they are, so that
  what is added makes a longer prefix. This is what entitles `Executor` to its
  `ReplyShapes`.
* `ExtensionProofs`, for any number of messages. `IInv` has four groups of parts.
  How the pipe is laid out: only posted messages are in it (`Posted`), a first chunk
  is followed by its rest (`Framed`), a rest by another message's first
  (`Alternating`), in the order of the ids (`Ordered`). Where replies come from: each
  is a command or bears the id that `execute` gives to a posted message
  (`Addressed`), and while message 0 waits for a reply that has its id, no error that
  bears id 0 as well is ahead of it (`FirstInLine`). This last one is what makes
  message 0 the only exception of `OwnReply`; it needs `Ordered`, because an error
  overtakes only what was read after it, and `LeaksOnlyWhenLost`, because a message
  that still waits and is not lost must be under way. What timers and listeners
  bound: each summon starts one control center at most, each reply gives one
  notification at most (`Counted`, from which the bounds in `TypeOK` follow), and a
  held request has its timer and its listener (`HeldIsTimed`, the safety half of
  `HeldRequestsGoOut`). And `LeaksOnlyWhenLost` itself. From it follow `AlwaysTyped`,
  `LeaksAreLosses`, `HeldStaysTimed`, `RepliesReachTheirOwn`, and `WholeStaysWhole`:
  as first chunks and rests alternate, a read that starts where a message does ends
  where one does, or takes a first chunk alone only when nothing more is visible.
* `SequenceLemmas`: items of appended, joined, shortened and filtered sequences,
  which the proofs about rows, pipes and headers cite.

Only model-checked: liveness, which the prover does not treat (`MinesWhenItCan`,
`JoinReturns`, `IdleLabelClears`, `TimerLoopEnds`, `WantedSiteGetsMined`,
`BalanceSettles`, `HeldRequestsGoOut`, `WholeIsAnswered`), and what the violation
runs show. Every invariant and every action property of a passing run is a theorem.

## Not modelled

* About 38,000 of the 40,000 lines of implementation are vendored: easylogging++,
  cJSON (twice), Monero's hash functions and curve arithmetic, epee. They keep no
  state that the program's properties are about. What the program relies on is
  in `Wire` (numbers saturate at the largest int) and `Difficulty` (epee's product);
  the rest is computation without steps, out of a model checker's reach. The
  program's own code is some 2,000 lines, and the map covers most of its
  statements that decide something.
* Signatures: what `signature.cpp` signs is a time and a random number, with
  cryptography; who signs when is in `ControlCenter`.
* The Apache module's directives and the merging of its configurations (the constant
  `Configs` is what comes out), its HTML, its logging, and the length of `postdata`
  (`mod_primo.c:207`): a call cut short fails like any other.
* The handler at the end of its standard input: the browser going away leaves it
  reading nothing again and again (`native-messaging-handler.cpp:67`).
* The window's layout, formatting, tooltips and the table's hash rate column.
* How long a notification lives.

## What is left

A reply that mixes two of the daemon's answers (top hash and new job) followed
through to the miner; the balance of a site from its first reply on, with the
server's balance and the client's table in one model. Of the proofs, an abstract
specification of the pipe between extension and control center, which `Extension`
would be shown to implement.
