------------------------------ MODULE ModPrimo ------------------------------
(***************************************************************************)
(* webserver/apache/mod_primo.c: requests of one client, handled side by   *)
(* side by Apache's workers, each with calls to the site's Monero daemon   *)
(* that the other requests may come between.                               *)
(*                                                                         *)
(* The daemon is external.  It keeps the client's credits and follows a    *)
(* chain of blocks, numbered here, whose last one is its top hash.  A call *)
(* can fail before or after it was processed, and its answer can lack      *)
(* fields: what counts is how far the handler gets before the first one    *)
(* that is missing.                                                        *)
(*                                                                         *)
(* curl is given no timeout: that calls return at all is an assumption of  *)
(* the liveness properties.  HTML texts and logging are left out.          *)
(***************************************************************************)
EXTENDS Wire, FiniteSets, Headers

CONSTANTS Slots,       \* workers, each with one request at a time
          Configs,     \* configurations: [sane, cost, passthrough]
          Gaps,        \* how many fields an answer that lacks some may have
          MaxBalance,  \* bound: credits of the client's account
          MaxTop       \* bound: blocks that are found

ASSUME ModPrimoAssumption ==
  /\ \A c \in Configs : /\ c.sane \in BOOLEAN /\ c.cost \in Nat /\ c.passthrough \in BOOLEAN
                        /\ c = [sane |-> c.sane, cost |-> c.cost, passthrough |-> c.passthrough]
  /\ Gaps \subseteq Nat
  /\ MaxBalance \in Nat
  /\ MaxTop \in Nat

VARIABLES conf,      \* the configuration
          balance,   \* of the client's account
          top,       \* the last block
          req,       \* the request of each worker
          shown      \* the balance the client was told last, as its table shows it

vars == <<conf, balance, top, req, shown>>

Tops == 0..MaxTop

NoTop == MaxTop + 1

Kinds == {"info", "nonce", "paid"}

\* X-Primo-Signature is missing, has not the size of a signature (it is empty
\* for a site the control center does not know), or is a signature.
Signatures == {"missing", "short", "good"}

\* Where a request is: with a call to the daemon on its way (the second one of
\* a nonce is for a new job), with the outcome of the call, or answered.
Calls == {"call", "job call"}
Returned == {"returned", "job returned"}
Ends == {"served", "unpaid", "denied", "done"}

\* Faulty: an info request is answered without the balance.
AnswerOrderWithoutCredits == [info |-> Tail(Tail(HeaderOrder)),
                              nonce |-> <<"credits", "top_hash">>,
                              job |-> SubSeq(HeaderOrder, 4, 7),
                              paid |-> <<"credits", "status">>]

\* Faulty: the new job of an outdated miner is read from its end.
AnswerOrderJobReversed == [info |-> Tail(HeaderOrder),
                           nonce |-> <<"credits", "top_hash">>,
                           job |-> Reverse(SubSeq(HeaderOrder, 4, 7)),
                           paid |-> <<"credits", "status">>]

\* The fields each method's answer should have, in the order they are read.
AnswerOrder == [info |-> Tail(HeaderOrder),
                nonce |-> <<"credits", "top_hash">>,
                job |-> SubSeq(HeaderOrder, 4, 7),
                paid |-> <<"credits", "status">>]

Method(q) == IF q.at \in {"job call", "job returned"} THEN "job" ELSE q.kind

\* What the handler gets to read of an answer: all, or up to a missing field.
FieldSets(method) ==
  LET order == AnswerOrder[method]
  IN  {ToSet(order)} \cup {ToSet(SubSeq(order, 1, n)) : n \in Gaps \cap DOMAIN order}
                    \cup {{}}

\* An answer, or none.
Answers == [fields : SUBSET (Fields \cup {"status"}), ok : BOOLEAN,
            credits : 0..MaxBalance, top : Tops]

NoAnswer == [fields |-> {}, ok |-> FALSE, credits |-> 0, top |-> 0]

\* The response's headers, and the value of the credits among them.
Responses == [names : SUBSET (Fields \cup {"status"}), credits : 0..ValueInt(MaxBalance)]

NoHeaders == [names |-> {}, credits |-> 0]

Idle == [kind |-> "info", signature |-> "missing", userTop |-> NoTop, at |-> "idle",
         answer |-> NoAnswer, out |-> NoHeaders, charged |-> FALSE]

RequestRecords == [kind : Kinds, signature : Signatures, userTop : Tops \cup {NoTop},
                   at : {"idle"} \cup Calls \cup Returned \cup Ends,
                   answer : Answers, out : Responses, charged : BOOLEAN]

TypeOK == /\ conf \in Configs
          /\ balance \in 0..MaxBalance
          /\ top \in Tops
          /\ req \in [Slots -> RequestRecords]
          /\ shown \in 0..ValueInt(MaxBalance)

Init == /\ conf \in Configs
        /\ balance = 0
        /\ top = 0
        /\ req = [s \in Slots |-> Idle]
        /\ shown = 0

-----------------------------------------------------------------------------
(* The handler *)

PaymentRequired == IF conf.passthrough THEN "unpaid" ELSE "denied"

\* primo_handler up to the first call: a paid page needs a cost and a signature
\* of the right size, the mining page any signature.
FirstStop(kind, signature) ==
  CASE ~conf.sane -> "done"
    [] conf.sane /\ kind = "paid" -> IF conf.cost # 0 /\ signature = "good"
                                       THEN "call" ELSE PaymentRequired
    [] conf.sane /\ kind # "paid" -> IF signature # "missing" THEN "call" ELSE "done"

\* A request goes on to a call or is answered, and then what it carried is of
\* no more use.
Moved(q, at) == IF at \in Ends THEN [q EXCEPT !.at = at, !.signature = "missing", !.userTop = NoTop]
                               ELSE [q EXCEPT !.at = at]

Arrive(s, kind, signature, userTop) ==
  /\ req[s].at = "idle"
  /\ kind # "nonce" => userTop = NoTop
  /\ req' = [req EXCEPT ![s] =
               Moved([Idle EXCEPT !.kind = kind,
                                  !.signature = signature,
                                  !.userTop = userTop,
                                  !.out.names = IF conf.sane /\ kind # "paid"
                                                  THEN {"name"} ELSE {}],
                     FirstStop(kind, signature))]
  /\ UNCHANGED <<conf, balance, top, shown>>

\* Faulty: the credits are named even where the answer lacks them.
WithCreditsAlways(out, fields, credits) ==
  [names |-> out.names \cup fields \cup {"credits"}, credits |-> ValueInt(credits)]

\* Faulty: credits above the largest int are passed on.
WithWideHeaders(out, fields, credits) ==
  [names |-> out.names \cup fields,
   credits |-> IF "credits" \in fields THEN credits ELSE out.credits]

\* The headers that are added from an answer.
WithHeaders(out, fields, credits) ==
  [names |-> out.names \cup fields,
   credits |-> IF "credits" \in fields THEN ValueInt(credits) ELSE out.credits]

\* A nonce for an outdated job asks the daemon for a new one.
Outdated(q) == /\ q.kind = "nonce"
               /\ "top_hash" \in q.answer.fields
               /\ q.userTop \notin {NoTop, q.answer.top}

\* primo_handle_mining_page after a call: an error, and a missing field, end it.
AfterMiningCall(q) ==
  Moved([q EXCEPT !.out = WithHeaders(@, q.answer.fields, q.answer.credits),
                  !.answer = NoAnswer],
        IF q.at = "returned" /\ Outdated(q) THEN "job call" ELSE "done")

\* Faulty: a page is served once the daemon has answered with the credits.
AcceptedWithCredits(a) == "credits" \in a.fields

\* Faulty: the last credit cannot be spent.
AcceptedWithCreditsLeft(a) == {"credits", "status"} \subseteq a.fields /\ a.ok /\ a.credits > 0

Accepted(a) == {"credits", "status"} \subseteq a.fields /\ a.ok

\* primo_handler after the pay call.
AfterPayCall(q) ==
  Moved([q EXCEPT !.out = WithHeaders(@, q.answer.fields \ {"status"}, q.answer.credits)],
        IF Accepted(q.answer) THEN "served" ELSE PaymentRequired)

Resume(s) == /\ req[s].at \in Returned
             /\ req' = [req EXCEPT ![s] = IF @.kind = "paid" THEN AfterPayCall(@)
                                                             ELSE AfterMiningCall(@)]
             /\ UNCHANGED <<conf, balance, top, shown>>

-----------------------------------------------------------------------------
(* The daemon, the network and the client *)

Return(s, answer, charges) ==
  req' = [req EXCEPT ![s].at = IF @ = "call" THEN "returned" ELSE "job returned",
                     ![s].answer = answer,
                     ![s].charged = @ \/ charges]

\* The daemon's account after a call: a nonce may earn a credit, or be wrong and
\* cost one; a payment is taken if there is enough.
NewBalances(method) ==
  CASE method = "nonce" -> {balance - 1, balance, balance + 1} \cap (0..MaxBalance)
    [] method = "paid" -> {IF balance >= conf.cost THEN balance - conf.cost ELSE balance}
    [] method \in {"info", "job"} -> {balance}

\* The call is processed and its answer arrives, maybe with fields missing, or
\* does not arrive.
Process(s, fields) ==
  /\ req[s].at \in Calls
  /\ req[s].signature = "good"
  /\ LET method == Method(req[s])
         pays == method = "paid" /\ balance >= conf.cost
     IN  /\ fields \in FieldSets(method)
         /\ balance' \in NewBalances(method)
         /\ Return(s,
                   IF fields = {} THEN NoAnswer
                     ELSE [fields |-> fields, ok |-> pays, credits |-> balance', top |-> top],
                   pays)
  /\ UNCHANGED <<conf, top, shown>>

\* The call is not processed: no connection, an error of the daemon.
CallFails(s) == /\ req[s].at \in Calls
                /\ Return(s, NoAnswer, FALSE)
                /\ UNCHANGED <<conf, balance, top, shown>>

NewBlock == /\ top < MaxTop
            /\ top' = top + 1
            /\ UNCHANGED <<conf, balance, req, shown>>

\* The response reaches the client, whose table stores the credits it names, read
\* from JSON once more.
Deliver(s) == /\ req[s].at \in Ends
              /\ shown' = IF "credits" \in req[s].out.names THEN ValueInt(req[s].out.credits)
                                                            ELSE shown
              /\ req' = [req EXCEPT ![s] = Idle]
              /\ UNCHANGED <<conf, balance, top>>

LoseResponse(s) == /\ req[s].at \in Ends
                   /\ req' = [req EXCEPT ![s] = Idle]
                   /\ UNCHANGED <<conf, balance, top, shown>>

Next == \/ \E s \in Slots :
             \/ \E kind \in Kinds, signature \in Signatures, userTop \in Tops \cup {NoTop} :
                  Arrive(s, kind, signature, userTop)
             \/ \E fields \in SUBSET (Fields \cup {"status"}) : Process(s, fields)
             \/ CallFails(s)
             \/ Resume(s)
             \/ Deliver(s)
             \/ LoseResponse(s)
        \/ NewBlock

Spec == Init /\ [][Next]_vars

\* A call to the daemon returns, and then the request is handled and answered.
GoesOn(s) == CallFails(s) \/ Resume(s) \/ LoseResponse(s)

\* The client asks for news over and over (the control center's timer), and
\* sooner or later the daemon answers in full and the response arrives.
AsksForNews == \E s \in Slots : Arrive(s, "info", "good", NoTop)

AnswersInFull == \E s \in Slots : /\ req[s].kind = "info"
                                  /\ Process(s, ToSet(AnswerOrder["info"]))

DeliversNews == \E s \in Slots : /\ req[s].kind = "info"
                                 /\ "credits" \in req[s].out.names
                                 /\ Deliver(s)

Fairness == /\ \A s \in Slots : WF_vars(GoesOn(s))
            /\ SF_vars(AsksForNews)
            /\ SF_vars(AnswersInFull)
            /\ SF_vars(DeliversNews)

FairSpec == Spec /\ Fairness
-----------------------------------------------------------------------------
(* Safety *)

Ended(s) == req[s].at \in Ends

\* A request that is passed on unpaid counts as refused: the site's own handler
\* then decides what to answer, maybe the page.
Phase(q) == CASE q.kind # "paid" \/ q.at = "idle" -> "none"
              [] q.kind = "paid" /\ q.at \in Calls \cup Returned -> "open"
              [] q.kind = "paid" /\ q.at = "served" -> "served"
              [] q.kind = "paid" /\ q.at \in Ends \ {"served"} -> "refused"

PhaseNow == [s \in Slots |-> Phase(req[s])]

ChargedNow == {s \in Slots : req[s].charged}

\* A paid page is served only to a request that was charged, once: whatever
\* calls fail and answers lack, and whatever other requests come in between.
Wall == INSTANCE Paywall
          WITH Requests <- Slots, phase <- PhaseNow, charged <- ChargedNow

ImplementsPaywall == Wall!Spec

\* A client that paid and is refused has been let down by the call: its answer
\* was lost or lacked a field.  The handler itself never takes the money and
\* keeps the page.
NotChargedInVain ==
  \A s \in Slots : req[s].at \in {"unpaid", "denied"} /\ req[s].charged
                     => req[s].answer.fields # ToSet(AnswerOrder["paid"])

\* Replies carry the sets of headers that the control center's model relies on
\* (see Executor): a paid page the credits at most, a mining page a prefix of
\* HeaderOrder.  No reply has a part of the work without its top hash.
RepliesAreShapes ==
  \A s \in Slots : Ended(s) /\ conf.sane =>
    req[s].out.names \in (IF req[s].kind = "paid" THEN PaywallShapes ELSE MiningPageShapes)

\* The credits that a request's answer or response names are those of now.
UpToDate(q) ==
  /\ q.at \in Returned /\ "credits" \in q.answer.fields =>
       ValueInt(q.answer.credits) = ValueInt(balance)
  /\ "credits" \in q.out.names => q.out.credits = ValueInt(balance)

\* The client's table is right, and nothing older is under way to it.
Agrees == shown = ValueInt(balance) /\ \A s \in Slots : UpToDate(req[s])

\* A balance that is right only goes wrong by an older answer that was under way, or
\* by a change of the account: no handler makes one up, mixes in another request's,
\* or names one it was not told.
RightStaysRight == [][Agrees /\ balance' = balance => Agrees']_vars

-----------------------------------------------------------------------------
(* Liveness *)

\* Replies overtake each other, but when the account stays as it is and news
\* are asked for, the balance the client sees becomes right, and stays right
\* (up to the largest int).
BalanceSettles ==
  conf.sane /\ <>[][balance' = balance]_balance => <>[](shown = ValueInt(balance))
=============================================================================
