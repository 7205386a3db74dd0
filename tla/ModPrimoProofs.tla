--------------------------- MODULE ModPrimoProofs ---------------------------
(***************************************************************************)
(* Theorems about ModPrimo, for any number of workers, any configurations  *)
(* and bounds: types, the paywall, and who is charged without a page.      *)
(***************************************************************************)
EXTENDS ModPrimo, TLAPS

PaidFields == ToSet(AnswerOrder["paid"])

\* A request that was charged is for a paid page and past its call; if the
\* answer it got is whole it says OK, and only to charged requests an answer
\* says OK.
RequestInv(q) ==
  /\ q.charged => q.kind = "paid" /\ q.at \in {"returned", "served", "unpaid", "denied"}
  /\ q.kind = "paid" => q.at \notin {"job call", "job returned"}
  /\ q.kind # "paid" => q.at \notin {"served", "unpaid", "denied"}
  /\ q.charged => q.answer.ok \/ q.answer.fields # PaidFields
  /\ q.kind = "paid" /\ q.answer.ok => q.charged
  /\ q.at = "served" => q.charged
  /\ q.at \in {"unpaid", "denied"} /\ q.charged => q.answer.fields # PaidFields

IInv == TypeOK /\ \A s \in Slots : RequestInv(req[s])

LEMMA ValueIntBound ==
  ASSUME NEW m \in Nat, NEW n \in 0..m
  PROVE  /\ ValueInt(n) \in 0..ValueInt(m)
         /\ ValueInt(ValueInt(n)) = ValueInt(n)
BY IntMaxAssumption DEF ValueInt, IntMin

\* The control center saturates once more what mod_primo already did.
LEMMA ValueIntAgain ==
  ASSUME NEW m \in Nat, NEW n \in 0..ValueInt(m)
  PROVE  ValueInt(n) = n
BY IntMaxAssumption DEF ValueInt, IntMin

LEMMA PaidFieldsRead == PaidFields = {"credits", "status"}
BY DEF PaidFields, AnswerOrder, ToSet

LEMMA IdleTypes == Idle \in RequestRecords /\ NoAnswer \in Answers /\ NoHeaders \in Responses
BY ModPrimoAssumption, IntMaxAssumption
   DEF Idle, RequestRecords, NoAnswer, Answers, NoHeaders, Responses, Kinds, Signatures, Tops,
       NoTop, ValueInt, IntMin

LEMMA NoAnswerFacts == ~NoAnswer.ok /\ NoAnswer.fields # PaidFields
BY PaidFieldsRead DEF NoAnswer

LEMMA IdleInv == RequestInv(Idle)
BY DEF RequestInv, Idle, NoAnswer

THEOREM InitInv == Init => IInv
<1> SUFFICES ASSUME Init PROVE IInv
  OBVIOUS
<1>1. TypeOK
  BY IdleTypes, ModPrimoAssumption, IntMaxAssumption DEF Init, TypeOK, Tops, ValueInt, IntMin
<1>2. \A s \in Slots : RequestInv(req[s])
  BY IdleInv DEF Init
<1> QED BY <1>1, <1>2 DEF IInv

-----------------------------------------------------------------------------
(* One request changes; the others keep what holds of them *)

LEMMA OneRequest ==
  ASSUME IInv, NEW s \in Slots, NEW q \in RequestRecords, RequestInv(q),
         req' = [req EXCEPT ![s] = q],
         conf' = conf, top' = top, balance' \in 0..MaxBalance,
         shown' \in 0..ValueInt(MaxBalance)
  PROVE  IInv'
<1>1. req \in [Slots -> RequestRecords] /\ \A t \in Slots : RequestInv(req[t])
  BY DEF IInv, TypeOK
<1>2. req' \in [Slots -> RequestRecords]
  BY <1>1
<1>3. \A t \in Slots : req'[t] = IF t = s THEN q ELSE req[t]
  BY <1>1
<1>4. \A t \in Slots : RequestInv(req'[t])
  BY <1>1, <1>3
<1>5. TypeOK'
  BY <1>2 DEF IInv, TypeOK
<1>6. (\A t \in Slots : RequestInv(req[t]))'
  BY <1>4
<1> QED BY <1>5, <1>6 DEF IInv

LEMMA MovedTypes ==
  ASSUME NEW q \in RequestRecords, NEW at \in {"idle"} \cup Calls \cup Returned \cup Ends
  PROVE  /\ Moved(q, at) \in RequestRecords
         /\ Moved(q, at).at = at
         /\ Moved(q, at).kind = q.kind
         /\ Moved(q, at).answer = q.answer
         /\ Moved(q, at).charged = q.charged
         /\ Moved(q, at).out = q.out
BY DEF Moved, RequestRecords, Signatures

LEMMA StopTypes ==
  ASSUME NEW kind \in Kinds, NEW signature \in Signatures
  PROVE  /\ PaymentRequired \in {"unpaid", "denied"}
         /\ FirstStop(kind, signature) \in {"call", "done", "unpaid", "denied"}
         /\ kind # "paid" => FirstStop(kind, signature) \in {"call", "done"}
BY DEF PaymentRequired, FirstStop, Kinds, Signatures

LEMMA WithHeadersTypes ==
  ASSUME NEW out \in Responses, NEW fields \in SUBSET (Fields \cup {"status"}),
         NEW credits \in 0..MaxBalance
  PROVE  WithHeaders(out, fields, credits) \in Responses
<1>1. ValueInt(credits) \in 0..ValueInt(MaxBalance)
  BY ValueIntBound, ModPrimoAssumption
<1> QED BY <1>1 DEF WithHeaders, Responses

\* The request that arrives.
LEMMA ArriveRequest ==
  ASSUME IInv, NEW s \in Slots, NEW kind \in Kinds, NEW signature \in Signatures,
         NEW userTop \in Tops \cup {NoTop}, Arrive(s, kind, signature, userTop)
  PROVE  \E q \in RequestRecords : /\ RequestInv(q)
                                   /\ req' = [req EXCEPT ![s] = q]
                                   /\ q.kind = kind
                                   /\ q.at = FirstStop(kind, signature)
                                   /\ ~q.charged
<1> DEFINE q0 == [Idle EXCEPT !.kind = kind,
                              !.signature = signature,
                              !.userTop = userTop,
                              !.out.names = IF conf.sane /\ kind # "paid"
                                              THEN {"name"} ELSE {}]
           q == Moved(q0, FirstStop(kind, signature))
<1>1. /\ q0 \in RequestRecords
      /\ q0.kind = kind /\ ~q0.charged /\ q0.answer = NoAnswer
  BY IdleTypes DEF Idle, RequestRecords, NoHeaders, Responses, Fields
<1>2. FirstStop(kind, signature) \in {"idle"} \cup Calls \cup Returned \cup Ends
  BY StopTypes DEF Calls, Ends
<1>3. /\ q \in RequestRecords /\ q.at = FirstStop(kind, signature)
      /\ q.kind = kind /\ ~q.charged /\ q.answer = NoAnswer
  BY <1>1, <1>2, MovedTypes
<1> HIDE DEF q
<1>4. RequestInv(q)
  BY <1>3, StopTypes, NoAnswerFacts DEF RequestInv
<1>5. req' = [req EXCEPT ![s] = q]
  BY DEF Arrive, q
<1> QED BY <1>3, <1>4, <1>5

LEMMA ArriveInv ==
  ASSUME IInv, NEW s \in Slots, NEW kind \in Kinds, NEW signature \in Signatures,
         NEW userTop \in Tops \cup {NoTop}, Arrive(s, kind, signature, userTop)
  PROVE  IInv'
<1>1. PICK q \in RequestRecords : RequestInv(q) /\ req' = [req EXCEPT ![s] = q]
  BY ArriveRequest
<1>2. UNCHANGED <<conf, balance, top, shown>>
  BY DEF Arrive
<1>3. balance' \in 0..MaxBalance /\ shown' \in 0..ValueInt(MaxBalance)
  BY <1>2 DEF IInv, TypeOK
<1> QED BY <1>1, <1>2, <1>3, OneRequest

LEMMA ReturnInv ==
  ASSUME IInv, NEW s \in Slots, NEW answer \in Answers, NEW charges \in BOOLEAN,
         req[s].at \in Calls, Return(s, answer, charges),
         charges => req[s].kind = "paid" /\ (answer.ok \/ answer.fields # PaidFields),
         req[s].kind = "paid" /\ answer.ok => charges,
         balance' \in 0..MaxBalance, UNCHANGED <<conf, top, shown>>
  PROVE  IInv'
<1> DEFINE q == [req[s] EXCEPT !.at = IF @ = "call" THEN "returned" ELSE "job returned",
                               !.answer = answer,
                               !.charged = @ \/ charges]
<1>1. req[s] \in RequestRecords /\ RequestInv(req[s])
  BY DEF IInv, TypeOK
<1>2. ~req[s].charged
  BY <1>1 DEF RequestInv, Calls
<1>3. /\ q \in RequestRecords
      /\ q.at = IF req[s].at = "call" THEN "returned" ELSE "job returned"
      /\ q.kind = req[s].kind /\ q.answer = answer /\ q.charged = charges
  BY <1>1, <1>2 DEF RequestRecords, Returned
<1>4. req' = [req EXCEPT ![s] = q]
  BY DEF Return, IInv, TypeOK
<1> HIDE DEF q
<1>5. q.kind = "paid" => q.at = "returned"
  BY <1>1, <1>3 DEF RequestInv, Calls
<1>6. RequestInv(q)
  BY <1>3, <1>5 DEF RequestInv
<1>7. shown' \in 0..ValueInt(MaxBalance)
  BY DEF IInv, TypeOK
<1> QED BY <1>3, <1>4, <1>6, <1>7, OneRequest

LEMMA NewBalancesTypes ==
  ASSUME IInv, NEW method \in {"info", "nonce", "job", "paid"}
  PROVE  NewBalances(method) \subseteq 0..MaxBalance
BY ModPrimoAssumption DEF NewBalances, IInv, TypeOK

\* What a processed call returns.
LEMMA ProcessReturns ==
  ASSUME IInv, NEW s \in Slots, NEW fields \in SUBSET (Fields \cup {"status"}),
         Process(s, fields)
  PROVE  \E answer \in Answers, charges \in BOOLEAN :
           /\ req[s].at \in Calls
           /\ Return(s, answer, charges)
           /\ charges => req[s].kind = "paid"
           /\ charges => req[s].kind = "paid" /\ (answer.ok \/ answer.fields # PaidFields)
           /\ req[s].kind = "paid" /\ answer.ok => charges
           /\ balance' \in 0..MaxBalance
           /\ UNCHANGED <<conf, top, shown>>
<1> DEFINE method == Method(req[s])
           pays == method = "paid" /\ balance >= conf.cost
           answer == IF fields = {} THEN NoAnswer
                       ELSE [fields |-> fields, ok |-> pays, credits |-> balance', top |-> top]
<1>1. req[s] \in RequestRecords /\ RequestInv(req[s]) /\ top \in Tops
  BY DEF IInv, TypeOK
<1>2. method \in {"info", "nonce", "job", "paid"} /\ (method = "paid" <=> req[s].kind = "paid")
  BY <1>1 DEF Method, RequestInv, RequestRecords, Kinds
<1>3. balance' \in 0..MaxBalance
  BY <1>2, NewBalancesTypes DEF Process
<1>4. pays \in BOOLEAN
  OBVIOUS
<1>5. answer \in Answers
  BY <1>1, <1>3, <1>4, IdleTypes DEF Answers
<1>6. Return(s, answer, pays) /\ req[s].at \in Calls /\ UNCHANGED <<conf, top, shown>>
  BY DEF Process
<1>7. /\ fields = {} => ~answer.ok /\ answer.fields # PaidFields
      /\ fields # {} => answer.ok = pays
  BY NoAnswerFacts, <1>4
<1> HIDE DEF pays, answer, method
<1>8. pays => method = "paid"
  BY DEF pays
<1>9. /\ pays => req[s].kind = "paid" /\ (answer.ok \/ answer.fields # PaidFields)
      /\ req[s].kind = "paid" /\ answer.ok => pays
  BY <1>2, <1>7, <1>8
<1> QED BY <1>3, <1>4, <1>5, <1>6, <1>9

LEMMA ProcessInv ==
  ASSUME IInv, NEW s \in Slots, NEW fields \in SUBSET (Fields \cup {"status"}),
         Process(s, fields)
  PROVE  IInv'
BY ProcessReturns, ReturnInv

LEMMA CallFailsInv ==
  ASSUME IInv, NEW s \in Slots, CallFails(s)
  PROVE  IInv'
<1>1. /\ Return(s, NoAnswer, FALSE) /\ req[s].at \in Calls
      /\ balance' \in 0..MaxBalance /\ UNCHANGED <<conf, top, shown>>
  BY DEF CallFails, IInv, TypeOK
<1> QED BY <1>1, NoAnswerFacts, IdleTypes, ReturnInv

LEMMA AfterMiningCallTypes ==
  ASSUME IInv, NEW s \in Slots, req[s].at \in Returned, req[s].kind # "paid"
  PROVE  /\ AfterMiningCall(req[s]) \in RequestRecords
         /\ RequestInv(AfterMiningCall(req[s]))
         /\ AfterMiningCall(req[s]).kind # "paid"
         /\ ~AfterMiningCall(req[s]).charged
         /\ ~req[s].charged
<1> DEFINE out == WithHeaders(req[s].out, req[s].answer.fields, req[s].answer.credits)
           q0 == [req[s] EXCEPT !.out = out, !.answer = NoAnswer]
           at == IF req[s].at = "returned" /\ Outdated(req[s]) THEN "job call" ELSE "done"
           q == AfterMiningCall(req[s])
<1>1. req[s] \in RequestRecords /\ RequestInv(req[s])
  BY DEF IInv, TypeOK
<1>2. ~req[s].charged
  BY <1>1 DEF RequestInv
<1>3. out \in Responses
  BY <1>1, WithHeadersTypes DEF RequestRecords, Answers
<1>4. q = Moved(q0, at)
  BY DEF AfterMiningCall
<1> HIDE DEF out
<1>5. /\ q0 \in RequestRecords /\ ~q0.charged /\ q0.kind # "paid" /\ q0.answer = NoAnswer
  BY <1>1, <1>2, <1>3, IdleTypes DEF RequestRecords
<1> HIDE DEF q0
<1>6. at \in {"job call", "done"} /\ at \in {"idle"} \cup Calls \cup Returned \cup Ends
  BY DEF Calls, Ends
<1> HIDE DEF at, q
<1>7. q \in RequestRecords /\ q.charged = q0.charged /\ q.kind = q0.kind /\ q.at = at
  BY <1>4, <1>5, <1>6, MovedTypes
<1>8. RequestInv(q)
  BY <1>5, <1>6, <1>7 DEF RequestInv
<1> QED BY <1>2, <1>5, <1>7, <1>8 DEF q

\* What the handler makes of the answer to the pay call.
LEMMA PaidPageEnds ==
  ASSUME IInv, NEW s \in Slots, req[s].at \in Returned, req[s].kind = "paid"
  PROVE  /\ req[s].at = "returned"
         /\ Accepted(req[s].answer) => req[s].charged
         /\ ~Accepted(req[s].answer) /\ req[s].charged => req[s].answer.fields # PaidFields
         /\ PaymentRequired \in {"unpaid", "denied"}
<1>1. RequestInv(req[s])
  BY DEF IInv, TypeOK
<1>2. req[s].answer.fields = PaidFields => {"credits", "status"} \subseteq req[s].answer.fields
  BY PaidFieldsRead
<1> QED BY <1>1, <1>2 DEF RequestInv, Accepted, Returned, PaymentRequired

LEMMA AfterPayCallTypes ==
  ASSUME IInv, NEW s \in Slots, req[s].at \in Returned, req[s].kind = "paid"
  PROVE  /\ AfterPayCall(req[s]) \in RequestRecords
         /\ RequestInv(AfterPayCall(req[s]))
         /\ AfterPayCall(req[s]).kind = "paid"
         /\ AfterPayCall(req[s]).charged = req[s].charged
         /\ AfterPayCall(req[s]).at \in {"served", "unpaid", "denied"}
<1> DEFINE out == WithHeaders(req[s].out, req[s].answer.fields \ {"status"},
                              req[s].answer.credits)
           q0 == [req[s] EXCEPT !.out = out]
           at == IF Accepted(req[s].answer) THEN "served" ELSE PaymentRequired
           q == AfterPayCall(req[s])
<1>1. req[s] \in RequestRecords /\ RequestInv(req[s])
  BY DEF IInv, TypeOK
<1>2. req[s].answer.fields \in SUBSET (Fields \cup {"status"})
  BY <1>1 DEF RequestRecords, Answers
<1>3. out \in Responses
  BY <1>1, <1>2, WithHeadersTypes DEF RequestRecords, Answers
<1>4. q = Moved(q0, at)
  BY DEF AfterPayCall
<1> HIDE DEF out
<1>5. /\ q0 \in RequestRecords /\ q0.charged = req[s].charged
      /\ q0.kind = "paid" /\ q0.answer = req[s].answer
  BY <1>1, <1>3 DEF RequestRecords
<1> HIDE DEF q0
<1>6. /\ at \in {"served", "unpaid", "denied"}
      /\ at \in {"idle"} \cup Calls \cup Returned \cup Ends
      /\ at = "served" => req[s].charged
      /\ at # "served" /\ req[s].charged => req[s].answer.fields # PaidFields
  BY PaidPageEnds DEF Ends
<1> HIDE DEF at, q
<1>7. /\ q \in RequestRecords /\ q.charged = req[s].charged /\ q.kind = "paid"
      /\ q.at = at /\ q.answer = req[s].answer
  BY <1>4, <1>5, <1>6, MovedTypes
<1>8. RequestInv(q)
  BY <1>1, <1>6, <1>7 DEF RequestInv
<1> QED BY <1>6, <1>7, <1>8 DEF q

LEMMA ResumeInv ==
  ASSUME IInv, NEW s \in Slots, Resume(s)
  PROVE  IInv'
<1>1. PICK q \in RequestRecords : RequestInv(q) /\ req' = [req EXCEPT ![s] = q]
  BY AfterMiningCallTypes, AfterPayCallTypes DEF Resume
<1>2. UNCHANGED <<conf, balance, top, shown>>
  BY DEF Resume
<1>3. balance' \in 0..MaxBalance /\ shown' \in 0..ValueInt(MaxBalance)
  BY <1>2 DEF IInv, TypeOK
<1> QED BY <1>1, <1>2, <1>3, OneRequest

\* An answered request, delivered or not, leaves its worker idle.
LEMMA AnsweredInv ==
  ASSUME IInv, NEW s \in Slots, req' = [req EXCEPT ![s] = Idle],
         UNCHANGED <<conf, balance, top>>, shown' \in 0..ValueInt(MaxBalance)
  PROVE  IInv'
<1>1. balance' \in 0..MaxBalance
  BY DEF IInv, TypeOK
<1> QED BY <1>1, IdleTypes, IdleInv, OneRequest

LEMMA DeliverInv ==
  ASSUME IInv, NEW s \in Slots, Deliver(s) \/ LoseResponse(s)
  PROVE  IInv'
<1>1. req[s].out.credits \in 0..ValueInt(MaxBalance)
  BY DEF IInv, TypeOK, RequestRecords, Responses
<1>2. shown' \in 0..ValueInt(MaxBalance)
  BY <1>1, ValueIntAgain, ModPrimoAssumption DEF Deliver, LoseResponse, IInv, TypeOK
<1> QED BY <1>2, AnsweredInv DEF Deliver, LoseResponse

LEMMA NewBlockInv == IInv /\ NewBlock => IInv'
BY ModPrimoAssumption DEF IInv, TypeOK, NewBlock, Tops

THEOREM StepInv == IInv /\ [Next]_vars => IInv'
<1> SUFFICES ASSUME IInv, [Next]_vars PROVE IInv'
  OBVIOUS
<1>1. CASE UNCHANGED vars
  BY <1>1 DEF IInv, TypeOK, vars
<1>2. ASSUME NEW s \in Slots, NEW kind \in Kinds, NEW signature \in Signatures,
             NEW userTop \in Tops \cup {NoTop}, Arrive(s, kind, signature, userTop)
      PROVE  IInv'
  BY <1>2, ArriveInv
<1>3. ASSUME NEW s \in Slots, NEW fields \in SUBSET (Fields \cup {"status"}),
             Process(s, fields)
      PROVE  IInv'
  BY <1>3, ProcessInv
<1>4. ASSUME NEW s \in Slots, CallFails(s) PROVE IInv'
  BY <1>4, CallFailsInv
<1>5. ASSUME NEW s \in Slots, Resume(s) PROVE IInv'
  BY <1>5, ResumeInv
<1>6. ASSUME NEW s \in Slots, Deliver(s) \/ LoseResponse(s) PROVE IInv'
  BY <1>6, DeliverInv
<1>7. CASE NewBlock
  BY <1>7, NewBlockInv
<1> QED BY <1>1, <1>2, <1>3, <1>4, <1>5, <1>6, <1>7 DEF Next

LEMMA Invariant == Spec => []IInv
BY InitInv, StepInv, PTL DEF Spec

-----------------------------------------------------------------------------

\* Whatever the daemon's answers lack and calls fail, requests and responses
\* stay what the handler takes them for, and the client is told a balance that
\* an account may have, cut to an int.
THEOREM AlwaysTyped == Spec => []TypeOK
<1>1. IInv => TypeOK
  BY DEF IInv
<1> QED BY <1>1, Invariant, PTL

\* mod_primo never takes a whole answer that says the client paid for a refusal:
\* a charged client is refused only when the call's answer was cut or lost.
THEOREM NeverChargedInVain == Spec => []NotChargedInVain
<1>1. IInv => NotChargedInVain
  BY DEF IInv, RequestInv, NotChargedInVain, PaidFields
<1> QED BY <1>1, Invariant, PTL

-----------------------------------------------------------------------------
(* What the client is told *)

LEMMA OneStaysUpToDate ==
  ASSUME IInv, Agrees, balance' = balance, NEW s \in Slots, NEW q \in RequestRecords,
         req' = [req EXCEPT ![s] = q], UpToDate(q), shown' = ValueInt(balance)
  PROVE  Agrees'
<1>1. req \in [Slots -> RequestRecords]
  BY DEF IInv, TypeOK
<1>2. \A t \in Slots : req'[t] = IF t = s THEN q ELSE req[t]
  BY <1>1
<1>3. \A t \in Slots : UpToDate(req'[t])
  BY <1>2 DEF Agrees
<1>4. \A t \in Slots : UpToDate(req[t])'
  BY <1>3 DEF UpToDate
<1> QED BY <1>4 DEF Agrees

LEMMA ArriveUpToDate ==
  ASSUME IInv, Agrees, balance' = balance, NEW s \in Slots, NEW kind \in Kinds,
         NEW signature \in Signatures, NEW userTop \in Tops \cup {NoTop},
         Arrive(s, kind, signature, userTop)
  PROVE  Agrees'
<1> DEFINE q0 == [Idle EXCEPT !.kind = kind,
                              !.signature = signature,
                              !.userTop = userTop,
                              !.out.names = IF conf.sane /\ kind # "paid"
                                              THEN {"name"} ELSE {}]
           q == Moved(q0, FirstStop(kind, signature))
<1>1. q0 \in RequestRecords /\ "credits" \notin q0.out.names /\ q0.answer.fields = {}
  BY IdleTypes DEF Idle, RequestRecords, NoHeaders, Responses, NoAnswer, Fields
<1>2. FirstStop(kind, signature) \in {"idle"} \cup Calls \cup Returned \cup Ends
  BY StopTypes DEF Calls, Ends
<1>3. req' = [req EXCEPT ![s] = q] /\ shown' = ValueInt(balance)
  BY DEF Arrive, Agrees
<1> HIDE DEF q0
<1>4. q \in RequestRecords /\ q.out = q0.out /\ q.answer = q0.answer
  BY <1>1, <1>2, MovedTypes
<1> HIDE DEF q
<1>5. UpToDate(q)
  BY <1>1, <1>4 DEF UpToDate
<1> QED BY <1>3, <1>4, <1>5, OneStaysUpToDate

LEMMA ReturnUpToDate ==
  ASSUME IInv, Agrees, balance' = balance, NEW s \in Slots, NEW answer \in Answers,
         NEW charges \in BOOLEAN, Return(s, answer, charges),
         "credits" \in answer.fields => answer.credits = balance, shown' = shown
  PROVE  Agrees'
<1> DEFINE q == [req[s] EXCEPT !.at = IF @ = "call" THEN "returned" ELSE "job returned",
                               !.answer = answer,
                               !.charged = @ \/ charges]
<1>1. req[s] \in RequestRecords /\ UpToDate(req[s])
  BY DEF IInv, TypeOK, Agrees
<1>2. q \in RequestRecords /\ q.out = req[s].out /\ q.answer = answer
  BY <1>1 DEF RequestRecords, Returned
<1>3. req' = [req EXCEPT ![s] = q]
  BY DEF Return, IInv, TypeOK
<1> HIDE DEF q
<1>4. UpToDate(q)
  BY <1>1, <1>2 DEF UpToDate
<1>5. shown' = ValueInt(balance)
  BY DEF Agrees
<1> QED BY <1>2, <1>3, <1>4, <1>5, OneStaysUpToDate

LEMMA ProcessUpToDate ==
  ASSUME IInv, Agrees, balance' = balance, NEW s \in Slots,
         NEW fields \in SUBSET (Fields \cup {"status"}), Process(s, fields)
  PROVE  Agrees'
<1> DEFINE pays == Method(req[s]) = "paid" /\ balance >= conf.cost
           answer == IF fields = {} THEN NoAnswer
                       ELSE [fields |-> fields, ok |-> pays, credits |-> balance', top |-> top]
<1>1. balance' \in 0..MaxBalance /\ top \in Tops
  BY DEF IInv, TypeOK
<1>2. pays \in BOOLEAN
  OBVIOUS
<1>3. answer \in Answers
  BY <1>1, <1>2, IdleTypes DEF Answers
<1>4. Return(s, answer, pays) /\ shown' = shown
  BY DEF Process
<1>5. "credits" \in answer.fields => answer.credits = balance
  BY DEF NoAnswer
<1> HIDE DEF answer, pays
<1> QED BY <1>2, <1>3, <1>4, <1>5, ReturnUpToDate

LEMMA CallFailsUpToDate ==
  ASSUME IInv, Agrees, balance' = balance, NEW s \in Slots, CallFails(s)
  PROVE  Agrees'
<1>1. Return(s, NoAnswer, FALSE) /\ shown' = shown
  BY DEF CallFails
<1>2. "credits" \notin NoAnswer.fields
  BY DEF NoAnswer
<1> QED BY <1>1, <1>2, IdleTypes, ReturnUpToDate

\* What is added to a response that is right, from an answer that is.
LEMMA WithHeadersUpToDate ==
  ASSUME NEW out \in Responses, NEW fields \in SUBSET (Fields \cup {"status"}),
         NEW credits \in 0..MaxBalance,
         "credits" \in fields => ValueInt(credits) = ValueInt(balance),
         "credits" \in out.names => out.credits = ValueInt(balance)
  PROVE  LET new == WithHeaders(out, fields, credits)
         IN  "credits" \in new.names => new.credits = ValueInt(balance)
BY DEF WithHeaders, Responses

LEMMA ResumeUpToDate ==
  ASSUME IInv, Agrees, balance' = balance, NEW s \in Slots, Resume(s)
  PROVE  Agrees'
<1>1. /\ req[s] \in RequestRecords /\ UpToDate(req[s]) /\ req[s].at \in Returned
      /\ req[s].out \in Responses /\ req[s].answer.credits \in 0..MaxBalance
      /\ req[s].answer.fields \in SUBSET (Fields \cup {"status"})
  BY DEF IInv, TypeOK, Agrees, Resume, RequestRecords, Answers
<1>2. shown' = ValueInt(balance)
  BY DEF Resume, Agrees
<1>3. CASE req[s].kind # "paid"
  <2> DEFINE out == WithHeaders(req[s].out, req[s].answer.fields, req[s].answer.credits)
             q0 == [req[s] EXCEPT !.out = out, !.answer = NoAnswer]
             at == IF req[s].at = "returned" /\ Outdated(req[s]) THEN "job call" ELSE "done"
             q == AfterMiningCall(req[s])
  <2>1. out \in Responses /\ ("credits" \in out.names => out.credits = ValueInt(balance))
    BY <1>1, WithHeadersTypes, WithHeadersUpToDate DEF UpToDate
  <2>2. q = Moved(q0, at) /\ req' = [req EXCEPT ![s] = q]
    BY <1>3 DEF AfterMiningCall, Resume
  <2> HIDE DEF out
  <2>3. q0 \in RequestRecords /\ q0.out = out /\ q0.answer = NoAnswer
    BY <1>1, <2>1, IdleTypes DEF RequestRecords
  <2>4. at \in {"idle"} \cup Calls \cup Returned \cup Ends
    BY DEF Calls, Ends
  <2> HIDE DEF q0, at, q
  <2>5. q \in RequestRecords /\ q.out = out /\ q.answer = NoAnswer
    BY <2>2, <2>3, <2>4, MovedTypes
  <2>6. UpToDate(q)
    BY <2>1, <2>5 DEF UpToDate, NoAnswer
  <2> QED BY <1>2, <2>2, <2>5, <2>6, OneStaysUpToDate
<1>4. CASE req[s].kind = "paid"
  <2> DEFINE out == WithHeaders(req[s].out, req[s].answer.fields \ {"status"},
                                req[s].answer.credits)
             q0 == [req[s] EXCEPT !.out = out]
             at == IF Accepted(req[s].answer) THEN "served" ELSE PaymentRequired
             q == AfterPayCall(req[s])
  <2>1. req[s].answer.fields \ {"status"} \in SUBSET (Fields \cup {"status"})
    BY <1>1
  <2>2. out \in Responses /\ ("credits" \in out.names => out.credits = ValueInt(balance))
    BY <1>1, <2>1, WithHeadersTypes, WithHeadersUpToDate DEF UpToDate
  <2>3. q = Moved(q0, at) /\ req' = [req EXCEPT ![s] = q]
    BY <1>4 DEF AfterPayCall, Resume
  <2> HIDE DEF out
  <2>4. q0 \in RequestRecords /\ q0.out = out
    BY <1>1, <2>2 DEF RequestRecords
  <2>5. /\ at \in {"idle"} \cup Calls \cup Returned \cup Ends
        /\ at \notin Returned
    BY DEF PaymentRequired, Calls, Returned, Ends
  <2> HIDE DEF q0, at, q
  <2>6. q \in RequestRecords /\ q.out = out /\ q.at = at
    BY <2>3, <2>4, <2>5, MovedTypes
  <2>7. UpToDate(q)
    BY <2>2, <2>5, <2>6 DEF UpToDate
  <2> QED BY <1>2, <2>3, <2>6, <2>7, OneStaysUpToDate
<1> QED BY <1>3, <1>4

LEMMA AnsweredUpToDate ==
  ASSUME IInv, Agrees, balance' = balance, NEW s \in Slots, Deliver(s) \/ LoseResponse(s)
  PROVE  Agrees'
<1>1. shown' = ValueInt(balance)
  <2>1. req[s].out.credits \in 0..ValueInt(MaxBalance)
    BY DEF IInv, TypeOK, RequestRecords, Responses
  <2>2. ValueInt(req[s].out.credits) = req[s].out.credits
    BY <2>1, ValueIntAgain, ModPrimoAssumption
  <2> QED BY <2>2 DEF Deliver, LoseResponse, Agrees, UpToDate
<1>2. UpToDate(Idle)
  BY DEF UpToDate, Idle, NoAnswer, NoHeaders
<1>3. req' = [req EXCEPT ![s] = Idle]
  BY DEF Deliver, LoseResponse
<1> QED BY <1>1, <1>2, <1>3, IdleTypes, OneStaysUpToDate

\* Once the table is right and every answer and response under way names the balance
\* of the account, mod_primo and the network keep it so until the account changes:
\* DB::update, which takes balances in the order they arrive, then has only right ones.
THEOREM BalanceStaysRight == Spec => RightStaysRight
<1>1. ASSUME IInv, [Next]_vars, Agrees, balance' = balance
      PROVE  Agrees'
  <2>1. CASE UNCHANGED vars \/ NewBlock
    BY <1>1, <2>1 DEF vars, NewBlock, Agrees, UpToDate
  <2>2. ASSUME NEW s \in Slots, NEW kind \in Kinds, NEW signature \in Signatures,
               NEW userTop \in Tops \cup {NoTop}, Arrive(s, kind, signature, userTop)
        PROVE  Agrees'
    BY <1>1, <2>2, ArriveUpToDate
  <2>3. ASSUME NEW s \in Slots, NEW fields \in SUBSET (Fields \cup {"status"}),
               Process(s, fields)
        PROVE  Agrees'
    BY <1>1, <2>3, ProcessUpToDate
  <2>4. ASSUME NEW s \in Slots, CallFails(s) PROVE Agrees'
    BY <1>1, <2>4, CallFailsUpToDate
  <2>5. ASSUME NEW s \in Slots, Resume(s) PROVE Agrees'
    BY <1>1, <2>5, ResumeUpToDate
  <2>6. ASSUME NEW s \in Slots, Deliver(s) \/ LoseResponse(s) PROVE Agrees'
    BY <1>1, <2>6, AnsweredUpToDate
  <2> QED BY <1>1, <2>1, <2>2, <2>3, <2>4, <2>5, <2>6 DEF Next
<1>2. IInv /\ [Next]_vars => [Agrees /\ balance' = balance => Agrees']_vars
  BY <1>1
<1> QED BY <1>2, Invariant, PTL DEF Spec, RightStaysRight

-----------------------------------------------------------------------------
(* The paywall *)

LEMMA OneMoves ==
  ASSUME IInv, NEW s \in Slots, NEW q \in RequestRecords, req' = [req EXCEPT ![s] = q]
  PROVE  /\ PhaseNow' = [PhaseNow EXCEPT ![s] = Phase(q)]
         /\ PhaseNow[s] = Phase(req[s])
         /\ q.charged => ChargedNow' = ChargedNow \cup {s}
         /\ ~q.charged => ChargedNow' = ChargedNow \ {s}
<1>1. req \in [Slots -> RequestRecords]
  BY DEF IInv, TypeOK
<1>2. \A t \in Slots : req'[t] = IF t = s THEN q ELSE req[t]
  BY <1>1
<1>3. ChargedNow' = {t \in Slots : req'[t].charged}
  BY DEF ChargedNow
<1>4. PhaseNow' = [t \in Slots |-> Phase(req'[t])]
  BY DEF PhaseNow
<1>5. \A t \in Slots : Phase(req'[t]) = IF t = s THEN Phase(q) ELSE Phase(req[t])
  BY <1>2
<1>6. PhaseNow' = [PhaseNow EXCEPT ![s] = Phase(q)] /\ PhaseNow[s] = Phase(req[s])
  BY <1>4, <1>5 DEF PhaseNow
<1>7. q.charged => ChargedNow' = ChargedNow \cup {s}
  BY <1>2, <1>3 DEF ChargedNow
<1>8. ~q.charged => ChargedNow' = ChargedNow \ {s}
  BY <1>2, <1>3 DEF ChargedNow
<1> QED BY <1>6, <1>7, <1>8

\* A worker whose phase stays and whose charge stays changes nothing.
LEMMA OneStays ==
  ASSUME IInv, NEW s \in Slots, NEW q \in RequestRecords, req' = [req EXCEPT ![s] = q],
         Phase(q) = Phase(req[s]), q.charged = req[s].charged
  PROVE  UNCHANGED <<PhaseNow, ChargedNow>>
<1>1. PhaseNow' = PhaseNow
  BY OneMoves DEF PhaseNow
<1>2. q.charged => ChargedNow' = ChargedNow
  BY OneMoves DEF ChargedNow
<1>3. ~q.charged => ChargedNow' = ChargedNow
  BY OneMoves DEF ChargedNow
<1> QED BY <1>1, <1>2, <1>3

WallStep == [Wall!Next]_<<PhaseNow, ChargedNow>>

LEMMA ArriveWalls ==
  ASSUME IInv, NEW s \in Slots, NEW kind \in Kinds, NEW signature \in Signatures,
         NEW userTop \in Tops \cup {NoTop}, Arrive(s, kind, signature, userTop)
  PROVE  WallStep
<1>1. PICK q \in RequestRecords : /\ RequestInv(q)
                                  /\ req' = [req EXCEPT ![s] = q]
                                  /\ q.kind = kind
                                  /\ q.at = FirstStop(kind, signature)
                                  /\ ~q.charged
  BY ArriveRequest
<1>2. req[s].at = "idle" /\ RequestInv(req[s])
  BY DEF Arrive, IInv
<1>3. PhaseNow[s] = "none" /\ s \notin ChargedNow
  <2>1. Phase(req[s]) = "none"
    BY <1>2 DEF Phase, Calls, Returned, Ends
  <2>2. ~req[s].charged
    BY <1>2 DEF RequestInv
  <2> QED BY <1>1, <2>1, <2>2, OneMoves DEF ChargedNow
<1>4. ChargedNow' = ChargedNow /\ PhaseNow' = [PhaseNow EXCEPT ![s] = Phase(q)]
  <2>1. ChargedNow' = ChargedNow \ {s}
    BY <1>1, OneMoves
  <2>2. PhaseNow' = [PhaseNow EXCEPT ![s] = Phase(q)]
    BY <1>1, OneMoves
  <2> QED BY <1>3, <2>1, <2>2
<1>5. Phase(q) \in {"none", "open", "refused"}
  BY <1>1, StopTypes DEF Phase, Calls, Ends
<1>6. CASE Phase(q) = "none"
  BY <1>3, <1>4, <1>6 DEF WallStep, PhaseNow
<1>7. CASE Phase(q) = "open"
  <2>1. Wall!Open(s)
    BY <1>3, <1>4, <1>7 DEF Wall!Open, Wall!Move
  <2> QED BY <2>1 DEF WallStep, Wall!Next
<1>8. CASE Phase(q) = "refused"
  <2>1. Wall!TurnAway(s)
    BY <1>3, <1>4, <1>8 DEF Wall!TurnAway, Wall!Move
  <2> QED BY <2>1 DEF WallStep, Wall!Next
<1> QED BY <1>5, <1>6, <1>7, <1>8

\* A call that returns leaves its request open; it may have charged it.
LEMMA ReturnWalls ==
  ASSUME IInv, NEW s \in Slots, NEW answer \in Answers, NEW charges \in BOOLEAN,
         req[s].at \in Calls, Return(s, answer, charges),
         charges => req[s].kind = "paid"
  PROVE  WallStep
<1> DEFINE q == [req[s] EXCEPT !.at = IF @ = "call" THEN "returned" ELSE "job returned",
                               !.answer = answer,
                               !.charged = @ \/ charges]
<1>1. req[s] \in RequestRecords /\ RequestInv(req[s])
  BY DEF IInv, TypeOK
<1>2. ~req[s].charged
  BY <1>1 DEF RequestInv, Calls
<1>3. /\ q \in RequestRecords
      /\ q.at \in Returned
      /\ q.kind = req[s].kind /\ q.charged = charges
  BY <1>1, <1>2 DEF RequestRecords, Returned
<1>4. req' = [req EXCEPT ![s] = q]
  BY DEF Return, IInv, TypeOK
<1> HIDE DEF q
<1>5. Phase(q) = Phase(req[s])
  BY <1>3 DEF Phase, Calls, Returned, Ends
<1>6. PhaseNow' = PhaseNow /\ s \notin ChargedNow
  BY <1>2, <1>3, <1>4, <1>5, OneMoves DEF PhaseNow, ChargedNow
<1>7. CASE ~charges
  <2>1. ChargedNow' = ChargedNow \ {s}
    BY <1>3, <1>4, <1>7, OneMoves
  <2>2. ChargedNow' = ChargedNow
    BY <1>6, <2>1
  <2> QED BY <1>6, <2>2 DEF WallStep
<1>8. CASE charges
  <2>1. ChargedNow' = ChargedNow \cup {s}
    BY <1>3, <1>4, <1>8, OneMoves
  <2>2. Phase(req[s]) = "open"
    BY <1>8 DEF Phase, Calls, Returned, Ends
  <2>3. Wall!Charge(s)
    BY <1>3, <1>4, <1>6, <2>1, <2>2, OneMoves DEF Wall!Charge
  <2> QED BY <2>3 DEF WallStep, Wall!Next
<1> QED BY <1>7, <1>8

LEMMA ProcessWalls ==
  ASSUME IInv, NEW s \in Slots, NEW fields \in SUBSET (Fields \cup {"status"}),
         Process(s, fields)
  PROVE  WallStep
<1>1. PICK answer \in Answers, charges \in BOOLEAN :
        /\ req[s].at \in Calls
        /\ Return(s, answer, charges)
        /\ charges => req[s].kind = "paid"
  BY ProcessReturns
<1> QED BY <1>1, ReturnWalls

LEMMA CallFailsWalls ==
  ASSUME IInv, NEW s \in Slots, CallFails(s)
  PROVE  WallStep
<1>1. Return(s, NoAnswer, FALSE) /\ req[s].at \in Calls
  BY DEF CallFails
<1> QED BY <1>1, IdleTypes, ReturnWalls

LEMMA ResumeWalls ==
  ASSUME IInv, NEW s \in Slots, Resume(s)
  PROVE  WallStep
<1>1. req[s].at \in Returned /\ req[s] \in RequestRecords /\ RequestInv(req[s])
  BY DEF Resume, IInv, TypeOK
<1>2. CASE req[s].kind # "paid"
  <2> DEFINE q == AfterMiningCall(req[s])
  <2>1. q \in RequestRecords /\ q.kind # "paid" /\ ~q.charged /\ ~req[s].charged
    BY <1>1, <1>2, AfterMiningCallTypes
  <2>2. req' = [req EXCEPT ![s] = q]
    BY <1>2 DEF Resume
  <2> HIDE DEF q
  <2>3. Phase(q) = "none" /\ Phase(req[s]) = "none"
    BY <1>2, <2>1 DEF Phase
  <2>4. s \notin ChargedNow
    BY <2>1 DEF ChargedNow
  <2>5. PhaseNow' = PhaseNow /\ ChargedNow' = ChargedNow
    BY <2>1, <2>2, <2>3, <2>4, OneMoves DEF PhaseNow
  <2> QED BY <2>5 DEF WallStep
<1>3. CASE req[s].kind = "paid"
  <2> DEFINE q == AfterPayCall(req[s])
  <2>1. /\ q \in RequestRecords /\ RequestInv(q) /\ q.kind = "paid"
        /\ q.charged = req[s].charged /\ q.at \in {"served", "unpaid", "denied"}
    BY <1>1, <1>3, AfterPayCallTypes
  <2>2. req' = [req EXCEPT ![s] = q]
    BY <1>3 DEF Resume
  <2> HIDE DEF q
  <2>3. ChargedNow' = ChargedNow
    <3>1. req[s].charged => ChargedNow' = ChargedNow
      BY <2>1, <2>2, OneMoves DEF ChargedNow
    <3>2. ~req[s].charged => ChargedNow' = ChargedNow
      BY <2>1, <2>2, OneMoves DEF ChargedNow
    <3> QED BY <3>1, <3>2
  <2>4. PhaseNow' = [PhaseNow EXCEPT ![s] = Phase(q)] /\ PhaseNow[s] = Phase(req[s])
    BY <2>1, <2>2, OneMoves
  <2>5. Phase(req[s]) = "open"
    BY <1>1, <1>3 DEF Phase, Calls, Returned, Ends
  <2>6. CASE q.at = "served"
    <3>1. Phase(q) = "served"
      BY <2>1, <2>6 DEF Phase, Calls, Returned
    <3>2. s \in ChargedNow
      BY <2>1, <2>6 DEF RequestInv, ChargedNow
    <3>3. Wall!Serve(s)
      BY <2>3, <2>4, <2>5, <3>1, <3>2 DEF Wall!Serve, Wall!Move
    <3> QED BY <3>3 DEF WallStep, Wall!Next
  <2>7. CASE q.at \in {"unpaid", "denied"}
    <3>1. Phase(q) = "refused"
      BY <2>1, <2>7 DEF Phase, Calls, Returned, Ends
    <3>2. Wall!Refuse(s)
      BY <2>3, <2>4, <2>5, <3>1 DEF Wall!Refuse, Wall!Move
    <3> QED BY <3>2 DEF WallStep, Wall!Next
  <2> QED BY <2>1, <2>6, <2>7
<1> QED BY <1>2, <1>3

LEMMA DeliverWalls ==
  ASSUME IInv, NEW s \in Slots, Deliver(s) \/ LoseResponse(s)
  PROVE  WallStep
<1>1. req[s].at \in Ends /\ req' = [req EXCEPT ![s] = Idle]
  BY DEF Deliver, LoseResponse
<1>2. req[s] \in RequestRecords /\ RequestInv(req[s])
  BY DEF IInv, TypeOK
<1>3. ~Idle.charged /\ Phase(Idle) = "none"
  BY DEF Idle, Phase
<1>4. /\ PhaseNow' = [PhaseNow EXCEPT ![s] = "none"]
      /\ ChargedNow' = ChargedNow \ {s}
      /\ PhaseNow[s] = Phase(req[s])
  BY <1>1, <1>3, IdleTypes, OneMoves
<1>5. CASE req[s].kind # "paid"
  <2>1. Phase(req[s]) = "none"
    BY <1>5 DEF Phase
  <2>2. s \notin ChargedNow
    BY <1>2, <1>5 DEF RequestInv, ChargedNow
  <2> QED BY <1>4, <2>1, <2>2 DEF WallStep, PhaseNow
<1>6. CASE req[s].kind = "paid"
  <2>1. Phase(req[s]) \in {"served", "refused"}
    BY <1>1, <1>6 DEF Phase, Calls, Returned, Ends
  <2>2. Wall!Close(s)
    BY <1>4, <2>1 DEF Wall!Close, Wall!Move
  <2> QED BY <2>2 DEF WallStep, Wall!Next
<1> QED BY <1>5, <1>6

\* mod_primo implements the paywall for every number of workers, and whatever
\* calls fail, answers lack and other requests do in between: a paid page is
\* served only to a request that was charged for, and none is charged twice.
THEOREM Paywalled == Spec => ImplementsPaywall
<1>1. Init => Wall!Init
  <2> SUFFICES ASSUME Init PROVE Wall!Init
    OBVIOUS
  <2>1. \A s \in Slots : req[s] = Idle
    BY DEF Init
  <2>2. Phase(Idle) = "none" /\ ~Idle.charged
    BY DEF Phase, Idle
  <2> QED BY <2>1, <2>2 DEF Wall!Init, PhaseNow, ChargedNow
<1>2. IInv /\ [Next]_vars => WallStep
  <2> SUFFICES ASSUME IInv, [Next]_vars PROVE WallStep
    OBVIOUS
  <2>1. CASE UNCHANGED vars \/ NewBlock
    BY <2>1 DEF vars, NewBlock, WallStep, PhaseNow, ChargedNow
  <2>2. ASSUME NEW s \in Slots, NEW kind \in Kinds, NEW signature \in Signatures,
               NEW userTop \in Tops \cup {NoTop}, Arrive(s, kind, signature, userTop)
        PROVE  WallStep
    BY <2>2, ArriveWalls
  <2>3. ASSUME NEW s \in Slots, NEW fields \in SUBSET (Fields \cup {"status"}),
               Process(s, fields)
        PROVE  WallStep
    BY <2>3, ProcessWalls
  <2>4. ASSUME NEW s \in Slots, CallFails(s) PROVE WallStep
    BY <2>4, CallFailsWalls
  <2>5. ASSUME NEW s \in Slots, Resume(s) PROVE WallStep
    BY <2>5, ResumeWalls
  <2>6. ASSUME NEW s \in Slots, Deliver(s) \/ LoseResponse(s) PROVE WallStep
    BY <2>6, DeliverWalls
  <2> QED BY <2>1, <2>2, <2>3, <2>4, <2>5, <2>6 DEF Next
<1> QED BY <1>1, <1>2, Invariant, PTL DEF Spec, Wall!Spec, ImplementsPaywall, WallStep
=============================================================================
