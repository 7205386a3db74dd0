-------------------------- MODULE ReplyShapeProofs --------------------------
(***************************************************************************)
(* What replies a server sends, for any configuration and number of        *)
(* workers, and however many fields the daemon's answers may lack: the     *)
(* shapes that the control center's model takes as its inputs.             *)
(***************************************************************************)
EXTENDS ModPrimoProofs, SequenceTheorems

\* The first n of a list, as a set.
Firsts(s, n) == {s[i] : i \in 1..n}

-----------------------------------------------------------------------------
(* The lists *)

LEMMA PrefixSet ==
  ASSUME NEW S, NEW s \in Seq(S), NEW n \in 0..Len(s)
  PROVE  ToSet(SubSeq(s, 1, n)) = Firsts(s, n)
<1>1. SubSeq(s, 1, n) \in Seq(S) /\ Len(SubSeq(s, 1, n)) = n
      /\ \A i \in 1..n : SubSeq(s, 1, n)[i] = s[i]
  BY SubSeqProperties
<1>2. DOMAIN SubSeq(s, 1, n) = 1..n
  BY <1>1
<1> QED BY <1>1, <1>2 DEF ToSet, Firsts

LEMMA HeaderList == HeaderOrder \in Seq(Fields) /\ Len(HeaderOrder) = 7
BY DEF HeaderOrder, Fields, WorkFields

LEMMA HeadersBegin ==
  HeaderOrder[1] = "name" /\ HeaderOrder[2] = "credits" /\ HeaderOrder[3] = "top_hash"
BY DEF HeaderOrder

LEMMA FirstThree ==
  Firsts(HeaderOrder, 1) = {"name"}
  /\ Firsts(HeaderOrder, 2) = {"name", "credits"}
  /\ Firsts(HeaderOrder, 3) = {"name", "credits", "top_hash"}
<1>1. 1..1 = {1} /\ 1..2 = {1, 2} /\ 1..3 = {1, 2, 3}
  OBVIOUS
<1> QED BY <1>1, HeadersBegin DEF Firsts

LEMMA Infos == /\ AnswerOrder["info"] \in Seq(Fields)
               /\ Len(AnswerOrder["info"]) = 6
               /\ \A i \in 1..6 : AnswerOrder["info"][i] = HeaderOrder[i + 1]
<1>1. HeaderOrder # <<>>
  BY HeaderList
<1>2. /\ Tail(HeaderOrder) \in Seq(Fields)
      /\ Len(Tail(HeaderOrder)) = Len(HeaderOrder) - 1
      /\ \A i \in 1..Len(Tail(HeaderOrder)) : Tail(HeaderOrder)[i] = HeaderOrder[i + 1]
  BY <1>1, HeaderList, HeadTailProperties
<1>3. Len(Tail(HeaderOrder)) = 6
  BY <1>2, HeaderList
<1>4. AnswerOrder["info"] = Tail(HeaderOrder)
  BY DEF AnswerOrder
<1>5. \A i \in 1..6 : Tail(HeaderOrder)[i] = HeaderOrder[i + 1]
  BY <1>2, <1>3
<1> QED BY <1>2, <1>3, <1>4, <1>5

LEMMA NewJobs == /\ AnswerOrder["job"] \in Seq(Fields)
                 /\ Len(AnswerOrder["job"]) = 4
                 /\ \A i \in 1..4 : AnswerOrder["job"][i] = HeaderOrder[i + 3]
<1>1. ASSUME NEW i \in 4..7 PROVE HeaderOrder[i] \in Fields
  <2>1. i \in 1..Len(HeaderOrder)
    BY HeaderList
  <2> QED BY <2>1, HeaderList, ElementOfSeq
<1>2. /\ SubSeq(HeaderOrder, 4, 7) \in Seq(Fields)
      /\ Len(SubSeq(HeaderOrder, 4, 7)) = 4
      /\ \A i \in 1..4 : SubSeq(HeaderOrder, 4, 7)[i] = HeaderOrder[4 + i - 1]
  BY <1>1, SubSeqProperties
<1>3. AnswerOrder["job"] = SubSeq(HeaderOrder, 4, 7)
  BY DEF AnswerOrder
<1> QED BY <1>2, <1>3

LEMMA Short == /\ AnswerOrder["nonce"] \in Seq(Fields)
               /\ Len(AnswerOrder["nonce"]) = 2
               /\ AnswerOrder["nonce"][1] = "credits" /\ AnswerOrder["nonce"][2] = "top_hash"
               /\ AnswerOrder["paid"] \in Seq(Fields \cup {"status"})
               /\ Len(AnswerOrder["paid"]) = 2
               /\ AnswerOrder["paid"][1] = "credits" /\ AnswerOrder["paid"][2] = "status"
BY DEF AnswerOrder, Fields, WorkFields

LEMMA FieldsAreFirsts ==
  ASSUME NEW S, NEW method, AnswerOrder[method] \in Seq(S), NEW fields \in FieldSets(method)
  PROVE  \E n \in 0..Len(AnswerOrder[method]) : fields = Firsts(AnswerOrder[method], n)
<1> DEFINE order == AnswerOrder[method]
<1>1. Len(order) \in Nat /\ DOMAIN order = 1..Len(order)
  BY LenProperties
<1>2. ToSet(order) = Firsts(order, Len(order))
  BY <1>1 DEF ToSet, Firsts
<1>3. {} = Firsts(order, 0)
  BY DEF Firsts
<1>4. \A n \in DOMAIN order : ToSet(SubSeq(order, 1, n)) = Firsts(order, n)
  BY <1>1, PrefixSet
<1>5. Len(order) \in 0..Len(order) /\ 0 \in 0..Len(order) /\ DOMAIN order \subseteq 0..Len(order)
  BY <1>1
<1>6. \/ fields = ToSet(order)
      \/ \E n \in DOMAIN order : fields = ToSet(SubSeq(order, 1, n))
      \/ fields = {}
  BY DEF FieldSets
<1> HIDE DEF order
<1>7. \E n \in 0..Len(order) : fields = Firsts(order, n)
  BY <1>2, <1>3, <1>4, <1>5, <1>6
<1> QED BY <1>7 DEF order

-----------------------------------------------------------------------------
(* What the handler adds of an answer *)

LEMMA FirstsAreShapes ==
  \A n \in 1..7 : Firsts(HeaderOrder, n) \in MiningPageShapes
<1> TAKE n \in 1..7
<1>0. n \in 0..Len(HeaderOrder)
  BY HeaderList
<1>1. SubSeq(HeaderOrder, 1, n) \in Prefixes(HeaderOrder)
  BY <1>0 DEF Prefixes
<1>2. ToSet(SubSeq(HeaderOrder, 1, n)) = Firsts(HeaderOrder, n)
  BY <1>0, HeaderList, PrefixSet
<1>3. HeaderOrder[1] \in Firsts(HeaderOrder, n)
  BY DEF Firsts
<1> QED BY <1>1, <1>2, <1>3 DEF MiningPageShapes

\* An answer that goes on where the headers are adds up to a longer prefix.
LEMMA Longer ==
  ASSUME NEW s, NEW k \in 1..7, NEW n \in 0..(7 - k),
         \A i \in 1..(7 - k) : s[i] = HeaderOrder[i + k]
  PROVE  Firsts(HeaderOrder, k) \cup Firsts(s, n) = Firsts(HeaderOrder, k + n)
<1>1. Firsts(s, n) = {HeaderOrder[i] : i \in (k + 1)..(k + n)}
  <2>1. \A i \in 1..n : s[i] = HeaderOrder[i + k] /\ k + i \in (k + 1)..(k + n)
    OBVIOUS
  <2>2. \A i \in (k + 1)..(k + n) : i - k \in 1..n /\ HeaderOrder[i] = s[i - k]
    OBVIOUS
  <2> QED BY <2>1, <2>2 DEF Firsts
<1>2. 1..(k + n) = (1..k) \cup ((k + 1)..(k + n))
  OBVIOUS
<1> QED BY <1>1, <1>2 DEF Firsts

LEMMA InfoShapes ==
  ASSUME NEW fields \in FieldSets("info")
  PROVE  {"name"} \cup fields \in MiningPageShapes
<1>1. PICK n \in 0..6 : fields = Firsts(AnswerOrder["info"], n)
  BY Infos, FieldsAreFirsts
<1>2. {"name"} \cup fields = Firsts(HeaderOrder, 1 + n)
  BY <1>1, Infos, Longer, FirstThree
<1>3. 1 + n \in 1..7
  OBVIOUS
<1> QED BY <1>2, <1>3, FirstsAreShapes

LEMMA JobShapes ==
  ASSUME NEW fields \in FieldSets("job")
  PROVE  {"name", "credits", "top_hash"} \cup fields \in MiningPageShapes
<1>1. PICK n \in 0..4 : fields = Firsts(AnswerOrder["job"], n)
  BY NewJobs, FieldsAreFirsts
<1>2. {"name", "credits", "top_hash"} \cup fields = Firsts(HeaderOrder, 3 + n)
  BY <1>1, NewJobs, Longer, FirstThree
<1> QED BY <1>2, FirstsAreShapes

LEMMA FirstsOfTwo ==
  ASSUME NEW s, NEW n \in 0..2
  PROVE  Firsts(s, n) \in {{}, {s[1]}, {s[1], s[2]}}
<1>1. 1..0 = {} /\ 1..1 = {1} /\ 1..2 = {1, 2}
  OBVIOUS
<1>2. Firsts(s, 0) = {} /\ Firsts(s, 1) = {s[1]} /\ Firsts(s, 2) = {s[1], s[2]}
  BY <1>1 DEF Firsts
<1> QED BY <1>2

LEMMA NonceShapes ==
  ASSUME NEW fields \in FieldSets("nonce")
  PROVE  /\ {"name"} \cup fields \in MiningPageShapes
         /\ "top_hash" \in fields
              => {"name"} \cup fields = {"name", "credits", "top_hash"}
<1>1. PICK n \in 0..2 : fields = Firsts(AnswerOrder["nonce"], n)
  BY Short, FieldsAreFirsts
<1>2. fields \in {{}, {"credits"}, {"credits", "top_hash"}}
  BY <1>1, Short, FirstsOfTwo
<1>3. {"name"} \cup fields \in {Firsts(HeaderOrder, k) : k \in 1..3}
  BY <1>2, FirstThree
<1> QED BY <1>2, <1>3, FirstsAreShapes

LEMMA PaidShapes ==
  ASSUME NEW fields \in FieldSets("paid")
  PROVE  fields \ {"status"} \in PaywallShapes
<1>1. PICK n \in 0..2 : fields = Firsts(AnswerOrder["paid"], n)
  BY Short, FieldsAreFirsts
<1>2. fields \in {{}, {"credits"}, {"credits", "status"}}
  BY <1>1, Short, FirstsOfTwo
<1> QED BY <1>2 DEF PaywallShapes

-----------------------------------------------------------------------------
(* What a request has of its response, wherever it is *)

Shapes(kind) == IF kind = "paid" THEN PaywallShapes ELSE MiningPageShapes

Begun(q) == CASE q.at \in {"job call", "job returned"} -> {"name", "credits", "top_hash"}
              [] q.at \in {"call", "returned"} -> IF q.kind = "paid" THEN {} ELSE {"name"}

\* Under way a request has the headers of the calls before; a second call is
\* only made for a nonce; an answer lacks what is behind its first gap.
ShapeInv(q) ==
  /\ q.at \in Calls \cup Returned => q.out.names = Begun(q)
  /\ q.at \in {"job call", "job returned"} => q.kind = "nonce"
  /\ q.at \in Returned => q.answer.fields \in FieldSets(Method(q))
  /\ q.at \in Ends => q.out.names \in Shapes(q.kind)

SInv == conf.sane => \A s \in Slots : ShapeInv(req[s])

LEMMA NameIsShape == {"name"} \in MiningPageShapes
BY FirstThree, FirstsAreShapes

LEMMA IdleShape == ShapeInv(Idle)
BY DEF ShapeInv, Idle, Calls, Returned, Ends

LEMMA InitShapes == Init => SInv
BY IdleShape DEF Init, SInv

LEMMA OneShape ==
  ASSUME IInv, SInv, NEW s \in Slots, NEW q, req' = [req EXCEPT ![s] = q], conf' = conf,
         conf.sane => ShapeInv(q)
  PROVE  SInv'
<1>1. req \in [Slots -> RequestRecords]
  BY DEF IInv, TypeOK
<1>2. \A t \in Slots : req'[t] = IF t = s THEN q ELSE req[t]
  BY <1>1
<1>3. conf.sane => \A t \in Slots : ShapeInv(req'[t])
  BY <1>2 DEF SInv
<1>4. conf'.sane => (\A t \in Slots : ShapeInv(req[t]))'
  BY <1>3
<1> QED BY <1>4 DEF SInv

LEMMA ArriveShape ==
  ASSUME IInv, SInv, NEW s \in Slots, NEW kind \in Kinds, NEW signature \in Signatures,
         NEW userTop \in Tops \cup {NoTop}, Arrive(s, kind, signature, userTop)
  PROVE  SInv'
<1> DEFINE q0 == [Idle EXCEPT !.kind = kind,
                              !.signature = signature,
                              !.userTop = userTop,
                              !.out.names = IF conf.sane /\ kind # "paid"
                                              THEN {"name"} ELSE {}]
           at == FirstStop(kind, signature)
           q == Moved(q0, at)
<1>1. /\ q0 \in RequestRecords /\ q0.kind = kind
      /\ q0.out.names = IF conf.sane /\ kind # "paid" THEN {"name"} ELSE {}
  BY IdleTypes DEF Idle, RequestRecords, NoHeaders, Responses, Fields
<1>2. /\ at \in {"call", "done", "unpaid", "denied"}
      /\ at \in {"idle"} \cup Calls \cup Returned \cup Ends
  BY StopTypes DEF Calls, Ends
<1> HIDE DEF q0, at
<1>3. q.at = at /\ q.kind = kind /\ q.out = q0.out
  BY <1>1, <1>2, MovedTypes
<1>4. req' = [req EXCEPT ![s] = q] /\ conf' = conf
  BY DEF Arrive, q0, at
<1> HIDE DEF q
<1>5. q.out.names \in Shapes(kind) \/ ~conf.sane
  BY <1>1, <1>3, NameIsShape DEF Shapes, PaywallShapes
<1>6. conf.sane => ShapeInv(q)
  BY <1>1, <1>2, <1>3, <1>5 DEF ShapeInv, Begun, Calls, Returned, Ends
<1> QED BY <1>4, <1>6, OneShape

LEMMA ReturnShape ==
  ASSUME IInv, SInv, NEW s \in Slots, NEW answer, NEW charges \in BOOLEAN,
         req[s].at \in Calls, Return(s, answer, charges), conf' = conf,
         answer.fields \in FieldSets(Method(req[s]))
  PROVE  SInv'
<1> DEFINE q == [req[s] EXCEPT !.at = IF @ = "call" THEN "returned" ELSE "job returned",
                               !.answer = answer,
                               !.charged = @ \/ charges]
<1>1. req[s] \in RequestRecords
  BY DEF IInv, TypeOK
<1>2. /\ q.at = IF req[s].at = "call" THEN "returned" ELSE "job returned"
      /\ q.kind = req[s].kind /\ q.answer = answer /\ q.out = req[s].out
  BY <1>1 DEF RequestRecords
<1>3. req' = [req EXCEPT ![s] = q]
  BY DEF Return, IInv, TypeOK
<1> HIDE DEF q
<1>4. Method(q) = Method(req[s])
  BY <1>2 DEF Method, Calls
<1>5. ShapeInv(req[s]) => ShapeInv(q)
  BY <1>2, <1>4 DEF ShapeInv, Begun, Calls, Returned, Ends
<1>6. conf.sane => ShapeInv(q)
  BY <1>5 DEF SInv
<1> QED BY <1>3, <1>6, OneShape

LEMMA NoFields == \A method : {} \in FieldSets(method)
BY DEF FieldSets

LEMMA ProcessShape ==
  ASSUME IInv, SInv, NEW s \in Slots, NEW fields \in SUBSET (Fields \cup {"status"}),
         Process(s, fields)
  PROVE  SInv'
<1> DEFINE pays == Method(req[s]) = "paid" /\ balance >= conf.cost
           answer == IF fields = {} THEN NoAnswer
                       ELSE [fields |-> fields, ok |-> pays, credits |-> balance', top |-> top]
<1>1. /\ req[s].at \in Calls /\ Return(s, answer, pays) /\ conf' = conf
      /\ fields \in FieldSets(Method(req[s]))
  BY DEF Process
<1>2. answer.fields = fields
  BY DEF NoAnswer
<1>3. pays \in BOOLEAN
  OBVIOUS
<1> HIDE DEF answer, pays
<1> QED BY <1>1, <1>2, <1>3, ReturnShape

LEMMA AfterMiningCallShape ==
  ASSUME IInv, SInv, conf.sane, NEW s \in Slots,
         req[s].at \in Returned, req[s].kind # "paid"
  PROVE  ShapeInv(AfterMiningCall(req[s]))
<1> DEFINE fields == req[s].answer.fields
           out == WithHeaders(req[s].out, fields, req[s].answer.credits)
           q0 == [req[s] EXCEPT !.out = out, !.answer = NoAnswer]
           at == IF req[s].at = "returned" /\ Outdated(req[s]) THEN "job call" ELSE "done"
           q == AfterMiningCall(req[s])
<1>1. req[s] \in RequestRecords /\ ShapeInv(req[s])
  BY DEF IInv, TypeOK, SInv
<1>2. fields \in SUBSET (Fields \cup {"status"}) /\ req[s].answer.credits \in 0..MaxBalance
      /\ req[s].out \in Responses
  BY <1>1 DEF RequestRecords, Answers
<1>3. out \in Responses /\ out.names = Begun(req[s]) \cup fields
  BY <1>1, <1>2, WithHeadersTypes DEF WithHeaders, ShapeInv
<1>4. q = Moved(q0, at)
  BY DEF AfterMiningCall
<1>5. \/ req[s].at = "returned" /\ req[s].kind = "info" /\ fields \in FieldSets("info")
      \/ req[s].at = "returned" /\ req[s].kind = "nonce" /\ fields \in FieldSets("nonce")
      \/ req[s].at = "job returned" /\ req[s].kind = "nonce" /\ fields \in FieldSets("job")
  BY <1>1 DEF ShapeInv, Method, Returned, RequestRecords, Kinds
<1>6. out.names \in MiningPageShapes
  BY <1>3, <1>5, InfoShapes, NonceShapes, JobShapes DEF Begun
<1>7. at = "job call" => /\ req[s].kind = "nonce"
                         /\ out.names = {"name", "credits", "top_hash"}
  BY <1>3, <1>5, NonceShapes DEF Outdated, Begun
<1> HIDE DEF out, fields
<1>8. q0 \in RequestRecords /\ q0.kind = req[s].kind /\ q0.out = out
  BY <1>1, <1>3, IdleTypes DEF RequestRecords
<1>9. at \in {"job call", "done"} /\ at \in {"idle"} \cup Calls \cup Returned \cup Ends
  BY DEF Calls, Ends
<1> HIDE DEF q0, at, q
<1>10. q.at = at /\ q.kind = req[s].kind /\ q.out = out
  BY <1>4, <1>8, <1>9, MovedTypes
<1>11. ShapeInv(q)
  BY <1>6, <1>7, <1>9, <1>10 DEF ShapeInv, Begun, Shapes, Calls, Returned, Ends
<1> QED BY <1>11 DEF q

LEMMA AfterPayCallShape ==
  ASSUME IInv, SInv, conf.sane, NEW s \in Slots,
         req[s].at \in Returned, req[s].kind = "paid"
  PROVE  ShapeInv(AfterPayCall(req[s]))
<1> DEFINE fields == req[s].answer.fields \ {"status"}
           out == WithHeaders(req[s].out, fields, req[s].answer.credits)
           q0 == [req[s] EXCEPT !.out = out]
           at == IF Accepted(req[s].answer) THEN "served" ELSE PaymentRequired
           q == AfterPayCall(req[s])
<1>1. req[s] \in RequestRecords /\ ShapeInv(req[s]) /\ req[s].at = "returned"
  BY PaidPageEnds DEF IInv, TypeOK, SInv
<1>2. fields \in SUBSET (Fields \cup {"status"}) /\ req[s].answer.credits \in 0..MaxBalance
      /\ req[s].out \in Responses
  BY <1>1 DEF RequestRecords, Answers
<1>3. out \in Responses /\ out.names = Begun(req[s]) \cup fields
  BY <1>1, <1>2, WithHeadersTypes DEF WithHeaders, ShapeInv, Returned
<1>4. q = Moved(q0, at)
  BY DEF AfterPayCall
<1>5. fields \in PaywallShapes
  BY <1>1, PaidShapes DEF ShapeInv, Method, Returned
<1>6. out.names \in PaywallShapes
  BY <1>1, <1>3, <1>5 DEF Begun
<1> HIDE DEF out
<1>7. q0 \in RequestRecords /\ q0.kind = "paid" /\ q0.out = out
  BY <1>1, <1>3 DEF RequestRecords
<1>8. at \in {"served", "unpaid", "denied"} /\ at \in {"idle"} \cup Calls \cup Returned \cup Ends
  BY DEF PaymentRequired, Ends
<1> HIDE DEF q0, at, q
<1>9. q.at = at /\ q.kind = "paid" /\ q.out = out
  BY <1>4, <1>7, <1>8, MovedTypes
<1>10. ShapeInv(q)
  BY <1>6, <1>8, <1>9 DEF ShapeInv, Shapes, Calls, Returned
<1> QED BY <1>10 DEF q

LEMMA StepShapes == IInv /\ SInv /\ [Next]_vars => SInv'
<1> SUFFICES ASSUME IInv, SInv, [Next]_vars PROVE SInv'
  OBVIOUS
<1>1. CASE UNCHANGED vars \/ NewBlock
  BY <1>1 DEF SInv, vars, NewBlock
<1>2. ASSUME NEW s \in Slots, NEW kind \in Kinds, NEW signature \in Signatures,
             NEW userTop \in Tops \cup {NoTop}, Arrive(s, kind, signature, userTop)
      PROVE  SInv'
  BY <1>2, ArriveShape
<1>3. ASSUME NEW s \in Slots, NEW fields \in SUBSET (Fields \cup {"status"}),
             Process(s, fields)
      PROVE  SInv'
  BY <1>3, ProcessShape
<1>4. ASSUME NEW s \in Slots, CallFails(s) PROVE SInv'
  <2>1. NoAnswer.fields \in FieldSets(Method(req[s]))
    BY NoFields DEF NoAnswer
  <2> QED BY <1>4, <2>1, ReturnShape DEF CallFails
<1>5. ASSUME NEW s \in Slots, Resume(s) PROVE SInv'
  <2>1. CASE req[s].kind = "paid"
    BY <1>5, <2>1, AfterPayCallShape, OneShape DEF Resume
  <2>2. CASE req[s].kind # "paid"
    BY <1>5, <2>2, AfterMiningCallShape, OneShape DEF Resume
  <2> QED BY <2>1, <2>2
<1>6. ASSUME NEW s \in Slots, Deliver(s) \/ LoseResponse(s) PROVE SInv'
  BY <1>6, IdleShape, OneShape DEF Deliver, LoseResponse
<1> QED BY <1>1, <1>2, <1>3, <1>4, <1>5, <1>6 DEF Next

-----------------------------------------------------------------------------

\* Whatever an answer of the daemon lacks, and whether the call for a new job
\* fails, a paid page names the credits at most and a mining page a prefix of
\* the headers: mod_primo adds them in one order and stops at the first gap.
THEOREM RepliesAlwaysAreShapes == Spec => []RepliesAreShapes
<1>1. IInv /\ SInv => RepliesAreShapes
  BY DEF SInv, ShapeInv, Shapes, RepliesAreShapes, Ended
<1> QED BY <1>1, Invariant, InitShapes, StepShapes, PTL DEF Spec
=============================================================================
