--------------------------- MODULE ExtensionProofs ---------------------------
(***************************************************************************)
(* Theorems about Extension, for any number of messages: types, whom a     *)
(* reply reaches, what listeners are left behind, and what keeps a request *)
(* from being held for ever.                                               *)
(***************************************************************************)
EXTENDS Extension, SequenceLemmas, FiniteSetTheorems

-----------------------------------------------------------------------------
(* The inductive invariant *)

\* Only what was posted is on its way.
Posted == \A k \in DOMAIN wire : wire[k].id < Len(posts)

\* A message's first chunk is followed by its rest.
Framed == \A k \in DOMAIN wire :
            wire[k].part = "first" => /\ k + 1 \in DOMAIN wire
                                      /\ wire[k + 1] = [id |-> wire[k].id, part |-> "rest"]

\* After a rest a message starts.
Alternating == \A k \in DOMAIN wire :
                 k + 1 \in DOMAIN wire /\ wire[k].part = "rest" => wire[k + 1].part = "first"

\* Messages are on their way in the order of their ids.
Ordered == \A k, m \in DOMAIN wire : k < m => wire[k].id <= wire[m].id

\* What the control center sends is a command, or bears the id that execute
\* gives the reply to a message that was posted.
Addressed == \A k \in DOMAIN replies :
               \/ replies[k].answers = NoId /\ replies[k].id = NoId
               \/ /\ replies[k].answers < Len(posts)
                  /\ replies[k].id = ReplyId(replies[k].answers + 1)

Awaited == posts # <<>> /\ posts[1].listening /\ posts[1].text # "no json" /\ 0 \notin lost

\* While message 0 waits for a reply that has its id, no other message's reply
\* comes before that one.
FirstInLine == Awaited => \A k \in DOMAIN replies :
                            replies[k].answers # NoId =>
                              \E m \in 1..k : replies[m].answers = 0

Untimed == {i \in DOMAIN posts : ~posts[i].timer}

Silent == {i \in DOMAIN posts : ~posts[i].listening}

\* A timer starts one control center at most, a listener one notification.
Counted == /\ spares <= Cardinality(Untimed)
           /\ announced <= Cardinality(Silent)

\* A web request is held only while its two seconds run and its listener is
\* there: the timer that ends the wait never goes first.
HeldIsTimed == \A i \in DOMAIN posts :
                 posts[i].outcome = "held" => posts[i].timer /\ posts[i].listening

IInv == /\ TypeOK
        /\ Posted
        /\ Framed
        /\ Alternating
        /\ Ordered
        /\ Addressed
        /\ FirstInLine
        /\ Counted
        /\ HeldIsTimed
        /\ LeaksOnlyWhenLost

-----------------------------------------------------------------------------
(* Chunks and counts *)

LEMMA Halves ==
  ASSUME NEW n \in Nat, NEW c \in 1..(2 * n)
  PROVE  /\ (c - 1) \div 2 \in 0..(n - 1)
         /\ c % 2 = 1 => /\ c + 1 \in 1..(2 * n)
                         /\ (c + 1) % 2 # 1
                         /\ ((c + 1) - 1) \div 2 = (c - 1) \div 2
         /\ c + 1 \in 1..(2 * n) /\ c % 2 # 1 => (c + 1) % 2 = 1
         /\ \A d \in 1..(2 * n) : c < d => (c - 1) \div 2 <= (d - 1) \div 2
OBVIOUS

LEMMA NextChunksAre ==
  ASSUME TypeOK, NEW n \in Nat, Len(posts) + n <= MaxPosts
  PROVE  /\ NextChunks(n) \in Seq(Chunks)
         /\ Len(NextChunks(n)) = 2 * n
         /\ \A c \in 1..(2 * n) : /\ NextChunks(n)[c].id = Len(posts) + (c - 1) \div 2
                                  /\ NextChunks(n)[c].part = IF c % 2 = 1 THEN "first" ELSE "rest"
<1>1. Len(posts) \in Nat /\ MaxPosts \in Nat
  BY ExtensionAssumption, LenProperties DEF TypeOK
<1>2. \A c \in 1..(2 * n) :
        [id |-> Len(posts) + (c - 1) \div 2, part |-> IF c % 2 = 1 THEN "first" ELSE "rest"]
          \in Chunks
  BY <1>1, Halves DEF Chunks, Ids
<1>3. NextChunks(n) \in [1..(2 * n) -> Chunks]
  BY <1>2 DEF NextChunks
<1>4. 2 * n \in Nat
  OBVIOUS
<1> QED BY <1>3, <1>4 DEF NextChunks

\* What grows counts no less.
LEMMA CountsGrow ==
  ASSUME NEW n \in Nat, NEW T \in SUBSET (1..n), NEW S \in SUBSET T
  PROVE  /\ IsFiniteSet(S) /\ Cardinality(S) \in Nat
         /\ IsFiniteSet(T) /\ Cardinality(T) \in Nat
         /\ Cardinality(S) <= Cardinality(T)
         /\ Cardinality(T) <= n
<1>1. IsFiniteSet(1..n) /\ Cardinality(1..n) = n
  BY FS_Interval
<1> QED BY <1>1, FS_Subset, FS_CardinalityType

LEMMA OneMoreCounts ==
  ASSUME NEW n \in Nat, NEW T \in SUBSET (1..n), NEW S \in SUBSET T, NEW x \in T \ S
  PROVE  Cardinality(S) + 1 <= Cardinality(T)
<1>1. IsFiniteSet(S) /\ S \cup {x} \subseteq T
  BY CountsGrow
<1>2. Cardinality(S \cup {x}) = Cardinality(S) + 1
  BY <1>1, FS_AddElement
<1> QED BY <1>1, <1>2, CountsGrow

LEMMA PostsDomain ==
  ASSUME TypeOK
  PROVE  /\ DOMAIN posts = 1..Len(posts) /\ Len(posts) \in 0..MaxPosts
         /\ DOMAIN wire = 1..Len(wire) /\ Len(wire) \in Nat
         /\ DOMAIN replies = 1..Len(replies) /\ Len(replies) \in Nat
BY LenProperties, ExtensionAssumption DEF TypeOK

LEMMA WireItems ==
  ASSUME TypeOK
  PROVE  \A k \in 1..Len(wire) : wire[k] \in Chunks /\ wire[k].id \in Ids /\ wire[k].id \in Nat
<1>1. ASSUME NEW k \in 1..Len(wire)
      PROVE  wire[k] \in Chunks
  BY <1>1 DEF TypeOK
<1> QED BY <1>1, ExtensionAssumption DEF Chunks, Ids

LEMMA ReplyItems ==
  ASSUME TypeOK
  PROVE  \A k \in 1..Len(replies) : /\ replies[k] \in Replies
                                    /\ replies[k].answers \in Ids \cup {NoId}
                                    /\ replies[k].id \in Nat /\ replies[k].answers \in Nat
<1>1. ASSUME NEW k \in 1..Len(replies)
      PROVE  replies[k] \in Replies
  BY <1>1 DEF TypeOK
<1> QED BY <1>1, ExtensionAssumption DEF Replies, Ids, NoId

\* A reply that is no command answers a message that was posted.
LEMMA AnswersArePosted ==
  ASSUME TypeOK, Addressed, NEW k \in DOMAIN replies,
         ~(replies[k].answers = NoId /\ replies[k].id = NoId)
  PROVE  /\ replies[k].answers + 1 \in 1..Len(posts)
         /\ replies[k].answers # NoId
         /\ replies[k].id = ReplyId(replies[k].answers + 1)
<1>1. replies[k].answers < Len(posts) /\ replies[k].id = ReplyId(replies[k].answers + 1)
  BY DEF Addressed
<1>2. replies[k].answers \in Nat
  BY PostsDomain, ReplyItems
<1>3. Len(posts) \in 0..MaxPosts
  BY PostsDomain
<1> QED BY <1>1, <1>2, <1>3, ExtensionAssumption DEF NoId

-----------------------------------------------------------------------------
(* Posting *)

LEMMA InitInv == Init => IInv
<1> SUFFICES ASSUME Init PROVE IInv
  OBVIOUS
<1>1. posts = <<>> /\ wire = <<>> /\ replies = <<>> /\ visible = 0 /\ spares = 0 /\ announced = 0
  BY DEF Init
<1>2. DOMAIN posts = {} /\ DOMAIN wire = {} /\ DOMAIN replies = {}
  BY <1>1
<1>3. TypeOK
  <2>1. posts \in Seq(Posts) /\ wire \in Seq(Chunks) /\ replies \in Seq(Replies) /\ Len(posts) = 0
    BY <1>1
  <2>2. Len(wire) = 0
    BY <1>1
  <2> QED BY <1>1, <2>1, <2>2, ExtensionAssumption DEF Init, TypeOK
<1>4. Counted
  <2>1. Untimed = {} /\ Silent = {}
    BY <1>2 DEF Untimed, Silent
  <2> QED BY <1>1, <2>1, FS_EmptySet DEF Counted
<1> QED BY <1>1, <1>2, <1>3, <1>4
        DEF IInv, Posted, Framed, Alternating, Ordered, Addressed, FirstInLine, Awaited, HeldIsTimed,
            LeaksOnlyWhenLost

\* What the handlers give to Post: a listener for each message, and a timer for
\* each that a web request waits for.
Postable(ps) == /\ ps \in Seq(Posts)
                /\ \A k \in DOMAIN ps : /\ ps[k].listening
                                        /\ ps[k].cmd = "sign" => ps[k].timer

LEMMA PostPosts ==
  ASSUME TypeOK, NEW ps, Postable(ps), Post(ps)
  PROVE  /\ posts' \in Seq(Posts)
         /\ Len(posts') = Len(posts) + Len(ps) /\ Len(posts') <= MaxPosts
         /\ \A i \in 1..Len(posts) : posts'[i] = posts[i]
         /\ \A i \in 1..Len(posts') : i > Len(posts) =>
              posts'[i].listening /\ (posts'[i].outcome = "held" => posts'[i].timer)
<1> DEFINE n == Len(ps)
           qs == [k \in 1..n |-> [ps[k] EXCEPT !.outcome = IF ps[k].cmd # "sign" THEN "none"
                                                           ELSE IF connected THEN "held"
                                                           ELSE "bare"]]
<1>1. ps \in Seq(Posts) /\ n \in Nat /\ DOMAIN ps = 1..n
  BY LenProperties DEF Postable
<1>2. posts' = posts \o qs /\ Len(posts) + n <= MaxPosts
  BY <1>1 DEF Post
<1>3. \A k \in 1..n : ps[k] \in Posts
  BY <1>1
<1>4. \A k \in 1..n : /\ qs[k] \in Posts
                      /\ qs[k].listening
                      /\ qs[k].outcome = "held" => qs[k].timer
  BY <1>1, <1>3 DEF Posts, Outcomes, Postable
<1>5. qs \in [1..n -> Posts]
  BY <1>4
<1>6. qs \in Seq(Posts) /\ Len(qs) = n
  BY <1>1, <1>5
<1> HIDE DEF qs
<1>7. posts \in Seq(Posts) /\ Len(posts) \in Nat
  BY LenProperties DEF TypeOK
<1>8. /\ posts \o qs \in Seq(Posts)
      /\ Len(posts \o qs) = Len(posts) + n
      /\ \A i \in 1..(Len(posts) + n) :
           (posts \o qs)[i] = IF i <= Len(posts) THEN posts[i] ELSE qs[i - Len(posts)]
  BY <1>6, <1>7, Joined
<1>9. \A i \in 1..(Len(posts) + n) : i > Len(posts) => i - Len(posts) \in 1..n
  BY <1>1, <1>7
<1>10. \A i \in 1..Len(posts) : i \in 1..(Len(posts) + n) /\ i <= Len(posts)
  BY <1>1, <1>7
<1>11. \A i \in 1..(Len(posts) + n) : i > Len(posts) => ~(i <= Len(posts))
  BY <1>7
<1> QED BY <1>1, <1>2, <1>4, <1>8, <1>9, <1>10, <1>11

LEMMA PostWire ==
  ASSUME TypeOK, NEW ps, Postable(ps), Post(ps), alive
  PROVE  /\ wire' \in Seq(Chunks)
         /\ Len(wire') = Len(wire) + 2 * Len(ps)
         /\ \A k \in 1..Len(wire) : k \in 1..Len(wire') /\ wire'[k] = wire[k]
         /\ \A k \in 1..Len(wire') : k > Len(wire) =>
              /\ k - Len(wire) \in 1..(2 * Len(ps))
              /\ wire'[k].id = Len(posts) + ((k - Len(wire)) - 1) \div 2
              /\ wire'[k].part = IF (k - Len(wire)) % 2 = 1 THEN "first" ELSE "rest"
<1> DEFINE n == Len(ps)
           cs == NextChunks(n)
<1>1. n \in Nat /\ 2 * n \in Nat /\ Len(posts) + n <= MaxPosts
  BY LenProperties DEF Postable, Post
<1>2. /\ cs \in Seq(Chunks) /\ Len(cs) = 2 * n
      /\ \A c \in 1..(2 * n) : /\ cs[c].id = Len(posts) + (c - 1) \div 2
                               /\ cs[c].part = IF c % 2 = 1 THEN "first" ELSE "rest"
  BY <1>1, NextChunksAre
<1>3. wire' = wire \o cs
  BY DEF Post
<1> HIDE DEF cs
<1>4. wire \in Seq(Chunks) /\ Len(wire) \in Nat
  BY LenProperties DEF TypeOK
<1>5. /\ wire \o cs \in Seq(Chunks)
      /\ Len(wire \o cs) = Len(wire) + 2 * n
      /\ \A k \in 1..(Len(wire) + 2 * n) :
           (wire \o cs)[k] = IF k <= Len(wire) THEN wire[k] ELSE cs[k - Len(wire)]
  <2>1. PICK w \in Nat : w = 2 * n
    BY <1>1
  <2>2. cs \in Seq(Chunks) /\ Len(cs) = w
    BY <1>2, <2>1
  <2>3. /\ wire \o cs \in Seq(Chunks)
        /\ Len(wire \o cs) = Len(wire) + w
        /\ \A k \in 1..(Len(wire) + w) :
             (wire \o cs)[k] = IF k <= Len(wire) THEN wire[k] ELSE cs[k - Len(wire)]
    BY <1>4, <2>2, Joined
  <2> QED BY <2>1, <2>3
<1>6. \A k \in 1..(Len(wire) + 2 * n) :
        k > Len(wire) => ~(k <= Len(wire)) /\ k - Len(wire) \in 1..(2 * n)
  BY <1>1, <1>4
<1>7. \A k \in 1..Len(wire) : k \in 1..(Len(wire) + 2 * n) /\ k <= Len(wire)
  BY <1>1, <1>4
<1>8. Len(wire') = Len(wire) + 2 * n
  BY <1>3, <1>5
<1>9. \A k \in 1..Len(wire') : k > Len(wire) => wire'[k] = cs[k - Len(wire)]
  BY <1>3, <1>5, <1>6
<1>10. \A k \in 1..Len(wire) : k \in 1..Len(wire') /\ wire'[k] = wire[k]
  BY <1>3, <1>5, <1>7
<1> QED BY <1>2, <1>3, <1>5, <1>6, <1>8, <1>9, <1>10

\* Posts that are there already stay as they were and their number is enough for
\* what is counted.
LEMMA CountedGrows ==
  ASSUME TypeOK, TypeOK', Counted,
         \A i \in DOMAIN posts : /\ i \in DOMAIN posts'
                                 /\ posts[i].listening = posts'[i].listening
                                 /\ posts[i].timer = posts'[i].timer,
         spares' = spares, announced' = announced
  PROVE  Counted'
<1>1. /\ Untimed \in SUBSET Untimed' /\ Silent \in SUBSET Silent'
      /\ Untimed' \in SUBSET (1..Len(posts')) /\ Silent' \in SUBSET (1..Len(posts'))
      /\ Len(posts') \in Nat
  BY PostsDomain DEF Untimed, Silent, TypeOK
<1>2. /\ Cardinality(Untimed) <= Cardinality(Untimed')
      /\ Cardinality(Silent) <= Cardinality(Silent')
      /\ Cardinality(Untimed) \in Nat /\ Cardinality(Untimed') \in Nat
      /\ Cardinality(Silent) \in Nat /\ Cardinality(Silent') \in Nat
  BY <1>1, CountsGrow
<1>3. spares \in Nat /\ announced \in Nat
  BY ExtensionAssumption DEF TypeOK
<1> QED BY <1>2, <1>3 DEF Counted

LEMMA PostInv ==
  ASSUME IInv, NEW ps, Postable(ps), Post(ps)
  PROVE  IInv'
<1>1. /\ posts' \in Seq(Posts)
      /\ Len(posts') = Len(posts) + Len(ps) /\ Len(posts') <= MaxPosts
      /\ \A i \in 1..Len(posts) : posts'[i] = posts[i]
      /\ \A i \in 1..Len(posts') : i > Len(posts) =>
           posts'[i].listening /\ (posts'[i].outcome = "held" => posts'[i].timer)
  BY PostPosts DEF IInv
<1>2. /\ UNCHANGED <<visible, replies, alive, connected, spares, announced, lost>>
      /\ ~alive => wire' = wire
  BY DEF Post
<1>3. alive => /\ wire' \in Seq(Chunks)
               /\ Len(wire') = Len(wire) + 2 * Len(ps)
               /\ \A k \in 1..Len(wire) : k \in 1..Len(wire') /\ wire'[k] = wire[k]
               /\ \A k \in 1..Len(wire') : k > Len(wire) =>
                    /\ k - Len(wire) \in 1..(2 * Len(ps))
                    /\ wire'[k].id = Len(posts) + ((k - Len(wire)) - 1) \div 2
                    /\ wire'[k].part = IF (k - Len(wire)) % 2 = 1 THEN "first" ELSE "rest"
  BY PostWire DEF IInv
<1>4. TypeOK /\ DOMAIN posts = 1..Len(posts) /\ Len(posts) \in 0..MaxPosts
      /\ DOMAIN wire = 1..Len(wire) /\ Len(wire) \in Nat
      /\ DOMAIN replies = 1..Len(replies) /\ Len(replies) \in Nat
      /\ Len(ps) \in Nat
  BY PostsDomain, LenProperties DEF IInv, Postable
<1>5. TypeOK'
  <2>1. wire' \in Seq(Chunks) /\ visible' \in 0..Len(wire')
    BY <1>2, <1>3, <1>4 DEF TypeOK
  <2> QED BY <1>1, <1>2, <1>4, <2>1 DEF TypeOK
<1>6. DOMAIN posts' = 1..Len(posts') /\ Len(posts') \in 0..MaxPosts
      /\ DOMAIN wire' = 1..Len(wire') /\ Len(wire') \in Nat
  BY <1>5, LenProperties, ExtensionAssumption DEF TypeOK
<1>7. \A k \in 1..Len(wire) : k \in 1..Len(wire') /\ wire'[k] = wire[k]
  BY <1>2, <1>3
<1>8. ASSUME NEW k \in 1..Len(wire'), k > Len(wire)
      PROVE  /\ alive
             /\ k - Len(wire) \in 1..(2 * Len(ps))
             /\ wire'[k].id = Len(posts) + ((k - Len(wire)) - 1) \div 2
             /\ wire'[k].part = IF (k - Len(wire)) % 2 = 1 THEN "first" ELSE "rest"
             /\ wire'[k].id >= Len(posts) /\ wire'[k].id < Len(posts')
  <2>1. alive
    BY <1>2, <1>4, <1>8
  <2>2. /\ k - Len(wire) \in 1..(2 * Len(ps))
        /\ wire'[k].id = Len(posts) + ((k - Len(wire)) - 1) \div 2
        /\ wire'[k].part = IF (k - Len(wire)) % 2 = 1 THEN "first" ELSE "rest"
    BY <1>3, <1>8, <2>1
  <2>3. ((k - Len(wire)) - 1) \div 2 \in 0..(Len(ps) - 1)
    BY <1>4, <2>2, Halves
  <2> QED BY <1>1, <1>4, <2>1, <2>2, <2>3
<1>9. Posted'
  <2>1. ASSUME NEW k \in 1..Len(wire')
        PROVE  wire'[k].id < Len(posts')
    <3>1. CASE k > Len(wire)
      BY <1>8, <3>1
    <3>2. CASE ~(k > Len(wire))
      <4>1. k \in 1..Len(wire)
        BY <1>4, <1>6, <3>2
      <4>2. wire[k].id < Len(posts) /\ wire[k].id \in Nat
        BY <1>4, <4>1, WireItems DEF IInv, Posted
      <4> QED BY <1>1, <1>4, <1>7, <4>1, <4>2
    <3> QED BY <3>1, <3>2
  <2> QED BY <1>6, <2>1 DEF Posted
<1>10. Framed'
  <2>1. ASSUME NEW k \in 1..Len(wire'), wire'[k].part = "first"
        PROVE  /\ k + 1 \in 1..Len(wire')
               /\ wire'[k + 1] = [id |-> wire'[k].id, part |-> "rest"]
    <3>1. CASE k > Len(wire)
      <4>1. /\ alive
            /\ k - Len(wire) \in 1..(2 * Len(ps))
            /\ wire'[k].id = Len(posts) + ((k - Len(wire)) - 1) \div 2
            /\ (k - Len(wire)) % 2 = 1
        BY <1>8, <2>1, <3>1
      <4>2. /\ (k - Len(wire)) + 1 \in 1..(2 * Len(ps))
            /\ ((k - Len(wire)) + 1) % 2 # 1
            /\ (((k - Len(wire)) + 1) - 1) \div 2 = ((k - Len(wire)) - 1) \div 2
        BY <1>4, <4>1, Halves
      <4>3. /\ k + 1 \in 1..Len(wire') /\ k + 1 > Len(wire)
            /\ (k + 1) - Len(wire) = (k - Len(wire)) + 1
        BY <1>3, <1>4, <1>6, <3>1, <4>1, <4>2
      <4>4. wire'[k + 1].id = wire'[k].id /\ wire'[k + 1].part = "rest"
        BY <1>8, <4>1, <4>2, <4>3
      <4>5. wire'[k + 1] \in Chunks
        BY <1>5, <4>3 DEF TypeOK
      <4> QED BY <4>3, <4>4, <4>5 DEF Chunks
    <3>2. CASE ~(k > Len(wire))
      <4>1. k \in 1..Len(wire)
        BY <1>4, <1>6, <3>2
      <4>2. k + 1 \in 1..Len(wire) /\ wire[k + 1] = [id |-> wire[k].id, part |-> "rest"]
        BY <1>4, <1>7, <2>1, <4>1 DEF IInv, Framed
      <4> QED BY <1>7, <4>1, <4>2
    <3> QED BY <3>1, <3>2
  <2> QED BY <1>6, <2>1 DEF Framed
<1>17. Alternating'
  <2>1. ASSUME NEW k \in 1..Len(wire'), k + 1 \in 1..Len(wire'), wire'[k].part = "rest"
        PROVE  wire'[k + 1].part = "first"
    <3>1. CASE k > Len(wire)
      <4>1. k + 1 > Len(wire) /\ (k + 1) - Len(wire) = (k - Len(wire)) + 1
        BY <1>4, <3>1
      <4>2. /\ k - Len(wire) \in 1..(2 * Len(ps)) /\ (k - Len(wire)) % 2 # 1
            /\ (k - Len(wire)) + 1 \in 1..(2 * Len(ps))
        BY <1>8, <2>1, <3>1, <4>1
      <4>3. ((k - Len(wire)) + 1) % 2 = 1
        BY <1>4, <4>2, Halves
      <4> QED BY <1>8, <2>1, <4>1, <4>3
    <3>2. CASE k = Len(wire)
      <4>1. k + 1 > Len(wire) /\ (k + 1) - Len(wire) = 1 /\ 1 % 2 = 1
        BY <1>4, <3>2
      <4> QED BY <1>8, <2>1, <4>1
    <3>3. CASE k < Len(wire)
      <4>1. k \in 1..Len(wire) /\ k + 1 \in 1..Len(wire)
        BY <1>4, <1>6, <3>3
      <4>2. wire[k].part = "rest"
        BY <1>7, <2>1, <4>1
      <4>3. wire[k + 1].part = "first"
        BY <1>4, <4>1, <4>2 DEF IInv, Alternating
      <4> QED BY <1>7, <4>1, <4>3
    <3> QED BY <1>4, <1>6, <3>1, <3>2, <3>3
  <2> QED BY <1>6, <2>1 DEF Alternating
<1>11. Ordered'
  <2>1. ASSUME NEW k \in 1..Len(wire'), NEW m \in 1..Len(wire'), k < m
        PROVE  wire'[k].id <= wire'[m].id
    <3>1. CASE k > Len(wire)
      <4>1. m > Len(wire) /\ (k - Len(wire)) < (m - Len(wire))
        BY <1>4, <1>6, <2>1, <3>1
      <4>2. /\ k - Len(wire) \in 1..(2 * Len(ps))
            /\ m - Len(wire) \in 1..(2 * Len(ps))
            /\ wire'[k].id = Len(posts) + ((k - Len(wire)) - 1) \div 2
            /\ wire'[m].id = Len(posts) + ((m - Len(wire)) - 1) \div 2
        BY <1>8, <3>1, <4>1
      <4>3. /\ ((k - Len(wire)) - 1) \div 2 <= ((m - Len(wire)) - 1) \div 2
            /\ ((k - Len(wire)) - 1) \div 2 \in Int
            /\ ((m - Len(wire)) - 1) \div 2 \in Int
        BY <1>4, <4>1, <4>2, Halves
      <4> QED BY <1>4, <4>2, <4>3
    <3>2. CASE ~(k > Len(wire))
      <4>1. k \in 1..Len(wire)
        BY <1>4, <1>6, <3>2
      <4>2. wire[k].id < Len(posts) /\ wire[k].id \in Nat
        BY <1>4, <4>1, WireItems DEF IInv, Posted
      <4>3. CASE m > Len(wire)
        <5>1. wire'[m].id >= Len(posts) /\ wire'[m].id \in Nat
          <6>1. wire'[m] \in Chunks
            BY <1>5 DEF TypeOK
          <6> QED BY <1>8, <4>3, <6>1, ExtensionAssumption DEF Chunks, Ids
        <5> QED BY <1>4, <1>7, <4>1, <4>2, <5>1
      <4>4. CASE ~(m > Len(wire))
        <5>1. m \in 1..Len(wire)
          BY <1>4, <1>6, <4>4
        <5> QED BY <1>4, <1>7, <2>1, <4>1, <5>1 DEF IInv, Ordered
      <4> QED BY <4>3, <4>4
    <3> QED BY <3>1, <3>2
  <2> QED BY <1>6, <2>1 DEF Ordered
<1>12. Addressed'
  <2>1. ASSUME NEW k \in DOMAIN replies, ~(replies[k].answers = NoId /\ replies[k].id = NoId)
        PROVE  /\ replies[k].answers < Len(posts')
               /\ replies[k].id = ReplyId(replies[k].answers + 1)'
    <3>1. /\ replies[k].answers + 1 \in 1..Len(posts)
          /\ replies[k].id = ReplyId(replies[k].answers + 1)
          /\ replies[k].answers \in Nat
      BY <1>4, <2>1, AnswersArePosted, ReplyItems DEF IInv
    <3>2. posts'[replies[k].answers + 1] = posts[replies[k].answers + 1]
      BY <1>1, <3>1
    <3>3. replies[k].id = ReplyId(replies[k].answers + 1)'
      BY <1>2, <3>1, <3>2 DEF ReplyId
    <3> QED BY <1>1, <1>2, <1>4, <3>1, <3>3
  <2> QED BY <1>2, <2>1 DEF Addressed
<1>13. FirstInLine'
  <2>1. CASE Len(posts) = 0
    <3>1. \A k \in DOMAIN replies : replies[k].answers = NoId
      BY <1>4, <2>1, AnswersArePosted DEF IInv
    <3> QED BY <1>2, <3>1 DEF FirstInLine, NoId
  <2>2. CASE Len(posts) # 0
    <3>1. posts # <<>> /\ posts'[1] = posts[1]
      BY <1>1, <1>4, <2>2
    <3>2. ASSUME Awaited' PROVE Awaited
      <4>1. /\ posts'[1].listening /\ posts'[1].text # "no json" /\ 0 \notin lost'
        BY <3>2 DEF Awaited
      <4>2. lost' = lost
        BY <1>2
      <4>3. /\ posts[1].listening /\ posts[1].text # "no json" /\ 0 \notin lost
        <5>1. posts[1] = posts'[1]
          BY <3>1
        <5>2. posts[1].listening
          BY <4>1, <5>1
        <5>3. posts[1].text # "no json"
          BY <4>1, <5>1
        <5>4. 0 \notin lost
          BY <4>1, <4>2
        <5> QED BY <5>2, <5>3, <5>4
      <4> QED BY <3>1, <4>3 DEF Awaited
    <3> QED BY <1>2, <3>2 DEF IInv, FirstInLine, NoId
  <2> QED BY <2>1, <2>2
<1>14. Counted'
  BY <1>1, <1>2, <1>4, <1>5, <1>6, CountedGrows DEF IInv
<1>15. HeldIsTimed'
  BY <1>1, <1>4, <1>6 DEF IInv, HeldIsTimed
<1>16. LeaksOnlyWhenLost'
  <2>1. ASSUME NEW i \in 1..Len(posts'), posts'[i].listening, alive
        PROVE  UnderWay(i - 1)' \/ posts'[i].text = "no json" \/ i - 1 \in lost
    <3>1. CASE i > Len(posts)
      <4> DEFINE c == 2 * ((i - 1) - Len(posts)) + 1
      <4>1. (i - 1) - Len(posts) \in 0..(Len(ps) - 1)
        BY <1>1, <1>4, <3>1
      <4>2. c \in 1..(2 * Len(ps)) /\ (c - 1) \div 2 = (i - 1) - Len(posts)
        BY <1>4, <4>1
      <4>3. /\ Len(wire) + c \in 1..Len(wire') /\ Len(wire) + c > Len(wire)
            /\ (Len(wire) + c) - Len(wire) = c
        BY <1>3, <1>4, <2>1, <4>2
      <4> HIDE DEF c
      <4>4. wire'[Len(wire) + c].id = Len(posts) + (c - 1) \div 2
        BY <1>8, <4>3
      <4>5. wire'[Len(wire) + c].id = i - 1
        BY <1>4, <4>2, <4>4
      <4> QED BY <1>6, <4>3, <4>5 DEF UnderWay
    <3>2. CASE ~(i > Len(posts))
      <4>1. i \in 1..Len(posts)
        BY <1>4, <1>6, <3>2
      <4>2. UnderWay(i - 1) => UnderWay(i - 1)'
        BY <1>2, <1>4, <1>6, <1>7 DEF UnderWay
      <4>3. UnderWay(i - 1) \/ posts[i].text = "no json" \/ i - 1 \in lost
        BY <1>1, <1>4, <2>1, <4>1 DEF IInv, LeaksOnlyWhenLost
      <4> QED BY <1>1, <4>1, <4>2, <4>3
    <3> QED BY <3>1, <3>2
  <2> QED BY <1>2, <1>6, <2>1 DEF LeaksOnlyWhenLost
<1> QED BY <1>5, <1>9, <1>10, <1>11, <1>12, <1>13, <1>14, <1>15, <1>16, <1>17 DEF IInv

LEMMA NewPostIs ==
  ASSUME NEW cmd \in Cmds, NEW text \in Texts, NEW timer \in BOOLEAN
  PROVE  /\ NewPost(cmd, text, timer) \in Posts
         /\ NewPost(cmd, text, timer).listening
         /\ NewPost(cmd, text, timer).cmd = cmd
         /\ NewPost(cmd, text, timer).timer = timer
BY DEF NewPost, Posts, Outcomes

LEMMA SummonsPost ==
  ASSUME NEW n \in Nat, Summons(n)
  PROVE  \E ps : Postable(ps) /\ Post(ps)
<1> DEFINE ps == [k \in 1..n |-> NewPost("summon", "fine", TRUE)]
<1>1. /\ NewPost("summon", "fine", TRUE) \in Posts
      /\ NewPost("summon", "fine", TRUE).listening
      /\ NewPost("summon", "fine", TRUE).cmd = "summon"
  BY NewPostIs DEF Cmds, Texts
<1>2. ps \in [1..n -> Posts]
  BY <1>1
<1>3. \A k \in 1..n : ps[k] = NewPost("summon", "fine", TRUE)
  OBVIOUS
<1>4. Post(ps)
  BY DEF Summons
<1> HIDE DEF ps
<1>5. ps \in Seq(Posts) /\ DOMAIN ps = 1..n
  BY <1>2
<1>6. Postable(ps)
  BY <1>1, <1>3, <1>5 DEF Postable
<1> QED BY <1>4, <1>6

\* Everything that is posted goes through Post.
LEMMA PostingPosts ==
  ASSUME TypeOK,
         \/ \E text \in Texts : BeforeSendHeaders(text) \/ HeadersReceived(text)
         \/ Click
         \/ ClickNotification
  PROVE  \E ps : Postable(ps) /\ Post(ps)
<1>1. ASSUME NEW text \in Texts, BeforeSendHeaders(text)
      PROVE  \E ps : Postable(ps) /\ Post(ps)
  <2> DEFINE p == NewPost("sign", text, TRUE)
  <2>1. p \in Posts /\ p.listening /\ p.timer
    BY NewPostIs DEF Cmds
  <2>2. Post(<<p>>)
    BY <1>1 DEF BeforeSendHeaders
  <2> HIDE DEF p
  <2>3. Postable(<<p>>)
    BY <2>1 DEF Postable
  <2> QED BY <2>2, <2>3
<1>2. ASSUME NEW text \in Texts, HeadersReceived(text)
      PROVE  \E ps : Postable(ps) /\ Post(ps)
  <2> DEFINE p == NewPost("site", text, FALSE)
  <2>1. p \in Posts /\ p.listening /\ p.cmd = "site"
    BY NewPostIs DEF Cmds
  <2>2. Post(<<p>>)
    BY <1>2 DEF HeadersReceived
  <2> HIDE DEF p
  <2>3. Postable(<<p>>)
    BY <2>1 DEF Postable
  <2> QED BY <2>2, <2>3
<1>3. ASSUME Click
      PROVE  \E ps : Postable(ps) /\ Post(ps)
  BY <1>3, SummonsPost DEF Click
<1>4. ASSUME ClickNotification
      PROVE  \E ps : Postable(ps) /\ Post(ps)
  <2>1. announced \in Nat
    BY ExtensionAssumption DEF TypeOK
  <2> QED BY <1>4, <2>1, SummonsPost DEF ClickNotification
<1> QED BY <1>1, <1>2, <1>3, <1>4

LEMMA PostingInv ==
  ASSUME IInv,
         \/ \E text \in Texts : BeforeSendHeaders(text) \/ HeadersReceived(text)
         \/ Click
         \/ ClickNotification
  PROVE  IInv'
<1>1. \E ps : Postable(ps) /\ Post(ps)
  BY PostingPosts DEF IInv
<1> QED BY <1>1, PostInv

-----------------------------------------------------------------------------
(* Listening *)

\* What a step that calls a listener back leaves of each post.
LEMMA ReceivePosts ==
  ASSUME IInv, Receive
  PROVE  /\ posts' \in Seq(Posts) /\ Len(posts') = Len(posts)
         /\ \A i \in 1..Len(posts) :
              IF Fires(i, Head(replies))
                THEN /\ ~posts'[i].listening
                     /\ posts'[i].outcome # "held"
                     /\ posts'[i].text = posts[i].text
                     /\ ~posts'[i].timer
                ELSE posts'[i] = posts[i]
<1> DEFINE msg == Head(replies)
           fired == {i \in DOMAIN posts : Fires(i, msg)}
           q == [i \in DOMAIN posts |->
                   IF i \in fired
                     THEN [posts[i] EXCEPT !.listening = FALSE,
                                           !.timer = FALSE,
                                           !.outcome = IF @ = "held" THEN "signed" ELSE @]
                     ELSE posts[i]]
<1>1. posts' = q
  BY DEF Receive
<1>2. posts \in Seq(Posts) /\ DOMAIN posts = 1..Len(posts) /\ Len(posts) \in Nat
  BY PostsDomain DEF IInv, TypeOK
<1>3. \A i \in 1..Len(posts) : posts[i] \in Posts
  BY <1>2
<1>4. ASSUME NEW i \in 1..Len(posts)
      PROVE  /\ q[i] \in Posts
             /\ IF Fires(i, msg)
                  THEN /\ ~q[i].listening /\ q[i].outcome # "held"
                       /\ q[i].text = posts[i].text /\ ~q[i].timer
                  ELSE q[i] = posts[i]
  <2>1. CASE Fires(i, msg)
    <3>1. q[i] = [posts[i] EXCEPT !.listening = FALSE,
                                  !.timer = FALSE,
                                  !.outcome = IF @ = "held" THEN "signed" ELSE @]
      BY <1>2, <2>1
    <3> HIDE DEF q
    <3> QED BY <1>3, <2>1, <3>1 DEF Posts, Outcomes
  <2>2. CASE ~Fires(i, msg)
    BY <1>2, <1>3, <2>2
  <2> QED BY <2>1, <2>2
<1>5. q \in [1..Len(posts) -> Posts]
  BY <1>2, <1>4
<1> HIDE DEF q
<1>6. q \in Seq(Posts) /\ Len(q) = Len(posts)
  BY <1>2, <1>5
<1> QED BY <1>1, <1>4, <1>6

LEMMA ReceiveInv ==
  ASSUME IInv, Receive
  PROVE  IInv'
<1> DEFINE msg == Head(replies)
           news == {i \in DOMAIN posts : /\ Fires(i, msg)
                                         /\ posts[i].cmd = "site" /\ msg.news}
<1>1. /\ posts' \in Seq(Posts) /\ Len(posts') = Len(posts)
      /\ \A i \in 1..Len(posts) :
           IF Fires(i, msg)
             THEN /\ ~posts'[i].listening
                  /\ posts'[i].outcome # "held"
                  /\ posts'[i].text = posts[i].text
                  /\ ~posts'[i].timer
             ELSE posts'[i] = posts[i]
  BY ReceivePosts
<1>2. TypeOK /\ DOMAIN posts = 1..Len(posts) /\ Len(posts) \in 0..MaxPosts
      /\ DOMAIN wire = 1..Len(wire) /\ Len(wire) \in Nat
      /\ DOMAIN replies = 1..Len(replies) /\ Len(replies) \in Nat
  BY PostsDomain DEF IInv
<1>3. /\ UNCHANGED <<wire, visible, alive, connected, spares, lost>>
      /\ announced' = announced + Cardinality(news)
  <2>1. {i \in {j \in DOMAIN posts : Fires(j, msg)} : posts[i].cmd = "site" /\ msg.news} = news
    OBVIOUS
  <2> HIDE DEF news
  <2> QED BY <2>1 DEF Receive
<1>4. DOMAIN posts' = 1..Len(posts)
  BY <1>1, LenProperties
<1>5. /\ replies' \in Seq(Replies) /\ DOMAIN replies' = 1..(Len(replies) - 1)
      /\ Len(replies) >= 1 /\ msg = replies[1]
      /\ \A k \in 1..(Len(replies) - 1) : k + 1 \in 1..Len(replies) /\ replies'[k] = replies[k + 1]
  <2>1. replies \in Seq(Replies) /\ replies # <<>> /\ replies' = Tail(replies)
    BY <1>2 DEF TypeOK, Receive
  <2>2. Len(replies) >= 1
    BY <1>2, <2>1, EmptySeq
  <2> QED BY <1>2, <2>1, <2>2, HeadTailProperties, LenProperties
<1>6. msg.id \in Nat /\ msg.answers \in Nat
  BY <1>2, <1>5, ReplyItems
<1>7. Counted' /\ announced' \in 0..MaxPosts
  <2>1. /\ Untimed \in SUBSET Untimed' /\ Silent \in SUBSET Silent'
        /\ Untimed' \in SUBSET (1..Len(posts)) /\ Silent' \in SUBSET (1..Len(posts))
        /\ Len(posts) \in Nat
    BY <1>1, <1>2, <1>4 DEF Untimed, Silent
  <2>2. /\ Cardinality(Untimed) <= Cardinality(Untimed')
        /\ Cardinality(Silent) <= Cardinality(Silent')
        /\ Cardinality(Untimed) \in Nat /\ Cardinality(Untimed') \in Nat
        /\ Cardinality(Silent) \in Nat /\ Cardinality(Silent') \in Nat
        /\ Cardinality(Silent') <= Len(posts)
    BY <2>1, CountsGrow
  <2>3. spares \in Nat /\ announced \in Nat /\ spares <= Cardinality(Untimed)
        /\ announced <= Cardinality(Silent)
    BY <1>2, ExtensionAssumption DEF TypeOK, IInv, Counted
  <2>4. announced + Cardinality(news) <= Cardinality(Silent') /\ Cardinality(news) \in Nat
    <3>1. CASE Cardinality(news) = 0
      BY <2>2, <2>3, <3>1
    <3>2. CASE news # {}
      <4>1. PICK x \in news : TRUE
        BY <3>2
      <4>2. \A i \in news : i = msg.id + 1
        BY <1>2, <1>6 DEF Fires
      <4>3. news = {x}
        BY <4>1, <4>2
      <4>4. x \in Silent' \ Silent
        BY <1>1, <1>2, <1>4, <4>1 DEF Fires, Silent
      <4>5. Cardinality(Silent) + 1 <= Cardinality(Silent')
        BY <2>1, <4>4, OneMoreCounts
      <4>6. Cardinality(news) = 1
        BY <4>3, FS_Singleton
      <4> QED BY <2>2, <2>3, <4>5, <4>6
    <3>3. news = {} => Cardinality(news) = 0
      BY FS_EmptySet
    <3> QED BY <3>1, <3>2, <3>3
  <2> HIDE DEF news
  <2>5. Counted'
    BY <1>3, <2>2, <2>3, <2>4 DEF Counted
  <2> QED BY <1>2, <1>3, <2>2, <2>3, <2>4, <2>5, ExtensionAssumption
<1> HIDE DEF news
<1>8. TypeOK'
  BY <1>1, <1>2, <1>3, <1>5, <1>7 DEF TypeOK, Receive
<1>9. Posted' /\ Framed' /\ Alternating' /\ Ordered'
  BY <1>1, <1>3 DEF IInv, Posted, Framed, Alternating, Ordered
<1>10. \A k \in 1..Len(replies) :
         ~(replies[k].answers = NoId /\ replies[k].id = NoId) =>
           /\ replies[k].answers + 1 \in 1..Len(posts)
           /\ replies[k].answers # NoId
           /\ replies[k].id = ReplyId(replies[k].answers + 1)
  BY <1>2, AnswersArePosted DEF IInv
<1>11. \A i \in 1..Len(posts) : posts'[i].text = posts[i].text
  BY <1>1
<1>12. Addressed'
  <2>1. ASSUME NEW k \in DOMAIN replies', ~(replies'[k].answers = NoId /\ replies'[k].id = NoId)
        PROVE  /\ replies'[k].answers < Len(posts')
               /\ replies'[k].id = ReplyId(replies[k].answers + 1)'
    <3>1. k + 1 \in 1..Len(replies) /\ replies'[k] = replies[k + 1]
      BY <1>5
    <3>2. /\ replies[k + 1].answers + 1 \in 1..Len(posts)
          /\ replies[k + 1].id = ReplyId(replies[k + 1].answers + 1)
          /\ replies[k + 1].answers \in Nat
      BY <1>2, <1>10, <2>1, <3>1, ReplyItems
    <3>3. posts'[replies[k + 1].answers + 1].text = posts[replies[k + 1].answers + 1].text
      BY <1>11, <3>2
    <3>4. replies'[k].id = ReplyId(replies[k].answers + 1)'
      BY <3>1, <3>2, <3>3 DEF ReplyId
    <3> QED BY <1>1, <1>2, <3>1, <3>2, <3>4
  <2> QED BY <2>1 DEF Addressed, NoId
<1>13. FirstInLine'
  <2>1. ASSUME Awaited', NEW k \in DOMAIN replies', replies'[k].answers # NoId
        PROVE  \E m \in 1..k : replies'[m].answers = 0
    <3>1. 1 \in 1..Len(posts) /\ posts'[1].listening /\ posts'[1].text # "no json" /\ 0 \notin lost
      <4>1. posts' # <<>> /\ posts'[1].listening /\ posts'[1].text # "no json" /\ 0 \notin lost'
        BY <2>1 DEF Awaited
      <4>2. Len(posts) # 0
        BY <1>1, <4>1, EmptySeq
      <4>3. 1 \in 1..Len(posts)
        BY <1>2, <4>2
      <4>4. lost' = lost
        BY <1>3
      <4> QED BY <4>1, <4>3, <4>4
    <3>2. ~Fires(1, msg) /\ posts'[1] = posts[1]
      BY <1>1, <3>1
    <3>3. Awaited
      <4>1. posts[1].listening
        BY <3>1, <3>2
      <4>2. posts[1].text # "no json"
        BY <3>1, <3>2
      <4>3. posts # <<>>
        <5>1. 1 \in 1..Len(posts)
          BY <3>1
        <5> QED BY <5>1
      <4> QED BY <3>1, <4>1, <4>2, <4>3 DEF Awaited
    <3>4. msg.id # 0
      <4>1. posts[1].listening
        BY <3>3 DEF Awaited
      <4>2. msg.id # 1 - 1
        BY <3>2, <4>1 DEF Fires
      <4> QED BY <4>2
    <3>5. msg.answers # 0
      <4>1. ASSUME msg.answers = 0 PROVE FALSE
        <5>1. msg.id = ReplyId(1) \/ 0 = NoId
          BY <1>5, <1>10, <4>1
        <5>2. MaxPosts >= 1
          <6>1. Len(posts) \in 0..MaxPosts /\ 1 \in 1..Len(posts)
            BY <1>2, <3>1
          <6> QED BY <6>1, ExtensionAssumption
        <5>3. ReplyId(1) = 0
          BY DEF ReplyId
        <5>4. NoId # 0
          BY <5>2 DEF NoId
        <5> QED BY <3>4, <5>1, <5>3, <5>4
      <4> QED BY <4>1
    <3>6. k + 1 \in 1..Len(replies) /\ replies[k + 1].answers # NoId
      BY <1>5, <2>1
    <3>7. PICK m \in 1..(k + 1) : replies[m].answers = 0
      BY <1>2, <3>3, <3>6 DEF IInv, FirstInLine
    <3>8. m # 1
      BY <1>5, <3>5, <3>7
    <3>9. m - 1 \in 1..k /\ m - 1 \in 1..(Len(replies) - 1) /\ (m - 1) + 1 = m
      BY <1>2, <1>5, <3>6, <3>7, <3>8
    <3>10. replies'[m - 1].answers = 0
      BY <1>5, <3>7, <3>9
    <3> QED BY <3>9, <3>10
  <2> QED BY <2>1 DEF FirstInLine, NoId
<1>14. HeldIsTimed'
  BY <1>1, <1>2, <1>4 DEF IInv, HeldIsTimed
<1>15. LeaksOnlyWhenLost'
  <2>1. ASSUME NEW i \in 1..Len(posts), posts'[i].listening, alive, posts'[i].text # "no json",
               i - 1 \notin lost
        PROVE  UnderWay(i - 1)'
    <3>1. ~Fires(i, msg) /\ posts'[i] = posts[i]
      BY <1>1, <2>1
    <3>2. posts[i].listening
      BY <2>1, <3>1
    <3>3. posts[i].text # "no json"
      BY <2>1, <3>1
    <3>4. UnderWay(i - 1)
      BY <1>2, <2>1, <3>2, <3>3 DEF IInv, LeaksOnlyWhenLost
    <3>5. CASE \E k \in DOMAIN wire : wire[k].id = i - 1
      BY <1>3, <3>5 DEF UnderWay
    <3>6. CASE \E k \in DOMAIN replies : replies[k].answers = i - 1
      <4>1. PICK k \in 1..Len(replies) : replies[k].answers = i - 1
        BY <1>2, <3>6
      <4>2. i - 1 # NoId
        BY <1>2, ExtensionAssumption DEF NoId
      <4>3. replies[k].id = i - 1
        <5>1. replies[k].id = ReplyId((i - 1) + 1) /\ (i - 1) + 1 = i
          BY <1>10, <4>1, <4>2
        <5> QED BY <3>3, <5>1 DEF ReplyId
      <4>4. k # 1
        BY <1>5, <3>1, <3>2, <4>3 DEF Fires
      <4>5. k - 1 \in 1..(Len(replies) - 1) /\ (k - 1) + 1 = k
        BY <1>2, <4>4
      <4>6. replies'[k - 1].answers = i - 1
        BY <1>5, <4>1, <4>5
      <4> QED BY <1>5, <4>5, <4>6 DEF UnderWay
    <3> QED BY <3>4, <3>5, <3>6 DEF UnderWay
  <2> QED BY <1>3, <1>4, <2>1 DEF LeaksOnlyWhenLost
<1> QED BY <1>7, <1>8, <1>9, <1>12, <1>13, <1>14, <1>15 DEF IInv

\* What a timeout leaves of each post.
LEMMA TimerPosts ==
  ASSUME IInv, NEW i \in 1..Len(posts), TimerFires(i)
  PROVE  /\ posts' \in Seq(Posts) /\ Len(posts') = Len(posts)
         /\ \A k \in 1..Len(posts) : /\ posts'[k].listening = posts[k].listening
                                     /\ posts'[k].text = posts[k].text
                                     /\ k # i => posts'[k] = posts[k]
         /\ posts[i].timer /\ ~posts'[i].timer /\ posts'[i].outcome # "held"
<1>1. posts \in Seq(Posts) /\ DOMAIN posts = 1..Len(posts) /\ Len(posts) \in Nat
  BY PostsDomain DEF IInv, TypeOK
<1>2. posts[i] \in Posts /\ posts[i].timer /\ posts' = [posts EXCEPT ![i] = Expired(posts[i])]
  BY <1>1 DEF TimerFires
<1>3. /\ Expired(posts[i]) \in Posts
      /\ Expired(posts[i]).listening = posts[i].listening
      /\ Expired(posts[i]).text = posts[i].text
      /\ ~Expired(posts[i]).timer
      /\ Expired(posts[i]).outcome # "held"
  BY <1>2 DEF Expired, Posts, Outcomes
<1>4. /\ posts' \in Seq(Posts) /\ Len(posts') = Len(posts)
      /\ \A k \in 1..Len(posts) : posts'[k] = IF k = i THEN Expired(posts[i]) ELSE posts[k]
  BY <1>1, <1>2, <1>3, ExceptSeq
<1>5. ASSUME NEW k \in 1..Len(posts)
      PROVE  /\ posts'[k].listening = posts[k].listening
             /\ posts'[k].text = posts[k].text
             /\ k # i => posts'[k] = posts[k]
  <2>1. CASE k = i
    BY <1>3, <1>4, <2>1
  <2>2. CASE k # i
    BY <1>4, <2>2
  <2> QED BY <2>1, <2>2
<1>6. posts'[i] = Expired(posts[i])
  BY <1>4
<1> QED BY <1>2, <1>3, <1>4, <1>5, <1>6

\* The three conjuncts about replies speak of a post's listener and text only.
LEMMA SamePosts ==
  ASSUME IInv, posts' \in Seq(Posts), Len(posts') = Len(posts),
         \A k \in 1..Len(posts) : /\ posts'[k].listening = posts[k].listening
                                  /\ posts'[k].text = posts[k].text,
         UNCHANGED <<wire, replies, alive, lost>>
  PROVE  Addressed' /\ FirstInLine' /\ LeaksOnlyWhenLost'
<1>1. TypeOK /\ DOMAIN posts = 1..Len(posts) /\ Len(posts) \in 0..MaxPosts
      /\ DOMAIN posts' = 1..Len(posts)
      /\ DOMAIN replies = 1..Len(replies) /\ Len(replies) \in Nat
  BY PostsDomain, LenProperties DEF IInv
<1>2. Addressed'
  <2>1. ASSUME NEW k \in DOMAIN replies, ~(replies[k].answers = NoId /\ replies[k].id = NoId)
        PROVE  /\ replies[k].answers < Len(posts')
               /\ replies[k].id = ReplyId(replies[k].answers + 1)'
    <3>1. /\ replies[k].answers + 1 \in 1..Len(posts)
          /\ replies[k].id = ReplyId(replies[k].answers + 1)
          /\ replies[k].answers \in Nat
      BY <1>1, <2>1, AnswersArePosted, ReplyItems DEF IInv
    <3>2. posts'[replies[k].answers + 1].text = posts[replies[k].answers + 1].text
      BY <3>1
    <3>3. replies[k].id = ReplyId(replies[k].answers + 1)'
      BY <3>1, <3>2 DEF ReplyId
    <3> QED BY <1>1, <3>1, <3>3
  <2> QED BY <2>1 DEF Addressed, NoId
<1>3. FirstInLine'
  <2>1. ASSUME Awaited' PROVE Awaited
    <3>1. posts' # <<>> /\ posts'[1].listening /\ posts'[1].text # "no json" /\ 0 \notin lost'
      BY <2>1 DEF Awaited
    <3>2. Len(posts) # 0
      BY <3>1, EmptySeq
    <3>3. 1 \in 1..Len(posts)
      BY <1>1, <3>2
    <3>4. posts # <<>>
      BY <3>3
    <3>5. posts[1].listening = posts'[1].listening /\ posts[1].text = posts'[1].text
      BY <3>3
    <3>6. lost' = lost
      OBVIOUS
    <3> QED BY <3>1, <3>4, <3>5, <3>6 DEF Awaited
  <2> QED BY <2>1 DEF IInv, FirstInLine, NoId
<1>4. LeaksOnlyWhenLost'
  BY <1>1 DEF IInv, LeaksOnlyWhenLost, UnderWay
<1> QED BY <1>2, <1>3, <1>4

LEMMA TimerFiresInv ==
  ASSUME IInv, NEW i \in DOMAIN posts, TimerFires(i)
  PROVE  IInv'
<1>1. TypeOK /\ DOMAIN posts = 1..Len(posts) /\ Len(posts) \in 0..MaxPosts
  BY PostsDomain DEF IInv
<1>2. /\ posts' \in Seq(Posts) /\ Len(posts') = Len(posts)
      /\ \A k \in 1..Len(posts) : /\ posts'[k].listening = posts[k].listening
                                  /\ posts'[k].text = posts[k].text
                                  /\ k # i => posts'[k] = posts[k]
      /\ posts[i].timer /\ ~posts'[i].timer /\ posts'[i].outcome # "held"
  BY <1>1, TimerPosts
<1>3. /\ UNCHANGED <<wire, visible, replies, alive, connected, announced, lost>>
      /\ spares' = spares \/ spares' = spares + 1
  BY DEF TimerFires
<1>4. DOMAIN posts' = 1..Len(posts)
  BY <1>2, LenProperties
<1>5. Counted' /\ spares' \in 0..MaxPosts
  <2>1. /\ Untimed \in SUBSET Untimed' /\ Silent = Silent'
        /\ Untimed' \in SUBSET (1..Len(posts))
        /\ Len(posts) \in Nat
        /\ i \in Untimed' \ Untimed
    <3>1. \A k \in 1..Len(posts) : ~posts[k].timer => ~posts'[k].timer
      BY <1>2
    <3>2. Silent = Silent'
      BY <1>1, <1>2, <1>4 DEF Silent
    <3> QED BY <1>1, <1>2, <1>4, <3>1, <3>2 DEF Untimed
  <2>2. /\ Cardinality(Untimed) + 1 <= Cardinality(Untimed')
        /\ Cardinality(Untimed) \in Nat /\ Cardinality(Untimed') \in Nat
        /\ Cardinality(Untimed') <= Len(posts)
    BY <2>1, CountsGrow, OneMoreCounts
  <2>3. spares \in Nat /\ spares <= Cardinality(Untimed) /\ announced <= Cardinality(Silent)
    BY <1>1, ExtensionAssumption DEF TypeOK, IInv, Counted
  <2>4. spares' <= Cardinality(Untimed') /\ spares' \in Nat
    BY <1>3, <2>2, <2>3
  <2> QED BY <1>1, <1>3, <2>1, <2>2, <2>3, <2>4, ExtensionAssumption DEF Counted
<1>6. TypeOK'
  BY <1>1, <1>2, <1>3, <1>5 DEF TypeOK
<1>7. Posted' /\ Framed' /\ Alternating' /\ Ordered'
  BY <1>2, <1>3 DEF IInv, Posted, Framed, Alternating, Ordered
<1>8. Addressed' /\ FirstInLine' /\ LeaksOnlyWhenLost'
  BY <1>2, <1>3, SamePosts
<1>9. HeldIsTimed'
  BY <1>1, <1>2, <1>4 DEF IInv, HeldIsTimed
<1> QED BY <1>5, <1>6, <1>7, <1>8, <1>9 DEF IInv

-----------------------------------------------------------------------------
(* The pipes and the control center *)

LEMMA WriteInv ==
  ASSUME IInv, Write
  PROVE  IInv'
<1>1. /\ UNCHANGED <<posts, wire, replies, alive, connected, spares, announced, lost>>
      /\ visible' \in 0..Len(wire)
  BY PostsDomain DEF IInv, TypeOK, Write
<1>2. TypeOK'
  BY <1>1 DEF IInv, TypeOK
<1>3. Counted'
  BY <1>1 DEF IInv, Counted, Untimed, Silent
<1> QED BY <1>1, <1>2, <1>3
        DEF IInv, Posted, Framed, Alternating, Ordered, Addressed, ReplyId, FirstInLine, Awaited, HeldIsTimed,
            LeaksOnlyWhenLost, UnderWay

LEMMA DieInv ==
  ASSUME IInv, Die
  PROVE  IInv'
<1>1. /\ UNCHANGED <<posts, replies, connected, spares, announced, lost>>
      /\ wire' = <<>> /\ visible' = 0 /\ ~alive' /\ alive' \in BOOLEAN
  BY DEF Die
<1>2. DOMAIN wire' = {} /\ wire' \in Seq(Chunks) /\ Len(wire') = 0
  BY <1>1
<1>3. TypeOK'
  BY <1>1, <1>2 DEF IInv, TypeOK
<1>4. Counted'
  BY <1>1 DEF IInv, Counted, Untimed, Silent
<1> QED BY <1>1, <1>2, <1>3, <1>4
        DEF IInv, Posted, Framed, Alternating, Ordered, Addressed, ReplyId, FirstInLine, Awaited, HeldIsTimed,
            LeaksOnlyWhenLost

LEMMA DisconnectInv ==
  ASSUME IInv, Disconnect
  PROVE  IInv'
<1>1. /\ UNCHANGED <<posts, wire, visible, replies, alive, spares, announced, lost>>
      /\ connected' \in BOOLEAN
  BY DEF Disconnect
<1>2. TypeOK'
  BY <1>1 DEF IInv, TypeOK
<1>3. Counted'
  BY <1>1 DEF IInv, Counted, Untimed, Silent
<1> QED BY <1>1, <1>2, <1>3
        DEF IInv, Posted, Framed, Alternating, Ordered, Addressed, ReplyId, FirstInLine, Awaited, HeldIsTimed,
            LeaksOnlyWhenLost, UnderWay

LEMMA SendCommandInv ==
  ASSUME IInv, SendCommand
  PROVE  IInv'
<1>1. /\ UNCHANGED <<posts, wire, visible, alive, connected, spares, announced, lost>>
      /\ replies = <<>> /\ replies' = <<Command>>
  BY DEF SendCommand
<1>2. DOMAIN replies = {} /\ DOMAIN replies' = {1} /\ replies'[1] = Command
  BY <1>1
<1>3. Command \in Replies /\ Command.answers = NoId /\ Command.id = NoId
  BY DEF Command, Replies
<1>4. replies' \in Seq(Replies)
  BY <1>1, <1>3
<1>5. TypeOK'
  BY <1>1, <1>4 DEF IInv, TypeOK
<1>6. Counted'
  BY <1>1 DEF IInv, Counted, Untimed, Silent
<1>7. Addressed'
  BY <1>2, <1>3 DEF Addressed, NoId
<1>8. FirstInLine'
  BY <1>2, <1>3 DEF FirstInLine, NoId
<1>9. LeaksOnlyWhenLost'
  BY <1>1, <1>2 DEF IInv, LeaksOnlyWhenLost, UnderWay
<1> QED BY <1>1, <1>5, <1>6, <1>7, <1>8, <1>9 DEF IInv, Posted, Framed, Alternating, Ordered, HeldIsTimed

\* A message, its first chunk, or all there is.
LEMMA TakenIs ==
  ASSUME IInv, visible > 0
  PROVE  /\ Taken \in 1..visible /\ Taken \in 1..Len(wire)
         /\ wire # <<>> /\ Head(wire) = wire[1] /\ 1 \in 1..Len(wire)
         /\ ReadsWhole => /\ \A k \in 1..Taken : wire[k].id = wire[1].id
<1>1. /\ visible \in 0..Len(wire) /\ Len(wire) \in Nat /\ wire \in Seq(Chunks)
      /\ DOMAIN wire = 1..Len(wire)
  BY PostsDomain DEF IInv, TypeOK
<1>2. Len(wire) >= 1 /\ visible \in Nat
  BY <1>1
<1>3. wire # <<>> /\ 1 \in 1..Len(wire)
  BY <1>1, <1>2, EmptySeq
<1>4. Head(wire) = wire[1] /\ wire[1] \in Chunks
  BY <1>1, <1>3, HeadTailProperties
<1>5. CASE wire[1].part = "first"
  <2>1. Taken = IF visible > 1 THEN 2 ELSE 1
    BY <1>4, <1>5 DEF Taken
  <2>2. wire[2] = [id |-> wire[1].id, part |-> "rest"]
    BY <1>1, <1>3, <1>5 DEF IInv, Framed
  <2>3. Taken \in 1..visible /\ Taken \in 1..Len(wire) /\ Taken \in 1..2
    BY <1>1, <1>2, <2>1
  <2>4. \A k \in 1..2 : wire[k].id = wire[1].id
    BY <2>2
  <2> QED BY <1>3, <1>4, <2>3, <2>4
<1>6. CASE wire[1].part = "rest"
  <2>1. Taken = visible /\ ~ReadsWhole
    BY <1>4, <1>6 DEF Taken, ReadsWhole
  <2> QED BY <1>1, <1>2, <1>3, <1>4, <2>1
<1> QED BY <1>4, <1>5, <1>6 DEF Chunks

LEMMA Rested ==
  ASSUME NEW S, NEW s \in Seq(S), NEW t \in 1..Len(s)
  PROVE  /\ SubSeq(s, t + 1, Len(s)) \in Seq(S)
         /\ Len(SubSeq(s, t + 1, Len(s))) = Len(s) - t
         /\ \A k \in 1..(Len(s) - t) : SubSeq(s, t + 1, Len(s))[k] = s[t + k]
OBVIOUS

LEMMA ReadCommandInv ==
  ASSUME IInv, ReadCommand
  PROVE  IInv'
<1> DEFINE t == Taken
           id == wire[1].id
<1>1. TypeOK /\ DOMAIN posts = 1..Len(posts) /\ Len(posts) \in 0..MaxPosts
      /\ DOMAIN wire = 1..Len(wire) /\ Len(wire) \in Nat /\ wire \in Seq(Chunks)
      /\ DOMAIN replies = 1..Len(replies) /\ Len(replies) \in Nat /\ replies \in Seq(Replies)
  BY PostsDomain DEF IInv, TypeOK
<1>2. /\ t \in 1..visible /\ t \in 1..Len(wire)
      /\ Head(wire) = wire[1] /\ 1 \in 1..Len(wire)
      /\ ReadsWhole => \A k \in 1..t : wire[k].id = id
  BY TakenIs DEF ReadCommand
<1> HIDE DEF t
<1>3. /\ UNCHANGED <<posts, alive, connected, spares, announced>> /\ alive
      /\ wire' = SubSeq(wire, t + 1, Len(wire)) /\ visible' = visible - t
      /\ lost' = IF ReadsWhole THEN lost ELSE lost \cup {wire[k].id : k \in 1..t}
  BY DEF ReadCommand, t
<1>4. /\ wire' \in Seq(Chunks) /\ Len(wire') = Len(wire) - t
      /\ DOMAIN wire' = 1..(Len(wire) - t)
      /\ \A k \in 1..(Len(wire) - t) : wire'[k] = wire[t + k] /\ t + k \in 1..Len(wire)
  <2>1. /\ wire' \in Seq(Chunks) /\ Len(wire') = Len(wire) - t
        /\ \A k \in 1..(Len(wire) - t) : wire'[k] = wire[t + k]
    BY <1>1, <1>2, <1>3, Rested
  <2>2. \A k \in 1..(Len(wire) - t) : t + k \in 1..Len(wire)
    BY <1>1, <1>2
  <2> QED BY <2>1, <2>2, LenProperties
<1>5. \A k \in 1..Len(wire) : wire[k].id \in Ids /\ wire[k].id \in Nat /\ wire[k].id < Len(posts)
  BY <1>1, WireItems DEF IInv, Posted
<1>6. /\ lost \subseteq lost' /\ lost' \subseteq Ids
      /\ ~ReadsWhole => \A k \in 1..t : wire[k].id \in lost'
  <2>1. lost \subseteq Ids
    BY <1>1 DEF TypeOK
  <2>2. \A k \in 1..t : k \in 1..Len(wire)
    BY <1>1, <1>2
  <2> QED BY <1>3, <1>5, <2>1, <2>2
<1>7. \/ ~ReadsWhole /\ replies' = replies
      \/ \E news \in BOOLEAN : /\ ReadsWhole
                               /\ replies' = Append(replies, [id |-> ReplyId(id + 1),
                                                              answers |-> id, news |-> news])
  <2>1. CASE ~ReadsWhole
    BY <2>1 DEF ReadCommand
  <2>2. CASE ReadsWhole
    <3>1. PICK news \in BOOLEAN : ReplyTo(id + 1, news)
      BY <1>2, <2>2 DEF ReadCommand
    <3>2. (id + 1) - 1 = id
      BY <1>2, <1>5
    <3> QED BY <2>2, <3>1, <3>2 DEF ReplyTo
  <2> QED BY <2>1, <2>2
<1> HIDE DEF id
<1>8. id \in Ids /\ id \in Nat /\ id < Len(posts) /\ ReplyId(id + 1) \in Ids /\ id # NoId
  <2>1. id \in Ids /\ id \in Nat /\ id < Len(posts)
    BY <1>2, <1>5 DEF id
  <2>2. 0 \in Ids /\ (id + 1) - 1 = id
    BY <2>1, ExtensionAssumption DEF Ids
  <2>3. ReplyId(id + 1) \in {0, id}
    BY <2>2 DEF ReplyId
  <2>4. id # NoId
    BY <2>1, ExtensionAssumption DEF NoId, Ids
  <2> QED BY <2>1, <2>2, <2>3, <2>4
<1>9. /\ replies' \in Seq(Replies) /\ Len(replies') \in {Len(replies), Len(replies) + 1}
      /\ DOMAIN replies' = 1..Len(replies')
      /\ \A k \in 1..Len(replies) : replies'[k] = replies[k] /\ k \in 1..Len(replies')
      /\ ReadsWhole => Len(replies') = Len(replies) + 1
      /\ \A k \in 1..Len(replies') :
           \/ k \in 1..Len(replies)
           \/ /\ k = Len(replies) + 1
              /\ replies'[k].answers = id /\ replies'[k].id = ReplyId(id + 1)
  <2>1. CASE ~ReadsWhole
    <3>1. replies' = replies
      BY <1>7, <2>1
    <3> QED BY <1>1, <2>1, <3>1
  <2>2. CASE ReadsWhole
    <3>1. PICK news \in BOOLEAN : replies' = Append(replies, [id |-> ReplyId(id + 1),
                                                              answers |-> id, news |-> news])
      BY <1>7, <2>2
    <3> DEFINE r == [id |-> ReplyId(id + 1), answers |-> id, news |-> news]
    <3>2. r \in Replies /\ r.answers = id /\ r.id = ReplyId(id + 1)
      BY <1>8 DEF Replies
    <3> HIDE DEF r
    <3>3. replies' = Append(replies, r)
      BY <3>1 DEF r
    <3>4. /\ replies' \in Seq(Replies) /\ Len(replies') = Len(replies) + 1
          /\ \A k \in 1..Len(replies) : replies'[k] = replies[k]
          /\ replies'[Len(replies) + 1] = r
      BY <1>1, <3>2, <3>3, AppendProperties
    <3>5. /\ \A k \in 1..(Len(replies) + 1) : k \in 1..Len(replies) \/ k = Len(replies) + 1
          /\ \A k \in 1..Len(replies) : k \in 1..(Len(replies) + 1)
      BY <1>1
    <3>6. DOMAIN replies' = 1..Len(replies')
      BY <3>4, LenProperties
    <3> QED BY <3>2, <3>4, <3>5, <3>6
  <2> QED BY <2>1, <2>2
<1>10. TypeOK'
  <2>1. visible - t \in 0..(Len(wire) - t)
    BY <1>1, <1>2 DEF TypeOK
  <2> QED BY <1>1, <1>3, <1>4, <1>6, <1>9, <2>1 DEF TypeOK
<1>11. Posted'
  BY <1>3, <1>4, <1>5 DEF Posted
<1>12. Framed'
  <2>1. ASSUME NEW k \in 1..(Len(wire) - t), wire'[k].part = "first"
        PROVE  /\ k + 1 \in 1..(Len(wire) - t)
               /\ wire'[k + 1] = [id |-> wire'[k].id, part |-> "rest"]
    <3>1. t + k \in 1..Len(wire) /\ wire'[k] = wire[t + k]
      BY <1>4
    <3>2. /\ (t + k) + 1 \in 1..Len(wire)
          /\ wire[(t + k) + 1] = [id |-> wire[t + k].id, part |-> "rest"]
      BY <1>1, <2>1, <3>1 DEF IInv, Framed
    <3>3. k + 1 \in 1..(Len(wire) - t) /\ t + (k + 1) = (t + k) + 1
      BY <1>1, <1>2, <3>2
    <3> QED BY <1>4, <3>1, <3>2, <3>3
  <2> QED BY <1>4, <2>1 DEF Framed
<1>19. Alternating'
  <2>1. ASSUME NEW k \in 1..(Len(wire) - t), k + 1 \in 1..(Len(wire) - t),
               wire'[k].part = "rest"
        PROVE  wire'[k + 1].part = "first"
    <3>1. /\ t + k \in 1..Len(wire) /\ (t + k) + 1 \in 1..Len(wire)
          /\ wire'[k] = wire[t + k] /\ wire'[k + 1] = wire[(t + k) + 1]
      <4>1. t + (k + 1) = (t + k) + 1
        BY <1>1, <1>2
      <4> QED BY <1>4, <2>1, <4>1
    <3> QED BY <1>1, <2>1, <3>1 DEF IInv, Alternating
  <2> QED BY <1>4, <2>1 DEF Alternating
<1>13. Ordered'
  <2>1. ASSUME NEW k \in 1..(Len(wire) - t), NEW m \in 1..(Len(wire) - t), k < m
        PROVE  wire'[k].id <= wire'[m].id
    <3>1. t + k < t + m
      BY <1>1, <1>2, <2>1
    <3> QED BY <1>1, <1>4, <3>1 DEF IInv, Ordered
  <2> QED BY <1>4, <2>1 DEF Ordered
<1>14. Addressed'
  <2>1. ASSUME NEW k \in 1..Len(replies'), ~(replies'[k].answers = NoId /\ replies'[k].id = NoId)
        PROVE  /\ replies'[k].answers < Len(posts)
               /\ replies'[k].id = ReplyId(replies[k].answers + 1)'
    <3>1. CASE k \notin 1..Len(replies)
      <4>1. replies'[k].answers = id /\ replies'[k].id = ReplyId(id + 1)
        BY <1>9, <3>1
      <4> QED BY <1>3, <1>8, <4>1 DEF ReplyId
    <3>2. CASE k \in 1..Len(replies)
      <4>1. replies'[k] = replies[k]
        BY <1>9, <3>2
      <4>2. replies[k].answers < Len(posts) /\ replies[k].id = ReplyId(replies[k].answers + 1)
        BY <1>1, <2>1, <3>2, <4>1 DEF IInv, Addressed
      <4> QED BY <1>3, <4>1, <4>2 DEF ReplyId
    <3> QED BY <3>1, <3>2
  <2> QED BY <1>3, <1>9, <2>1 DEF Addressed, NoId
<1>15. FirstInLine'
  <2>1. ASSUME Awaited', NEW k \in 1..Len(replies'), replies'[k].answers # NoId
        PROVE  \E m \in 1..k : replies'[m].answers = 0
    <3>1. Awaited /\ 0 \notin lost'
      BY <1>3, <1>6, <2>1 DEF Awaited
    <3>2. CASE k \notin 1..Len(replies)
      <4>0. k = Len(replies) + 1 /\ replies'[k].answers = id
        BY <1>9, <3>2
      <4>1. UnderWay(0)
        <5>1. 1 \in DOMAIN posts
          <6>1. posts # <<>> /\ posts \in Seq(Posts)
            BY <1>1, <3>1 DEF Awaited, TypeOK
          <6>2. Len(posts) # 0
            BY <6>1, EmptySeq
          <6> QED BY <1>1, <6>2
        <5>2. posts[1].listening
          BY <3>1 DEF Awaited
        <5>3. posts[1].text # "no json" /\ 0 \notin lost
          BY <3>1 DEF Awaited
        <5>4. UnderWay(1 - 1) \/ posts[1].text = "no json" \/ 1 - 1 \in lost \/ ~alive
          BY <5>1, <5>2 DEF IInv, LeaksOnlyWhenLost
        <5>5. 1 - 1 = 0
          OBVIOUS
        <5>6. alive
          BY <1>3
        <5> QED BY <5>3, <5>4, <5>5, <5>6
      <4>2. CASE \E m \in DOMAIN replies : replies[m].answers = 0
        <5>1. PICK m \in 1..Len(replies) : replies[m].answers = 0
          BY <1>1, <4>2
        <5>2. replies'[m].answers = 0
          BY <1>9, <5>1
        <5>3. m \in 1..k
          BY <1>1, <4>0, <5>1
        <5> QED BY <5>2, <5>3
      <4>3. CASE \E m \in DOMAIN wire : wire[m].id = 0
        <5>1. PICK m \in 1..Len(wire) : wire[m].id = 0
          BY <1>1, <4>3
        <5>2. id <= 0
          <6>1. CASE m = 1
            BY <5>1, <6>1 DEF id
          <6>2. CASE m # 1
            <7>1. 1 < m
              BY <6>2
            <7> QED BY <1>1, <1>2, <5>1, <7>1 DEF IInv, Ordered, id
          <6> QED BY <6>1, <6>2
        <5>3. replies'[k].answers = 0 /\ k \in 1..k
          <6>1. id = 0
            BY <1>8, <5>2
          <6> QED BY <1>1, <4>0, <6>1
        <5> QED BY <5>3
      <4> QED BY <4>1, <4>2, <4>3 DEF UnderWay
    <3>3. CASE k \in 1..Len(replies)
      <4>1. replies[k].answers # NoId
        BY <1>9, <2>1, <3>3
      <4>2. PICK m \in 1..k : replies[m].answers = 0
        BY <1>1, <3>1, <3>3, <4>1 DEF IInv, FirstInLine
      <4>3. m \in 1..Len(replies)
        BY <1>1, <3>3
      <4> QED BY <1>9, <4>2, <4>3
    <3> QED BY <3>2, <3>3
  <2> QED BY <1>9, <2>1 DEF FirstInLine, NoId
<1>16. Counted'
  BY <1>3 DEF IInv, Counted, Untimed, Silent
<1>17. HeldIsTimed'
  BY <1>3 DEF IInv, HeldIsTimed
<1>18. LeaksOnlyWhenLost'
  <2>1. ASSUME NEW i \in 1..Len(posts), posts[i].listening, posts[i].text # "no json",
               i - 1 \notin lost'
        PROVE  UnderWay(i - 1)'
    <3>1. UnderWay(i - 1)
      BY <1>1, <1>3, <1>6, <2>1 DEF IInv, LeaksOnlyWhenLost
    <3>2. CASE \E k \in DOMAIN replies : replies[k].answers = i - 1
      BY <1>1, <1>3, <1>9, <3>2 DEF UnderWay
    <3>3. CASE \E k \in DOMAIN wire : wire[k].id = i - 1
      <4>1. PICK k \in 1..Len(wire) : wire[k].id = i - 1
        BY <1>1, <3>3
      <4>2. CASE k > t
        <5>1. k - t \in 1..(Len(wire) - t) /\ t + (k - t) = k
          BY <1>1, <1>2, <4>2
        <5>2. wire'[k - t].id = i - 1
          BY <1>4, <4>1, <5>1
        <5> QED BY <1>3, <1>4, <5>1, <5>2 DEF UnderWay
      <4>3. CASE ~(k > t)
        <5>1. k \in 1..t
          BY <1>1, <1>2, <4>3
        <5>2. ReadsWhole
          BY <1>6, <2>1, <4>1, <5>1
        <5>3. id = i - 1
          BY <1>2, <4>1, <5>1, <5>2 DEF id
        <5>4. Len(replies) + 1 \in 1..Len(replies') /\ Len(replies) + 1 \notin 1..Len(replies)
          <6>1. Len(replies') = Len(replies) + 1 /\ Len(replies) \in Nat
            BY <1>1, <1>9, <5>2
          <6> QED BY <6>1
        <5>5. replies'[Len(replies) + 1].answers = i - 1
          BY <1>9, <5>3, <5>4
        <5> QED BY <1>3, <1>9, <5>4, <5>5 DEF UnderWay
      <4> QED BY <4>2, <4>3
    <3> QED BY <3>1, <3>2, <3>3 DEF UnderWay
  <2> QED BY <1>1, <1>3, <2>1 DEF LeaksOnlyWhenLost
<1> QED BY <1>10, <1>11, <1>12, <1>13, <1>14, <1>15, <1>16, <1>17, <1>18, <1>19 DEF IInv

-----------------------------------------------------------------------------
(* The theorems *)

LEMMA StepInv == IInv /\ [Next]_vars => IInv'
<1> SUFFICES ASSUME IInv, [Next]_vars PROVE IInv'
  OBVIOUS
<1>1. CASE \E text \in Texts : BeforeSendHeaders(text) \/ HeadersReceived(text)
  BY <1>1, PostingInv
<1>2. CASE Click \/ ClickNotification
  BY <1>2, PostingInv
<1>3. CASE Receive
  BY <1>3, ReceiveInv
<1>4. CASE \E i \in DOMAIN posts : TimerFires(i)
  BY <1>4, TimerFiresInv
<1>5. CASE Write
  BY <1>5, WriteInv
<1>6. CASE ReadCommand
  BY <1>6, ReadCommandInv
<1>7. CASE SendCommand
  BY <1>7, SendCommandInv
<1>8. CASE Die
  BY <1>8, DieInv
<1>9. CASE Disconnect
  BY <1>9, DisconnectInv
<1>10. CASE UNCHANGED vars
  <2>1. TypeOK' /\ Counted'
    BY <1>10 DEF vars, IInv, TypeOK, Counted, Untimed, Silent
  <2> QED BY <1>10, <2>1
          DEF vars, IInv, Posted, Framed, Alternating, Ordered, Addressed, ReplyId, FirstInLine, Awaited,
              HeldIsTimed, LeaksOnlyWhenLost, UnderWay
<1> QED BY <1>1, <1>2, <1>3, <1>4, <1>5, <1>6, <1>7, <1>8, <1>9, <1>10 DEF Next

\* What holds between primo.js, the pipes and the handler in every reachable state.
THEOREM Invariant == Spec => []IInv
<1>1. Init => IInv
  BY InitInv
<1>2. IInv /\ [Next]_vars => IInv'
  BY StepInv
<1> QED BY <1>1, <1>2, PTL DEF Spec

\* Every state is of the declared types: primo.js's control centers and listeners
\* stay within what it posted, and the pipes hold what was written to them.
THEOREM AlwaysTyped == Spec => []TypeOK
<1>1. IInv => TypeOK
  BY DEF IInv
<1> QED BY <1>1, Invariant, PTL

\* A listener of callbackOnId stays behind for good only with a message that did
\* not parse, was dropped by the handler, or met a control center that is gone.
THEOREM LeaksAreLosses == Spec => []LeaksOnlyWhenLost
<1>1. IInv => LeaksOnlyWhenLost
  BY DEF IInv
<1> QED BY <1>1, Invariant, PTL

\* A web request that onBeforeSendHeaders holds has its two seconds running and its
\* listener waiting, whatever was lost and whoever died: what it takes to be let go.
THEOREM HeldStaysTimed == Spec => []HeldIsTimed
<1>1. IInv => HeldIsTimed
  BY DEF IInv
<1> QED BY <1>1, Invariant, PTL

\* Which steps call a listener back: only the arrival of a message with its id.
LEMMA OnlyReceiveCallsBack ==
  ASSUME IInv, [Next]_vars, NEW i \in 1..Len(posts), posts[i].listening, ~posts'[i].listening
  PROVE  Receive
<1>1. ASSUME \/ \E text \in Texts : BeforeSendHeaders(text) \/ HeadersReceived(text)
             \/ Click
             \/ ClickNotification
      PROVE  FALSE
  <2>1. PICK ps : Postable(ps) /\ Post(ps)
    BY <1>1, PostingPosts DEF IInv
  <2>2. posts'[i] = posts[i]
    BY <2>1, PostPosts DEF IInv
  <2>3. posts'[i].listening
    BY <2>2
  <2> QED BY <2>3
<1>2. ASSUME NEW k \in DOMAIN posts, TimerFires(k)
      PROVE  FALSE
  <2>1. k \in 1..Len(posts)
    BY <1>2, PostsDomain DEF IInv
  <2>2. posts'[i].listening = posts[i].listening
    BY <1>2, <2>1, TimerPosts
  <2> QED BY <2>2
<1>3. ASSUME posts' = posts
      PROVE  FALSE
  <2>1. posts'[i].listening
    BY <1>3
  <2> QED BY <2>1
<1>4. CASE Write \/ ReadCommand \/ SendCommand \/ Die \/ Disconnect \/ UNCHANGED vars
  BY <1>3, <1>4 DEF Write, ReadCommand, SendCommand, Die, Disconnect, vars
<1> QED BY <1>1, <1>2, <1>4 DEF Next

\* A reply of Executor::execute calls back the listener of the message it answers.
\* The exception is the first message, if it was dropped or did not parse: any later
\* message that does not parse is answered with its id.
THEOREM RepliesReachTheirOwn == Spec => OwnReply
<1>1. ASSUME IInv, [Next]_vars, NEW i \in DOMAIN posts,
             posts[i].listening, ~posts'[i].listening
      PROVE  \/ Head(replies).answers = i - 1
             \/ /\ i = 1 /\ posts[Head(replies).answers + 1].text = "no json"
                /\ (0 \in lost \/ posts[1].text = "no json")
  <2> DEFINE msg == Head(replies)
             j == msg.answers + 1
  <2>1. TypeOK /\ DOMAIN posts = 1..Len(posts) /\ Len(posts) \in 0..MaxPosts
        /\ DOMAIN replies = 1..Len(replies) /\ replies \in Seq(Replies)
    BY <1>1, PostsDomain DEF IInv, TypeOK
  <2>2. Receive /\ i \in 1..Len(posts)
    BY <1>1, <2>1, OnlyReceiveCallsBack
  <2>3. Fires(i, msg)
    <3>1. ASSUME ~Fires(i, msg) PROVE FALSE
      <4>1. posts'[i] = posts[i]
        BY <1>1, <2>2, <3>1, ReceivePosts
      <4>2. posts'[i].listening
        BY <1>1, <4>1
      <4> QED BY <1>1, <4>2
    <3> QED BY <3>1
  <2>4. msg.id = i - 1
    BY <2>3 DEF Fires
  <2>5. msg = replies[1] /\ 1 \in 1..Len(replies)
    <3>1. replies # <<>> /\ Len(replies) \in Nat
      BY <2>2, <2>1, PostsDomain DEF Receive
    <3> QED BY <2>1, <3>1, EmptySeq, HeadTailProperties
  <2>6. msg.answers \in Nat
    BY <2>1, <2>5, ReplyItems
  <2> HIDE DEF msg
  <2>7. /\ j \in 1..Len(posts) /\ msg.answers # NoId /\ msg.id = ReplyId(j)
    <3>1. msg.id # NoId
      BY <2>1, <2>2, <2>4, ExtensionAssumption DEF NoId
    <3> QED BY <1>1, <2>1, <2>5, <3>1, AnswersArePosted DEF IInv
  <2>8. CASE posts[j].text # "no json"
    <3>1. msg.id = j - 1
      BY <2>7, <2>8 DEF ReplyId
    <3>2. msg.answers = i - 1
      BY <2>2, <2>4, <2>6, <3>1
    <3> QED BY <3>2 DEF msg
  <2>9. CASE posts[j].text = "no json" /\ msg.answers # i - 1
    <3>1. msg.id = 0
      BY <2>7, <2>9 DEF ReplyId
    <3>2. i = 1
      BY <2>2, <2>4, <3>1
    <3>3. ASSUME 0 \notin lost, posts[1].text # "no json"
          PROVE  FALSE
      <4>1. posts # <<>> /\ posts[1].listening
        <5>1. posts[1].listening
          BY <1>1, <3>2
        <5>2. posts # <<>>
          BY <2>2
        <5> QED BY <5>1, <5>2
      <4>2. Awaited
        BY <3>3, <4>1 DEF Awaited
      <4>3. PICK m \in 1..1 : replies[m].answers = 0
        BY <1>1, <2>1, <2>5, <2>7, <4>2 DEF IInv, FirstInLine
      <4>4. replies[1].answers = 0
        BY <4>3
      <4>5. msg.answers = 0
        BY <2>5, <4>4
      <4>6. msg.answers # i - 1
        BY <2>9
      <4>7. i - 1 = 0
        BY <3>2
      <4> QED BY <4>5, <4>6, <4>7
    <3> QED BY <2>9, <3>2, <3>3 DEF msg
  <2> QED BY <2>8, <2>9 DEF msg
<1>2. IInv /\ [Next]_vars =>
        [\A i \in DOMAIN posts :
           posts[i].listening /\ ~posts'[i].listening =>
             LET msg == Head(replies)
             IN  \/ msg.answers = i - 1
                 \/ i = 1 /\ posts[msg.answers + 1].text = "no json"
                          /\ (0 \in lost \/ posts[1].text = "no json")]_vars
  BY <1>1
<1> QED BY <1>2, Invariant, PTL DEF Spec, OwnReply

\* A message that is whole in the pipe stays so while chunks are only added.
LEMMA MoreIsWritten ==
  ASSUME TypeOK, wire' \in Seq(Chunks), visible' \in Nat, visible' >= visible,
         \A k \in 1..Len(wire) : k \in 1..Len(wire') /\ wire'[k] = wire[k],
         NEW i \in DOMAIN posts, InPipe(i), i \in DOMAIN posts', posts'[i].text = posts[i].text
  PROVE  InPipe(i)'
<1>1. wire \in Seq(Chunks) /\ Len(wire) \in Nat /\ visible \in 0..Len(wire) /\ visible > 0
  BY PostsDomain DEF TypeOK, InPipe
<1>2. wire # <<>> /\ 1 \in 1..Len(wire)
  BY <1>1, EmptySeq
<1>3. wire' # <<>> /\ wire'[1] = wire[1]
  BY <1>2, EmptySeq
<1>4. Head(wire') = Head(wire)
  BY <1>1, <1>2, <1>3, HeadTailProperties
<1>5. PICK k \in 1..visible : wire[k] = [id |-> i - 1, part |-> "rest"]
  BY DEF InPipe
<1>6. k \in 1..visible' /\ k \in 1..Len(wire)
  BY <1>1, <1>5
<1>7. wire'[k] = [id |-> i - 1, part |-> "rest"]
  BY <1>5, <1>6
<1>8. visible' > 0
  BY <1>1
<1> QED BY <1>4, <1>6, <1>7, <1>8 DEF InPipe

\* The handler takes whole messages from where a message starts.
LEMMA ReadsOn ==
  ASSUME IInv, ReadCommand, NEW i \in DOMAIN posts, InPipe(i)
  PROVE  InPipe(i)' \/ \E k \in DOMAIN replies' : replies'[k].answers = i - 1
<1>1. TypeOK /\ DOMAIN wire = 1..Len(wire) /\ Len(wire) \in Nat /\ wire \in Seq(Chunks)
      /\ visible \in 0..Len(wire) /\ replies \in Seq(Replies)
      /\ DOMAIN posts = 1..Len(posts) /\ Len(posts) \in 0..MaxPosts
  BY PostsDomain DEF IInv, TypeOK
<1>2. PICK k \in 1..visible : wire[k] = [id |-> i - 1, part |-> "rest"]
  BY DEF InPipe
<1>3. wire # <<>> /\ 1 \in 1..Len(wire) /\ k \in 1..Len(wire)
  BY <1>1, <1>2, EmptySeq
<1>4. Head(wire) = wire[1] /\ Head(wire).part = "first"
  <2>1. Head(wire).part = "first"
    BY DEF InPipe
  <2>2. Head(wire) = wire[1]
    BY <1>1, <1>3, HeadTailProperties
  <2> QED BY <2>1, <2>2
<1>5. k # 1
  BY <1>2, <1>4
<1>6. visible > 1
  BY <1>1, <1>2, <1>5
<1>7. ReadsWhole /\ Taken = 2 /\ 2 \in 1..Len(wire)
  BY <1>1, <1>4, <1>6 DEF ReadsWhole, Taken
<1>8. /\ posts' = posts /\ wire' = SubSeq(wire, 2 + 1, Len(wire)) /\ visible' = visible - 2
  BY <1>7 DEF ReadCommand
<1>9. wire[2] = [id |-> wire[1].id, part |-> "rest"]
  <2>1. wire[1].part = "first" => wire[1 + 1] = [id |-> wire[1].id, part |-> "rest"]
    BY <1>1, <1>3 DEF IInv, Framed
  <2> QED BY <1>4, <2>1
<1>10. CASE k = 2
  <2>1. wire[1].id = i - 1
    BY <1>2, <1>9, <1>10
  <2>2. PICK news \in BOOLEAN : ReplyTo(wire[1].id + 1, news)
    BY <1>4, <1>7 DEF ReadCommand
  <2> DEFINE r == [id |-> ReplyId(wire[1].id + 1), answers |-> (wire[1].id + 1) - 1,
                   news |-> news]
  <2>3. replies' = Append(replies, r)
    BY <2>2 DEF ReplyTo
  <2>4. r.answers = i - 1
    BY <1>1, <2>1
  <2> HIDE DEF r
  <2>5. Len(replies) + 1 \in DOMAIN replies' /\ replies'[Len(replies) + 1] = r
    BY <1>1, <2>3
  <2> QED BY <2>4, <2>5
<1>11. CASE k # 2
  <2>1. k > 2 /\ k - 2 \in 1..(Len(wire) - 2) /\ 2 + (k - 2) = k /\ k - 2 \in 1..(visible - 2)
        /\ 1 \in 1..(Len(wire) - 2)
    BY <1>1, <1>2, <1>3, <1>5, <1>11
  <2>2. /\ wire' \in Seq(Chunks) /\ Len(wire') = Len(wire) - 2
        /\ \A m \in 1..(Len(wire) - 2) : wire'[m] = wire[2 + m]
    BY <1>1, <1>7, <1>8, Rested
  <2>3. wire'[k - 2] = [id |-> i - 1, part |-> "rest"]
    BY <1>2, <2>1, <2>2
  <2>4. Head(wire') = wire[2 + 1]
    <3>1. Len(wire') # 0 /\ wire'[1] = wire[2 + 1]
      BY <1>1, <2>1, <2>2
    <3>2. wire' # <<>>
      BY <3>1, EmptySeq
    <3> QED BY <2>2, <3>1, <3>2, HeadTailProperties
  <2>5. wire[2 + 1].part = "first"
    <3>1. 2 + 1 \in 1..Len(wire) /\ wire[2].part = "rest"
      BY <1>1, <1>9, <2>1
    <3> QED BY <1>1, <1>7, <3>1 DEF IInv, Alternating
  <2>6. visible' > 0 /\ k - 2 \in 1..visible'
    BY <1>1, <1>8, <2>1
  <2> QED BY <1>8, <2>3, <2>4, <2>5, <2>6 DEF InPipe
<1> QED BY <1>10, <1>11

\* What readCommand dropped does not reach what follows: a message that is whole in
\* the pipe, with nothing broken before it, stays there until its reply is sent.
THEOREM WholeStaysWhole == Spec => WholeIsKept
<1>1. ASSUME IInv, [Next]_vars, NEW i \in 1..MaxPosts, InPipe(i), alive'
      PROVE  InPipe(i)' \/ \E k \in DOMAIN replies' : replies'[k].answers = i - 1
  <2>1. /\ i \in DOMAIN posts /\ TypeOK /\ DOMAIN posts = 1..Len(posts)
        /\ Len(posts) \in 0..MaxPosts /\ wire \in Seq(Chunks) /\ Len(wire) \in Nat
        /\ visible \in 0..Len(wire) /\ visible \in Nat
    <3>1. TypeOK /\ i \in DOMAIN posts
      BY <1>1 DEF IInv, InPipe
    <3>2. wire \in Seq(Chunks) /\ visible \in 0..Len(wire)
      BY <3>1 DEF TypeOK
    <3>3. Len(wire) \in Nat
      BY <3>2
    <3>4. DOMAIN posts = 1..Len(posts) /\ Len(posts) \in 0..MaxPosts
      BY <3>1, PostsDomain
    <3> QED BY <3>1, <3>2, <3>3, <3>4
  <2>2. CASE \/ \E text \in Texts : BeforeSendHeaders(text) \/ HeadersReceived(text)
             \/ Click
             \/ ClickNotification
    <3>1. PICK ps : Postable(ps) /\ Post(ps)
      BY <2>1, <2>2, PostingPosts
    <3>2. /\ posts' \in Seq(Posts) /\ Len(posts') = Len(posts) + Len(ps)
          /\ posts'[i] = posts[i] /\ Len(ps) \in Nat
      BY <2>1, <3>1, PostPosts, LenProperties DEF Postable
    <3>3. i \in DOMAIN posts'
      <4>1. i \in 1..Len(posts')
        BY <2>1, <3>2
      <4> QED BY <3>2, <4>1, LenProperties
    <3>4. visible' = visible
      BY <3>1 DEF Post
    <3>5. /\ wire' \in Seq(Chunks)
          /\ \A k \in 1..Len(wire) : k \in 1..Len(wire') /\ wire'[k] = wire[k]
      <4>1. CASE alive
        BY <2>1, <3>1, <4>1, PostWire
      <4>2. CASE ~alive
        BY <2>1, <3>1, <4>2 DEF Post
      <4> QED BY <4>1, <4>2
    <3> QED BY <1>1, <2>1, <3>2, <3>3, <3>4, <3>5, MoreIsWritten
  <2>3. ASSUME wire' = wire, visible' = visible, i \in DOMAIN posts',
               posts'[i].text = posts[i].text
        PROVE  InPipe(i)'
    BY <1>1, <2>1, <2>3, MoreIsWritten
  <2>4. CASE Receive
    <3>1. /\ posts' \in Seq(Posts) /\ Len(posts') = Len(posts)
          /\ posts'[i].text = posts[i].text
      BY <1>1, <2>1, <2>4, ReceivePosts
    <3>2. i \in DOMAIN posts'
      BY <2>1, <3>1, LenProperties
    <3> QED BY <2>3, <2>4, <3>1, <3>2 DEF Receive
  <2>5. CASE \E k \in DOMAIN posts : TimerFires(k)
    <3>1. PICK k \in 1..Len(posts) : TimerFires(k)
      BY <2>1, <2>5
    <3>2. /\ posts' \in Seq(Posts) /\ Len(posts') = Len(posts)
          /\ posts'[i].text = posts[i].text
      BY <1>1, <2>1, <3>1, TimerPosts
    <3>3. i \in DOMAIN posts'
      BY <2>1, <3>2, LenProperties
    <3> QED BY <2>3, <3>1, <3>2, <3>3 DEF TimerFires
  <2>6. CASE Write
    <3>1. wire' = wire /\ posts' = posts /\ visible' \in Nat /\ visible' >= visible
      BY <2>1, <2>6 DEF Write
    <3> QED BY <1>1, <2>1, <3>1, MoreIsWritten
  <2>7. CASE ReadCommand
    BY <1>1, <2>1, <2>7, ReadsOn
  <2>8. CASE SendCommand \/ Disconnect \/ UNCHANGED vars
    BY <2>1, <2>3, <2>8 DEF SendCommand, Disconnect, vars
  <2>9. CASE Die
    BY <1>1, <2>9 DEF Die
  <2> QED BY <1>1, <2>2, <2>4, <2>5, <2>6, <2>7, <2>8, <2>9 DEF Next
<1>2. IInv /\ [Next]_vars =>
        [\A i \in 1..MaxPosts : KeepsWhole(i)]_vars
  BY <1>1 DEF KeepsWhole
<1> QED BY <1>2, Invariant, PTL DEF Spec, WholeIsKept
=============================================================================
