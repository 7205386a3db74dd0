------------------------------ MODULE Extension ------------------------------
(***************************************************************************)
(* browser/firefox/primo.js and the pipes between it and the control       *)
(* center: native-messaging-handler.cpp reads one message at a time and    *)
(* sends back what Executor::execute replies; its timer sends commands     *)
(* along the same pipe.                                                    *)
(*                                                                         *)
(* Numbering: the message with id n is posts[n + 1].  A message is written *)
(* to the pipe as two chunks, a first one with the length and some of the  *)
(* text, and the rest: read() returns what is there, so a message is whole *)
(* for the handler only if both were written before it looked.  What the   *)
(* messages say is in Executor.tla; here they are answered.                *)
(*                                                                         *)
(* The browser (ports, timers, promises, web requests) is external.  A     *)
(* request it holds for the extension goes out when the promise is         *)
(* settled: with the header, or as it was if the promise was rejected.     *)
(***************************************************************************)
EXTENDS Naturals, FiniteSets, Sequences, SequencesExt

CONSTANT MaxPosts   \* bound: messages the extension posts

ASSUME ExtensionAssumption == MaxPosts \in Nat

VARIABLES posts,      \* what was posted, with its listener and its timer
          wire,       \* chunks on their way to the control center
          visible,    \* how many of them are in the pipe
          replies,    \* messages of the control center, in the pipe back
          alive,      \* the control center
          connected,  \* the port
          spares,     \* control centers that summon() started
          announced,  \* listeners of notifications.onClicked
          lost        \* messages the handler has dropped: a history, for the properties

vars == <<posts, wire, visible, replies, alive, connected, spares, announced, lost>>

Cmds == {"sign", "site", "summon"}

\* The JSON is put together from URLs and headers as they are: it may not
\* parse, or have a field of the wrong type.
Texts == {"fine", "wrong type", "no json"}

\* Where a web request that waits for a signature is.
Outcomes == {"held", "signed", "bare", "none"}

Posts == [cmd : Cmds, text : Texts, listening : BOOLEAN, timer : BOOLEAN, outcome : Outcomes]

Ids == 0..(MaxPosts - 1)

Chunks == [id : Ids, part : {"first", "rest"}]

\* For a command, which has no id.
NoId == MaxPosts

\* A reply's id, the message it answers, and whether it says that the site is
\* new (and the site had a name).
Replies == [id : Ids \cup {NoId}, answers : Ids \cup {NoId}, news : BOOLEAN]

Command == [id |-> NoId, answers |-> NoId, news |-> FALSE]

TypeOK == /\ posts \in Seq(Posts) /\ Len(posts) <= MaxPosts
          /\ wire \in Seq(Chunks)
          /\ visible \in 0..Len(wire)
          /\ replies \in Seq(Replies)
          /\ alive \in BOOLEAN /\ connected \in BOOLEAN
          /\ spares \in 0..MaxPosts
          /\ announced \in 0..MaxPosts
          /\ lost \subseteq Ids

Init == /\ posts = <<>>
        /\ wire = <<>>
        /\ visible = 0
        /\ replies = <<>>
        /\ alive = TRUE
        /\ connected = TRUE
        /\ spares = 0
        /\ announced = 0
        /\ lost = {}

-----------------------------------------------------------------------------
(* Posting *)

\* The chunks of the next n messages: chunk c is of message (c - 1) \div 2.
NextChunks(n) == [c \in 1..(2 * n) |-> [id |-> Len(posts) + (c - 1) \div 2,
                                       part |-> IF c % 2 = 1 THEN "first" ELSE "rest"]]

\* callbackOnId and postMessage, which throws when the port is disconnected:
\* listener and timer are there already.  The throw rejects the promise.  Before
\* the browser has noticed that nobody reads any more, messages go nowhere.
Post(ps) ==
  /\ Len(posts) + Len(ps) <= MaxPosts
  /\ posts' = posts \o [k \in DOMAIN ps |->
                          [ps[k] EXCEPT !.outcome = IF ps[k].cmd # "sign" THEN "none"
                                                    ELSE IF connected THEN "held" ELSE "bare"]]
  /\ wire' = IF alive THEN wire \o NextChunks(Len(ps)) ELSE wire
  /\ UNCHANGED <<visible, replies, alive, connected, spares, announced, lost>>

NewPost(cmd, text, timer) ==
  [cmd |-> cmd, text |-> text, listening |-> TRUE, timer |-> timer, outcome |-> "none"]

\* onBeforeSendHeaders, of the user's requests and of those that commands of
\* the control center make.  A URL is a string, of any text.
BeforeSendHeaders(text) == /\ text # "wrong type"
                           /\ Post(<<NewPost("sign", text, TRUE)>>)

\* onHeadersReceived, of a response that names a mining page.
HeadersReceived(text) == Post(<<NewPost("site", text, FALSE)>>)

Summons(n) == Post([k \in 1..n |-> NewPost("summon", "fine", TRUE)])

Click == Summons(1)

\* Every onClicked listener takes any notification for its own.
ClickNotification == /\ announced > 0
                     /\ Summons(announced)

-----------------------------------------------------------------------------
(* Listening *)

\* Faulty: only the first listener that is still there sees a message.
FiresFirst(i, msg) == /\ posts[i].listening
                      /\ \A k \in 1..(i - 1) : ~posts[k].listening
                      /\ msg.id # NoId

\* The handler of callbackOnId compares with ==: the string "7" of a reply and
\* the number 7 of an error are the same.
Fires(i, msg) == posts[i].listening /\ msg.id = i - 1

\* A message arrives: whose listener has its id is removed and called back.  An
\* error of id 0 is taken for a command as well, an unknown one.
Receive ==
  /\ connected
  /\ replies # <<>>
  /\ LET msg == Head(replies)
         fired == {i \in DOMAIN posts : Fires(i, msg)}
     IN  /\ posts' = [i \in DOMAIN posts |->
                        IF i \in fired
                          THEN [posts[i] EXCEPT !.listening = FALSE,
                                                !.timer = FALSE,
                                                !.outcome = IF @ = "held" THEN "signed" ELSE @]
                          ELSE posts[i]]
         /\ announced' = announced
              + Cardinality({i \in fired : posts[i].cmd = "site" /\ msg.news})
  /\ replies' = Tail(replies)
  /\ UNCHANGED <<wire, visible, alive, connected, spares, lost>>

\* Faulty: the timeout of a signature is only logged.
ExpiredHeld(p) == [p EXCEPT !.timer = FALSE]

\* A timeout leaves the listener where it is.
Expired(p) == [p EXCEPT !.timer = FALSE,
                        !.outcome = IF @ = "held" THEN "bare" ELSE @]

\* Two seconds without a signature, half a second without an answer to summon,
\* which then starts a control center and forgets the port to it.
TimerFires(i) ==
  /\ posts[i].timer
  /\ posts' = [posts EXCEPT ![i] = Expired(@)]
  /\ spares' = IF posts[i].cmd = "summon" THEN spares + 1 ELSE spares
  /\ UNCHANGED <<wire, visible, replies, alive, connected, announced, lost>>

-----------------------------------------------------------------------------
(* The pipes and the control center *)

\* The browser writes on, at its own pace.
Write == /\ visible < Len(wire)
         /\ visible' = visible + 1
         /\ UNCHANGED <<posts, wire, replies, alive, connected, spares, announced, lost>>

\* Faulty: every error is answered with the id that is there to begin with.
ReplyIdsOfErrorsLost(i) == IF posts[i].text = "fine" THEN i - 1 ELSE 0

\* execute: the id is "0" until the message has been parsed.
ReplyId(i) == IF posts[i].text = "no json" THEN 0 ELSE i - 1

\* Only a site that was fine is news.
ReplyTo(i, news) == /\ news => posts[i].cmd = "site" /\ posts[i].text = "fine"
                    /\ replies' = Append(replies, [id |-> ReplyId(i),
                                                   answers |-> i - 1,
                                                   news |-> news])

\* Faulty: it is not checked how much was read.
TakenUnchecked == 2

\* How many chunks readCommand takes: a message, its first chunk, or, when it
\* takes some text for a length (far more than a pipe holds), all there is.  A
\* read() that finds nothing waits for more: it is a step that comes later.
Taken == CASE Head(wire).part = "first" -> IF visible > 1 THEN 2 ELSE 1
           [] Head(wire).part = "rest" -> visible

\* Faulty: all that is there is read, and is an error if it is not one message.
ReadsWholeAlone == Head(wire).part = "first" /\ visible = 2

ReadsWhole == Head(wire).part = "first" /\ visible > 1

ReadCommand ==
  /\ alive
  /\ visible > 0
  /\ IF ReadsWhole
       THEN \E news \in BOOLEAN : ReplyTo(Head(wire).id + 1, news)
       ELSE UNCHANGED replies
  /\ lost' = IF ReadsWhole THEN lost ELSE lost \cup {wire[k].id : k \in 1..Taken}
  /\ wire' = SubSeq(wire, Taken + 1, Len(wire))
  /\ visible' = visible - Taken
  /\ UNCHANGED <<posts, alive, connected, spares, announced>>

\* tick sends an info command, or onHashFound a nonce.  (Bound: when nothing else
\* is in the pipe; one sent after a reply is like one sent once that is read.)
SendCommand == /\ alive
               /\ replies = <<>>
               /\ replies' = Append(replies, Command)
               /\ UNCHANGED <<posts, wire, visible, alive, connected, spares, announced, lost>>

\* The control center is killed, or crashes (closing its window only hides it).
\* What it did not read is gone.
Die == /\ alive
       /\ alive' = FALSE
       /\ wire' = <<>>
       /\ visible' = 0
       /\ UNCHANGED <<posts, replies, connected, spares, announced, lost>>

\* The browser has read what there was to read.
Disconnect == /\ ~alive
              /\ connected
              /\ replies = <<>>
              /\ connected' = FALSE
              /\ UNCHANGED <<posts, wire, visible, replies, alive, spares, announced, lost>>

-----------------------------------------------------------------------------
Next == \/ \E text \in Texts : BeforeSendHeaders(text) \/ HeadersReceived(text)
        \/ Click
        \/ ClickNotification
        \/ Receive
        \/ \E i \in DOMAIN posts : TimerFires(i)
        \/ Write
        \/ ReadCommand
        \/ SendCommand
        \/ Die
        \/ Disconnect

Spec == Init /\ [][Next]_vars

\* Time passes, the browser writes and reads its pipes, and the control center's
\* event loop reads while it runs.  With a single chunk in the pipe it may hang in
\* the middle of readCommand, and with it all of the control center, until there is
\* more: stdin blocks, and the chunk may be just four bytes, a length or taken for one.
Fairness == /\ \A i \in 1..MaxPosts : WF_vars(i \in DOMAIN posts /\ TimerFires(i))
            /\ WF_vars(Write)
            /\ WF_vars(visible > 1 /\ ReadCommand)
            /\ WF_vars(Receive)
            /\ WF_vars(Disconnect)

FairSpec == Spec /\ Fairness
-----------------------------------------------------------------------------
(* Safety *)

\* A listener fires on the reply to its own message: no request goes out with
\* another one's signature, and no site's news are told of another.  The
\* exception is the first message, if it was dropped or did not parse: any later
\* message that does not parse is answered with its id.
OwnReply ==
  [][\A i \in DOMAIN posts :
       posts[i].listening /\ ~posts'[i].listening =>
         LET msg == Head(replies)
         IN  \/ msg.answers = i - 1
             \/ i = 1 /\ posts[msg.answers + 1].text = "no json"
                      /\ (0 \in lost \/ posts[1].text = "no json")]_vars

UnderWay(id) == \/ \E k \in DOMAIN wire : wire[k].id = id
                \/ \E k \in DOMAIN replies : replies[k].answers = id

\* A listener stays behind for good only with a message that did not parse, was
\* dropped by the handler, or met a control center that is gone: lost messages
\* and late replies are all there is to leak.
LeaksOnlyWhenLost ==
  \A i \in DOMAIN posts :
    posts[i].listening => \/ UnderWay(i - 1)
                          \/ posts[i].text = "no json"
                          \/ i - 1 \in lost
                          \/ ~alive

\* The message is in the pipe, and what is before it starts where a message does.
InPipe(i) == /\ i \in DOMAIN posts
             /\ posts[i].text # "no json"
             /\ visible > 0
             /\ Head(wire).part = "first"
             /\ \E k \in 1..visible : wire[k] = [id |-> i - 1, part |-> "rest"]

KeepsWhole(i) == InPipe(i) /\ alive' =>
                   InPipe(i)' \/ \E k \in DOMAIN replies' : replies'[k].answers = i - 1

\* What the handler dropped before does not reach what follows: a message that is
\* whole in the pipe, with nothing broken before it, is not lost, nor broken by what
\* is read and written meanwhile; it stays there until its reply is sent.
WholeIsKept == [][\A i \in 1..MaxPosts : KeepsWhole(i)]_vars

\* When summon finds the control center not responding it restarts it: a dead
\* port is replaced then.  The code does not have this: it starts a control
\* center, and goes on posting to the dead port.
RestartReconnects == [][~connected /\ spares' > spares => connected']_vars

-----------------------------------------------------------------------------
(* Liveness *)

Held(i) == i \in DOMAIN posts /\ posts[i].outcome = "held"

\* No web request is held for ever, whatever becomes of the control center.
HeldRequestsGoOut == \A i \in 1..MaxPosts : Held(i) ~> ~Held(i)

Answered(i) == i \in DOMAIN posts /\ ~posts[i].listening

\* The handler finds back to where messages start: whatever it dropped before, a
\* message that is whole in the pipe is answered while the control center runs.
WholeIsAnswered == \A i \in 1..MaxPosts : InPipe(i) ~> (Answered(i) \/ ~alive)
=============================================================================
