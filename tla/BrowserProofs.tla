--------------------------- MODULE BrowserProofs ----------------------------
(***************************************************************************)
(* Proofs about Browser: for any number of messages and any number of      *)
(* attempts to connect, wherever the timeouts fall in the stream.          *)
(***************************************************************************)
EXTENDS Browser, TLAPS, SequenceTheorems

(***************************************************************************)
(* Message ids tell the answers apart: Chrome answers in the order it was  *)
(* asked, so that an answer in the socket is older than what is still      *)
(* unanswered, and the id awaited is that of the last message.             *)
(***************************************************************************)
Old(x) ==
  /\ x.id <= mid /\ x.id <= MaxId
  /\ \A j \in 1..Len(asked) : x.id < asked[j].id

Ids ==
  /\ \A j \in 1..Len(asked) : asked[j].id <= mid /\ asked[j].id <= MaxId
  /\ \A i, j \in 1..Len(asked) : i < j => asked[i].id < asked[j].id
  /\ \A j \in 1..Len(cut) : Old(cut[j])
  /\ \A j \in 1..Len(stream) : Old(stream[j])

(* What is in the socket is the end of a sequence of whole frames. *)
Frames ==
  /\ \A j \in 1..(Len(stream) - 1) :
       stream[j].part = "head" => stream[j + 1].part = "body"
  /\ stream # << >> /\ stream[Len(stream)].part = "head" => cut # << >>

(* What the awaited heartbeat may be: the page's, later than all published. *)
NewBeat(v) == v = V("none") \/ (v.is = "beat" /\ v.n = page.beat /\ v.n > top)

(* What the expression the workload evaluates may return. *)
Good(v) ==
  /\ pc = "beat" => NewBeat(v)
  /\ pc = "sess" => Held(v, page.sess)
  /\ pc = "ls" => Held(v, page.ls)

Answers ==
  waiting =>
    /\ pc \in Setup \cup Round
    /\ \A j \in 1..Len(asked) : asked[j].id = mid => asked[j].what = pc
    /\ \A j \in 1..Len(cut) : cut[j].id = mid => Good(cut[j].val)
    /\ \A j \in 1..Len(stream) :
         stream[j].id = mid /\ stream[j].part = "body" => Good(stream[j].val)

(* The session's expression is evaluated before the first round. *)
Session ==
  /\ \A j \in 1..Len(asked) : asked[j].what = "session" =>
       pc = "done" \/ (pc = "session" /\ waiting /\ asked[j].id = mid)
  /\ token <=> pc \in Round \cup {"publish"}
  /\ file.stage \in {"token-set", "line"} => token
  /\ file.stage = "token-set" => file.beat.n = 0
  /\ fork.done => token

(* While the answers to the heartbeat of a round are awaited or there, no  *)
(* other heartbeat is left to evaluate: what the round has got so far.     *)
Gathered ==
  /\ pc = "beat" => got = << >>
  /\ pc = "sess" => Len(got) = 1
  /\ pc = "ls" => Len(got) = 2
  /\ pc = "publish" => Len(got) = 3 /\ Held(got[3], page.ls)
  /\ pc \in {"sess", "ls", "publish"} => NewBeat(got[1])
  /\ pc \in {"ls", "publish"} => Held(got[2], page.sess)
  /\ pc \in {"sess", "ls", "publish"} =>
       \A j \in 1..Len(asked) : asked[j].what # "beat"

(* Nothing greater than the page's heartbeat is published, and what is     *)
(* published after the first check is at least the fork's.                 *)
Probed ==
  /\ top <= page.beat
  /\ ~token => top = 0
  /\ Numeric(file) => file.beat.n = top
  /\ fork.done => fork.top <= top
  /\ fork.done => fork.beat <= page.beat
  /\ probe # << >> => fork.done
  /\ Numeric(file) /\ probe # << >> /\ Numeric(probe[1]) /\ file.beat.n > probe[1].beat.n
       => file.beat.n >= fork.beat
  /\ Len(probe) = 2 /\ Numeric(probe[1]) /\ Numeric(probe[2]) /\ probe[2].beat.n > probe[1].beat.n
       => probe[2].beat.n >= fork.beat
  /\ \A j \in 1..Len(probe) :
       /\ probe[j].stage = "line" /\ probe[j].ls = V("token") => page.ls
       /\ probe[j].stage = "token-set" => probe[j].beat.n = 0
       /\ Numeric(probe[j]) => fork.top <= probe[j].beat.n /\ probe[j].beat.n <= page.beat

(* A connection is made in an attempt that is left. *)
Attempts == pc = "handshake" => tries > 0

BrowserInv ==
  /\ TypeOK /\ Attempts /\ Ids /\ Frames /\ Answers /\ Session /\ Gathered /\ Probed
  /\ PublishedIsReal

-----------------------------------------------------------------------------
(* Types of what is in the queues. *)
Ask == [id : Nat, what : Setup \cup Round]
Answer == [id : Nat, val : Value]
Part == [part : {"head", "body"}, id : Nat, val : Value]

(* From(s, k) is s without its first k elements. *)
LEMMA FromIsSuffix ==
  ASSUME NEW S, NEW s \in Seq(S), NEW k \in 0..Len(s)
  PROVE  /\ From(s, k) \in Seq(S)
         /\ Len(From(s, k)) = Len(s) - k
         /\ \A j \in 1..(Len(s) - k) : From(s, k)[j] = s[k + j]
<1>1. /\ Len(s) \in Nat /\ k \in Nat /\ k <= Len(s)
      /\ \A i \in (k + 1)..Len(s) : s[i] \in S
  OBVIOUS
<1>2. /\ From(s, k) \in Seq(S)
      /\ Len(From(s, k)) = IF k + 1 <= Len(s) THEN Len(s) - (k + 1) + 1 ELSE 0
      /\ \A i \in 1..(Len(s) - (k + 1) + 1) : From(s, k)[i] = s[k + 1 + i - 1]
  BY <1>1, SubSeqProperties, k + 1 \in Int, Len(s) \in Int DEF From
<1> QED
  BY <1>1, <1>2

(* Values of the page are values. *)
LEMMA Values ==
  /\ \A k \in {"nav", "ready", "ok", "beat", "token", "none"} : V(k) \in Value
  /\ \A b, t, l \in Value : Line(b, t, l) \in Files
  /\ TokenSet \in Files /\ TokenSet.stage = "token-set" /\ TokenSet.beat = [is |-> "beat", n |-> 0]
  /\ \A s \in {"launched", "no-cdp", "eval-failed", "loop-failed"} :
       Stage(s) \in Files /\ Stage(s).stage = s
<1>1. \A k \in {"nav", "ready", "ok", "beat", "token", "none"} : V(k) \in Value
  BY DEF V, Value
<1>2. [is |-> "beat", n |-> 0] \in Value /\ V("token") \in Value
  BY <1>1 DEF Value
<1>3. TokenSet \in Files /\ TokenSet.stage = "token-set" /\ TokenSet.beat = [is |-> "beat", n |-> 0]
  BY <1>2 DEF TokenSet, Line, Files
<1> QED
  BY <1>1, <1>3 DEF Line, Stage, Files

LEMMA InitBrowser == Init => BrowserInv
<1> SUFFICES ASSUME Init PROVE BrowserInv
  OBVIOUS
<1>1. file \in Files /\ file.stage = "launched"
  BY Values DEF Init
<1>2. TypeOK
  <2>1. mid \in 0..(MaxId + 1) /\ tries \in 0..Retries
    BY BrowserAssumption DEF Init
  <2>2. page \in [sess : BOOLEAN, ls : BOOLEAN, beat : Nat]
    BY DEF Init
  <2>4. fork \in [done : BOOLEAN, beat : Nat, top : Nat] /\ top \in Nat
    BY DEF Init
  <2>3. /\ got \in Seq(Value) /\ asked \in Seq([id : Nat, what : Setup \cup Round])
        /\ cut \in Seq([id : Nat, val : Value])
        /\ stream \in Seq([part : {"head", "body"}, id : Nat, val : Value])
        /\ probe \in Seq(Files) /\ Len(probe) <= 2
    BY DEF Init
  <2> QED
    BY <1>1, <2>1, <2>2, <2>3, <2>4 DEF Init, TypeOK
<1>3. Probed
  BY <1>1 DEF Init, Probed, Numeric
<1>4. Session
  BY <1>1 DEF Init, Session, Round
<1>5. PublishedIsReal
  BY <1>1 DEF PublishedIsReal
<1>6. Attempts /\ Ids /\ Frames /\ Answers /\ Gathered
  BY DEF Init, Attempts, Ids, Frames, Answers, Gathered
<1> QED
  BY <1>2, <1>3, <1>4, <1>5, <1>6 DEF BrowserInv

-----------------------------------------------------------------------------
(* The queues, as sequences. *)
LEMMA Queues ==
  ASSUME TypeOK
  PROVE  /\ mid \in Nat /\ MaxId \in Nat
         /\ asked \in Seq(Ask) /\ Len(asked) \in Nat
         /\ cut \in Seq(Answer) /\ Len(cut) \in Nat
         /\ stream \in Seq(Part) /\ Len(stream) \in Nat
         /\ \A j \in 1..Len(asked) : asked[j] \in Ask /\ asked[j].id \in Nat
         /\ \A j \in 1..Len(cut) : cut[j] \in Answer /\ cut[j].id \in Nat
         /\ \A j \in 1..Len(stream) : stream[j] \in Part /\ stream[j].id \in Nat
<1>1. mid \in Nat /\ MaxId \in Nat
  BY BrowserAssumption DEF TypeOK
<1>2. asked \in Seq(Ask) /\ cut \in Seq(Answer) /\ stream \in Seq(Part)
  BY DEF TypeOK, Ask, Answer, Part
<1>3. /\ \A x \in Ask : x.id \in Nat
      /\ \A x \in Answer : x.id \in Nat
      /\ \A x \in Part : x.id \in Nat
  BY DEF Ask, Answer, Part
<1>4. /\ \A j \in 1..Len(asked) : asked[j] \in Ask
      /\ \A j \in 1..Len(cut) : cut[j] \in Answer
      /\ \A j \in 1..Len(stream) : stream[j] \in Part
      /\ Len(asked) \in Nat /\ Len(cut) \in Nat /\ Len(stream) \in Nat
  BY <1>2
<1> QED
  BY <1>1, <1>2, <1>3, <1>4

(* The workload reads k parts of the socket: what is left is as good. *)
LEMMA ReadParts ==
  ASSUME BrowserInv, NEW k \in 0..Len(stream), stream' = From(stream, k),
         UNCHANGED <<mid, asked, cut>>
  PROVE  /\ stream' \in Seq(Part) /\ Ids' /\ Frames'
         /\ \A j \in 1..Len(stream') :
              k + j \in 1..Len(stream) /\ stream'[j] = stream[k + j]
<1>0. TypeOK /\ Ids /\ Frames
  BY DEF BrowserInv
<1> USE Queues, <1>0
<1>1. /\ stream' \in Seq(Part) /\ Len(stream') = Len(stream) - k
      /\ \A j \in 1..(Len(stream) - k) : stream'[j] = stream[k + j]
  BY FromIsSuffix
<1>2. \A j \in 1..Len(stream') : k + j \in 1..Len(stream) /\ stream'[j] = stream[k + j]
  BY <1>1
<1>3. Ids'
  BY <1>1, <1>2 DEF Ids, Old
<1>4. \A j \in 1..(Len(stream') - 1) : stream'[j].part = "head" => stream'[j + 1].part = "body"
  <2> SUFFICES ASSUME NEW j \in 1..(Len(stream') - 1), stream'[j].part = "head"
               PROVE  stream'[j + 1].part = "body"
    OBVIOUS
  <2>1. j \in 1..Len(stream') /\ j + 1 \in 1..Len(stream')
    BY <1>1
  <2>2. stream'[j] = stream[k + j] /\ stream'[j + 1] = stream[k + (j + 1)]
    BY <2>1, <1>2
  <2>3. k + j \in 1..(Len(stream) - 1) /\ k + (j + 1) = (k + j) + 1
    BY <1>1
  <2> QED
    BY <2>2, <2>3 DEF Frames
<1>5. stream' # << >> /\ stream'[Len(stream')].part = "head" => cut' # << >>
  <2> SUFFICES ASSUME stream' # << >>, stream'[Len(stream')].part = "head"
               PROVE  cut # << >>
    OBVIOUS
  <2>1. Len(stream') \in 1..Len(stream') /\ Len(stream) # 0
    BY <1>1
  <2>a. stream'[Len(stream')] = stream[k + Len(stream')]
    BY <2>1, <1>2
  <2>b. k + Len(stream') = Len(stream)
    BY <1>1
  <2>2. stream'[Len(stream')] = stream[Len(stream)]
    BY <2>a, <2>b
  <2>3. stream # << >>
    BY <2>1
  <2> QED
    BY <2>2, <2>3 DEF Frames
<1> QED
  BY <1>1, <1>2, <1>3, <1>4, <1>5 DEF Frames

(* The answer awaited is the last one: nothing is unanswered then. *)
LEMMA AwaitedIsLast ==
  ASSUME BrowserInv, NEW j \in 1..Len(stream), stream[j].id = mid
  PROVE  asked = << >>
<1>1. TypeOK /\ Ids
  BY DEF BrowserInv
<1>2. ~ (1 \in 1..Len(asked))
  BY <1>1, Queues DEF Ids, Old
<1> QED
  BY <1>1, <1>2, Queues

-----------------------------------------------------------------------------
(* Until the websocket is there nothing was asked of the page. *)
LEMMA BeforeTheSocket ==
  ASSUME BrowserInv, pc \in {"connect", "handshake"},
         pc' \in {"connect", "handshake", "spin", "navigate", "done"},
         tries' \in 0..Retries, Attempts',
         file' = file \/ file' = Stage("no-cdp"),
         UNCHANGED <<waiting, mid, got, browser, token, top, fork, probe>>
  PROVE  BrowserInv'
<1> USE DEF BrowserInv, browser
<1>1. /\ ~waiting /\ ~token /\ ~fork.done /\ probe = << >>
      /\ file.stage \notin {"token-set", "line"}
  BY DEF Answers, Session, Setup, Round, Probed
<1>2. file' \in Files /\ file'.stage \notin {"token-set", "line"}
  BY <1>1, Values DEF TypeOK
<1>3. TypeOK'
  BY <1>2 DEF TypeOK, Setup, Round
<1>4. Ids' /\ Frames'
  BY DEF Ids, Old, Frames
<1>5. Answers'
  BY <1>1 DEF Answers
<1>6. Session'
  BY <1>1, <1>2 DEF Session, Round
<1>7. Gathered' /\ Probed' /\ PublishedIsReal'
  BY <1>1, <1>2 DEF Gathered, Probed, PublishedIsReal, Numeric
<1> QED
  BY <1>3, <1>4, <1>5, <1>6, <1>7

LEMMA ConnectStep ==
  BrowserInv /\ (Connect \/ Upgraded \/ ConnectFails \/ HandshakeSpins \/ NoCdp) => BrowserInv'
<1> SUFFICES ASSUME BrowserInv, Connect \/ Upgraded \/ ConnectFails \/ HandshakeSpins \/ NoCdp
             PROVE  BrowserInv'
  OBVIOUS
<1>1. tries \in 0..Retries /\ Retries \in Nat
  BY BrowserAssumption DEF BrowserInv, TypeOK
<1>2. CASE Connect \/ Upgraded \/ HandshakeSpins \/ NoCdp
  BY <1>1, <1>2, BeforeTheSocket DEF Connect, Upgraded, HandshakeSpins, NoCdp, disk, spike, Attempts
<1>3. CASE ConnectFails
  <2>1. tries > 0 /\ pc \in {"connect", "handshake"} /\ pc' = "connect" /\ tries' = tries - 1
    BY <1>3 DEF ConnectFails, BrowserInv, Attempts
  <2> QED
    BY <1>1, <1>3, <2>1, BeforeTheSocket DEF ConnectFails, disk, spike, Attempts
<1> QED
  BY <1>2, <1>3

-----------------------------------------------------------------------------
(* A new message has an id no other message or answer has. *)
LEMMA SendStep == BrowserInv /\ Send => BrowserInv'
<1> SUFFICES ASSUME BrowserInv, Send PROVE BrowserInv'
  OBVIOUS
<1> USE DEF BrowserInv
<1>0. /\ UNCHANGED <<pc, tries, got, chrome, cut, stream, page, token, file, top, fork, probe>>
      /\ waiting' = TRUE /\ ~waiting /\ pc \in Setup \cup Round
  BY DEF Send, disk, spike
<1>1. CASE mid >= MaxId
  <2>1. mid' = MaxId + 1 /\ asked' = asked
    BY <1>1, Queues DEF Send
  <2>2. TypeOK'
    BY <1>0, <2>1, Queues DEF TypeOK
  <2>3. Ids' /\ Frames'
    BY <1>0, <2>1, Queues DEF Ids, Old, Frames
  <2>4. Answers'
    BY <1>0, <2>1, Queues DEF Answers, Ids, Old
  <2>5. Session'
    BY <1>0, <2>1 DEF Session
  <2>6. Attempts' /\ Gathered' /\ Probed' /\ PublishedIsReal'
    BY <1>0, <2>1 DEF Attempts, Gathered, NewBeat, Probed, PublishedIsReal, Numeric, Held
  <2> QED
    BY <2>2, <2>3, <2>4, <2>5, <2>6
<1>2. CASE mid < MaxId
  <2> DEFINE q == [id |-> mid + 1, what |-> pc]
  <2>1. mid' = mid + 1 /\ asked' = Append(asked, q)
    BY <1>2 DEF Send
  <2>2. q \in Ask /\ q.id = mid + 1 /\ q.what = pc
    BY <1>0, Queues DEF Ask
  <2> HIDE DEF q
  <2>3. /\ asked' \in Seq(Ask) /\ Len(asked') = Len(asked) + 1
        /\ \A j \in 1..Len(asked) : asked'[j] = asked[j]
        /\ asked'[Len(asked) + 1] = q
    BY <2>1, <2>2, Queues, AppendProperties
  <2>4. \A j \in 1..Len(asked') :
          \/ j \in 1..Len(asked) /\ asked'[j] = asked[j]
          \/ j = Len(asked) + 1 /\ asked'[j] = q
    BY <2>3, Queues
  <2>5. TypeOK'
    BY <1>0, <1>2, <2>1, <2>3, Queues DEF TypeOK, Ask
  <2>6. Ids'
    <3>1. \A j \in 1..Len(asked') : asked'[j].id <= mid' /\ asked'[j].id <= MaxId
      BY <1>2, <2>1, <2>2, <2>4, Queues DEF Ids
    <3>2. \A i, j \in 1..Len(asked') : i < j => asked'[i].id < asked'[j].id
      <4> SUFFICES ASSUME NEW i \in 1..Len(asked'), NEW j \in 1..Len(asked'), i < j
                   PROVE  asked'[i].id < asked'[j].id
        OBVIOUS
      <4>1. i \in 1..Len(asked) /\ asked'[i] = asked[i]
        BY <2>3, <2>4, Queues
      <4>2. CASE j \in 1..Len(asked) /\ asked'[j] = asked[j]
        BY <4>1, <4>2 DEF Ids
      <4>3. CASE asked'[j] = q
        <5>1. asked[i].id <= mid /\ asked[i].id \in Nat
          BY <4>1, Queues DEF Ids
        <5> QED
          BY <4>1, <4>3, <5>1, <2>2, Queues
      <4> QED
        BY <4>2, <4>3, <2>4
    <3>3. \A x \in Answer \cup Part : Old(x) => Old(x)'
      <4> SUFFICES ASSUME NEW x \in Answer \cup Part, Old(x) PROVE Old(x)'
        OBVIOUS
      <4>1. x.id \in Nat
        BY DEF Answer, Part
      <4> QED
        BY <4>1, <2>1, <2>2, <2>4, Queues DEF Old
    <3>4. /\ \A j \in 1..Len(cut) : cut[j] \in Answer \cup Part /\ Old(cut[j])
          /\ \A j \in 1..Len(stream) : stream[j] \in Answer \cup Part /\ Old(stream[j])
      BY Queues DEF Ids
    <3>5. /\ \A j \in 1..Len(cut') : Old(cut[j])'
          /\ \A j \in 1..Len(stream') : Old(stream[j])'
      BY <1>0, <3>3, <3>4 DEF Old
    <3> QED
      BY <1>0, <3>1, <3>2, <3>5 DEF Ids
  <2>7. Answers'
    <3>1. \A j \in 1..Len(asked') : asked'[j].id = mid' => asked'[j].what = pc
      BY <2>1, <2>2, <2>4, Queues DEF Ids
    <3>2. /\ \A j \in 1..Len(cut) : cut[j].id # mid'
          /\ \A j \in 1..Len(stream) : stream[j].id # mid'
      <4>1. /\ \A j \in 1..Len(cut) : cut[j].id <= mid
            /\ \A j \in 1..Len(stream) : stream[j].id <= mid
        BY DEF Ids, Old
      <4> QED
        BY <4>1, <2>1, Queues
    <3> QED
      BY <1>0, <3>1, <3>2 DEF Answers
  <2>8. Session'
    BY <1>0, <2>1, <2>2, <2>4, <1>2 DEF Session, Setup, Round
  <2>10. Gathered'
    <3>1. pc \in {"sess", "ls", "publish"} => \A j \in 1..Len(asked') : asked'[j].what # "beat"
      BY <2>2, <2>4 DEF Gathered
    <3> QED
      BY <1>0, <3>1 DEF Gathered, NewBeat
  <2>9. Attempts' /\ Frames' /\ Probed' /\ PublishedIsReal'
    BY <1>0 DEF Attempts, Frames, Probed, PublishedIsReal, Numeric, Held
  <2> QED
    BY <2>5, <2>6, <2>7, <2>8, <2>9, <2>10
<1> QED
  BY <1>1, <1>2, Queues

-----------------------------------------------------------------------------
(* A failed read ends the setup or the round. *)
LEMMA FailStep ==
  ASSUME BrowserInv, waiting, Fail,
         UNCHANGED <<tries, mid, chrome, asked, cut, page, top, fork, probe>>,
         stream' \in Seq(Part), Ids', Frames'
  PROVE  BrowserInv'
<1> USE DEF BrowserInv
<1>1. file' \in Files /\ file'.stage \notin {"token-set", "line"} /\ token' = token /\ ~waiting' /\ got' = << >>
  BY Values DEF Fail
<1>2. (pc \in Setup /\ pc' = "done") \/ (pc \in Round /\ pc' = "beat")
  BY DEF Fail
<1>3. TypeOK'
  <2>1. pc' \in {"done", "beat"} /\ "beat" \in Round
    BY <1>2 DEF Round
  <2>a. waiting' \in BOOLEAN
    BY DEF Fail
  <2>b. token' \in BOOLEAN
    BY DEF Fail, TypeOK
  <2>c. got' \in Seq(Value)
    BY <1>1
  <2>2. waiting' \in BOOLEAN /\ got' \in Seq(Value) /\ token' \in BOOLEAN
    BY <2>a, <2>b, <2>c
  <2> QED
    BY <1>1, <2>1, <2>2 DEF TypeOK, Part
<1>4. Session'
  BY <1>1, <1>2 DEF Session, Setup, Round
<1>5. Attempts' /\ Answers' /\ Gathered' /\ Probed' /\ PublishedIsReal'
  BY <1>1, <1>2 DEF Attempts, Answers, Gathered, Probed, PublishedIsReal, Numeric
<1> QED
  BY <1>3, <1>4, <1>5

(* What is read is dropped. *)
LEMMA SkipStep ==
  ASSUME BrowserInv, UNCHANGED <<workload, chrome, asked, cut, page, disk, top, fork, probe>>,
         NEW k \in Nat, stream' \in Seq(Part), Ids', Frames',
         \A j \in 1..Len(stream') : k + j \in 1..Len(stream) /\ stream'[j] = stream[k + j]
  PROVE  BrowserInv'
<1> USE DEF BrowserInv, workload, disk
<1>1. TypeOK'
  BY DEF TypeOK, Part
<1>2. Answers'
  BY DEF Answers, Good, NewBeat, Held
<1>3. Attempts' /\ Session' /\ Gathered' /\ Probed' /\ PublishedIsReal'
  BY DEF Attempts, Session, Gathered, NewBeat, Probed, PublishedIsReal, Numeric, Held
<1> QED
  BY <1>1, <1>2, <1>3

LEMMA TimeOutStep == BrowserInv /\ TimeOut => BrowserInv'
<1> SUFFICES ASSUME BrowserInv, TimeOut PROVE BrowserInv'
  OBVIOUS
<1>1. Ids' /\ Frames' /\ stream' \in Seq(Part)
  BY DEF TimeOut, Fail, BrowserInv, Ids, Old, Frames
<1> QED
  BY <1>1, FailStep DEF TimeOut, spike

LEMMA GarbageStep == BrowserInv /\ Garbage => BrowserInv'
<1> SUFFICES ASSUME BrowserInv, Garbage PROVE BrowserInv'
  OBVIOUS
<1>1. PICK k \in 1..Len(stream) : stream' = From(stream, k)
  BY DEF Garbage
<1>2. k \in 0..Len(stream)
  BY Queues DEF BrowserInv
<1>3. UNCHANGED <<tries, mid, chrome, asked, cut, page, top, fork, probe>> /\ waiting
  BY DEF Garbage, spike
<1>4. /\ stream' \in Seq(Part) /\ Ids' /\ Frames'
      /\ \A j \in 1..Len(stream') : k + j \in 1..Len(stream) /\ stream'[j] = stream[k + j]
  BY <1>1, <1>2, <1>3, ReadParts
<1>5. CASE Fail
  BY <1>3, <1>4, <1>5, FailStep
<1>6. CASE UNCHANGED <<pc, waiting, got, disk>>
  BY <1>3, <1>4, <1>6, SkipStep, k \in Nat DEF workload
<1> QED
  BY <1>5, <1>6 DEF Garbage

-----------------------------------------------------------------------------
(* The answer to the expression: Good says what it is. *)
LEMMA TakeStep ==
  ASSUME BrowserInv, waiting, NEW v \in Value, Take(v), Good(v), asked = << >>,
         UNCHANGED <<tries, mid, chrome, asked, cut, page, top, fork, probe>>,
         stream' \in Seq(Part), Ids', Frames'
  PROVE  BrowserInv'
<1> USE DEF BrowserInv
<1>1. /\ ~waiting' /\ waiting' \in BOOLEAN
      /\ pc \in Round => got' = Append(got, v)
      /\ pc \notin Round => got' = << >>
  BY DEF Take
<1>2. got' \in Seq(Value)
  <2>1. CASE pc \in Round
    <3>1. got \in Seq(Value)
      BY DEF TypeOK
    <3> QED
      BY <1>1, <2>1, <3>1, AppendProperties
  <2>2. CASE pc \notin Round
    BY <1>1, <2>2
  <2> QED
    BY <2>1, <2>2
<1>3. Attempts' /\ Answers'
  BY <1>1 DEF Attempts, Answers, Take
<1>4. CASE pc = "session"
  <2>1. pc' = "beat" /\ token' = TRUE /\ file' = TokenSet
    BY <1>4 DEF Take
  <2>2. file' \in Files /\ file'.stage = "token-set" /\ file'.beat.n = 0
    BY <2>1, Values
  <2>3. ~token /\ ~fork.done /\ probe = << >>
    BY <1>4 DEF Session, Probed, Round
  <2>4. TypeOK'
    BY <1>1, <1>2, <2>1, <2>2 DEF TypeOK, Part, Round
  <2>5. Session'
    BY <2>1, <2>2 DEF Session, Round
  <2>6. Gathered'
    BY <1>1, <1>4, <2>1 DEF Gathered, Round
  <2>7. Probed' /\ PublishedIsReal'
    BY <2>1, <2>2, <2>3 DEF Probed, PublishedIsReal
  <2> QED
    BY <1>3, <2>4, <2>5, <2>6, <2>7
<1>5. CASE pc # "session"
  <2>1. /\ UNCHANGED <<token, file>>
        /\ \/ pc = "navigate" /\ pc' = "ready"
           \/ pc = "ready" /\ pc' \in {"ready", "session"}
           \/ pc = "beat" /\ pc' = "sess"
           \/ pc = "sess" /\ pc' = "ls"
           \/ pc = "ls" /\ pc' = "publish"
    BY <1>5 DEF Take, disk
  <2>2. TypeOK'
    <3>1. pc' \in {"publish"} \cup Setup \cup Round
      BY <2>1 DEF Setup, Round
    <3> QED
      BY <1>1, <1>2, <2>1, <3>1 DEF TypeOK, Part
  <2>3. Session'
    BY <2>1 DEF Session, Round
  <2>4. Gathered'
    <3>1. CASE pc \in {"navigate", "ready"}
      BY <2>1, <3>1 DEF Gathered
    <3>2. CASE pc = "beat"
      <4>1. got' = << v >> /\ pc' = "sess" /\ NewBeat(v)
        BY <1>1, <2>1, <3>2 DEF Gathered, Round, Good
      <4> QED
        BY <4>1, <2>1 DEF Gathered, NewBeat
    <3>3. CASE pc \in {"sess", "ls"}
      <4>1. /\ got' = Append(got, v) /\ NewBeat(got[1])
            /\ pc = "sess" => Len(got) = 1 /\ Held(v, page.sess) /\ pc' = "ls"
            /\ pc = "ls" => /\ Len(got) = 2 /\ Held(got[2], page.sess)
                           /\ Held(v, page.ls) /\ pc' = "publish"
        BY <1>1, <2>1, <3>3 DEF Gathered, Round, Good
      <4>2. /\ Len(got') = Len(got) + 1
            /\ \A i \in 1..Len(got) : got'[i] = got[i]
            /\ got'[Len(got) + 1] = v
        BY <4>1, AppendProperties DEF TypeOK
      <4>3. NewBeat(got[1])' /\ got'[1] = got[1]
        BY <3>3, <4>1, <4>2, <2>1 DEF NewBeat
      <4>4. CASE pc = "sess"
        <5>a. pc' = "ls" /\ Len(got) = 1 /\ Held(v, page.sess)
          BY <4>1, <4>4
        <5>b. Len(got') = 2 /\ got'[2] = v
          BY <4>2, <5>a
        <5> QED
          BY <4>3, <5>a, <5>b DEF Gathered, Held
      <4>5. CASE pc = "ls"
        <5>a. /\ pc' = "publish" /\ Len(got) = 2
              /\ Held(got[2], page.sess) /\ Held(v, page.ls)
          BY <4>1, <4>5
        <5>b. Len(got') = 3 /\ got'[2] = got[2] /\ got'[3] = v
          BY <4>2, <5>a
        <5> QED
          BY <4>3, <5>a, <5>b DEF Gathered, Held
      <4> QED
        BY <3>3, <4>4, <4>5
    <3> QED
      BY <2>1, <3>1, <3>2, <3>3
  <2>5. Probed' /\ PublishedIsReal'
    BY <2>1 DEF Probed, PublishedIsReal, Numeric, Held
  <2> QED
    BY <1>3, <2>2, <2>3, <2>4, <2>5
<1> QED
  BY <1>4, <1>5

LEMMA ReceiveStep == BrowserInv /\ Receive => BrowserInv'
<1> SUFFICES ASSUME BrowserInv, Receive PROVE BrowserInv'
  OBVIOUS
<1>1. /\ UNCHANGED <<tries, mid, chrome, asked, cut, page, top, fork, probe>> /\ waiting
      /\ stream' = From(stream, 2)
  BY DEF Receive, spike
<1>2. /\ 1 \in 1..(Len(stream) - 1) /\ 2 \in 1..Len(stream) /\ 2 \in 0..Len(stream)
      /\ stream[1].part = "head" /\ stream[2] \in Part
  BY Queues DEF Receive, WholeFrame, Aligned, BrowserInv
<1>3. /\ stream' \in Seq(Part) /\ Ids' /\ Frames'
      /\ \A j \in 1..Len(stream') : 2 + j \in 1..Len(stream) /\ stream'[j] = stream[2 + j]
  BY <1>1, <1>2, ReadParts
<1>4. stream[2].part = "body" /\ stream[2].val \in Value
  BY <1>2 DEF BrowserInv, Frames, Part
<1>5. CASE stream[2].id = mid
  <2>1. Good(stream[2].val)
    BY <1>1, <1>2, <1>4, <1>5 DEF BrowserInv, Answers
  <2>2. asked = << >>
    BY <1>2, <1>5, AwaitedIsLast
  <2>3. Take(stream[2].val)
    BY <1>5 DEF Receive
  <2> QED
    BY <1>1, <1>3, <1>4, <2>1, <2>2, <2>3, TakeStep
<1>6. CASE stream[2].id # mid
  <2>1. UNCHANGED <<pc, waiting, got, disk>>
    BY <1>6 DEF Receive
  <2> QED
    BY <1>1, <1>3, <2>1, SkipStep, 2 \in Nat DEF workload
<1> QED
  BY <1>5, <1>6

LEMMA PublishStep == BrowserInv /\ Publish => BrowserInv'
<1> SUFFICES ASSUME BrowserInv, Publish PROVE BrowserInv'
  OBVIOUS
<1> USE DEF BrowserInv
<1>1. /\ pc = "publish" /\ pc' = "beat" /\ got' = << >>
      /\ file' = Line(got[1], got[2], got[3])
      /\ top' = IF got[1].is = "beat" THEN got[1].n ELSE top
      /\ UNCHANGED <<waiting, tries, mid, chrome, asked, cut, stream, page, token, fork, probe>>
  BY DEF Publish, browser, spike
<1>2. ~waiting
  BY <1>1 DEF Answers, Setup, Round
<1>3. /\ got[1] \in Value /\ got[2] \in Value /\ got[3] \in Value
      /\ Held(got[2], page.sess) /\ Held(got[3], page.ls) /\ NewBeat(got[1])
      /\ token
  <2>1. got \in Seq(Value) /\ Len(got) = 3
    BY <1>1 DEF TypeOK, Gathered
  <2> QED
    BY <1>1, <2>1 DEF Gathered, Session
<1>4. /\ file' \in Files /\ file'.stage = "line" /\ file'.beat = got[1]
      /\ file'.tok = got[2] /\ file'.ls = got[3]
  BY <1>1, <1>3, Values DEF Line
<1>5. /\ got[1].n \in Nat /\ top \in Nat /\ page.beat \in Nat /\ fork.beat \in Nat
      /\ got[1].is = "beat" => got[1].n = page.beat /\ got[1].n > top /\ top' = page.beat
      /\ got[1].is # "beat" => top' = top /\ got[1] = V("none")
  <2>1. V("none").is # "beat"
    BY DEF V
  <2> QED
    BY <1>1, <1>3, <2>1 DEF NewBeat, TypeOK, Value
<1>6. TypeOK'
  <2>1. top' \in Nat
    BY <1>5
  <2> QED
    BY <1>1, <1>4, <2>1 DEF TypeOK, Round
<1>7. Ids' /\ Frames' /\ Answers' /\ Attempts'
  BY <1>1, <1>2 DEF Ids, Old, Frames, Answers, Attempts
<1>8. Session'
  BY <1>1, <1>2, <1>3, <1>4 DEF Session, Round
<1>9. Gathered'
  BY <1>1 DEF Gathered
<1>10. PublishedIsReal'
  <2>1. got[1] = V("none") \/ (got[1].is = "beat" /\ got[1].n \in 1..page.beat)
    BY <1>5
  <2> QED
    BY <1>1, <1>3, <1>4, <2>1 DEF PublishedIsReal, Held
<1>11. Probed'
  <2>1. Numeric(file)' => file'.beat.n = page.beat
    BY <1>4, <1>5 DEF Numeric
  <2>2. top <= top' /\ top' <= page.beat
    BY <1>5 DEF Probed
  <2>3. Numeric(file)' => file'.beat.n = top'
    BY <1>4, <1>5 DEF Numeric
  <2>4. fork.done => fork.top <= top'
    <3>1. fork.top \in Nat /\ top' \in Nat
      BY <1>5 DEF TypeOK
    <3> QED
      BY <1>5, <2>2, <3>1 DEF Probed
  <2> QED
    BY <1>1, <1>3, <2>1, <2>2, <2>3, <2>4 DEF Probed, Numeric
<1> QED
  BY <1>6, <1>7, <1>8, <1>9, <1>10, <1>11

(* The snapshot is taken at the heartbeat the page then has. *)
LEMMA ForkStep == BrowserInv /\ Fork => BrowserInv'
<1> SUFFICES ASSUME BrowserInv, Fork PROVE BrowserInv'
  OBVIOUS
<1> USE DEF BrowserInv
<1>1. /\ UNCHANGED <<workload, browser, disk, top, probe>> /\ token /\ ~fork.done
      /\ fork' = [done |-> TRUE, beat |-> page.beat, top |-> top]
  BY DEF Fork
<1>2. /\ page.beat \in Nat /\ top \in Nat /\ fork' \in [done : BOOLEAN, beat : Nat, top : Nat]
      /\ fork'.beat = page.beat /\ fork'.top = top
  BY <1>1 DEF TypeOK
<1>3. probe = << >>
  BY <1>1 DEF Probed
<1>4. TypeOK'
  BY <1>1, <1>2 DEF TypeOK, workload, browser, disk
<1>5. Probed'
  BY <1>1, <1>2, <1>3 DEF Probed, browser, disk, Numeric
<1>6. Ids' /\ Frames' /\ Answers' /\ Attempts' /\ Session' /\ Gathered' /\ PublishedIsReal'
  BY <1>1 DEF workload, browser, disk, Ids, Old, Frames, Answers, Good, NewBeat, Attempts, Session,
     Gathered, PublishedIsReal, Held
<1> QED
  BY <1>4, <1>5, <1>6

LEMMA CheckStep == BrowserInv /\ Check => BrowserInv'
<1> SUFFICES ASSUME BrowserInv, Check PROVE BrowserInv'
  OBVIOUS
<1> USE DEF BrowserInv
<1>1. /\ UNCHANGED <<workload, browser, disk, top, fork>> /\ fork.done
      /\ Len(probe) < 2 /\ probe' = Append(probe, file)
  BY DEF Check
<1>2. /\ probe' \in Seq(Files) /\ Len(probe') = Len(probe) + 1 /\ Len(probe) \in Nat
      /\ \A i \in 1..Len(probe) : probe'[i] = probe[i]
      /\ probe'[Len(probe) + 1] = file
  BY <1>1, AppendProperties DEF TypeOK
<1>3. TypeOK'
  BY <1>1, <1>2 DEF TypeOK, workload, browser, disk
<1>4. Probed'
  <2>1. \A j \in 1..Len(probe') :
          (j \in 1..Len(probe) /\ probe'[j] = probe[j]) \/ probe'[j] = file
    BY <1>2
  <2>2. file.beat.n \in Nat
    BY DEF TypeOK, Files, Value
  <2>3. \A j \in 1..Len(probe') :
          /\ probe'[j].stage = "line" /\ probe'[j].ls = V("token") => page.ls
          /\ probe'[j].stage = "token-set" => probe'[j].beat.n = 0
          /\ Numeric(probe'[j]) => fork.top <= probe'[j].beat.n /\ probe'[j].beat.n <= page.beat
    <3>1. file.stage = "line" /\ file.ls = V("token") => page.ls
      BY DEF PublishedIsReal, Held, V
    <3> QED
      BY <1>1, <2>1, <3>1 DEF Probed, Session
  <2>4. CASE Len(probe) = 0
    <3>1. Len(probe') = 1 /\ probe'[1] = file
      BY <1>2, <2>4
    <3> QED
      BY <1>1, <2>2, <2>3, <3>1 DEF Probed, disk, browser, Numeric
  <2>5. CASE Len(probe) = 1
    <3>1. Len(probe') = 2 /\ probe'[1] = probe[1] /\ probe'[2] = file
      BY <1>2, <2>5
    <3>2. probe # << >>
      BY <2>5
    <3> QED
      BY <1>1, <2>3, <3>1, <3>2 DEF Probed, disk, browser, Numeric
  <2>a. \A k \in Nat : k < 2 => k = 0 \/ k = 1
    OBVIOUS
  <2>6. Len(probe) = 0 \/ Len(probe) = 1
    BY <1>1, <1>2, <2>a, Zenon
  <2> QED
    BY <2>4, <2>5, <2>6
<1>5. Ids' /\ Frames' /\ Answers' /\ Attempts' /\ Session' /\ Gathered' /\ PublishedIsReal'
  BY <1>1 DEF workload, browser, disk, Ids, Old, Frames, Answers, Good, NewBeat, Attempts, Session,
     Gathered, PublishedIsReal, Held
<1> QED
  BY <1>3, <1>4, <1>5

-----------------------------------------------------------------------------
(* The heartbeat of the page only grows, except when the session is set,   *)
(* which comes before all that is published.                               *)
LEMMA EvaluateStep == BrowserInv /\ Evaluate => BrowserInv'
<1> SUFFICES ASSUME BrowserInv, Evaluate,
                    NEW q, q = Head(asked), NEW v,
                    cut' = << [id |-> q.id, val |-> v] >>,
                    \/ v = Eval(q.what) /\ page' = After(q.what)
                    \/ v = V("none") /\ page' \in AfterError(q.what)
             PROVE  BrowserInv'
  BY DEF Evaluate
<1> USE DEF BrowserInv
<1> DEFINE a == [id |-> q.id, val |-> v]
           h == [part |-> "head", id |-> q.id, val |-> V("none")]
<1>1. /\ UNCHANGED <<pc, waiting, tries, mid, got, chrome, token, file, top, fork, probe>>
      /\ asked # << >> /\ cut = << >>
      /\ cut' = << a >> /\ stream' = Append(stream, h) /\ asked' = Tail(asked)
  BY DEF Evaluate, workload, disk, spike
<1>2. /\ page \in [sess : BOOLEAN, ls : BOOLEAN, beat : Nat] /\ page.beat \in Nat
      /\ page = [sess |-> page.sess, ls |-> page.ls, beat |-> page.beat]
      /\ page.sess \in BOOLEAN /\ page.ls \in BOOLEAN
  BY DEF TypeOK
<1>3. /\ asked' \in Seq(Ask) /\ Len(asked') = Len(asked) - 1
      /\ \A i \in 1..Len(asked') : i + 1 \in 1..Len(asked) /\ asked'[i] = asked[i + 1]
      /\ q = asked[1] /\ 1 \in 1..Len(asked) /\ q \in Ask
  <2>1. /\ asked' \in Seq(Ask) /\ Len(asked') = Len(asked) - 1
        /\ \A i \in 1..Len(asked') : asked'[i] = asked[i + 1]
    BY <1>1, Queues, HeadTailProperties
  <2>2. 1 \in 1..Len(asked) /\ q = asked[1]
    BY <1>1, Queues
  <2> QED
    BY <2>1, <2>2, Queues
<1>4. /\ q.id \in Nat /\ q.what \in Setup \cup Round
      /\ q.id <= mid /\ q.id <= MaxId
      /\ \A i \in 1..Len(asked') : q.id < asked'[i].id
  <2>1. \A i \in 1..Len(asked') : 1 < i + 1
    BY <1>3, Queues
  <2> QED
    BY <1>3, <2>1 DEF Ask, Ids
<1>5. q.what = "session" =>
        /\ pc \in {"session", "done"} /\ ~token /\ ~fork.done /\ probe = << >>
        /\ file.stage \notin {"token-set", "line"} /\ top = 0
  BY <1>3 DEF Session, Probed, Round
<1>5a. /\ page' \in [sess : BOOLEAN, ls : BOOLEAN, beat : Nat] /\ page'.beat \in Nat
       /\ (page.sess => page'.sess) /\ (page.ls => page'.ls)
       /\ q.what # "session" => page.beat <= page'.beat
       /\ q.what \notin {"session", "beat"} => page' = page
       /\ q.what = "beat" =>
            \/ v = V("none")
            \/ v.is = "beat" /\ v.n = page.beat + 1 /\ page'.beat = page.beat + 1
       /\ v \in Value
  <2>1. CASE v = Eval(q.what) /\ page' = After(q.what)
    <3>1. CASE q.what = "session"
      <4>1. page' = [sess |-> TRUE, ls |-> TRUE, beat |-> 0] /\ v = V("ok")
        BY <2>1, <3>1 DEF After, Eval
      <4> QED
        BY <3>1, <4>1, Values
    <3>2. CASE q.what = "beat"
      <4>1. /\ page' = [page EXCEPT !.beat = @ + 1]
            /\ v = [is |-> "beat", n |-> page.beat + 1] /\ page.beat + 1 \in Nat
        BY <1>2, <2>1, <3>2 DEF After, Eval
      <4>2. v \in Value /\ v.is = "beat" /\ v.n = page.beat + 1
        BY <4>1 DEF Value
      <4>3. page'.sess = page.sess /\ page'.ls = page.ls /\ page'.beat = page.beat + 1
        BY <1>2, <4>1
      <4>4. page' \in [sess : BOOLEAN, ls : BOOLEAN, beat : Nat]
        BY <1>2, <4>1
      <4> QED
        BY <1>2, <3>2, <4>2, <4>3, <4>4
    <3>3. CASE q.what \notin {"session", "beat"}
      <4>1. page' = page
        BY <2>1, <3>3 DEF After
      <4>2. v \in Value
        BY <1>4, <2>1, <3>3, Values DEF Eval, Setup, Round
      <4> QED
        BY <1>2, <3>3, <4>1, <4>2
    <3> QED
      BY <3>1, <3>2, <3>3
  <2>2. CASE v = V("none") /\ page' \in AfterError(q.what)
    <3>1. v \in Value
      BY <2>2, Values
    <3>2. page' = page \/ (q.what = "session" /\ page' = [page EXCEPT !.sess = TRUE])
      BY <2>2 DEF AfterError
    <3>3. CASE page' = page
      BY <1>2, <2>2, <3>1, <3>3
    <3>4. CASE q.what = "session" /\ page' = [page EXCEPT !.sess = TRUE]
      <4>1. page'.sess /\ page'.ls = page.ls /\ page'.beat = page.beat
        BY <1>2, <3>4
      <4>2. page' \in [sess : BOOLEAN, ls : BOOLEAN, beat : Nat]
        BY <1>2, <3>4
      <4> QED
        BY <1>2, <3>1, <3>4, <4>1, <4>2
    <3> QED
      BY <3>2, <3>3, <3>4
  <2> QED
    BY <2>1, <2>2
<1>6. v \in Value
  BY <1>5a
<1>7. /\ a \in Answer /\ a.id = q.id /\ a.val = v
      /\ h \in Part /\ h.id = q.id /\ h.part = "head"
  BY <1>4, <1>6, Values DEF Answer, Part
<1> HIDE DEF a, h
<1>8. cut' \in Seq(Answer) /\ cut' # << >> /\ Len(cut') = 1 /\ cut'[1] = a
  BY <1>1, <1>7
<1>9. /\ stream' \in Seq(Part) /\ Len(stream') = Len(stream) + 1
      /\ \A i \in 1..Len(stream) : stream'[i] = stream[i]
      /\ stream'[Len(stream) + 1] = h
  BY <1>1, <1>7, Queues, AppendProperties
<1>10. \A j \in 1..Len(stream') :
         \/ j \in 1..Len(stream) /\ stream'[j] = stream[j]
         \/ j = Len(stream) + 1 /\ stream'[j] = h
  BY <1>9, Queues
<1>11. \A j \in 1..Len(cut') : cut'[j] = a
  BY <1>8
<1>12. TypeOK'
  BY <1>1, <1>3, <1>8, <1>9, <1>5a DEF TypeOK, Ask, Answer, Part
<1>13. Ids'
  <2>1. \A j \in 1..Len(asked') : asked'[j].id <= mid /\ asked'[j].id <= MaxId
    BY <1>3 DEF Ids
  <2>2. \A i, j \in 1..Len(asked') : i < j => asked'[i].id < asked'[j].id
    <3> SUFFICES ASSUME NEW i \in 1..Len(asked'), NEW j \in 1..Len(asked'), i < j
                 PROVE  asked'[i].id < asked'[j].id
      OBVIOUS
    <3>1. i + 1 < j + 1
      BY <1>3, Queues
    <3> QED
      BY <1>3, <3>1 DEF Ids
  <2>3. \A j \in 1..Len(cut') : Old(cut[j])'
    BY <1>1, <1>4, <1>7, <1>11 DEF Old
  <2>4. \A j \in 1..Len(stream') : Old(stream[j])'
    <3> SUFFICES ASSUME NEW j \in 1..Len(stream') PROVE Old(stream[j])'
      OBVIOUS
    <3>1. CASE j \in 1..Len(stream) /\ stream'[j] = stream[j]
      BY <1>1, <1>3, <3>1 DEF Ids, Old
    <3>2. CASE stream'[j] = h
      BY <1>1, <1>4, <1>7, <3>2 DEF Old
    <3> QED
      BY <1>10, <3>1, <3>2
  <2> QED
    BY <1>1, <2>1, <2>2, <2>3, <2>4 DEF Ids
<1>14. Frames'
  <2>1. \A j \in 1..(Len(stream') - 1) : stream'[j].part = "head" => stream'[j + 1].part = "body"
    <3> SUFFICES ASSUME NEW j \in 1..(Len(stream') - 1), stream'[j].part = "head"
                 PROVE  stream'[j + 1].part = "body"
      OBVIOUS
    <3>1. j \in 1..Len(stream) /\ stream'[j] = stream[j]
      BY <1>9, Queues
    <3>2. j # Len(stream)
      BY <1>1, <3>1, Queues DEF Frames
    <3>3. j \in 1..(Len(stream) - 1) /\ j + 1 \in 1..Len(stream)
      BY <3>1, <3>2, Queues
    <3> QED
      BY <1>9, <3>1, <3>3 DEF Frames
  <2> QED
    BY <1>8, <2>1 DEF Frames
<1>15. Answers'
  <2> SUFFICES ASSUME waiting' PROVE Answers'
    BY DEF Answers
  <2>1. waiting /\ pc \in Setup \cup Round
    BY <1>1 DEF Answers
  <2>2. \A j \in 1..Len(asked') : asked'[j].id = mid' => asked'[j].what = pc'
    BY <1>1, <1>3, <2>1 DEF Answers
  <2>3. q.id = mid => Good(v)'
    <3> SUFFICES ASSUME q.id = mid PROVE Good(v)'
      OBVIOUS
    <3>1. q.what = pc
      BY <1>3, <2>1 DEF Answers
    <3>2. pc = "beat" => NewBeat(v)'
      <4>1. top <= page.beat /\ top \in Nat
        BY DEF Probed, TypeOK
      <4> QED
        BY <1>1, <1>2, <1>5a, <3>1, <4>1 DEF NewBeat
    <3>3. pc \in {"sess", "ls"} => page' = page /\ (v = Eval(q.what) \/ v = V("none"))
      BY <1>5a, <3>1
    <3>4. /\ pc = "sess" => Held(v, page.sess)
          /\ pc = "ls" => Held(v, page.ls)
      BY <3>1, <3>3 DEF Held, Eval
    <3> QED
      BY <1>1, <3>2, <3>3, <3>4 DEF Good, Held
  <2>4. \A j \in 1..Len(cut') : cut'[j].id = mid' => Good(cut[j].val)'
    BY <1>1, <1>7, <1>11, <2>3 DEF Good, NewBeat, Held
  <2>5. \A j \in 1..Len(stream') : ~ (stream'[j].id = mid' /\ stream'[j].part = "body")
    <3> SUFFICES ASSUME NEW j \in 1..Len(stream')
                 PROVE  ~ (stream'[j].id = mid /\ stream'[j].part = "body")
      BY <1>1
    <3>1. CASE j \in 1..Len(stream) /\ stream'[j] = stream[j]
      <4>1. stream[j].id < q.id /\ stream[j].id \in Nat
        BY <1>3, <3>1, Queues DEF Ids, Old
      <4> QED
        BY <1>4, <3>1, <4>1, Queues
    <3>2. CASE stream'[j] = h
      BY <1>7, <3>2
    <3> QED
      BY <1>10, <3>1, <3>2
  <2> QED
    BY <1>1, <2>1, <2>2, <2>4, <2>5 DEF Answers
<1>16. Session'
  <2>1. \A j \in 1..Len(asked') : asked'[j].what = "session" =>
          pc' = "done" \/ (pc' = "session" /\ waiting' /\ asked'[j].id = mid')
    BY <1>1, <1>3 DEF Session
  <2> QED
    BY <1>1, <2>1 DEF Session
<1>17. Gathered' /\ Attempts'
  <2>1. pc \in {"sess", "ls", "publish"} =>
          /\ page'.beat = page.beat
          /\ \A j \in 1..Len(asked') : asked'[j].what # "beat"
    BY <1>3, <1>5, <1>5a DEF Gathered
  <2>2. pc \in {"sess", "ls", "publish"} => NewBeat(got[1])'
    BY <1>1, <2>1 DEF Gathered, NewBeat
  <2> QED
    BY <1>1, <1>5a, <2>1, <2>2 DEF Gathered, Attempts, Held
<1>18. Probed' /\ PublishedIsReal'
  <2>1. file.beat.n \in Nat /\ fork.beat \in Nat /\ top \in Nat
    BY DEF TypeOK, Files, Value
  <2>2. /\ top <= page'.beat
        /\ fork.done => fork.beat <= page'.beat
    BY <1>2, <1>5, <1>5a, <2>1 DEF Probed
  <2>a. \A j \in 1..Len(probe) :
          Numeric(probe[j]) => fork.top <= probe[j].beat.n /\ probe[j].beat.n <= page'.beat
    <3> SUFFICES ASSUME NEW j \in 1..Len(probe), Numeric(probe[j])
                 PROVE  fork.top <= probe[j].beat.n /\ probe[j].beat.n <= page'.beat
      OBVIOUS
    <3>0. probe[j] \in Files
      BY ElementOfSeq DEF TypeOK
    <3>1. probe[j].beat.n \in Nat
      BY <3>0 DEF Files, Value
    <3>2. fork.top <= probe[j].beat.n /\ probe[j].beat.n <= page.beat
      BY DEF Probed
    <3>3. probe # << >> => token
      BY DEF Probed, Session
    <3> QED
      BY <1>2, <1>5, <1>5a, <3>1, <3>2, <3>3
  <2>3. Probed'
    BY <1>1, <1>5a, <2>2, <2>a DEF Probed, Numeric
  <2>4. PublishedIsReal'
    BY <1>1, <1>2, <1>5, <1>5a, <2>1 DEF PublishedIsReal, Held
  <2> QED
    BY <2>3, <2>4
<1> QED
  BY <1>12, <1>13, <1>14, <1>15, <1>16, <1>17, <1>18

LEMMA SendBodyStep == BrowserInv /\ SendBody => BrowserInv'
<1> SUFFICES ASSUME BrowserInv, SendBody,
                    NEW c, c = cut[1],
                    NEW b, b = [part |-> "body", id |-> c.id, val |-> c.val]
             PROVE  BrowserInv'
  OBVIOUS
<1> USE DEF BrowserInv
<1>1. /\ UNCHANGED <<pc, waiting, tries, mid, got, chrome, asked, page, token, file, top, fork, probe>>
      /\ cut # << >> /\ cut' = << >> /\ stream' = Append(stream, b)
  BY DEF SendBody, workload, disk, spike
<1>2. 1 \in 1..Len(cut) /\ c \in Answer /\ Old(c) /\ (waiting /\ c.id = mid => Good(c.val))
  BY <1>1, Queues DEF Ids, Answers
<1>3. b \in Part /\ b.id = c.id /\ b.val = c.val /\ b.part = "body"
  BY <1>2 DEF Answer, Part
<1>4. /\ stream' \in Seq(Part) /\ Len(stream') = Len(stream) + 1
      /\ \A i \in 1..Len(stream) : stream'[i] = stream[i]
      /\ stream'[Len(stream) + 1] = b
  BY <1>1, <1>3, Queues, AppendProperties
<1>5. \A j \in 1..Len(stream') :
         \/ j \in 1..Len(stream) /\ stream'[j] = stream[j]
         \/ j = Len(stream) + 1 /\ stream'[j] = b
  BY <1>4, Queues
<1>6. TypeOK'
  <2>1. cut' \in Seq([id : Nat, val : Value])
    BY <1>1
  <2> QED
    BY <1>1, <1>4, <2>1 DEF TypeOK, Part
<1>7. Ids'
  <2>1. \A j \in 1..Len(stream') : Old(stream[j])'
    BY <1>1, <1>2, <1>3, <1>5 DEF Ids, Old
  <2> QED
    BY <1>1, <2>1 DEF Ids
<1>8. Frames'
  <2>1. \A j \in 1..(Len(stream') - 1) : stream'[j].part = "head" => stream'[j + 1].part = "body"
    <3> SUFFICES ASSUME NEW j \in 1..(Len(stream') - 1), stream'[j].part = "head"
                 PROVE  stream'[j + 1].part = "body"
      OBVIOUS
    <3>1. j \in 1..Len(stream) /\ stream'[j] = stream[j]
      BY <1>4, Queues
    <3>2. CASE j = Len(stream)
      BY <1>3, <1>4, <3>2
    <3>3. CASE j # Len(stream)
      <4>1. j \in 1..(Len(stream) - 1) /\ j + 1 \in 1..Len(stream)
        BY <3>1, <3>3, Queues
      <4> QED
        BY <1>4, <3>1, <4>1 DEF Frames
    <3> QED
      BY <3>2, <3>3
  <2>2. stream'[Len(stream')].part = "body"
    BY <1>3, <1>4
  <2> QED
    BY <2>1, <2>2 DEF Frames
<1>9. Answers'
  BY <1>1, <1>2, <1>3, <1>5 DEF Answers, Good, NewBeat, Held
<1>10. Attempts' /\ Session' /\ Gathered' /\ Probed' /\ PublishedIsReal'
  BY <1>1 DEF Attempts, Session, Gathered, NewBeat, Probed, PublishedIsReal, Numeric, Held
<1> QED
  BY <1>6, <1>7, <1>8, <1>9, <1>10

(* Chrome stops, or nothing happens. *)
LEMMA StopStep ==
  ASSUME BrowserInv, chrome' \in {"up", "hung", "dead"},
         UNCHANGED <<workload, asked, cut, stream, page, disk, top, fork, probe>>
  PROVE  BrowserInv'
<1> USE DEF BrowserInv, workload, disk
<1>1. TypeOK'
  BY DEF TypeOK
<1>2. Ids' /\ Frames' /\ Answers'
  BY DEF Ids, Old, Frames, Answers, Good, NewBeat, Held
<1>3. Attempts' /\ Session' /\ Gathered' /\ Probed' /\ PublishedIsReal'
  BY DEF Attempts, Session, Gathered, NewBeat, Probed, PublishedIsReal, Numeric, Held
<1> QED
  BY <1>1, <1>2, <1>3

-----------------------------------------------------------------------------
LEMMA BrowserStep == BrowserInv /\ [Next]_vars => BrowserInv'
<1> SUFFICES ASSUME BrowserInv, [Next]_vars PROVE BrowserInv'
  OBVIOUS
<1>1. CASE Workload
  BY <1>1, ConnectStep, SendStep, ReceiveStep, TimeOutStep, GarbageStep, PublishStep DEF Workload
<1>2. CASE Evaluate
  BY <1>2, EvaluateStep
<1>3. CASE SendBody
  BY <1>3, SendBodyStep
<1>4. CASE \E how \in {"hung", "dead"} : Stop(how)
  BY <1>4, StopStep DEF Stop, spike
<1>5. CASE Fork \/ Check
  BY <1>5, ForkStep, CheckStep
<1>6. CASE UNCHANGED vars
  BY <1>6, StopStep DEF vars, browser, spike, BrowserInv, TypeOK
<1> QED
  BY <1>1, <1>2, <1>3, <1>4, <1>5, <1>6 DEF Next

LEMMA BrowserInvariant == Spec => []BrowserInv
BY InitBrowser, BrowserStep, PTL DEF Spec

(***************************************************************************)
(* What the workload publishes is None or what the page held: late answers *)
(* and a reader out of step with the stream never put the answer to        *)
(* another expression in the file.                                         *)
(***************************************************************************)
THEOREM PublishedValuesAreReal == Spec => []PublishedIsReal
<1>1. BrowserInv => PublishedIsReal
  BY DEF BrowserInv
<1> QED
  BY <1>1, BrowserInvariant, PTL

(***************************************************************************)
(* No heartbeat is published twice, or after a greater one.                *)
(***************************************************************************)
THEOREM HeartbeatsAdvance == Spec => BeatsAdvance
<1>1. BrowserInv /\ [Next]_vars => [BeatAdvances]_vars
  <2> SUFFICES ASSUME BrowserInv, Next, pc = "publish", pc' = "beat", Numeric(file')
               PROVE  file'.beat.n > top
    BY DEF BeatAdvances
  <2>1. CASE Publish
    <3>1. NewBeat(got[1]) /\ file' = Line(got[1], got[2], got[3])
      BY <2>1 DEF Publish, BrowserInv, Gathered
    <3>2. file'.beat = got[1] /\ got[1].is = "beat"
      BY <3>1 DEF Line, Numeric
    <3> QED
      BY <3>1, <3>2 DEF NewBeat, V
  <2>2. CASE Receive \/ TimeOut \/ Garbage
    <3>1. ~waiting
      BY DEF BrowserInv, Answers, Setup, Round
    <3> QED
      BY <2>2, <3>1 DEF Receive, TimeOut, Garbage
  <2>3. CASE Connect \/ Upgraded \/ ConnectFails \/ HandshakeSpins \/ NoCdp \/ Send
    BY <2>3 DEF Connect, Upgraded, ConnectFails, HandshakeSpins, NoCdp, Send, Setup, Round
  <2>4. CASE Evaluate \/ SendBody \/ Fork \/ Check \/ \E how \in {"hung", "dead"} : Stop(how)
    BY <2>4 DEF Evaluate, SendBody, Fork, Check, Stop, workload
  <2> QED
    BY <2>1, <2>2, <2>3, <2>4 DEF Next, Workload
<1> QED
  BY <1>1, BrowserInvariant, PTL DEF Spec, BeatsAdvance

(***************************************************************************)
(* The spike's PASS is not about a page older than the fork: the second    *)
(* heartbeat is at least that of the page when the snapshot was taken, the *)
(* page stores the token, and it has evaluated a heartbeat since the fork  *)
(* unless one was evaluated and not yet published at the snapshot.         *)
(***************************************************************************)
THEOREM PassIsNotStale == Spec => []PassIsRecent
<1>1. BrowserInv => PassIsRecent
  <2> SUFFICES ASSUME BrowserInv, Pass
               PROVE  /\ page.ls /\ probe[2].beat.n >= fork.beat
                      /\ page.beat > fork.beat \/ fork.beat > fork.top
    BY DEF PassIsRecent
  <2>1. /\ Len(probe) = 2 /\ probe \in Seq(Files) /\ probe[2].ls = V("token")
        /\ Numeric(probe[1]) /\ Numeric(probe[2]) /\ probe[2].beat.n > probe[1].beat.n
    BY DEF Pass, BrowserInv, TypeOK
  <2>a. 1 \in 1..Len(probe) /\ 2 \in 1..Len(probe)
    BY <2>1
  <2>2. 2 \in 1..Len(probe) /\ probe[1] \in Files /\ probe[2] \in Files
    BY <2>1, <2>a, ElementOfSeq
  <2>3. probe[1].beat.n \in Nat /\ probe[2].beat.n \in Nat
    BY <2>2 DEF Files, Value
  <2>4. probe[2].stage = "line"
    BY <2>1, <2>2, <2>3 DEF BrowserInv, Probed, Numeric
  <2>5. page.beat > fork.top
    <3>1. fork.top <= probe[1].beat.n /\ probe[2].beat.n <= page.beat
      BY <2>1, <2>a DEF BrowserInv, Probed
    <3>2. page.beat \in Nat /\ fork.top \in Nat
      BY DEF BrowserInv, TypeOK
    <3> QED
      BY <2>1, <2>3, <3>1, <3>2
  <2>6. page.beat > fork.beat \/ fork.beat > fork.top
    <3>1. page.beat \in Nat /\ fork.top \in Nat /\ fork.beat \in Nat
      BY DEF BrowserInv, TypeOK
    <3> QED
      BY <2>5, <3>1
  <2> QED
    BY <2>1, <2>2, <2>4, <2>6 DEF BrowserInv, Probed
<1> QED
  BY <1>1, BrowserInvariant, PTL

=============================================================================
