------------------------------ MODULE Browser -------------------------------
(***************************************************************************)
(* The browser workload of a guest (browser_workload.py): it connects to   *)
(* Chrome, sets a session token in the page, and then asks the page for a  *)
(* heartbeat, the token and the stored token, over one DevTools websocket, *)
(* and publishes what it got in a state file.  The fidelity spike forks    *)
(* the guest, reads that file of the fork through the agent, twice, and    *)
(* gives its verdict (spike_j_browser.py).  A frame crosses the socket in  *)
(* two parts; the 20 s timeout of a read can fall between them, and the    *)
(* rest of the frame is then read as the next header.  An answer may be an *)
(* error, or that of an expression that threw: it has no value, and None   *)
(* is taken and published like any other.                                  *)
(***************************************************************************)
EXTENDS Naturals, Sequences

CONSTANTS MaxId,   \* bound on the DevTools message ids while Chrome answers
          Retries  \* attempts to connect

ASSUME BrowserAssumption == MaxId \in Nat \ {0} /\ Retries \in Nat \ {0}

VARIABLES
  pc,       \* what the workload does: the expression it evaluates
  waiting,  \* is it inside ws.recv?
  tries,    \* attempts to connect left
  mid,      \* id of its last message
  got,      \* what the expressions of this round returned
  chrome,   \* up, hung or dead
  asked,    \* messages Chrome has not answered yet
  cut,      \* answers of which only the header is sent
  stream,   \* what is in the socket: parts of frames
  page,     \* the page: does it hold the token in window.__session and in
            \* localStorage, and its heartbeat
  token,    \* does the file browser_token exist?
  file,     \* the file browser_state
  top,      \* history: the greatest heartbeat published
  fork,     \* is this the fork; history: the page's heartbeat and the greatest
            \* one published when it was taken
  probe     \* what the spike has read of browser_state in the fork

workload == <<pc, waiting, tries, mid, got>>
browser == <<chrome, asked, cut, stream, page>>
disk == <<token, file>>
spike == <<fork, probe>>
vars == <<workload, browser, disk, top, spike>>

Setup == {"navigate", "ready", "session"}
Round == {"beat", "sess", "ls"}

(* A value of the page: what it is, and its number if it is a heartbeat;   *)
(* None is "none".                                                         *)
Value == [is : {"nav", "ready", "ok", "beat", "token", "none"}, n : Nat]
V(k) == [is |-> k, n |-> 0]

Line(b, t, l) == [stage |-> "line", beat |-> b, tok |-> t, ls |-> l]
TokenSet == [Line([is |-> "beat", n |-> 0], V("token"), V("token"))
               EXCEPT !.stage = "token-set"]
Stage(s) == [stage |-> s, beat |-> V("none"), tok |-> V("none"), ls |-> V("none")]

Files == [stage : {"launched", "no-cdp", "eval-failed", "loop-failed", "token-set", "line"},
          beat : Value, tok : Value, ls : Value]

TypeOK ==
  /\ pc \in {"connect", "handshake", "spin", "publish", "done"} \cup Setup \cup Round
  /\ waiting \in BOOLEAN
  /\ tries \in 0..Retries
  /\ mid \in 0..(MaxId + 1)
  /\ got \in Seq(Value)
  /\ chrome \in {"up", "hung", "dead"}
  /\ asked \in Seq([id : Nat, what : Setup \cup Round])
  /\ cut \in Seq([id : Nat, val : Value])
  /\ stream \in Seq([part : {"head", "body"}, id : Nat, val : Value])
  /\ page \in [sess : BOOLEAN, ls : BOOLEAN, beat : Nat]
  /\ token \in BOOLEAN
  /\ file \in Files
  /\ top \in Nat
  /\ fork \in [done : BOOLEAN, beat : Nat, top : Nat]
  /\ probe \in Seq(Files) /\ Len(probe) <= 2

Init ==
  /\ pc = "connect" /\ waiting = FALSE /\ tries = Retries /\ mid = 0 /\ got = << >>
  /\ chrome = "up" /\ asked = << >> /\ cut = << >> /\ stream = << >>
  /\ page = [sess |-> FALSE, ls |-> FALSE, beat |-> 0]
  /\ token = FALSE /\ file = Stage("launched") /\ top = 0
  /\ fork = [done |-> FALSE, beat |-> 0, top |-> 0] /\ probe = << >>

-----------------------------------------------------------------------------
(* Chrome: external, as the workload uses it. *)

(* The page and the value after an expression. *)
After(what) ==
  CASE what = "session" -> [sess |-> TRUE, ls |-> TRUE, beat |-> 0]
    [] what = "beat" -> [page EXCEPT !.beat = @ + 1]
    [] OTHER -> page

Eval(what) ==
  CASE what = "navigate" -> V("nav")
    [] what = "ready" -> V("ready")
    [] what = "session" -> V("ok")
    [] what = "beat" -> [is |-> "beat", n |-> page.beat + 1]
    [] what = "sess" -> V(IF page.sess THEN "token" ELSE "none")
    [] what = "ls" -> V(IF page.ls THEN "token" ELSE "none")

(* An error instead: nothing is evaluated, or the session's expression     *)
(* throws at localStorage, which a page without an origin does not have.   *)
AfterError(what) ==
  {page} \cup IF what = "session" THEN {[page EXCEPT !.sess = TRUE]} ELSE {}

(* The next message is evaluated and the header of the answer sent; an     *)
(* answer goes out whole before the next one starts.                       *)
Evaluate ==
  /\ chrome = "up" /\ asked # << >> /\ cut = << >>
  /\ LET q == Head(asked) IN
     /\ \E v \in {Eval(q.what), V("none")} :
          /\ \/ v = Eval(q.what) /\ page' = After(q.what)
             \/ v = V("none") /\ page' \in AfterError(q.what)
          /\ cut' = << [id |-> q.id, val |-> v] >>
     /\ stream' = Append(stream, [part |-> "head", id |-> q.id, val |-> V("none")])
  /\ asked' = Tail(asked)
  /\ UNCHANGED <<workload, chrome, disk, top, spike>>

SendBody ==
  /\ chrome = "up" /\ cut # << >>
  /\ stream' = Append(stream, [part |-> "body", id |-> Head(cut).id, val |-> Head(cut).val])
  /\ cut' = << >>
  /\ UNCHANGED <<workload, chrome, asked, page, disk, top, spike>>

(* It stops answering, or exits: what is in the socket can still be read. *)
Stop(how) ==
  /\ chrome = "up"
  /\ chrome' = how
  /\ UNCHANGED <<workload, asked, cut, stream, page, disk, top, spike>>

-----------------------------------------------------------------------------
(* main, until the websocket is there *)

(* page_ws finds a target and the connection is made ... *)
Connect ==
  /\ pc = "connect" /\ tries > 0 /\ chrome = "up"
  /\ pc' = "handshake"
  /\ UNCHANGED <<waiting, tries, mid, got, browser, disk, top, spike>>

(* ... WS.__init__ reads the response to the upgrade, and the attempts are *)
(* over ...                                                                *)
Upgraded ==
  /\ pc = "handshake" /\ chrome = "up"
  /\ pc' = "navigate" /\ tries' = 0
  /\ UNCHANGED <<waiting, mid, got, browser, disk, top, spike>>

(* ... or times out, or cannot connect, and tries again. *)
ConnectFails ==
  /\ \/ pc = "connect" /\ tries > 0
     \/ pc = "handshake" /\ chrome # "dead"
  /\ pc' = "connect" /\ tries' = tries - 1
  /\ UNCHANGED <<waiting, mid, got, browser, disk, top, spike>>

(* At the end of the stream recv returns nothing, again and again: the     *)
(* loop of WS.__init__ does not look.                                      *)
HandshakeSpins ==
  /\ pc = "handshake" /\ chrome = "dead"
  /\ pc' = "spin"
  /\ UNCHANGED <<waiting, tries, mid, got, browser, disk, top, spike>>

NoCdp ==
  /\ pc = "connect" /\ tries = 0
  /\ pc' = "done" /\ file' = Stage("no-cdp")
  /\ UNCHANGED <<waiting, tries, mid, got, browser, token, top, spike>>

-----------------------------------------------------------------------------
(* ev: one message, then recv until its answer *)

(* While Chrome answers, ids stay within MaxId; later ones go unanswered. *)
Send ==
  /\ pc \in Setup \cup Round /\ ~waiting
  /\ mid < MaxId \/ chrome # "up"
  /\ mid' = IF mid < MaxId THEN mid + 1 ELSE MaxId + 1
  /\ waiting' = TRUE
  /\ asked' = IF mid < MaxId THEN Append(asked, [id |-> mid + 1, what |-> pc]) ELSE asked
  /\ UNCHANGED <<pc, tries, got, chrome, cut, stream, page, disk, top, spike>>

Aligned == stream # << >> /\ Head(stream).part = "head"
WholeFrame == Aligned /\ Len(stream) > 1
From(s, k) == SubSeq(s, k + 1, Len(s))

(* What the workload does with the value of its expression.  Those of the  *)
(* navigation and of the session are not looked at.                        *)
Take(v) ==
  /\ waiting' = FALSE
  /\ got' = IF pc \in Round THEN Append(got, v) ELSE << >>
  /\ \/ pc = "navigate" /\ pc' = "ready" /\ UNCHANGED disk
     \/ pc = "ready" /\ pc' \in {"ready", "session"} /\ UNCHANGED disk
     \/ /\ pc = "session" /\ pc' = "beat"
        /\ token' = TRUE /\ file' = TokenSet
     \/ pc = "beat" /\ pc' = "sess" /\ UNCHANGED disk
     \/ pc = "sess" /\ pc' = "ls" /\ UNCHANGED disk
     \/ pc = "ls" /\ pc' = "publish" /\ UNCHANGED disk

(* Mutant: any answer is taken for the one awaited. *)
ReceiveAny ==
  /\ waiting /\ WholeFrame
  /\ stream' = From(stream, 2)
  /\ Take(stream[2].val)
  /\ UNCHANGED <<tries, mid, chrome, asked, cut, page, top, spike>>

(* A whole frame: the answer to this message, or a late one to an earlier  *)
(* message, which is dropped.                                              *)
Receive ==
  /\ waiting /\ WholeFrame
  /\ stream' = From(stream, 2)
  /\ IF stream[2].id = mid
       THEN Take(stream[2].val)
       ELSE UNCHANGED <<pc, waiting, got, disk>>
  /\ UNCHANGED <<tries, mid, chrome, asked, cut, page, top, spike>>

(* Mutant: a failed round keeps what it has got, and says nothing. *)
FailKeeps ==
  /\ waiting' = FALSE
  /\ pc' = IF pc \in Setup THEN "done" ELSE "beat"
  /\ UNCHANGED <<got, disk>>

(* The exception of a recv: in the setup it ends main, later the round. *)
Fail ==
  /\ waiting' = FALSE /\ got' = << >>
  /\ \/ pc \in Setup /\ pc' = "done" /\ file' = Stage("eval-failed")
     \/ pc \in Round /\ pc' = "beat" /\ file' = Stage("loop-failed")
  /\ UNCHANGED token

(* Nothing more comes for 20 s, or the socket is closed.  A header that    *)
(* was there has been read.                                                *)
TimeOut ==
  /\ waiting /\ ~WholeFrame /\ (stream = << >> \/ Aligned)
  /\ stream' = << >>
  /\ Fail
  /\ UNCHANGED <<tries, mid, chrome, asked, cut, page, top, spike>>

(* The rest of a frame is read as a header: some of what is in the socket  *)
(* is used up, and it is a control frame, or it does not parse.            *)
Garbage ==
  /\ waiting /\ stream # << >> /\ ~Aligned
  /\ \E k \in 1..Len(stream) : stream' = From(stream, k)
  /\ (UNCHANGED <<pc, waiting, got, disk>> \/ Fail)
  /\ UNCHANGED <<tries, mid, chrome, asked, cut, page, top, spike>>

(* Mutant: a round starts with what the last one got. *)
PublishKeeps ==
  /\ pc = "publish"
  /\ file' = Line(got[1], got[2], got[3])
  /\ top' = IF got[1].is = "beat" THEN got[1].n ELSE top
  /\ pc' = "beat"
  /\ UNCHANGED <<waiting, tries, mid, got, browser, token, spike>>

(* The state is replaced, and the next round starts. *)
Publish ==
  /\ pc = "publish"
  /\ file' = Line(got[1], got[2], got[3])
  /\ top' = IF got[1].is = "beat" THEN got[1].n ELSE top
  /\ pc' = "beat" /\ got' = << >>
  /\ UNCHANGED <<waiting, tries, mid, browser, token, spike>>

-----------------------------------------------------------------------------
(* The spike *)

(* With a token there the base is snapshotted and killed, and the fork     *)
(* goes on from the snapshot, Chrome and the workload alike.               *)
Fork ==
  /\ token /\ ~fork.done
  /\ fork' = [done |-> TRUE, beat |-> page.beat, top |-> top]
  /\ UNCHANGED <<workload, browser, disk, top, probe>>

(* BROWSER_CHECK, which the spike sends to the fork twice. *)
Check ==
  /\ fork.done /\ Len(probe) < 2
  /\ probe' = Append(probe, file)
  /\ UNCHANGED <<workload, browser, disk, top, fork>>

(* A state with a number for its heartbeat, as the spike parses it. *)
Numeric(f) == f.stage \in {"token-set", "line"} /\ f.beat.is = "beat"

(* Mutant: a heartbeat that stands still will do. *)
PassStandsStill ==
  /\ Len(probe) = 2
  /\ Numeric(probe[1]) /\ Numeric(probe[2])
  /\ probe[2].beat.n >= probe[1].beat.n
  /\ probe[2].ls = V("token")

(* The heartbeat advances, the stored token is the base one, and so is     *)
(* that of the first check's browser_token, a file that does not change.   *)
Pass ==
  /\ Len(probe) = 2
  /\ Numeric(probe[1]) /\ Numeric(probe[2])
  /\ probe[2].beat.n > probe[1].beat.n
  /\ probe[2].ls = V("token")

Workload ==
  \/ Connect \/ Upgraded \/ ConnectFails \/ HandshakeSpins \/ NoCdp
  \/ Send \/ Receive \/ TimeOut \/ Garbage \/ Publish

Next ==
  \/ Workload
  \/ Evaluate \/ SendBody
  \/ \E how \in {"hung", "dead"} : Stop(how)
  \/ Fork \/ Check

Spec == Init /\ [][Next]_vars

(* The workload's process runs; Chrome owes nothing. *)
FairSpec == Spec /\ WF_vars(Workload)

-----------------------------------------------------------------------------
(* Properties. *)

(***************************************************************************)
(* Every field of a published line is None or was the page's: a heartbeat  *)
(* it has counted, its session token, its stored token.  It is never the   *)
(* answer to another expression, although timed-out answers arrive later   *)
(* and a timeout inside a frame puts the reader out of step with the       *)
(* stream.  (The state "token-set" is written without looking at the page.)*)
(***************************************************************************)
Held(v, b) == v = V("none") \/ (v = V("token") /\ b)

PublishedIsReal ==
  file.stage = "line" =>
    /\ file.beat = V("none") \/ (file.beat.is = "beat" /\ file.beat.n \in 1..page.beat)
    /\ Held(file.tok, page.sess) /\ Held(file.ls, page.ls)

(* A round that publishes a heartbeat publishes one later than all before. *)
BeatAdvances ==
  pc = "publish" /\ pc' = "beat" /\ Numeric(file') => file'.beat.n > top

(***************************************************************************)
(* No heartbeat is published twice or after a greater one, whatever came   *)
(* in between (failed rounds, rounds without a value): what the spike      *)
(* takes for an advance is one.                                            *)
(***************************************************************************)
BeatsAdvance == [][BeatAdvances]_vars

(***************************************************************************)
(* The verdict PASS rests on what is not older than the fork: the second   *)
(* heartbeat is at least the page's when the snapshot was taken, although  *)
(* a line of before the fork may be the first check's and timed-out        *)
(* heartbeats may still be on their way; and the page stores the token.    *)
(* "Chrome is alive and responsive AFTER the fork" (spike_j_browser.py)    *)
(* does not follow: the page has evaluated a heartbeat since the fork, or  *)
(* else the advance is the publication, by the fork, of one that was       *)
(* evaluated and not published when the snapshot was taken.                *)
(***************************************************************************)
PassIsRecent ==
  Pass => /\ page.ls
          /\ probe[2].beat.n >= fork.beat
          /\ page.beat > fork.beat \/ fork.beat > fork.top

(***************************************************************************)
(* "A hung evaluate fails visibly instead of blocking forever" (main): if  *)
(* Chrome hangs or exits the state file says so in the end.  The exception *)
(* is an exit during the upgrade, on which WS.__init__ spins.              *)
(***************************************************************************)
FailsVisibly ==
  chrome # "up" ~> \/ file.stage \in {"no-cdp", "eval-failed", "loop-failed"}
                   \/ pc = "spin"
=============================================================================
