----------------------------- MODULE VoteDelivery -----------------------------
(***************************************************************************)
(* How a vote cast over the HTTP API gets from the root to the nodes that  *)
(* are to mine it: add_vote with its fan-out, distribute_vote_task with    *)
(* its retries, and the connections it makes.  One vote is cast.           *)
(*                                                                         *)
(* A connection is used the way every push of the program uses one: the    *)
(* sender writes once, does not look at how much was written, and drops    *)
(* the stream, which with a linger time of zero resets the connection;     *)
(* server_process reads until a read returns less than its buffer takes.   *)
(* A message is so many bytes, and wincode makes a message of all of them  *)
(* or of none.                                                             *)
(*                                                                         *)
(* Sockets are not part of the sources: what a write, a read and a reset   *)
(* may do here is what TCP and the operating system allow.                 *)
(***************************************************************************)
EXTENDS Integers, SequencesExt, FiniteSets

CONSTANTS
  Peer,        \* the addresses the root may know
  Buffer,      \* how many bytes a read takes at most
  Lengths,     \* the lengths a serialized message may have
  InitialPeers,  \* the peers the root may know in the beginning
  MaxUpsets    \* bound: how many peers crash, are learnt or forgotten, and how
               \* many writes fail to peers that run

ASSUME PeerAssumption == IsFiniteSet(Peer)
ASSUME BufferAssumption == Buffer \in Nat \ {0}
ASSUME LengthsAssumption == Lengths \subseteq Nat \ {0}
ASSUME InitialPeersAssumption == InitialPeers \subseteq SUBSET Peer
ASSUME UpsetsAssumption == MaxUpsets \in Nat

VARIABLES
  known,       \* KnownPeers::peers of the root
  alive,       \* the peers whose process runs
  length,      \* the length of the message, a DistributeMiningTask
  pc,          \* where the request is
  fanOut,      \* how many rounds there are to be
  round,       \* the round the request is in
  attempt,     \* the attempt of that round
  drawFrom,    \* the peers known when each round began; the last are drawn from
  vain,        \* history: the attempts that failed, each with its round
  conns,       \* the connections the root opened, in the order it did
  upsets       \* how many of the upsets there were that MaxUpsets bounds

vars ==
  <<known, alive, length, pc, fanOut, round, attempt, drawFrom, vain, conns,
    upsets>>

\* Of a connection: how many bytes are written and still to be read, how many
\* were read, where sender and reader are, whether the stream was reset, and,
\* as history, whether it went smoothly: the message was written as a whole,
\* nothing of it was discarded, and no read returned less than was left to
\* read and would have fit.
Connections ==
  [to: Peer, round: Nat, sender: {"open", "sent", "failed"}, reset: BOOLEAN,
   reader: {"reading", "handled", "dropped", "dead"},
   unread: Nat, got: Nat, smooth: BOOLEAN]

TypeOK ==
  /\ known \subseteq Peer
  /\ alive \subseteq Peer
  /\ length \in Lengths
  /\ pc \in {"count", "round", "draw", "write", "drop", "answered"}
  /\ fanOut \in Nat
  /\ round \in Nat
  /\ attempt \in Nat
  /\ drawFrom \in Seq(SUBSET Peer)
  /\ vain \subseteq Nat \X Nat
  /\ conns \in Seq(Connections)
  /\ upsets \in Nat

Init ==
  /\ known \in InitialPeers
  /\ alive = Peer
  /\ length \in Lengths
  /\ pc = "count"
  /\ fanOut = 0
  /\ round = 0
  /\ attempt = 0
  /\ drawFrom = <<>>
  /\ vain = {}
  /\ conns = <<>>
  /\ upsets = 0

-----------------------------------------------------------------------------
(* add_vote and distribute_vote_task *)

MaxAttempts == 3

\* ceil(0.4 n), and at least 1.
FanOut(n) == IF n = 0 THEN 1 ELSE (2 * n + 4) \div 5

Done == round > fanOut

CountPeers ==
  /\ pc = "count"
  /\ fanOut' = FanOut(Cardinality(known))
  /\ round' = 1
  /\ pc' = "round"
  /\ UNCHANGED <<known, alive, length, attempt, drawFrom, vain, conns, upsets>>

\* A round draws from the peers known when it begins, or does nothing if
\* there are none.
BeginRound ==
  /\ pc = "round" /\ ~Done
  /\ drawFrom' = Append(drawFrom, known)
  /\ IF known = {}
       THEN round' = round + 1 /\ UNCHANGED <<pc, attempt>>
       ELSE pc' = "draw" /\ attempt' = 1 /\ UNCHANGED round
  /\ UNCHANGED <<known, alive, length, fanOut, vain, conns, upsets>>

\* The request is answered with OK, whatever became of the rounds.
AnswerOk ==
  /\ pc = "round" /\ Done
  /\ pc' = "answered"
  /\ UNCHANGED <<known, alive, length, fanOut, round, attempt, drawFrom, vain,
                 conns, upsets>>

\* What may go wrong at any time goes wrong so often only.
Upset == upsets < MaxUpsets /\ upsets' = upsets + 1

EndRound == pc' = "round" /\ round' = round + 1 /\ attempt' = 0

\* A mistake in NextAttempt: the last attempt is left out.
GiveUpEarly ==
  IF attempt + 1 < MaxAttempts
    THEN pc' = "draw" /\ attempt' = attempt + 1 /\ UNCHANGED round
    ELSE EndRound

NextAttempt ==
  IF attempt < MaxAttempts
    THEN pc' = "draw" /\ attempt' = attempt + 1 /\ UNCHANGED round
    ELSE EndRound

\* open_stream to a peer drawn at random succeeds; any peer may be drawn again
\* in another attempt and another round.
Connect(p) ==
  /\ pc = "draw"
  /\ p \in Last(drawFrom) \cap alive
  /\ conns' = Append(conns,
       [to |-> p, round |-> round, sender |-> "open", reset |-> FALSE,
        reader |-> "reading", unread |-> 0, got |-> 0, smooth |-> FALSE])
  /\ pc' = "write"
  /\ UNCHANGED <<known, alive, length, fanOut, round, attempt, drawFrom, vain,
                 upsets>>

\* It fails, and it may whether the peer runs or not.
ConnectFails(p) ==
  /\ pc = "draw"
  /\ p \in Last(drawFrom)
  /\ vain' = vain \cup {<<round, attempt>>}
  /\ NextAttempt
  /\ UNCHANGED <<known, alive, length, fanOut, drawFrom, conns, upsets>>

\* send_packet_req: write() takes the first k bytes of the message.
Write(k) ==
  /\ pc = "write"
  /\ conns' = [conns EXCEPT ![Len(conns)].sender = "sent",
                            ![Len(conns)].unread = k,
                            ![Len(conns)].smooth = (k = length)]
  /\ pc' = "drop"
  /\ UNCHANGED <<known, alive, length, fanOut, round, attempt, drawFrom, vain,
                 upsets>>

\* The write fails, and nothing is taken; no wonder if the peer has ended.
WriteFails ==
  /\ pc = "write"
  /\ IF conns[Len(conns)].to \in alive THEN Upset ELSE UNCHANGED upsets
  /\ conns' = [conns EXCEPT ![Len(conns)].sender = "failed"]
  /\ vain' = vain \cup {<<round, attempt>>}
  /\ pc' = "drop"
  /\ UNCHANGED <<known, alive, length, fanOut, round, attempt, drawFrom>>

\* Mistakes in Reset and RoundIsOver: the stream stays open, or the round
\* goes on after a success.
KeptOpen(c, lost) == c
NeverOver == FALSE

\* A stream that is dropped resets connection c; lost bytes that were not read
\* yet are discarded.
Reset(c, lost) ==
  [c EXCEPT !.reset = TRUE, !.unread = @ - lost, !.smooth = @ /\ lost = 0]

\* The first write that succeeds ends the round.
RoundIsOver == conns[Len(conns)].sender = "sent"

\* distribute_vote_task returns, or goes on to the next attempt; either way
\* it drops the stream.
Drop(lost) ==
  /\ pc = "drop"
  /\ lost \in 0..conns[Len(conns)].unread
  /\ conns' = [conns EXCEPT ![Len(conns)] = Reset(@, lost)]
  /\ IF RoundIsOver THEN EndRound ELSE NextAttempt
  /\ UNCHANGED <<known, alive, length, fanOut, drawFrom, vain, upsets>>

-----------------------------------------------------------------------------
(* server_process at the other end of connection i *)

\* Mistakes in Fits and LastRead: a read is taken to fill the buffer, or a
\* full buffer to end the message.
FillsBuffer(i, k) == k = Buffer
LastReadAlways(k) == k <= Buffer

\* A read may return k of the bytes of connection i.
Fits(i, k) == k \in 1..conns[i].unread /\ k <= Buffer

\* The loop ends with a read that does not fill the buffer.
LastRead(k) == k < Buffer

\* The handler of connection c ends, and its buffer and the stream with it.
Ended(c, how) == [c EXCEPT !.reader = how, !.unread = 0, !.got = 0]

AfterRead(c, k) ==
  [c EXCEPT !.got = @ + k, !.unread = @ - k,
            !.smooth = @ /\ (k = Buffer \/ k = c.unread)]

\* A read returns k bytes.  After the last one the message is deserialized,
\* which takes all of its bytes; then it is handled.
Read(i, k) ==
  LET c == AfterRead(conns[i], k)
  IN  /\ conns[i].reader = "reading"
      /\ Fits(i, k)
      /\ conns' = [conns EXCEPT ![i] =
           IF ~LastRead(k) THEN c
           ELSE Ended(c, IF c.got = length THEN "handled" ELSE "dropped")]
      /\ UNCHANGED <<known, alive, length, pc, fanOut, round, attempt, drawFrom,
                     vain, upsets>>

\* Nothing is left to read, and the connection was reset: the read returns an
\* error, and unwrap() ends the handler.
ReadError(i) ==
  /\ conns[i].reader = "reading"
  /\ conns[i].unread = 0 /\ conns[i].reset
  /\ conns' = [conns EXCEPT ![i] = Ended(@, "dead")]
  /\ UNCHANGED <<known, alive, length, pc, fanOut, round, attempt, drawFrom,
                 vain, upsets>>

-----------------------------------------------------------------------------
(* Meanwhile *)

\* The process of peer p ends, and with it the handlers it runs.
Crash(p) ==
  /\ p \in alive
  /\ Upset
  /\ alive' = alive \ {p}
  /\ conns' = [i \in DOMAIN conns |->
                 IF conns[i].to = p /\ conns[i].reader = "reading"
                   THEN Ended(conns[i], "dead")
                   ELSE conns[i]]
  /\ UNCHANGED <<known, length, pc, fanOut, round, attempt, drawFrom, vain>>

\* Other handlers of the root add p when they hear of it, and remove it when a
\* push of theirs to it failed, at any time; it matters when known is read
\* next.
LearnOrForget(p) ==
  /\ pc \in {"count", "round"} /\ ~(pc = "round" /\ Done)
  /\ Upset
  /\ known' \in {known \cup {p}, known \ {p}} \ {known}
  /\ UNCHANGED <<alive, length, pc, fanOut, round, attempt, drawFrom, vain,
                 conns>>

Request ==
  \/ CountPeers \/ BeginRound \/ AnswerOk
  \/ \E p \in Peer : Connect(p) \/ ConnectFails(p)
  \/ \E k \in 1..length : Write(k)
  \/ WriteFails
  \/ \E lost \in 0..length : Drop(lost)

Serve(i) == ReadError(i) \/ \E k \in 1..Buffer : Read(i, k)

ServeSome == \E i \in DOMAIN conns : Serve(i)

Next ==
  \/ Request
  \/ ServeSome
  \/ \E p \in Peer : Crash(p) \/ LearnOrForget(p)

Spec == Init /\ [][Next]_vars

\* The request and the readers go on while they can: a connection attempt and
\* a write come to an end, and what was sent arrives or the reset does.
FairSpec == Spec /\ WF_vars(Request) /\ WF_vars(ServeSome)

-----------------------------------------------------------------------------
(* Properties *)

\* What an OK may hide.  Every round was made, and one that got the vote to
\* nobody found nobody known, had every attempt it is allowed fail, or sent the
\* vote once and had it lost on the way: on a connection that did not go
\* smoothly, with the peer, or for its length.
OkHidesNoOtherLoss ==
  pc = "answered" =>
    /\ Len(drawFrom) = fanOut
    /\ \A r \in 1..fanOut :
         \/ drawFrom[r] = {}
         \/ \A a \in 1..MaxAttempts : <<r, a>> \in vain
         \/ \E i \in DOMAIN conns :
              LET c == conns[i]
              IN  /\ c.round = r /\ c.sender = "sent"
                  /\ \/ c.reader \in {"reading", "handled"}
                     \/ ~c.smooth \/ c.to \notin alive \/ length % Buffer = 0

\* The attempts of a round are retries of one delivery: at most one of them
\* has the vote handled by a peer, however writes and connections fail.
RetryNeverDoubles ==
  \A i, j \in DOMAIN conns :
    /\ conns[i].round = conns[j].round
    /\ conns[i].reader = "handled" /\ conns[j].reader = "handled"
    => i = j

\* The boundary of the read loop.  If all goes smoothly the message is
\* handled exactly if its length is no multiple of the buffer's: after a last
\* full read the loop asks for more, and the reset takes the message with it.
SmoothIsHandled ==
  \A i \in DOMAIN conns :
    LET c == conns[i]
    IN  c.smooth /\ c.to \in alive /\ c.reader # "reading"
          => (c.reader = "handled" <=> length % Buffer # 0)

\* The request is always answered, and no handler waits for ever for the rest
\* of a message: the reset ends what the message's length does not.
Served ==
  <>[](pc = "answered" /\ \A i \in DOMAIN conns : conns[i].reader # "reading")
=============================================================================
