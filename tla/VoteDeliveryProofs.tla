-------------------------- MODULE VoteDeliveryProofs --------------------------
(***************************************************************************)
(* Proofs about VoteDelivery, for every finite set of peers, every size of *)
(* the buffer and every length of a message, however writes and reads fall.*)
(***************************************************************************)
EXTENDS VoteDelivery, FiniteSetTheorems, TLAPS

-----------------------------------------------------------------------------
(* The inductive invariant *)

\* Where the request is goes with the last connection it opened.
LastIsCurrent ==
  /\ pc = "count" => conns = <<>> /\ round = 0
  /\ pc # "count" => round > 0
  /\ pc \in {"write", "drop"} =>
       Len(conns) > 0 /\ conns[Len(conns)].round = round
  /\ pc = "write" => conns[Len(conns)].sender = "open"
  /\ pc = "answered" => round > fanOut

\* What was sent in this round is sent by the connection to be dropped next,
\* and it is the only one of its round.
SentOnceARound ==
  /\ \A i \in 1..Len(conns) :
       /\ conns[i].round <= round
       /\ conns[i].sender = "open" => pc = "write" /\ i = Len(conns)
       /\ conns[i].sender = "sent" /\ conns[i].round = round
            => pc = "drop" /\ i = Len(conns)
  /\ \A i, j \in 1..Len(conns) :
       conns[i].round = conns[j].round
         /\ conns[i].sender = "sent" /\ conns[j].sender = "sent" => i = j

\* Round r sent the vote, or found nobody known, or failed in every attempt.
RoundIsMade(r) ==
  \/ drawFrom[r] = {}
  \/ \A a \in 1..MaxAttempts : <<r, a>> \in vain
  \/ \E i \in 1..Len(conns) : conns[i].round = r /\ conns[i].sender = "sent"

\* The attempts before this one have failed, and so has this one once its
\* write has.
AttemptsFailed ==
  pc \in {"draw", "write", "drop"} =>
    /\ attempt \in 1..MaxAttempts
    /\ \A a \in 1..(attempt - 1) : <<round, a>> \in vain
    /\ pc = "drop" =>
         conns[Len(conns)].sender = "sent" \/ <<round, attempt>> \in vain

RoundsMade ==
  /\ pc = "count" => drawFrom = <<>>
  /\ pc = "round" => Len(drawFrom) = round - 1 /\ round <= fanOut + 1
  /\ pc \in {"draw", "write", "drop"} => Len(drawFrom) = round /\ round <= fanOut
  /\ pc = "answered" => Len(drawFrom) = fanOut /\ round = fanOut + 1
  /\ \A r \in 1..(round - 1) : RoundIsMade(r)

\* A connection c that goes smoothly is read in full buffers, up to the last
\* read; until its message, of len bytes, is written nothing happens to it,
\* but its peer may leave those that live.
Sound(c, live, len) ==
  /\ c.sender # "sent" =>
       c.unread = 0 /\ c.got = 0 /\ ~c.smooth /\ c.reader \in {"reading", "dead"}
  /\ c.sender = "open" => ~c.reset /\ (c.reader = "dead" => c.to \notin live)
  /\ c.smooth /\ c.reader = "reading" =>
       /\ c.got + c.unread = len
       /\ \E q \in 0..c.got : c.got = q * Buffer
  /\ c.smooth /\ c.to \in live /\ c.reader # "reading" =>
       (c.reader = "handled" <=> len % Buffer # 0)

VoteInv ==
  /\ TypeOK
  /\ LastIsCurrent
  /\ SentOnceARound
  /\ RoundsMade
  /\ AttemptsFailed
  /\ \A i \in 1..Len(conns) : Sound(conns[i], alive, length)

-----------------------------------------------------------------------------
(* Arithmetic *)

(***************************************************************************)
(* The number of rounds is 40 percent of the peers, rounded up, and one if *)
(* there are none.                                                         *)
(***************************************************************************)
LEMMA FanOutIsCeiling ==
  ASSUME NEW n \in Nat
  PROVE  /\ FanOut(n) \in Nat /\ FanOut(n) >= 1
         /\ n > 0 => 10 * FanOut(n) >= 4 * n /\ 10 * (FanOut(n) - 1) < 4 * n
BY DEF FanOut

(***************************************************************************)
(* What is left of a message after full buffers.                           *)
(***************************************************************************)
LEMMA RestOfMessage ==
  ASSUME NEW q \in Nat, NEW k \in Nat, k < Buffer
  PROVE  (q * Buffer + k) % Buffer = k
BY BufferAssumption

(***************************************************************************)
(* One more full buffer.                                                   *)
(***************************************************************************)
LEMMA AnotherBuffer ==
  ASSUME NEW n \in Nat, NEW q \in 0..n, n = q * Buffer
  PROVE  q + 1 \in 0..(n + Buffer) /\ n + Buffer = (q + 1) * Buffer
BY BufferAssumption

-----------------------------------------------------------------------------
(* What happens to one connection *)

\* Connection i becomes d, and the others stay as they are.
Becomes(i, d) ==
  /\ conns' \in Seq(Connections)
  /\ Len(conns') = Len(conns)
  /\ conns'[i] = d
  /\ \A j \in 1..Len(conns) \ {i} : conns'[j] = conns[j]

(***************************************************************************)
(* Replacing an element of a sequence.                                     *)
(***************************************************************************)
LEMMA ReplacedElement ==
  ASSUME TypeOK, NEW i \in 1..Len(conns), NEW d \in Connections,
         conns' = [conns EXCEPT ![i] = d]
  PROVE  Becomes(i, d)
BY DEF Becomes, TypeOK

(***************************************************************************)
(* Connections are records of the declared type.                           *)
(***************************************************************************)
LEMMA ConnectionType ==
  ASSUME TypeOK, NEW i \in 1..Len(conns)
  PROVE  conns[i] \in Connections
BY DEF TypeOK

(***************************************************************************)
(* What nobody touches stays sound, while peers crash.                     *)
(***************************************************************************)
LEMMA StaysSound ==
  ASSUME NEW c, NEW live, NEW less \in SUBSET live, NEW len, Sound(c, live, len)
  PROVE  Sound(c, less, len)
BY DEF Sound

(***************************************************************************)
(* The parts of a connection.                                              *)
(***************************************************************************)
LEMMA PartsOfConnection ==
  ASSUME NEW c \in Connections
  PROVE  /\ c.to \in Peer /\ c.round \in Nat
         /\ c.sender \in {"open", "sent", "failed"}
         /\ c.reset \in BOOLEAN
         /\ c.reader \in {"reading", "handled", "dropped", "dead"}
         /\ c.unread \in Nat /\ c.got \in Nat /\ c.smooth \in BOOLEAN
BY DEF Connections

\* Connection c after a write of k bytes of a message of len bytes, and after
\* a read of k bytes.
AfterWrite(c, k, len) ==
  [c EXCEPT !.sender = "sent", !.unread = k, !.smooth = (k = len)]

OnceRead(c, k, len) ==
  LET d == AfterRead(c, k)
  IN  IF ~LastRead(k) THEN d
      ELSE Ended(d, IF d.got = len THEN "handled" ELSE "dropped")

(***************************************************************************)
(* Writing k bytes.                                                        *)
(***************************************************************************)
LEMMA Written ==
  ASSUME NEW c \in Connections, NEW len \in Nat, NEW k \in 1..len, NEW live,
         c.sender = "open", Sound(c, live, len)
  PROVE  LET d == AfterWrite(c, k, len)
         IN  /\ d \in Connections /\ Sound(d, live, len)
             /\ d.to = c.to /\ d.round = c.round /\ d.sender = "sent"
<1> DEFINE whole == k = len
           d == AfterWrite(c, k, len)
<1>0. whole \in BOOLEAN /\ (whole => k = len) /\ k \in Nat
      /\ d = [c EXCEPT !.sender = "sent", !.unread = k, !.smooth = whole]
  BY DEF AfterWrite
<1> HIDE DEF whole, d
<1>1. /\ d \in Connections
      /\ d.to = c.to /\ d.round = c.round /\ d.sender = "sent" /\ d.reset = c.reset
      /\ d.reader = c.reader /\ d.unread = k /\ d.got = c.got /\ d.smooth = whole
  BY <1>0 DEF Connections
<1>2. c.got = 0 /\ c.reader \in {"reading", "dead"}
      /\ (c.reader = "dead" => c.to \notin live)
  BY DEF Sound
<1>3. d.smooth => k = len
  BY <1>0, <1>1
<1>4. d.smooth /\ d.reader = "reading" =>
        /\ d.got + d.unread = len
        /\ \E q \in 0..d.got : d.got = q * Buffer
  <2>1. d.got = 0 /\ d.unread = k
    BY <1>1, <1>2
  <2>2. 0 = 0 * Buffer
    BY BufferAssumption
  <2>3. QED
    BY <1>3, <2>1, <2>2
<1>5. ~(d.to \in live /\ d.reader # "reading")
  BY <1>1, <1>2
<1>6. Sound(d, live, len)
  BY <1>1, <1>4, <1>5 DEF Sound
<1>7. QED
  BY <1>1, <1>6 DEF d, whole

(***************************************************************************)
(* A write that fails.                                                     *)
(***************************************************************************)
LEMMA WriteFailed ==
  ASSUME NEW c \in Connections, NEW len, NEW live, c.sender = "open",
         Sound(c, live, len)
  PROVE  LET d == [c EXCEPT !.sender = "failed"]
         IN  /\ d \in Connections /\ Sound(d, live, len)
             /\ d.to = c.to /\ d.round = c.round /\ d.sender = "failed"
<1> DEFINE d == [c EXCEPT !.sender = "failed"]
<1>1. /\ d \in Connections
      /\ d.to = c.to /\ d.round = c.round /\ d.sender = "failed" /\ d.reset = c.reset
      /\ d.reader = c.reader /\ d.unread = c.unread /\ d.got = c.got
      /\ d.smooth = c.smooth
  BY DEF Connections
<1> HIDE DEF d
<1>2. Sound(d, live, len)
  BY <1>1 DEF Sound
<1>3. QED
  BY <1>1, <1>2 DEF d

(***************************************************************************)
(* A reset.                                                                *)
(***************************************************************************)
LEMMA WasReset ==
  ASSUME NEW c \in Connections, NEW len, NEW live, NEW lost \in 0..c.unread,
         c.sender # "open", Sound(c, live, len)
  PROVE  LET d == Reset(c, lost)
         IN  /\ d \in Connections /\ Sound(d, live, len)
             /\ d.to = c.to /\ d.round = c.round /\ d.sender = c.sender
<1> DEFINE whole == c.smooth /\ lost = 0
           d == Reset(c, lost)
<1>0. c.unread \in Nat /\ c.smooth \in BOOLEAN
  BY PartsOfConnection
<1>1. c.unread - lost \in Nat /\ whole \in BOOLEAN /\ (whole => c.smooth /\ lost = 0)
  BY <1>0
<1>2. d = [c EXCEPT !.reset = TRUE, !.unread = c.unread - lost, !.smooth = whole]
  BY DEF Reset
<1> HIDE DEF d, whole
<1>3. /\ d \in Connections
      /\ d.to = c.to /\ d.round = c.round /\ d.sender = c.sender /\ d.reset = TRUE
      /\ d.reader = c.reader /\ d.unread = c.unread - lost /\ d.got = c.got
      /\ d.smooth = whole
  BY <1>1, <1>2 DEF Connections
<1>4. d.smooth => c.smooth /\ d.unread = c.unread
  BY <1>0, <1>1, <1>3
<1>5. c.sender # "sent" => d.unread = 0
  BY <1>3 DEF Sound
<1>6. c.sender # "sent" => ~d.smooth
  BY <1>4 DEF Sound
<1>7. Sound(d, live, len)
  BY <1>3, <1>4, <1>5, <1>6 DEF Sound
<1>8. QED
  BY <1>3, <1>7 DEF d

(***************************************************************************)
(* A read of k bytes.                                                      *)
(***************************************************************************)
LEMMA WasRead ==
  ASSUME NEW c \in Connections, NEW len \in Nat, NEW live, NEW k \in 1..c.unread,
         k <= Buffer, c.reader = "reading", Sound(c, live, len)
  PROVE  LET d == OnceRead(c, k, len)
         IN  /\ d \in Connections /\ Sound(d, live, len)
             /\ d.to = c.to /\ d.round = c.round /\ d.sender = c.sender
<1> DEFINE smooth == c.smooth /\ (k = Buffer \/ k = c.unread)
           how == IF c.got + k = len THEN "handled" ELSE "dropped"
           e == [c EXCEPT !.got = c.got + k, !.unread = c.unread - k,
                          !.smooth = smooth]
           d == OnceRead(c, k, len)
<1>0. c.unread \in Nat /\ c.got \in Nat /\ c.smooth \in BOOLEAN /\ k \in Nat
      /\ Buffer \in Nat
  BY PartsOfConnection, BufferAssumption
<1>1. c.unread - k \in Nat /\ c.got + k \in Nat /\ smooth \in BOOLEAN
  BY <1>0
<1>2. AfterRead(c, k) = e
  BY DEF AfterRead
<1>3. /\ smooth => c.smooth /\ (k = Buffer \/ k = c.unread)
      /\ how \in {"handled", "dropped"}
      /\ how = "handled" <=> c.got + k = len
  BY <1>0
<1> HIDE DEF smooth
<1>4. /\ e \in Connections
      /\ e.to = c.to /\ e.round = c.round /\ e.sender = c.sender /\ e.reset = c.reset
      /\ e.reader = "reading" /\ e.unread = c.unread - k /\ e.got = c.got + k
      /\ e.smooth = smooth
  BY <1>1 DEF Connections
<1> HIDE DEF e
<1>5. d = IF k >= Buffer THEN e ELSE Ended(e, how)
  BY <1>0, <1>2, <1>4 DEF OnceRead, LastRead
<1> HIDE DEF d, how
<1>6. c.sender = "sent"
  BY <1>0 DEF Sound
<1>7. ASSUME smooth
      PROVE  /\ c.got + c.unread = len
             /\ \E q \in 0..c.got : c.got = q * Buffer
  BY <1>3, <1>7 DEF Sound
<1>8. CASE k >= Buffer
  <2>1. d = e
    BY <1>5, <1>8
  <2>2. ASSUME smooth
        PROVE  /\ e.got + e.unread = len
               /\ \E q \in 0..e.got : e.got = q * Buffer
    <3>1. k = Buffer
      BY <1>0, <1>8
    <3>2. PICK q \in 0..c.got : c.got = q * Buffer
      BY <1>7, <2>2
    <3>3. q + 1 \in 0..(c.got + Buffer) /\ c.got + Buffer = (q + 1) * Buffer
      BY <1>0, <3>2, AnotherBuffer
    <3>4. e.got = c.got + Buffer
      BY <1>4, <3>1
    <3>5. \E r \in 0..e.got : e.got = r * Buffer
      BY <3>3, <3>4
    <3>6. e.got + e.unread = len
      BY <1>0, <1>4, <1>7, <2>2
    <3>7. QED
      BY <3>5, <3>6
  <2>3. Sound(e, live, len)
    BY <1>4, <1>6, <2>2 DEF Sound
  <2>4. QED
    BY <1>4, <2>1, <2>3 DEF d
<1>9. CASE ~(k >= Buffer)
  <2> DEFINE f == Ended(e, how)
  <2>1. d = f
    BY <1>5, <1>9
  <2>2. /\ f \in Connections
        /\ f.to = c.to /\ f.round = c.round /\ f.sender = c.sender
        /\ f.reader = how /\ f.unread = 0 /\ f.got = 0 /\ f.smooth = smooth
    BY <1>3, <1>4 DEF Ended, Connections
  <2> HIDE DEF f
  <2>3. ASSUME smooth
        PROVE  how = "handled" /\ len % Buffer # 0
    <3>1. k < Buffer /\ k = c.unread /\ k > 0
      BY <1>0, <1>3, <1>9, <2>3
    <3>2. PICK q \in 0..c.got : c.got = q * Buffer
      BY <1>7, <2>3
    <3>3. len = q * Buffer + k /\ c.got + k = len
      BY <1>0, <1>7, <2>3, <3>1, <3>2
    <3>4. (q * Buffer + k) % Buffer = k
      BY <1>0, <3>1, RestOfMessage
    <3>5. QED
      BY <1>3, <3>1, <3>3, <3>4
  <2>4. how # "reading"
    BY <1>3
  <2>5. Sound(f, live, len)
    BY <1>6, <2>2, <2>3, <2>4 DEF Sound
  <2>6. QED
    BY <2>1, <2>2, <2>5 DEF d
<1>10. QED
  BY <1>8, <1>9

(***************************************************************************)
(* A read that fails: of a smooth connection everything has been read.     *)
(***************************************************************************)
LEMMA ReadFailed ==
  ASSUME NEW c \in Connections, NEW len \in Nat, NEW live, c.reader = "reading",
         c.unread = 0, c.reset, Sound(c, live, len)
  PROVE  LET d == Ended(c, "dead")
         IN  /\ d \in Connections /\ Sound(d, live, len)
             /\ d.to = c.to /\ d.round = c.round /\ d.sender = c.sender
<1> DEFINE d == Ended(c, "dead")
<1>1. /\ d \in Connections
      /\ d.to = c.to /\ d.round = c.round /\ d.sender = c.sender /\ d.reset = c.reset
      /\ d.reader = "dead" /\ d.unread = 0 /\ d.got = 0 /\ d.smooth = c.smooth
  BY DEF Ended, Connections
<1> HIDE DEF d
<1>2. ASSUME c.smooth
      PROVE  len % Buffer = 0
  <2>1. c.got + c.unread = len /\ \E q \in 0..c.got : c.got = q * Buffer
    BY <1>2 DEF Sound
  <2>2. PICK q \in 0..c.got : c.got = q * Buffer
    BY <2>1
  <2>3. c.got \in Nat
    BY PartsOfConnection
  <2>4. len = q * Buffer + 0
    BY <2>1, <2>2, <2>3
  <2>5. (q * Buffer + 0) % Buffer = 0
    BY <2>2, <2>3, RestOfMessage, BufferAssumption
  <2>6. QED
    BY <2>4, <2>5
<1>3. c.sender # "open"
  BY DEF Sound
<1>4. Sound(d, live, len)
  BY <1>1, <1>2, <1>3 DEF Sound
<1>5. QED
  BY <1>1, <1>4 DEF d

-----------------------------------------------------------------------------
(* What becomes of the rounds *)

\* Connections are added, and of those there were none moves to another round
\* or takes back what it sent.
ConnsStay ==
  /\ Len(conns') \in Nat /\ Len(conns') >= Len(conns)
  /\ \A i \in 1..Len(conns) :
       /\ conns'[i].round = conns[i].round
       /\ conns[i].sender = "sent" => conns'[i].sender = "sent"

(***************************************************************************)
(* A round that was made stays so.                                         *)
(***************************************************************************)
LEMMA MadeStays ==
  ASSUME Len(conns) \in Nat, ConnsStay, vain \subseteq vain', NEW r,
         drawFrom'[r] = drawFrom[r], RoundIsMade(r)
  PROVE  RoundIsMade(r)'
<1>1. 1..Len(conns) \subseteq 1..Len(conns')
  BY DEF ConnsStay
<1>2. QED
  BY <1>1 DEF RoundIsMade, ConnsStay

(***************************************************************************)
(* An attempt that failed is followed by another, or ends the round.       *)
(***************************************************************************)
LEMMA NextAttemptStep ==
  ASSUME VoteInv, pc \in {"draw", "drop"}, NextAttempt, ConnsStay,
         UNCHANGED <<fanOut, drawFrom>>, vain \subseteq vain',
         <<round, attempt>> \in vain'
  PROVE  RoundsMade' /\ AttemptsFailed'
<1>1. /\ round \in Nat /\ round > 0 /\ fanOut \in Nat /\ Len(conns) \in Nat
      /\ Len(drawFrom) = round /\ round <= fanOut
      /\ \A r \in 1..(round - 1) : RoundIsMade(r)
  BY DEF VoteInv, TypeOK, LastIsCurrent, RoundsMade
<1>2. /\ attempt \in 1..MaxAttempts /\ attempt \in Nat
      /\ \A a \in 1..(attempt - 1) : <<round, a>> \in vain
  BY DEF VoteInv, TypeOK, AttemptsFailed
<1>3. \A a \in 1..attempt : <<round, a>> \in vain'
  BY <1>2
<1>4. \A r \in 1..(round - 1) : RoundIsMade(r)'
  BY <1>1, MadeStays
<1>5. CASE attempt < MaxAttempts
  <2>1. pc' = "draw" /\ attempt' = attempt + 1 /\ round' = round
    BY <1>5 DEF NextAttempt
  <2>2. RoundsMade'
    BY <1>1, <1>4, <2>1 DEF RoundsMade
  <2>3. AttemptsFailed'
    BY <1>2, <1>3, <1>5, <2>1 DEF AttemptsFailed, MaxAttempts
  <2>4. QED
    BY <2>2, <2>3
<1>6. CASE ~(attempt < MaxAttempts)
  <2>1. pc' = "round" /\ round' = round + 1
    BY <1>6 DEF NextAttempt, EndRound
  <2>2. attempt = MaxAttempts
    BY <1>2, <1>6 DEF MaxAttempts
  <2>3. \A r \in 1..round : RoundIsMade(r)'
    <3>1. ASSUME NEW r, r = round
          PROVE  RoundIsMade(r)'
      BY <1>3, <2>2, <3>1 DEF RoundIsMade
    <3>2. QED
      BY <1>1, <1>4, <3>1
  <2>4. RoundsMade'
    BY <1>1, <2>1, <2>3 DEF RoundsMade
  <2>5. QED
    BY <2>1, <2>4 DEF AttemptsFailed
<1>7. QED
  BY <1>5, <1>6

-----------------------------------------------------------------------------
(* Steps of readers, and crashes *)

\* Connections may be read and reset, peers crash, be learnt or forgotten.
Meanwhile ==
  /\ conns' \in Seq(Connections)
  /\ Len(conns') = Len(conns)
  /\ \A i \in 1..Len(conns) :
       /\ conns'[i].to = conns[i].to /\ conns'[i].round = conns[i].round
       /\ conns'[i].sender = conns[i].sender
       /\ Sound(conns'[i], alive', length)
  /\ alive' \subseteq alive /\ known' \subseteq Peer /\ upsets' \in Nat
  /\ UNCHANGED <<length, pc, fanOut, round, attempt, drawFrom, vain>>

(***************************************************************************)
(* What the request relies on is not touched by others.                    *)
(***************************************************************************)
LEMMA MeanwhileKeeps ==
  ASSUME VoteInv, Meanwhile
  PROVE  VoteInv'
<1>1. TypeOK'
  BY DEF VoteInv, TypeOK, Meanwhile
<1>2. LastIsCurrent'
  <2>1. Len(conns) \in Nat /\ Len(conns') = Len(conns)
    BY DEF VoteInv, TypeOK, Meanwhile
  <2>2. conns = <<>> => conns' = <<>>
    BY <2>1 DEF Meanwhile
  <2>3. Len(conns) > 0 =>
          /\ conns'[Len(conns)].round = conns[Len(conns)].round
          /\ conns'[Len(conns)].sender = conns[Len(conns)].sender
    BY <2>1 DEF Meanwhile
  <2>4. QED
    BY <2>1, <2>2, <2>3 DEF VoteInv, LastIsCurrent, Meanwhile
<1>3. SentOnceARound'
  BY DEF VoteInv, SentOnceARound, Meanwhile
<1>4. RoundsMade' /\ AttemptsFailed'
  <2>1. Len(conns) \in Nat /\ Len(conns') = Len(conns) /\ ConnsStay
    BY DEF VoteInv, TypeOK, Meanwhile, ConnsStay
  <2>2. \A r \in 1..(round - 1) : RoundIsMade(r)'
    BY <2>1, MadeStays DEF VoteInv, RoundsMade, Meanwhile
  <2>3. RoundsMade'
    BY <2>2 DEF VoteInv, RoundsMade, Meanwhile
  <2>4. pc = "drop" => Len(conns) \in 1..Len(conns)
    BY <2>1 DEF VoteInv, LastIsCurrent
  <2>5. pc = "drop" => conns'[Len(conns)].sender = conns[Len(conns)].sender
    BY <2>4 DEF Meanwhile
  <2>6. AttemptsFailed'
    BY <2>1, <2>5 DEF VoteInv, AttemptsFailed, Meanwhile
  <2>7. QED
    BY <2>3, <2>6
<1>5. \A i \in 1..Len(conns') : Sound(conns'[i], alive', length')
  BY DEF Meanwhile
<1>6. QED
  BY <1>1, <1>2, <1>3, <1>4, <1>5 DEF VoteInv

(***************************************************************************)
(* A connection that only its reader touches.                              *)
(***************************************************************************)
LEMMA ReaderIsMeanwhile ==
  ASSUME VoteInv, NEW i \in 1..Len(conns), NEW d \in Connections,
         conns' = [conns EXCEPT ![i] = d], Sound(d, alive, length),
         d.to = conns[i].to, d.round = conns[i].round, d.sender = conns[i].sender,
         UNCHANGED <<known, alive, length, pc, fanOut, round, attempt, drawFrom,
                     vain, upsets>>
  PROVE  VoteInv'
<1>1. Becomes(i, d)
  BY ReplacedElement DEF VoteInv
<1>2. ASSUME NEW j \in 1..Len(conns)
      PROVE  /\ conns'[j].to = conns[j].to /\ conns'[j].round = conns[j].round
             /\ conns'[j].sender = conns[j].sender
             /\ Sound(conns'[j], alive, length)
  <2>1. CASE j = i
    BY <1>1, <2>1 DEF Becomes
  <2>2. CASE j # i
    <3>1. conns'[j] = conns[j]
      BY <1>1, <2>2 DEF Becomes
    <3>2. QED
      BY <3>1 DEF VoteInv
  <2>3. QED
    BY <2>1, <2>2
<1>3. Meanwhile
  BY <1>1, <1>2 DEF Meanwhile, Becomes, VoteInv, TypeOK
<1>4. QED
  BY <1>3, MeanwhileKeeps

(***************************************************************************)
(* Reads keep the invariant.                                               *)
(***************************************************************************)
LEMMA ReadStep ==
  ASSUME VoteInv, NEW i \in DOMAIN conns, NEW k \in 1..Buffer, Read(i, k)
  PROVE  VoteInv'
<1> DEFINE c == conns[i]
           d == OnceRead(c, k, length)
<1>1. i \in 1..Len(conns) /\ length \in Nat
  BY LengthsAssumption DEF VoteInv, TypeOK
<1>2. c \in Connections /\ Sound(c, alive, length)
  BY <1>1, ConnectionType DEF VoteInv
<1>3. c.reader = "reading" /\ k \in 1..c.unread /\ k <= Buffer
  BY DEF Read, Fits
<1>4. /\ d \in Connections /\ Sound(d, alive, length)
      /\ d.to = c.to /\ d.round = c.round /\ d.sender = c.sender
  BY <1>1, <1>2, <1>3, WasRead
<1>5. conns' = [conns EXCEPT ![i] = d]
  BY <1>1 DEF Read, OnceRead, VoteInv, TypeOK
<1>6. UNCHANGED <<known, alive, length, pc, fanOut, round, attempt, drawFrom,
                     vain, upsets>>
  BY DEF Read
<1> HIDE DEF d
<1>7. QED
  BY <1>1, <1>4, <1>5, <1>6, ReaderIsMeanwhile

(***************************************************************************)
(* So do reads that fail.                                                  *)
(***************************************************************************)
LEMMA ReadErrorStep ==
  ASSUME VoteInv, NEW i \in DOMAIN conns, ReadError(i)
  PROVE  VoteInv'
<1> DEFINE c == conns[i]
           d == Ended(c, "dead")
<1>1. i \in 1..Len(conns) /\ length \in Nat
  BY LengthsAssumption DEF VoteInv, TypeOK
<1>2. c \in Connections /\ Sound(c, alive, length)
  BY <1>1, ConnectionType DEF VoteInv
<1>3. c.reader = "reading" /\ c.unread = 0 /\ c.reset
  BY DEF ReadError
<1>4. /\ d \in Connections /\ Sound(d, alive, length)
      /\ d.to = c.to /\ d.round = c.round /\ d.sender = c.sender
  BY <1>1, <1>2, <1>3, ReadFailed
<1>5. conns' = [conns EXCEPT ![i] = d]
  BY <1>1 DEF ReadError, VoteInv, TypeOK
<1>6. UNCHANGED <<known, alive, length, pc, fanOut, round, attempt, drawFrom,
                     vain, upsets>>
  BY DEF ReadError
<1> HIDE DEF d
<1>7. QED
  BY <1>1, <1>4, <1>5, <1>6, ReaderIsMeanwhile

(***************************************************************************)
(* A peer that crashes takes its readers with it.                          *)
(***************************************************************************)
LEMMA CrashStep ==
  ASSUME VoteInv, NEW p \in Peer, Crash(p)
  PROVE  VoteInv'
<1>0. /\ alive' = alive \ {p} /\ known' = known /\ known \subseteq Peer
      /\ UNCHANGED <<length, pc, fanOut, round, attempt, drawFrom, vain>>
      /\ conns \in Seq(Connections) /\ upsets' \in Nat
  BY DEF Crash, Upset, VoteInv, TypeOK
<1>1. ASSUME NEW i \in 1..Len(conns)
      PROVE  /\ conns'[i] \in Connections
             /\ conns'[i].to = conns[i].to /\ conns'[i].round = conns[i].round
             /\ conns'[i].sender = conns[i].sender
             /\ Sound(conns'[i], alive \ {p}, length)
  <2> DEFINE c == conns[i]
             d == Ended(c, "dead")
  <2>1. c \in Connections /\ Sound(c, alive, length)
    BY ConnectionType DEF VoteInv
  <2>2. conns'[i] = IF c.to = p /\ c.reader = "reading" THEN d ELSE c
    BY <1>0 DEF Crash
  <2>3. CASE c.to = p /\ c.reader = "reading"
    <3>1. /\ d \in Connections
          /\ d.to = c.to /\ d.round = c.round /\ d.sender = c.sender
          /\ d.reset = c.reset /\ d.reader = "dead" /\ d.unread = 0
          /\ d.got = 0 /\ d.smooth = c.smooth
      BY <2>1 DEF Ended, Connections
    <3> HIDE DEF d
    <3>2. Sound(d, alive \ {p}, length)
      BY <2>1, <2>3, <3>1 DEF Sound
    <3>3. QED
      BY <2>2, <2>3, <3>1, <3>2
  <2>4. CASE ~(c.to = p /\ c.reader = "reading")
    BY <2>1, <2>2, <2>4, StaysSound
  <2>5. QED
    BY <2>3, <2>4
<1>2. conns' \in Seq(Connections) /\ Len(conns') = Len(conns)
  <2>1. DOMAIN conns = 1..Len(conns) /\ Len(conns) \in Nat
    BY <1>0
  <2>2. conns' = [i \in 1..Len(conns) |-> conns'[i]]
    BY <2>1 DEF Crash
  <2>3. QED
    BY <1>1, <2>1, <2>2
<1>3. Meanwhile
  BY <1>0, <1>1, <1>2 DEF Meanwhile
<1>4. QED
  BY <1>0, <1>3, MeanwhileKeeps

(***************************************************************************)
(* What other handlers make of the table does not touch the request.       *)
(***************************************************************************)
LEMMA LearnOrForgetStep ==
  ASSUME VoteInv, NEW p \in Peer, LearnOrForget(p)
  PROVE  VoteInv'
<1>1. Meanwhile
  BY DEF LearnOrForget, Upset, Meanwhile, VoteInv, TypeOK
<1>2. QED
  BY <1>1, MeanwhileKeeps

-----------------------------------------------------------------------------
(* Steps of the request *)

(***************************************************************************)
(* Steps that only count rounds and attempts.                              *)
(***************************************************************************)
LEMMA CountingStep ==
  ASSUME VoteInv, CountPeers \/ BeginRound \/ AnswerOk
  PROVE  VoteInv'
<1>1. /\ conns' = conns /\ alive' = alive /\ known' = known /\ length' = length
      /\ vain' = vain
  BY DEF CountPeers, BeginRound, AnswerOk
<1>2. TypeOK'
  <2>1. CASE CountPeers
    <3>1. IsFiniteSet(known)
      BY PeerAssumption, FS_Subset DEF VoteInv, TypeOK
    <3>2. FanOut(Cardinality(known)) \in Nat
      BY <3>1, FS_CardinalityType, FanOutIsCeiling
    <3>3. QED
      BY <2>1, <3>2 DEF VoteInv, TypeOK, CountPeers
  <2>2. CASE BeginRound
    BY <2>2 DEF VoteInv, TypeOK, BeginRound
  <2>3. CASE AnswerOk
    BY <2>3 DEF VoteInv, TypeOK, AnswerOk
  <2>4. QED
    BY <2>1, <2>2, <2>3
<1>3. round \in Nat /\ (round' = round \/ round' = round + 1)
      /\ pc \in {"count", "round"} /\ pc' \in {"round", "draw", "answered"}
      /\ round' > 0 /\ (pc' = "answered" => round' > fanOut')
  BY DEF VoteInv, TypeOK, LastIsCurrent, CountPeers, BeginRound, AnswerOk, Done
<1>4. LastIsCurrent'
  BY <1>3 DEF LastIsCurrent
<1>5. SentOnceARound'
  BY <1>1, <1>3, ConnectionType, PartsOfConnection DEF VoteInv, SentOnceARound
<1>6. RoundsMade' /\ AttemptsFailed'
  <2>1. Len(conns) \in Nat /\ ConnsStay
    BY <1>1 DEF ConnsStay, VoteInv, TypeOK
  <2>2. CASE CountPeers
    <3>1. IsFiniteSet(known)
      BY PeerAssumption, FS_Subset DEF VoteInv, TypeOK
    <3>2. fanOut' \in Nat /\ fanOut' >= 1
      BY <2>2, <3>1, FS_CardinalityType, FanOutIsCeiling DEF CountPeers
    <3>3. /\ pc' = "round" /\ round' = 1 /\ drawFrom' = drawFrom
          /\ drawFrom = <<>>
      BY <2>2 DEF CountPeers, VoteInv, RoundsMade
    <3>4. QED
      BY <3>2, <3>3 DEF RoundsMade, AttemptsFailed
  <2>3. CASE BeginRound
    <3>1. /\ pc = "round" /\ drawFrom' = Append(drawFrom, known)
          /\ drawFrom \in Seq(SUBSET Peer) /\ known \in SUBSET Peer
          /\ fanOut' = fanOut /\ round <= fanOut /\ fanOut \in Nat
          /\ Len(drawFrom) = round - 1 /\ round > 0
      BY <1>3, <2>3 DEF BeginRound, Done, VoteInv, TypeOK, RoundsMade, LastIsCurrent
    <3>2. /\ Len(drawFrom') = round /\ drawFrom'[round] = known
          /\ \A r \in 1..(round - 1) : drawFrom'[r] = drawFrom[r]
      BY <1>3, <3>1
    <3>3. \A r \in 1..(round - 1) : RoundIsMade(r)'
      BY <1>1, <2>1, <3>2, MadeStays DEF VoteInv, RoundsMade
    <3>4. CASE known = {}
      <4>1. round' = round + 1 /\ pc' = "round"
        BY <2>3, <3>4 DEF BeginRound
      <4>2. ASSUME NEW r, r = round
            PROVE  RoundIsMade(r)'
        BY <3>2, <3>4, <4>2 DEF RoundIsMade
      <4>3. \A r \in 1..round : RoundIsMade(r)'
        BY <1>3, <3>3, <4>2
      <4>4. QED
        BY <1>3, <3>1, <3>2, <4>1, <4>3 DEF RoundsMade, AttemptsFailed
    <3>5. CASE known # {}
      <4>1. round' = round /\ pc' = "draw" /\ attempt' = 1
        BY <2>3, <3>5 DEF BeginRound
      <4>2. RoundsMade'
        BY <3>1, <3>2, <3>3, <4>1 DEF RoundsMade
      <4>3. AttemptsFailed'
        BY <4>1 DEF AttemptsFailed, MaxAttempts
      <4>4. QED
        BY <4>2, <4>3
    <3>6. QED
      BY <3>4, <3>5
  <2>4. CASE AnswerOk
    <3>1. /\ pc = "round" /\ pc' = "answered" /\ round > fanOut
          /\ UNCHANGED <<round, fanOut, drawFrom>>
          /\ fanOut \in Nat /\ Len(drawFrom) = round - 1 /\ round <= fanOut + 1
      BY <2>4 DEF AnswerOk, Done, VoteInv, TypeOK, RoundsMade
    <3>2. \A r \in 1..(round - 1) : RoundIsMade(r)'
      BY <1>1, <2>1, <3>1, MadeStays DEF VoteInv, RoundsMade
    <3>3. QED
      BY <1>3, <3>1, <3>2 DEF RoundsMade, AttemptsFailed
  <2>5. QED
    BY <2>2, <2>3, <2>4
<1>7. QED
  BY <1>1, <1>2, <1>4, <1>5, <1>6 DEF VoteInv

(***************************************************************************)
(* A connection is opened.                                                 *)
(***************************************************************************)
LEMMA ConnectStep ==
  ASSUME VoteInv, NEW p \in Peer, Connect(p)
  PROVE  VoteInv'
<1> DEFINE d == [to |-> p, round |-> round, sender |-> "open", reset |-> FALSE,
                 reader |-> "reading", unread |-> 0, got |-> 0, smooth |-> FALSE]
           n == Len(conns)
<1>1. /\ pc = "draw" /\ pc' = "write" /\ conns' = Append(conns, d)
      /\ UNCHANGED <<known, alive, length, fanOut, round, attempt, drawFrom,
                     vain, upsets>>
  BY DEF Connect
<1>2. /\ d \in Connections /\ Sound(d, alive, length)
      /\ d.round = round /\ d.sender = "open"
  BY DEF Connections, Sound, VoteInv, TypeOK
<1> HIDE DEF d
<1>3. /\ n \in Nat /\ Len(conns') = n + 1 /\ conns' \in Seq(Connections)
      /\ conns'[n + 1] = d /\ \A i \in 1..n : conns'[i] = conns[i]
  BY <1>1, <1>2 DEF VoteInv, TypeOK
<1> HIDE DEF n
<1>4. TypeOK'
  BY <1>1, <1>3 DEF VoteInv, TypeOK
<1>5. round > 0
  BY <1>1 DEF VoteInv, LastIsCurrent
<1>6. LastIsCurrent'
  BY <1>1, <1>2, <1>3, <1>5 DEF LastIsCurrent
<1>7. SentOnceARound'
  <2>1. round \in Nat
    BY DEF VoteInv, TypeOK
  <2>2. \A i \in 1..n :
          /\ conns[i].round <= round
          /\ conns[i].sender # "open"
          /\ ~(conns[i].sender = "sent" /\ conns[i].round = round)
    BY <1>1 DEF VoteInv, SentOnceARound, n
  <2>3. ASSUME NEW i \in 1..(n + 1)
        PROVE  /\ conns'[i].round <= round
               /\ conns'[i].sender = "open" => i = n + 1
               /\ ~(conns'[i].sender = "sent" /\ conns'[i].round = round)
    BY <1>2, <1>3, <2>1, <2>2
  <2>4. ASSUME NEW i \in 1..(n + 1), NEW j \in 1..(n + 1),
               conns'[i].round = conns'[j].round,
               conns'[i].sender = "sent", conns'[j].sender = "sent"
        PROVE  i = j
    <3>1. i \in 1..n /\ j \in 1..n
      BY <1>2, <1>3, <2>4
    <3>2. QED
      BY <1>3, <2>4, <3>1 DEF VoteInv, SentOnceARound, n
  <2>5. QED
    BY <1>1, <1>3, <2>3, <2>4 DEF SentOnceARound
<1>8. RoundsMade' /\ AttemptsFailed'
  <2>1. ConnsStay
    BY <1>3 DEF ConnsStay, n
  <2>2. \A r \in 1..(round - 1) : RoundIsMade(r)'
    BY <1>1, <1>3, <2>1, MadeStays DEF VoteInv, RoundsMade, n
  <2>3. RoundsMade'
    BY <1>1, <2>2 DEF VoteInv, RoundsMade
  <2>4. AttemptsFailed'
    BY <1>1 DEF VoteInv, AttemptsFailed
  <2>5. QED
    BY <2>3, <2>4
<1>9. \A i \in 1..Len(conns') : Sound(conns'[i], alive', length')
  <2>1. \A i \in 1..(n + 1) : i \in 1..n \/ i = n + 1
    BY <1>3
  <2>2. \A i \in 1..n : Sound(conns[i], alive, length)
    BY DEF VoteInv, n
  <2>3. QED
    BY <1>1, <1>2, <1>3, <2>1, <2>2
<1>10. QED
  BY <1>4, <1>6, <1>7, <1>8, <1>9 DEF VoteInv

(***************************************************************************)
(* A connection is not opened.                                             *)
(***************************************************************************)
LEMMA ConnectFailsStep ==
  ASSUME VoteInv, NEW p \in Peer, ConnectFails(p)
  PROVE  VoteInv'
<1>1. /\ conns' = conns /\ pc = "draw" /\ pc' \in {"draw", "round"}
      /\ UNCHANGED <<alive, length, known, fanOut, drawFrom, upsets>>
      /\ round' \in {round, round + 1} /\ attempt' \in {attempt + 1, 0}
      /\ round \in Nat /\ attempt \in Nat /\ round > 0
      /\ vain' = vain \cup {<<round, attempt>>}
  BY DEF ConnectFails, NextAttempt, EndRound, VoteInv, TypeOK, LastIsCurrent
<1>2. TypeOK'
  BY <1>1 DEF VoteInv, TypeOK
<1>3. LastIsCurrent'
  BY <1>1 DEF LastIsCurrent
<1>4. SentOnceARound'
  BY <1>1, ConnectionType, PartsOfConnection DEF VoteInv, SentOnceARound
<1>5. RoundsMade' /\ AttemptsFailed'
  <2>1. ConnsStay
    BY <1>1 DEF ConnsStay, VoteInv, TypeOK
  <2>2. NextAttempt
    BY DEF ConnectFails
  <2>3. QED
    BY <1>1, <2>1, <2>2, NextAttemptStep
<1>6. QED
  BY <1>1, <1>2, <1>3, <1>4, <1>5 DEF VoteInv

(***************************************************************************)
(* The message is written, or the write fails.                             *)
(***************************************************************************)
LEMMA WriteStep ==
  ASSUME VoteInv, (\E k \in 1..length : Write(k)) \/ WriteFails
  PROVE  VoteInv'
<1> DEFINE n == Len(conns)
           c == conns[n]
<1>1. /\ pc = "write" /\ pc' = "drop"
      /\ UNCHANGED <<known, alive, length, fanOut, round, attempt, drawFrom>>
      /\ conns \in Seq(Connections) /\ n \in 1..n /\ n \in Nat
      /\ c.sender = "open" /\ c.round = round /\ round > 0 /\ round \in Nat
  <2>1. /\ pc = "write" /\ pc' = "drop"
        /\ UNCHANGED <<known, alive, length, fanOut, round, attempt, drawFrom>>
    BY DEF Write, WriteFails
  <2>2. conns \in Seq(Connections) /\ n \in Nat /\ round \in Nat
    BY DEF VoteInv, TypeOK
  <2>3. n > 0 /\ c.sender = "open" /\ c.round = round /\ round > 0
    BY <2>1 DEF VoteInv, LastIsCurrent
  <2>4. QED
    BY <2>1, <2>2, <2>3
<1>2. c \in Connections /\ Sound(c, alive, length) /\ length \in Nat
  BY <1>1, ConnectionType, LengthsAssumption DEF VoteInv, TypeOK
<1>3. \E d \in Connections :
        /\ conns' = [conns EXCEPT ![n] = d] /\ Sound(d, alive, length)
        /\ d.to = c.to /\ d.round = c.round /\ d.sender \in {"sent", "failed"}
        /\ d.sender = "sent" \/ <<round, attempt>> \in vain'
  <2>1. ASSUME NEW k \in 1..length, Write(k)
        PROVE  conns' = [conns EXCEPT ![n] = AfterWrite(c, k, length)]
    BY <1>1, <2>1 DEF Write, AfterWrite
  <2>2. ASSUME WriteFails
        PROVE  conns' = [conns EXCEPT ![n] = [c EXCEPT !.sender = "failed"]]
    BY <1>1, <2>2 DEF WriteFails
  <2>3. ASSUME NEW k \in 1..length, Write(k)
        PROVE  \E d \in Connections :
                 /\ conns' = [conns EXCEPT ![n] = d] /\ Sound(d, alive, length)
                 /\ d.to = c.to /\ d.round = c.round /\ d.sender = "sent"
    BY <1>1, <1>2, <2>1, <2>3, Written
  <2>4. ASSUME WriteFails
        PROVE  \E d \in Connections :
                 /\ conns' = [conns EXCEPT ![n] = d] /\ Sound(d, alive, length)
                 /\ d.to = c.to /\ d.round = c.round /\ d.sender = "failed"
    BY <1>1, <1>2, <2>2, <2>4, WriteFailed
  <2>5. WriteFails => <<round, attempt>> \in vain'
    BY DEF WriteFails
  <2>6. QED
    BY <2>3, <2>4, <2>5
<1>4. PICK d \in Connections :
        /\ conns' = [conns EXCEPT ![n] = d] /\ Sound(d, alive, length)
        /\ d.to = c.to /\ d.round = c.round /\ d.sender \in {"sent", "failed"}
        /\ d.sender = "sent" \/ <<round, attempt>> \in vain'
  BY <1>3
<1>5. Becomes(n, d)
  BY <1>1, <1>4, ReplacedElement DEF VoteInv
<1>6. /\ conns' \in Seq(Connections) /\ Len(conns') = n /\ conns'[n] = d
      /\ \A j \in 1..n \ {n} : conns'[j] = conns[j]
  BY <1>5 DEF Becomes
<1>7. /\ \A i \in 1..n : Sound(conns[i], alive, length)
      /\ \A i \in 1..n :
           /\ conns[i].round <= round /\ (conns[i].sender = "open" => i = n)
           /\ ~(conns[i].sender = "sent" /\ conns[i].round = round)
      /\ \A i, j \in 1..n :
           conns[i].round = conns[j].round
             /\ conns[i].sender = "sent" /\ conns[j].sender = "sent" => i = j
  BY <1>1 DEF VoteInv, SentOnceARound
<1> HIDE DEF n, c
<1>8. TypeOK'
  <2>1. /\ vain \subseteq Nat \X Nat /\ upsets \in Nat
        /\ round \in Nat /\ attempt \in Nat
    BY DEF VoteInv, TypeOK
  <2>2. vain' \in {vain, vain \cup {<<round, attempt>>}}
    BY DEF Write, WriteFails
  <2>3. upsets' \in Nat
    <3>1. CASE \E k \in 1..length : Write(k)
      BY <2>1, <3>1 DEF Write
    <3>2. CASE WriteFails
      <4>1. Upset \/ upsets' = upsets
        BY <3>2 DEF WriteFails
      <4>2. QED
        BY <2>1, <4>1 DEF Upset
    <3>3. QED
      BY <3>1, <3>2
  <2>4. QED
    BY <1>1, <1>6, <2>1, <2>2, <2>3 DEF VoteInv, TypeOK
<1>9. LastIsCurrent'
  BY <1>1, <1>4, <1>6 DEF LastIsCurrent
<1>10. SentOnceARound'
  <2>1. ASSUME NEW i \in 1..n
        PROVE  /\ conns'[i].round <= round /\ conns'[i].sender # "open"
               /\ conns'[i].sender = "sent" /\ conns'[i].round = round => i = n
    BY <1>1, <1>4, <1>6, <1>7
  <2>2. ASSUME NEW i \in 1..n, NEW j \in 1..n,
               conns'[i].round = conns'[j].round,
               conns'[i].sender = "sent", conns'[j].sender = "sent"
        PROVE  i = j
    BY <1>1, <1>4, <1>6, <1>7, <2>2
  <2>3. QED
    BY <1>1, <1>6, <2>1, <2>2 DEF SentOnceARound
<1>11. RoundsMade' /\ AttemptsFailed'
  <2>1. vain \subseteq vain'
    BY DEF Write, WriteFails
  <2>2. ASSUME NEW i \in 1..n
        PROVE  /\ conns'[i].round = conns[i].round
               /\ conns[i].sender = "sent" => conns'[i].sender = "sent"
    BY <1>1, <1>4, <1>6 DEF c
  <2>3. ConnsStay
    BY <1>1, <1>6, <2>2 DEF ConnsStay, n
  <2>4. \A r \in 1..(round - 1) : RoundIsMade(r)'
    BY <1>1, <2>1, <2>3, MadeStays DEF VoteInv, RoundsMade, n
  <2>5. RoundsMade'
    BY <1>1, <2>4 DEF VoteInv, RoundsMade
  <2>6. /\ attempt \in 1..MaxAttempts
        /\ \A a \in 1..(attempt - 1) : <<round, a>> \in vain
    BY <1>1 DEF VoteInv, AttemptsFailed
  <2>7. conns'[Len(conns')].sender = "sent" \/ <<round, attempt>> \in vain'
    BY <1>4, <1>6
  <2>8. AttemptsFailed'
    BY <1>1, <2>1, <2>6, <2>7 DEF AttemptsFailed
  <2>9. QED
    BY <2>5, <2>8
<1>12. \A i \in 1..Len(conns') : Sound(conns'[i], alive', length')
  BY <1>1, <1>4, <1>6, <1>7
<1>13. QED
  BY <1>8, <1>9, <1>10, <1>11, <1>12 DEF VoteInv

(***************************************************************************)
(* The stream is dropped, and the round ends or another attempt begins.    *)
(***************************************************************************)
LEMMA DropStep ==
  ASSUME VoteInv, NEW lost \in 0..length, Drop(lost)
  PROVE  VoteInv'
<1> DEFINE n == Len(conns)
           c == conns[n]
           d == Reset(c, lost)
<1>1. /\ pc = "drop" /\ lost \in 0..c.unread
      /\ conns' = [conns EXCEPT ![n] = d]
      /\ UNCHANGED <<known, alive, length, fanOut, drawFrom, vain, upsets>>
      /\ conns \in Seq(Connections) /\ n \in 1..n /\ n \in Nat
      /\ c.round = round /\ round > 0 /\ round \in Nat /\ attempt \in Nat
  BY DEF Drop, VoteInv, TypeOK, LastIsCurrent
<1>2. /\ pc' \in {"draw", "round"} /\ round' \in {round, round + 1}
      /\ attempt' \in {attempt + 1, 0}
      /\ c.sender = "sent" => round' = round + 1
  BY DEF Drop, EndRound, NextAttempt, RoundIsOver
<1>3. c \in Connections /\ Sound(c, alive, length)
  BY <1>1, ConnectionType DEF VoteInv
<1>4. c.sender # "open"
  BY <1>1 DEF VoteInv, SentOnceARound
<1>5. /\ d \in Connections /\ Sound(d, alive, length)
      /\ d.to = c.to /\ d.round = c.round /\ d.sender = c.sender
  BY <1>1, <1>3, <1>4, WasReset
<1> HIDE DEF d
<1>6. Becomes(n, d)
  BY <1>1, <1>5, ReplacedElement DEF VoteInv
<1>7. ASSUME NEW i \in 1..n
      PROVE  /\ conns'[i].round = conns[i].round /\ conns'[i].round \in Nat
             /\ conns'[i].sender = conns[i].sender
             /\ Sound(conns'[i], alive, length)
  <2>1. CASE i = n
    <3>1. d.round \in Nat
      BY <1>5, PartsOfConnection
    <3>2. QED
      BY <1>5, <1>6, <2>1, <3>1 DEF Becomes
  <2>2. CASE i # n
    <3>1. conns'[i] = conns[i]
      BY <1>6, <2>2 DEF Becomes
    <3>2. conns[i].round \in Nat
      BY ConnectionType, PartsOfConnection DEF VoteInv
    <3>3. QED
      BY <3>1, <3>2 DEF VoteInv
  <2>3. QED
    BY <2>1, <2>2
<1>8. /\ conns' \in Seq(Connections) /\ Len(conns') = n
  BY <1>6 DEF Becomes
<1>9. /\ \A i \in 1..n :
           /\ conns[i].round <= round /\ conns[i].sender # "open"
           /\ conns[i].sender = "sent" /\ conns[i].round = round => i = n
      /\ \A i, j \in 1..n :
           conns[i].round = conns[j].round
             /\ conns[i].sender = "sent" /\ conns[j].sender = "sent" => i = j
  BY <1>1 DEF VoteInv, SentOnceARound
<1>11. TypeOK'
  BY <1>1, <1>2, <1>8 DEF VoteInv, TypeOK
<1>12. LastIsCurrent'
  BY <1>1, <1>2 DEF LastIsCurrent
<1>13. SentOnceARound'
  <2>1. ASSUME NEW i \in 1..n
        PROVE  /\ conns'[i].round <= round' /\ conns'[i].sender # "open"
               /\ ~(conns'[i].sender = "sent" /\ conns'[i].round = round')
    BY <1>1, <1>2, <1>7, <1>9
  <2>2. QED
    BY <1>7, <1>8, <1>9, <2>1 DEF SentOnceARound
<1>14. RoundsMade' /\ AttemptsFailed'
  <2>1. ConnsStay
    <3>1. \A i \in 1..Len(conns) :
            /\ conns'[i].round = conns[i].round
            /\ conns'[i].sender = conns[i].sender
      BY <1>7
    <3>2. Len(conns) \in Nat /\ Len(conns') = Len(conns)
      BY <1>1, <1>8
    <3>3. QED
      BY <3>1, <3>2 DEF ConnsStay
  <2>2. /\ \A r \in 1..(round - 1) : RoundIsMade(r)
        /\ Len(drawFrom) = round /\ round <= fanOut /\ fanOut \in Nat
        /\ c.sender = "sent" \/ <<round, attempt>> \in vain
    BY <1>1 DEF VoteInv, TypeOK, RoundsMade, AttemptsFailed
  <2>3. CASE c.sender = "sent"
    <3>1. pc' = "round" /\ round' = round + 1
      BY <2>3 DEF Drop, EndRound, RoundIsOver
    <3>2. conns'[n].round = round /\ conns'[n].sender = "sent"
      BY <1>1, <1>7, <2>3
    <3>3. ASSUME NEW r, r = round
          PROVE  RoundIsMade(r)'
      BY <1>1, <1>8, <3>2, <3>3 DEF RoundIsMade
    <3>4. \A r \in 1..(round - 1) : RoundIsMade(r)'
      BY <1>1, <2>1, <2>2, MadeStays DEF n
    <3>5. \A r \in 1..round : RoundIsMade(r)'
      BY <1>1, <3>3, <3>4
    <3>6. QED
      BY <1>1, <2>2, <3>1, <3>5 DEF RoundsMade, AttemptsFailed
  <2>4. CASE c.sender # "sent"
    <3>1. NextAttempt
      BY <2>4 DEF Drop, RoundIsOver
    <3>2. QED
      BY <1>1, <2>1, <2>2, <2>4, <3>1, NextAttemptStep
  <2>5. QED
    BY <2>3, <2>4
<1>15. \A i \in 1..Len(conns') : Sound(conns'[i], alive', length')
  BY <1>1, <1>7, <1>8
<1>16. QED
  BY <1>11, <1>12, <1>13, <1>14, <1>15 DEF VoteInv

-----------------------------------------------------------------------------
(* The theorems *)

(***************************************************************************)
(* The invariant holds before the vote is cast.                            *)
(***************************************************************************)
LEMMA VoteInvInit == Init => VoteInv
BY InitialPeersAssumption
   DEF Init, VoteInv, TypeOK, LastIsCurrent, SentOnceARound, RoundsMade,
       AttemptsFailed

(***************************************************************************)
(* Every step keeps it.                                                    *)
(***************************************************************************)
LEMMA VoteInvStep == VoteInv /\ [Next]_vars => VoteInv'
<1> SUFFICES ASSUME VoteInv, [Next]_vars PROVE VoteInv'
  OBVIOUS
<1>1. ASSUME Request
      PROVE  VoteInv'
  BY <1>1, CountingStep, ConnectStep, ConnectFailsStep, WriteStep, DropStep
     DEF Request
<1>2. ASSUME ServeSome
      PROVE  VoteInv'
  BY <1>2, ReadStep, ReadErrorStep DEF ServeSome, Serve
<1>3. ASSUME NEW p \in Peer, Crash(p) \/ LearnOrForget(p)
      PROVE  VoteInv'
  BY <1>3, CrashStep, LearnOrForgetStep
<1>4. CASE UNCHANGED vars
  <2>1. /\ conns' = conns /\ alive' = alive /\ known' = known /\ length' = length
        /\ pc' = pc /\ round' = round /\ fanOut' = fanOut /\ attempt' = attempt
        /\ drawFrom' = drawFrom /\ vain' = vain /\ upsets' = upsets
    BY <1>4 DEF vars
  <2>2. Meanwhile
    BY <2>1 DEF Meanwhile, VoteInv, TypeOK
  <2>3. QED
    BY <2>2, MeanwhileKeeps
<1>5. QED
  BY <1>1, <1>2, <1>3, <1>4 DEF Next

(***************************************************************************)
(* The invariant holds in every state of every run.                        *)
(***************************************************************************)
THEOREM VoteInvariant == Spec => []VoteInv
BY VoteInvInit, VoteInvStep, PTL DEF Spec

(***************************************************************************)
(* The request and its connections keep their types.                       *)
(***************************************************************************)
THEOREM TypeCorrect == Spec => []TypeOK
<1>1. VoteInv => TypeOK
  BY DEF VoteInv
<1>2. QED
  BY <1>1, VoteInvariant, PTL

(***************************************************************************)
(* The retries of distribute_vote_task never have a vote handled twice.    *)
(***************************************************************************)
THEOREM RetriesNeverDouble == Spec => []RetryNeverDoubles
<1>1. VoteInv => RetryNeverDoubles
  <2> SUFFICES ASSUME VoteInv, NEW i \in DOMAIN conns, NEW j \in DOMAIN conns,
                      conns[i].round = conns[j].round,
                      conns[i].reader = "handled", conns[j].reader = "handled"
               PROVE  i = j
    BY DEF RetryNeverDoubles
  <2>1. i \in 1..Len(conns) /\ j \in 1..Len(conns)
    BY DEF VoteInv, TypeOK
  <2>2. conns[i].sender = "sent" /\ conns[j].sender = "sent"
    BY <2>1 DEF VoteInv, Sound
  <2>3. QED
    BY <2>1, <2>2 DEF VoteInv, SentOnceARound
<1>2. QED
  BY <1>1, VoteInvariant, PTL

(***************************************************************************)
(* An OK of the root hides no loss but the ones the code cannot help: a    *)
(* round without peers, three attempts that failed, a vote lost on its way.*)
(***************************************************************************)
THEOREM OkHidesNothingElse == Spec => []OkHidesNoOtherLoss
<1>1. VoteInv => OkHidesNoOtherLoss
  <2> SUFFICES ASSUME VoteInv, pc = "answered"
               PROVE  OkHidesNoOtherLoss
    BY DEF OkHidesNoOtherLoss
  <2>1. DOMAIN conns = 1..Len(conns) /\ fanOut \in Nat
    BY DEF VoteInv, TypeOK
  <2>2. Len(drawFrom) = fanOut /\ \A r \in 1..fanOut : RoundIsMade(r)
    BY <2>1 DEF VoteInv, RoundsMade
  <2>3. ASSUME NEW i \in 1..Len(conns), conns[i].sender = "sent"
        PROVE  \/ conns[i].reader \in {"reading", "handled"}
               \/ ~conns[i].smooth \/ conns[i].to \notin alive
               \/ length % Buffer = 0
    BY <2>3 DEF VoteInv, Sound
  <2>4. QED
    BY <2>1, <2>2, <2>3 DEF OkHidesNoOtherLoss, RoundIsMade
<1>2. QED
  BY <1>1, VoteInvariant, PTL

(***************************************************************************)
(* Of two messages that travel without mishap, the read loop handles one   *)
(* and loses the other, for their lengths alone.                           *)
(***************************************************************************)
THEOREM LengthDecides == Spec => []SmoothIsHandled
<1>1. VoteInv => SmoothIsHandled
  <2> SUFFICES ASSUME VoteInv, NEW i \in DOMAIN conns,
                      conns[i].smooth, conns[i].to \in alive,
                      conns[i].reader # "reading"
               PROVE  conns[i].reader = "handled" <=> length % Buffer # 0
    BY DEF SmoothIsHandled
  <2>1. i \in 1..Len(conns)
    BY DEF VoteInv, TypeOK
  <2>2. QED
    BY <2>1 DEF VoteInv, Sound
<1>2. QED
  BY <1>1, VoteInvariant, PTL
=============================================================================
