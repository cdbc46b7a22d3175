--------------------------- MODULE PeerTableProofs ---------------------------
(***************************************************************************)
(* Proofs about PeerTable, for every set of processes, ids and addresses,  *)
(* every way to give out ids and addresses of the root, whoever recognises *)
(* its own address, and any number of crashes and of pushes that fail or   *)
(* are lost.                                                               *)
(***************************************************************************)
EXTENDS PeerTable, FiniteSetTheorems, TLAPS

-----------------------------------------------------------------------------
(* The inductive invariant *)

\* The addresses in f are those of processes with these ids.
Right(f) == \A i \in DOMAIN f : name[Host[f[i]]] = i

\* The entries calls and messages carry to the tables.
Carried ==
  {c.todo : c \in calls} \cup {m.entries : m \in {x \in net : x.kind # "ask"}}

\* What is at address p has ended, or a push of process n has missed it.
Unreached(n, p) == status[Host[p]] = "down" \/ <<n, Host[p]>> \in missed

\* Calls run for live processes; what they are to remove they did not reach.
CallsRun ==
  \A c \in calls :
    /\ status[c.node] \in {"joining", "up"}
    /\ \A p \in c.failed : Unreached(c.node, p)

\* A process starts with an empty table.
NobodyIsEarly ==
  /\ status[Root] # "new"
  /\ \A n \in Proc : status[n] = "new" => peers[n] = {} /\ DOMAIN idMap[n] = {}

PeerInv ==
  /\ TypeOK
  /\ CallsRun
  /\ NobodyIsEarly
  /\ \A f \in Carried : Right(f)
  /\ IdsAreRight
  /\ UnpushedShareTheirId

-----------------------------------------------------------------------------
(* Tables *)

(***************************************************************************)
(* Entries are functions from ids to addresses.                            *)
(***************************************************************************)
LEMMA EntriesAreFunctions ==
  /\ \A f \in Entries : DOMAIN f \subseteq Id /\ f \in [DOMAIN f -> Addr]
  /\ \A ids \in SUBSET Id : \A f \in [ids -> Addr] : f \in Entries
BY DEF Entries

(***************************************************************************)
(* A table that entries are merged into holds them, and besides what it    *)
(* held under other ids.                                                   *)
(***************************************************************************)
LEMMA MergedTable ==
  ASSUME NEW f \in Entries, NEW g \in Entries
  PROVE  /\ Merge(f, g) \in Entries
         /\ Range(g) \subseteq Range(Merge(f, g))
         /\ Range(Merge(f, g)) \subseteq Range(f) \cup Range(g)
         /\ Range(f) \subseteq Addr /\ Range(g) \subseteq Addr
         /\ Right(f) /\ Right(g) => Right(Merge(f, g))
         /\ \A p \in Range(f) :
              \/ p \in Range(Merge(f, g))
              \/ \E i \in DOMAIN f \cap DOMAIN g : f[i] = p
<1> DEFINE h == Merge(f, g)
<1>1. /\ DOMAIN f \subseteq Id /\ \A i \in DOMAIN f : f[i] \in Addr
      /\ DOMAIN g \subseteq Id /\ \A i \in DOMAIN g : g[i] \in Addr
  BY EntriesAreFunctions
<1>2. /\ DOMAIN h = DOMAIN f \cup DOMAIN g
      /\ \A i \in DOMAIN g : h[i] = g[i]
      /\ \A i \in DOMAIN f \ DOMAIN g : h[i] = f[i]
      /\ h \in [DOMAIN f \cup DOMAIN g -> Addr]
  BY <1>1 DEF Merge
<1> HIDE DEF h
<1>3. h \in Entries
  BY <1>1, <1>2, EntriesAreFunctions
<1>4. Right(f) /\ Right(g) => Right(h)
  BY <1>2 DEF Right
<1>5. Range(g) \subseteq Range(h) /\ Range(h) \subseteq Range(f) \cup Range(g)
  BY <1>2 DEF Range
<1>6. ASSUME NEW p \in Range(f)
      PROVE  \/ p \in Range(h)
             \/ \E i \in DOMAIN f \cap DOMAIN g : f[i] = p
  <2>1. PICK i \in DOMAIN f : f[i] = p
    BY DEF Range
  <2>2. QED
    BY <1>2, <2>1 DEF Range
<1>7. Range(f) \subseteq Addr /\ Range(g) \subseteq Addr
  BY <1>1 DEF Range
<1>8. QED
  BY <1>3, <1>4, <1>5, <1>6, <1>7 DEF h

(***************************************************************************)
(* A table that addresses are removed from holds all others.               *)
(***************************************************************************)
LEMMA ReducedTable ==
  ASSUME NEW f \in Entries, NEW gone
  PROVE  /\ RemovePeers(f, gone) \in Entries
         /\ Range(RemovePeers(f, gone)) = Range(f) \ gone
         /\ Right(f) => Right(RemovePeers(f, gone))
<1> DEFINE h == RemovePeers(f, gone)
<1>1. DOMAIN f \subseteq Id /\ \A i \in DOMAIN f : f[i] \in Addr
  BY EntriesAreFunctions
<1>2. /\ DOMAIN h = {i \in DOMAIN f : f[i] \notin gone}
      /\ \A i \in DOMAIN h : h[i] = f[i]
      /\ h \in [DOMAIN h -> Addr]
  BY <1>1 DEF RemovePeers
<1> HIDE DEF h
<1>3. h \in Entries
  BY <1>1, <1>2, EntriesAreFunctions
<1>4. Range(h) = Range(f) \ gone
  BY <1>2 DEF Range
<1>5. Right(f) => Right(h)
  BY <1>2 DEF Right
<1>6. QED
  BY <1>3, <1>4, <1>5 DEF h

(***************************************************************************)
(* A table with one entry.                                                 *)
(***************************************************************************)
LEMMA SingleEntry ==
  ASSUME NEW i \in Id, NEW p \in Addr
  PROVE  LET f == [j \in {i} |-> p]
         IN  /\ f \in Entries /\ Range(f) = {p}
             /\ (name[Host[p]] = i => Right(f))
<1> DEFINE f == [j \in {i} |-> p]
<1>1. DOMAIN f = {i} /\ f[i] = p /\ f \in [{i} -> Addr]
  OBVIOUS
<1> HIDE DEF f
<1>2. f \in Entries
  BY <1>1, EntriesAreFunctions
<1>3. QED
  BY <1>1, <1>2 DEF Range, Right, f

(***************************************************************************)
(* Part of a table is a table.                                             *)
(***************************************************************************)
LEMMA PartOfTable ==
  ASSUME NEW f \in Entries, NEW ids \in SUBSET DOMAIN f
  PROVE  LET g == [i \in ids |-> f[i]]
         IN  /\ g \in Entries
             /\ (Right(f) => Right(g))
             /\ Range(g) = {f[i] : i \in ids}
<1> DEFINE g == [i \in ids |-> f[i]]
<1>1. DOMAIN f \subseteq Id /\ \A i \in DOMAIN f : f[i] \in Addr
  BY EntriesAreFunctions
<1>2. DOMAIN g = ids /\ (\A i \in ids : g[i] = f[i]) /\ g \in [ids -> Addr]
  BY <1>1
<1> HIDE DEF g
<1>3. g \in Entries
  BY <1>1, <1>2, EntriesAreFunctions
<1>4. QED
  BY <1>2, <1>3 DEF Range, Right, g

(***************************************************************************)
(* The empty table.                                                        *)
(***************************************************************************)
LEMMA EmptyTable ==
  /\ NoEntries \in Entries /\ DOMAIN NoEntries = {} /\ Range(NoEntries) = {}
  /\ Right(NoEntries)
<1>1. DOMAIN NoEntries = {} /\ NoEntries \in [{} -> Addr]
  BY DEF NoEntries
<1>2. QED
  BY <1>1, EntriesAreFunctions DEF Range, Right

-----------------------------------------------------------------------------
(* Types *)

(***************************************************************************)
(* What the processes are given when they are started, and the addresses   *)
(* that are theirs.                                                        *)
(***************************************************************************)
LEMMA SettingType ==
  ASSUME TypeOK
  PROVE  /\ \A n \in Proc : /\ name[n] \in Id
                            /\ rootAt[n] \in Addr /\ Host[rootAt[n]] = Root
         /\ setting.maxMishaps \in Nat
         /\ \A p \in Addr : Host[p] \in Proc
         /\ \A p \in Proc : p \in Addr /\ Host[p] = p
         /\ Root \in Proc
<1>1. setting \in
        [name: [Proc -> Id], rootAt: [Proc -> {p \in Addr : Host[p] = Root}],
         selfAware: SUBSET Proc, maxMishaps: Nat]
  BY SettingsAssumption DEF TypeOK
<1>2. /\ name \in [Proc -> Id]
      /\ rootAt \in [Proc -> {p \in Addr : Host[p] = Root}]
      /\ setting.maxMishaps \in Nat
  BY <1>1 DEF name, rootAt
<1>3. QED
  BY <1>2, HostAssumption, RootAssumption

(***************************************************************************)
(* What calls and messages are made of.                                    *)
(***************************************************************************)
LEMMA PartsType ==
  ASSUME TypeOK
  PROVE  /\ \A c \in calls : /\ c \in Calls /\ c.node \in Proc
                             /\ c.news \subseteq Addr /\ c.failed \subseteq Addr
                             /\ c.todo \in Entries
         /\ \A m \in net : /\ m.to \in Proc
                           /\ m.kind \in {"push", "answer", "ask"}
                           /\ m.kind = "ask" => m.from \in Proc
                           /\ m.kind # "ask" => m.entries \in Entries
         /\ \A n \in Proc : idMap[n] \in Entries /\ peers[n] \subseteq Addr
BY DEF TypeOK, Calls, Messages

(***************************************************************************)
(* The addresses among entries.                                            *)
(***************************************************************************)
LEMMA RangeType ==
  ASSUME NEW f \in Entries
  PROVE  Range(f) \subseteq Addr
BY EntriesAreFunctions DEF Range

(***************************************************************************)
(* A new call has nothing to add and has failed to reach nobody.           *)
(***************************************************************************)
LEMMA NewCallType ==
  ASSUME NEW n \in Proc, NEW news \in SUBSET Addr,
         NEW pc \in {"answer", "push", "remove", "ask", "wait", "add"},
         NEW next \in {"end", "ask", "add"}
  PROVE  LET c == NewCall(n, pc, next, news)
         IN  /\ c \in Calls
             /\ c.node = n /\ c.failed = {} /\ c.todo = NoEntries
BY EmptyTable DEF NewCall, Calls

(***************************************************************************)
(* A push of a chain that failed is a new call that is to remove addresses.*)
(***************************************************************************)
LEMMA ChainCallType ==
  ASSUME NEW n \in Proc, NEW gone \in SUBSET Addr
  PROVE  LET c == [NewCall(n, "remove", "end", {}) EXCEPT !.failed = gone]
         IN  /\ c \in Calls
             /\ c.node = n /\ c.failed = gone /\ c.todo = NoEntries
BY EmptyTable DEF NewCall, Calls

(***************************************************************************)
(* A call that has moved on is a call of the same process.                 *)
(***************************************************************************)
LEMMA MovedCallType ==
  ASSUME NEW c \in Calls,
         NEW pc \in {"answer", "push", "remove", "ask", "wait", "add"}
  PROVE  LET d == [c EXCEPT !.pc = pc]
         IN  d \in Calls /\ d.node = c.node /\ d.failed = c.failed /\ d.todo = c.todo
BY DEF Calls

(***************************************************************************)
(* A call that returns from a push has forgotten what failed.              *)
(***************************************************************************)
LEMMA ReturnedType ==
  ASSUME NEW c \in Calls, NEW d \in Returned(c)
  PROVE  d \in Calls /\ d.node = c.node /\ d.failed = {} /\ d.todo = c.todo
BY DEF Returned, Calls

(***************************************************************************)
(* A call that is to remove what its push could not reach.                 *)
(***************************************************************************)
LEMMA FailedCallType ==
  ASSUME NEW c \in Calls, NEW gone \in SUBSET Addr
  PROVE  LET d == [c EXCEPT !.pc = "remove", !.failed = gone]
         IN  d \in Calls /\ d.node = c.node /\ d.failed = gone /\ d.todo = c.todo
BY DEF Calls

(***************************************************************************)
(* A call that got the answer, has looked at an entry of it, or pushes the *)
(* entry it added.                                                         *)
(***************************************************************************)
LEMMA TodoCallType ==
  ASSUME NEW c \in Calls, NEW f \in Entries, NEW p \in Addr
  PROVE  LET a == [c EXCEPT !.pc = "add", !.todo = f]
             b == [c EXCEPT !.todo = f]
             d == [c EXCEPT !.pc = "push", !.next = "add", !.news = {p}, !.todo = f]
         IN  /\ a \in Calls /\ a.node = c.node /\ a.failed = c.failed /\ a.todo = f
             /\ b \in Calls /\ b.node = c.node /\ b.failed = c.failed /\ b.todo = f
             /\ d \in Calls /\ d.node = c.node /\ d.failed = c.failed /\ d.todo = f
BY DEF Calls

-----------------------------------------------------------------------------
(* What a step does *)

\* How the table of process n may change in a step.
Grows(n, f) ==
  /\ peers'[n] = peers[n] \cup Range(f)
  /\ idMap'[n] = Merge(idMap[n], f)
  /\ status'[n] = status[n] /\ status[n] # "new"
  /\ \A p \in Range(f) : p \notin peers[n]

Shrinks(n, gone) ==
  /\ peers'[n] = peers[n] \ gone
  /\ idMap'[n] = RemovePeers(idMap[n], gone)
  /\ \A p \in gone : Unreached(n, p)
  /\ status'[n] = status[n] /\ status[n] # "new"

Stays(n) ==
  /\ peers'[n] = peers[n] /\ idMap'[n] = idMap[n]
  /\ status'[n] = status[n] \/ status'[n] # "new"

Ends(n) ==
  peers'[n] = {} /\ idMap'[n] = NoEntries /\ status'[n] = "down"

Starts(n) ==
  /\ status[n] = "new" /\ status'[n] = "joining"
  /\ peers'[n] = {rootAt[n]} /\ idMap'[n] = FirstEntries(n)

(***************************************************************************)
(* What was given to the processes never changes.                          *)
(***************************************************************************)
LEMMA SettingStep ==
  ASSUME [Next]_vars
  PROVE  UNCHANGED <<setting, name, rootAt, SelfAware>>
<1>1. UNCHANGED setting
  BY DEF Next, Work, Discover, Handle, Start, Crash, GiveUp, End, Ask,
         Serve, TakeAnswer, AddEntry, Answer, Push, ChainPushFails, RemoveFailed,
         HandleAsk, HandlePush, vars
<1>2. QED
  BY <1>1 DEF name, rootAt, SelfAware

(***************************************************************************)
(* Who is missed stays recorded.                                           *)
(***************************************************************************)
LEMMA MissedStep ==
  ASSUME [Next]_vars
  PROVE  missed \subseteq missed'
BY DEF Next, Work, Discover, Handle, Start, Crash, GiveUp, End, Ask, Miss,
       Serve, TakeAnswer, AddEntry, Answer, Push, ChainPushFails, RemoveFailed,
       HandleAsk, HandlePush, vars

(***************************************************************************)
(* No process starts twice, and none comes back.                           *)
(***************************************************************************)
LEMMA StatusStep ==
  ASSUME TypeOK, CallsRun, [Next]_vars, NEW p \in Proc
  PROVE  /\ status[p] # "new" => status'[p] # "new"
         /\ status[p] = "down" => status'[p] = "down"
<1>1. status \in [Proc -> {"new", "joining", "up", "down"}]
  BY DEF TypeOK
<1>2. ASSUME NEW n \in Proc, Start(n) \/ Crash(n)
      PROVE  /\ status[p] # "new" => status'[p] # "new"
             /\ status[p] = "down" => status'[p] = "down"
  BY <1>1, <1>2 DEF Start, Crash, End
<1>3. ASSUME NEW c \in calls, GiveUp(c) \/ Serve(c)
      PROVE  /\ status[p] # "new" => status'[p] # "new"
             /\ status[p] = "down" => status'[p] = "down"
  BY <1>1, <1>3, PartsType DEF GiveUp, Serve, End, CallsRun
<1>4. CASE UNCHANGED status
  BY <1>4
<1>5. QED
  BY <1>2, <1>3, <1>4
     DEF Next, Work, Discover, Handle, Ask, TakeAnswer, AddEntry, HandleAsk,
         HandlePush, Answer, Push, ChainPushFails, RemoveFailed, vars

(***************************************************************************)
(* What was not reached will not be.                                       *)
(***************************************************************************)
LEMMA UnreachedStep ==
  ASSUME TypeOK, CallsRun, [Next]_vars, NEW n \in Proc, NEW p \in Addr,
         Unreached(n, p)
  PROVE  status'[Host[p]] = "down" \/ <<n, Host[p]>> \in missed'
BY StatusStep, MissedStep, SettingType DEF Unreached

(***************************************************************************)
(* A table grows by right entries, loses what was not reached, is given up *)
(* with its process or begins; or it stays as it is.                       *)
(***************************************************************************)
LEMMA TableStep ==
  ASSUME PeerInv, [Next]_vars, NEW n \in Proc
  PROVE  \/ Stays(n) \/ Ends(n) \/ Starts(n)
         \/ \E f \in Entries : Right(f) /\ Grows(n, f)
         \/ \E gone : Shrinks(n, gone)
<1>0. /\ TypeOK /\ CallsRun /\ NobodyIsEarly
      /\ \A f \in Carried : Right(f)
  BY DEF PeerInv
<1>1. /\ status \in [Proc -> {"new", "joining", "up", "down"}]
      /\ peers \in [Proc -> SUBSET Addr] /\ idMap \in [Proc -> Entries]
  BY <1>0 DEF TypeOK
<1> DEFINE Goal == \/ Stays(n) \/ Ends(n) \/ Starts(n)
                   \/ \E f \in Entries : Right(f) /\ Grows(n, f)
                   \/ \E gone : Shrinks(n, gone)
<1>2. ASSUME UNCHANGED <<status, peers, idMap>>
      PROVE  Stays(n)
  BY <1>2 DEF Stays
<1>3. ASSUME NEW k \in Proc, End(k)
      PROVE  Stays(n) \/ Ends(n)
  BY <1>1, <1>3 DEF End, Stays, Ends
<1>4. ASSUME NEW k \in Proc, Start(k)
      PROVE  Stays(n) \/ Starts(n)
  BY <1>1, <1>4 DEF Start, Stays, Starts
<1>5. ASSUME NEW k \in Proc, NEW f \in Entries, Right(f),
             k # n \/ \A p \in Range(f) : p \notin peers[n],
             peers' = [peers EXCEPT ![k] = @ \cup Range(f)],
             idMap' = [idMap EXCEPT ![k] = Merge(@, f)],
             status' = status, status[k] # "new"
      PROVE  Goal
  <2>1. CASE k = n
    BY <1>1, <1>5, <2>1 DEF Grows
  <2>2. CASE k # n
    BY <1>1, <1>5, <2>2 DEF Stays
  <2>3. QED
    BY <2>1, <2>2
<1>6. ASSUME NEW c \in calls, NEW i \in DOMAIN c.todo, AddEntry(c, i)
      PROVE  Goal
  <2>1. c.node \in Proc /\ c.todo \in Entries /\ c.todo \in Carried
    BY <1>0, PartsType DEF Carried
  <2>2. i \in Id /\ c.todo[i] \in Addr /\ name[Host[c.todo[i]]] = i
    BY <1>0, <2>1, EntriesAreFunctions DEF Right
  <2>3. CASE Addable(c.node, c.todo[i])
    <3> DEFINE f == [j \in {i} |-> c.todo[i]]
    <3>1. f \in Entries /\ Range(f) = {c.todo[i]} /\ Right(f)
      BY <2>2, SingleEntry
    <3>2. /\ peers' = [peers EXCEPT ![c.node] = @ \cup {c.todo[i]}]
          /\ idMap' = [idMap EXCEPT ![c.node] = Merge(@, f)]
          /\ status' = status
      BY <1>6, <2>3 DEF AddEntry
    <3> HIDE DEF f
    <3>3. status[c.node] # "new"
      BY <1>0 DEF CallsRun
    <3>4. QED
      BY <1>5, <2>1, <2>3, <3>1, <3>2, <3>3 DEF Addable
  <2>4. CASE ~Addable(c.node, c.todo[i])
    BY <1>2, <1>6, <2>4 DEF AddEntry
  <2>5. QED
    BY <2>3, <2>4
<1>7. ASSUME NEW m \in net, HandleAsk(m)
      PROVE  Goal
  <2>1. m.kind = "ask" /\ status[m.to] = "up" /\ status' = status
    BY <1>7 DEF HandleAsk
  <2>2. /\ m.to \in Proc /\ m.from \in Proc
        /\ name[m.from] \in Id /\ m.from \in Addr /\ Host[m.from] = m.from
    <3>1. m.to \in Proc /\ m.from \in Proc
      BY <1>0, <2>1, PartsType
    <3>2. QED
      BY <1>0, <3>1, SettingType
  <2>3. CASE Addable(m.to, m.from)
    <3> DEFINE f == [j \in {name[m.from]} |-> m.from]
    <3>1. f \in Entries /\ Range(f) = {m.from} /\ Right(f)
      BY <2>2, SingleEntry
    <3>2. /\ peers' = [peers EXCEPT ![m.to] = @ \cup {m.from}]
          /\ idMap' = [idMap EXCEPT ![m.to] = Merge(@, f)]
      BY <1>7, <2>3 DEF HandleAsk
    <3> HIDE DEF f
    <3>3. QED
      BY <1>5, <2>1, <2>2, <2>3, <3>1, <3>2 DEF Addable
  <2>4. CASE ~Addable(m.to, m.from)
    BY <1>2, <1>7, <2>4 DEF HandleAsk
  <2>5. QED
    BY <2>3, <2>4
<1>8. ASSUME NEW m \in net, HandlePush(m)
      PROVE  Goal
  <2> DEFINE ids == {i \in DOMAIN m.entries : Addable(m.to, m.entries[i])}
             f == [i \in ids |-> m.entries[i]]
  <2>1. m.kind = "push" /\ status[m.to] = "up" /\ status' = status
    BY <1>8 DEF HandlePush
  <2>2. m.to \in Proc /\ m.entries \in Entries /\ m.entries \in Carried
    <3>1. m.kind # "ask"
      BY <2>1
    <3>2. m.to \in Proc /\ m.entries \in Entries
      BY <1>0, <3>1, PartsType
    <3>3. QED
      BY <3>1, <3>2 DEF Carried
  <2>3. /\ f \in Entries /\ Right(f)
        /\ Range(f) = {m.entries[i] : i \in ids}
    BY <1>0, <2>2, PartOfTable
  <2>4. \A p \in Range(f) : Addable(m.to, p)
    BY <2>3
  <2>5. /\ peers' = [peers EXCEPT ![m.to] = @ \cup Range(f)]
        /\ idMap' = [idMap EXCEPT ![m.to] = Merge(@, f)]
    BY <1>8 DEF HandlePush
  <2> HIDE DEF f
  <2>6. QED
    BY <1>5, <2>1, <2>2, <2>3, <2>4, <2>5 DEF Addable
<1>9. ASSUME NEW c \in calls, RemoveFailed(c)
      PROVE  Goal
  <2>1. /\ peers' = [peers EXCEPT ![c.node] = @ \ c.failed]
        /\ idMap' = [idMap EXCEPT ![c.node] = RemovePeers(@, c.failed)]
        /\ status' = status
    BY <1>9 DEF RemoveFailed
  <2>2. /\ \A p \in c.failed : Unreached(c.node, p)
        /\ status[c.node] # "new"
    BY <1>0 DEF CallsRun
  <2>3. CASE c.node = n
    <3>1. Shrinks(n, c.failed)
      BY <1>1, <2>1, <2>2, <2>3 DEF Shrinks
    <3>2. QED
      BY <3>1
  <2>4. CASE c.node # n
    BY <1>1, <2>1, <2>4 DEF Stays
  <2>5. QED
    BY <2>3, <2>4
<1>10. ASSUME NEW c \in calls, Serve(c)
       PROVE  Goal
  BY <1>1, <1>10 DEF Serve, Stays
<1>11. ASSUME NEW c \in calls, GiveUp(c)
       PROVE  Goal
  <2>1. c.node \in Proc
    BY <1>0, PartsType
  <2>2. QED
    BY <1>3, <1>11, <2>1 DEF GiveUp
<1>12. QED
  BY <1>2, <1>3, <1>4, <1>6, <1>7, <1>8, <1>9, <1>10, <1>11
     DEF Next, Work, Discover, Handle, Crash, Ask, TakeAnswer, Answer, Push,
         ChainPushFails, vars

(***************************************************************************)
(* What goes wrong is counted, and who is missed is recorded.              *)
(***************************************************************************)
LEMMA MishapsStep ==
  ASSUME TypeOK, [Next]_vars
  PROVE  mishaps' \in Nat /\ missed' \subseteq Proc \X Proc
<1>1. mishaps \in Nat /\ missed \subseteq Proc \X Proc
  BY DEF TypeOK
<1>2. ASSUME NEW n \in Proc, NEW missing \in SUBSET Addr, Miss(n, missing)
      PROVE  mishaps' \in Nat /\ missed' \subseteq Proc \X Proc
  <2>1. Cardinality(missing) \in Nat
    BY AddrAssumption, FS_Subset, FS_CardinalityType
  <2>2. \A p \in missing : Host[p] \in Proc
    BY SettingType
  <2>3. QED
    BY <1>1, <1>2, <2>1, <2>2 DEF Miss, Mishaps
<1>3. \A n \in Proc : Range(idMap[n]) \subseteq Addr
  BY PartsType, RangeType
<1>4. ASSUME NEW c \in calls, Push(c)
      PROVE  \E n \in Proc : \E missing \in SUBSET Addr : Miss(n, missing)
  <2> DEFINE dead == {p \in Range(idMap[c.node]) : status[Host[p]] = "down"}
  <2>1. PICK missing \in SUBSET (Range(idMap[c.node]) \ dead) : Miss(c.node, missing)
    BY <1>4 DEF Push
  <2>2. c.node \in Proc /\ missing \in SUBSET Addr
    BY <1>3, <2>1, PartsType
  <2>3. QED
    BY <2>1, <2>2
<1>5. ASSUME NEW n \in Proc, ChainPushFails(n)
      PROVE  \E missing \in SUBSET Addr : Miss(n, missing)
  <2>1. PICK failed \in SUBSET Range(idMap[n]) \ {{}} :
          Miss(n, {p \in failed : status[Host[p]] # "down"})
    BY <1>5 DEF ChainPushFails
  <2>2. {p \in failed : status[Host[p]] # "down"} \in SUBSET Addr
    BY <1>3, <2>1
  <2>3. QED
    BY <2>1, <2>2
<1>6. ASSUME NEW n \in Proc, Crash(n)
      PROVE  mishaps' \in Nat /\ missed' \subseteq Proc \X Proc
  BY <1>1, <1>6 DEF Crash, Mishaps, End
<1>7. ASSUME NEW c \in calls, GiveUp(c)
      PROVE  mishaps' \in Nat /\ missed' \subseteq Proc \X Proc
  BY <1>1, <1>7 DEF GiveUp, Mishaps, End
<1>8. CASE UNCHANGED <<missed, mishaps>>
  BY <1>1, <1>8
<1>9. QED
  BY <1>2, <1>4, <1>5, <1>6, <1>7, <1>8
     DEF Next, Work, Discover, Handle, Start, Ask, Serve, TakeAnswer, AddEntry,
         Answer, RemoveFailed, HandleAsk, HandlePush, vars

(***************************************************************************)
(* A push is sent to the addresses in sent, is to remove those in failed,  *)
(* and missed what it was not sent to or removes.                          *)
(***************************************************************************)
LEMMA PushStep ==
  ASSUME NEW c \in calls, Push(c)
  PROVE  \E sent, failed \in SUBSET Range(idMap[c.node]) :
           /\ net' = net \cup
                {[kind |-> "push", to |-> Host[p], entries |-> idMap[c.node]] :
                   p \in sent}
           /\ calls' = (calls \ {c}) \cup
                (IF failed = {} THEN Returned(c)
                 ELSE {[c EXCEPT !.pc = "remove", !.failed = failed]})
           /\ \A p \in Range(idMap[c.node]) :
                p \notin sent \/ p \in failed =>
                  status'[Host[p]] = "down" \/ <<c.node, Host[p]>> \in missed'
<1> DEFINE n == c.node
           dead == {p \in Range(idMap[n]) : status[Host[p]] = "down"}
<1>1. PICK missing \in SUBSET (Range(idMap[n]) \ dead) :
        \E lost \in SUBSET missing :
          LET failed == dead \cup (missing \ lost)
          IN  /\ c.pc = "push"
              /\ Miss(n, missing)
              /\ net' = net \cup
                   {[kind |-> "push", to |-> Host[p], entries |-> idMap[n]] :
                      p \in Range(idMap[n]) \ (dead \cup missing)}
              /\ calls' = (calls \ {c}) \cup
                   (IF failed = {} THEN Returned(c)
                    ELSE {[c EXCEPT !.pc = "remove", !.failed = failed]})
              /\ UNCHANGED <<setting, status, peers, idMap>>
  BY DEF Push
<1>2. PICK lost \in SUBSET missing :
        /\ Miss(n, missing) /\ status' = status
        /\ net' = net \cup
             {[kind |-> "push", to |-> Host[p], entries |-> idMap[n]] :
                p \in Range(idMap[n]) \ (dead \cup missing)}
        /\ calls' = (calls \ {c}) \cup
             (IF dead \cup (missing \ lost) = {} THEN Returned(c)
              ELSE {[c EXCEPT !.pc = "remove",
                              !.failed = dead \cup (missing \ lost)]})
  BY <1>1
<1> DEFINE sent == Range(idMap[n]) \ (dead \cup missing)
           failed == dead \cup (missing \ lost)
<1>3. \A p \in dead \cup missing :
        status'[Host[p]] = "down" \/ <<n, Host[p]>> \in missed'
  BY <1>2 DEF Miss
<1>4. /\ sent \in SUBSET Range(idMap[n]) /\ failed \in SUBSET Range(idMap[n])
      /\ \A p \in Range(idMap[n]) :
           p \notin sent \/ p \in failed => p \in dead \cup missing
  OBVIOUS
<1>5. /\ net' = net \cup
           {[kind |-> "push", to |-> Host[p], entries |-> idMap[n]] : p \in sent}
      /\ calls' = (calls \ {c}) \cup
           (IF failed = {} THEN Returned(c)
            ELSE {[c EXCEPT !.pc = "remove", !.failed = failed]})
  BY <1>2
<1> HIDE DEF sent, failed, dead
<1>6. QED
  BY <1>3, <1>4, <1>5

(***************************************************************************)
(* A push of a chain that fails for some addresses missed what is there.   *)
(***************************************************************************)
LEMMA ChainPushStep ==
  ASSUME NEW n \in Proc, ChainPushFails(n)
  PROVE  \E failed \in SUBSET Range(idMap[n]) :
           /\ calls' = calls \cup
                {[NewCall(n, "remove", "end", {}) EXCEPT !.failed = failed]}
           /\ \A p \in failed :
                status'[Host[p]] = "down" \/ <<n, Host[p]>> \in missed'
<1>1. PICK failed \in SUBSET Range(idMap[n]) \ {{}} :
        /\ Miss(n, {p \in failed : status[Host[p]] # "down"})
        /\ calls' = calls \cup
             {[NewCall(n, "remove", "end", {}) EXCEPT !.failed = failed]}
        /\ status' = status
  BY DEF ChainPushFails
<1>2. \A p \in failed : status'[Host[p]] = "down" \/ <<n, Host[p]>> \in missed'
  BY <1>1 DEF Miss
<1>3. QED
  BY <1>1, <1>2

(***************************************************************************)
(* Every state of the network has the declared types.                      *)
(***************************************************************************)
LEMMA TypeStep ==
  ASSUME PeerInv, [Next]_vars
  PROVE  TypeOK'
<1>0. /\ TypeOK /\ CallsRun
      /\ setting \in Settings /\ setting' = setting
      /\ mishaps' \in Nat /\ missed' \subseteq Proc \X Proc
      /\ status \in [Proc -> {"new", "joining", "up", "down"}]
      /\ peers \in [Proc -> SUBSET Addr] /\ idMap \in [Proc -> Entries]
      /\ calls \subseteq Calls /\ net \subseteq Messages
  BY SettingStep, MishapsStep DEF PeerInv, TypeOK
<1>1. ASSUME status' = status,
             peers' \in [Proc -> SUBSET Addr], idMap' \in [Proc -> Entries],
             calls' \subseteq Calls, net' \subseteq Messages
      PROVE  TypeOK'
  BY <1>0, <1>1 DEF TypeOK
<1>2. ASSUME NEW k \in Proc, End(k)
      PROVE  TypeOK'
  BY <1>0, <1>2, EmptyTable DEF End, TypeOK
<1>3. ASSUME NEW n \in Proc, Start(n)
      PROVE  TypeOK'
  <2>1. FirstEntries(n) \in Entries
    BY <1>0, SettingType, SingleEntry DEF FirstEntries
  <2>2. NewCall(n, "push", "ask", {rootAt[n]}) \in Calls
    BY <1>0, SettingType, NewCallType
  <2>3. calls' \subseteq Calls /\ idMap' \in [Proc -> Entries]
    BY <1>0, <1>3, <2>1, <2>2 DEF Start
  <2>4. peers' \in [Proc -> SUBSET Addr]
    BY <1>0, <1>3, SettingType DEF Start
  <2>5. status' \in [Proc -> {"new", "joining", "up", "down"}]
    BY <1>0, <1>3 DEF Start
  <2>6. net' = net
    BY <1>3 DEF Start
  <2>7. QED
    BY <1>0, <2>3, <2>4, <2>5, <2>6 DEF TypeOK
<1>4. ASSUME NEW n \in Proc, Crash(n)
      PROVE  TypeOK'
  BY <1>0, <1>2, <1>4 DEF Crash
<1>5. ASSUME NEW c \in calls, GiveUp(c)
      PROVE  TypeOK'
  <2>1. c.node \in Proc
    BY <1>0, PartsType
  <2>2. QED
    BY <1>0, <1>2, <1>5, <2>1 DEF GiveUp
<1>6. ASSUME NEW c \in calls, Ask(c)
      PROVE  TypeOK'
  <2>1. c \in Calls /\ c.node \in Proc
    BY <1>0, PartsType
  <2>2. [c EXCEPT !.pc = "wait"] \in Calls
    BY <2>1, MovedCallType
  <2>3. [kind |-> "ask", to |-> Root, from |-> c.node] \in Messages
    BY <2>1, RootAssumption DEF Messages
  <2>4. calls' \subseteq Calls /\ net' \subseteq Messages
    BY <1>0, <1>6, <2>2, <2>3 DEF Ask
  <2>5. QED
    BY <1>0, <1>1, <1>6, <2>4 DEF Ask
<1>7. ASSUME NEW c \in calls, NEW m \in net, TakeAnswer(c, m)
      PROVE  TypeOK'
  <2>1. m.kind # "ask"
    BY <1>7 DEF TakeAnswer
  <2>2. c \in Calls /\ m.entries \in Entries
    BY <1>0, <2>1, PartsType
  <2>3. [c EXCEPT !.pc = "add", !.todo = m.entries] \in Calls
    BY <2>2 DEF Calls
  <2>4. calls' \subseteq Calls /\ net' \subseteq Messages
    BY <1>0, <1>7, <2>3 DEF TakeAnswer
  <2>5. QED
    BY <1>0, <1>1, <1>7, <2>4 DEF TakeAnswer
<1>8. ASSUME NEW c \in calls, NEW i \in DOMAIN c.todo, AddEntry(c, i)
      PROVE  TypeOK'
  <2> DEFINE p == c.todo[i]
             rest == [j \in DOMAIN c.todo \ {i} |-> c.todo[j]]
  <2>1. c \in Calls /\ c.node \in Proc /\ c.todo \in Entries
    BY <1>0, PartsType
  <2>2. p \in Addr /\ i \in Id
    BY <2>1, EntriesAreFunctions
  <2>3. rest \in Entries
    BY <2>1, PartOfTable
  <2>4. [j \in {i} |-> p] \in Entries
    BY <2>2, SingleEntry
  <2>5. /\ [c EXCEPT !.pc = "push", !.next = "add", !.news = {p}, !.todo = rest] \in Calls
        /\ [c EXCEPT !.todo = rest] \in Calls
    BY <2>1, <2>2, <2>3, TodoCallType
  <2>6. Merge(idMap[c.node], [j \in {i} |-> p]) \in Entries
    BY <1>0, <2>1, <2>4, MergedTable
  <2>7. status' = status /\ net' = net
    BY <1>8 DEF AddEntry
  <2>8. CASE Addable(c.node, p)
    <3>1. /\ peers' = [peers EXCEPT ![c.node] = @ \cup {p}]
          /\ idMap' = [idMap EXCEPT ![c.node] = Merge(@, [j \in {i} |-> p])]
          /\ calls' = (calls \ {c}) \cup
               {[c EXCEPT !.pc = "push", !.next = "add", !.news = {p}, !.todo = rest]}
      BY <1>8, <2>8 DEF AddEntry
    <3> HIDE DEF p, rest
    <3>2. peers' \in [Proc -> SUBSET Addr] /\ idMap' \in [Proc -> Entries]
      BY <1>0, <2>1, <2>2, <2>6, <3>1
    <3>3. calls' \subseteq Calls
      BY <1>0, <2>5, <3>1
    <3>4. QED
      BY <1>0, <1>1, <2>7, <3>2, <3>3
  <2>9. CASE ~Addable(c.node, p)
    <3>1. /\ UNCHANGED <<peers, idMap>>
          /\ calls' = (calls \ {c}) \cup {[c EXCEPT !.todo = rest]}
      BY <1>8, <2>9 DEF AddEntry
    <3> HIDE DEF p, rest
    <3>2. QED
      BY <1>0, <1>1, <2>5, <2>7, <3>1
  <2>10. QED
    BY <2>8, <2>9
<1>9. ASSUME NEW c \in calls, Serve(c)
      PROVE  TypeOK'
  BY <1>0, <1>9 DEF Serve, TypeOK
<1>10. ASSUME NEW m \in net, HandleAsk(m)
       PROVE  TypeOK'
  <2>1. m.kind = "ask"
    BY <1>10 DEF HandleAsk
  <2>2. m.to \in Proc /\ m.from \in Proc
    BY <1>0, <2>1, PartsType
  <2>3. NewCall(m.to, "answer", "end", {m.from}) \in Calls
    BY <1>0, <2>2, SettingType, NewCallType
  <2>4. [i \in {name[m.from]} |-> m.from] \in Entries
    BY <1>0, <2>2, SettingType, SingleEntry
  <2>5. Merge(idMap[m.to], [i \in {name[m.from]} |-> m.from]) \in Entries
    BY <1>0, <2>2, <2>4, MergedTable
  <2>6. peers' \in [Proc -> SUBSET Addr] /\ idMap' \in [Proc -> Entries]
    BY <1>0, <1>10, <2>2, <2>5, SettingType DEF HandleAsk
  <2>7. calls' \subseteq Calls /\ net' \subseteq Messages
    BY <1>0, <1>10, <2>3 DEF HandleAsk
  <2>8. status' = status
    BY <1>10 DEF HandleAsk
  <2>9. QED
    BY <1>1, <2>6, <2>7, <2>8
<1>11. ASSUME NEW m \in net, HandlePush(m)
       PROVE  TypeOK'
  <2> DEFINE ids == {i \in DOMAIN m.entries : Addable(m.to, m.entries[i])}
             f == [i \in ids |-> m.entries[i]]
  <2>1. m.kind # "ask"
    BY <1>11 DEF HandlePush
  <2>2. m.to \in Proc /\ m.entries \in Entries
    BY <1>0, <2>1, PartsType
  <2>3. f \in Entries
    BY <2>2, PartOfTable
  <2>4. /\ peers' = [peers EXCEPT ![m.to] = @ \cup Range(f)]
        /\ idMap' = [idMap EXCEPT ![m.to] = Merge(@, f)]
        /\ calls' = calls \cup PushIfGrew(m.to, Range(f))
        /\ net' = net \ {m} /\ status' = status
    BY <1>11 DEF HandlePush
  <2> HIDE DEF f
  <2>5. Range(f) \subseteq Addr /\ Merge(idMap[m.to], f) \in Entries
    BY <1>0, <2>2, <2>3, MergedTable
  <2>6. PushIfGrew(m.to, Range(f)) \subseteq Calls
    BY <2>2, <2>5, NewCallType DEF PushIfGrew
  <2>7. peers' \in [Proc -> SUBSET Addr] /\ idMap' \in [Proc -> Entries]
    BY <1>0, <2>2, <2>4, <2>5
  <2>8. QED
    BY <1>0, <1>1, <2>4, <2>6, <2>7
<1>12. ASSUME NEW c \in calls, Answer(c)
       PROVE  TypeOK'
  <2>1. c \in Calls /\ c.node \in Proc
    BY <1>0, PartsType
  <2>2. Answered(c) \subseteq Calls
    BY <2>1, MovedCallType DEF Answered
  <2>3. net' \subseteq Messages
    BY <1>0, <1>12, <2>1 DEF Answer, Messages
  <2>4. calls' \subseteq Calls
    BY <1>0, <1>12, <2>2 DEF Answer
  <2>5. QED
    BY <1>0, <1>1, <1>12, <2>3, <2>4 DEF Answer
<1>13. ASSUME NEW c \in calls, Push(c)
       PROVE  TypeOK'
  <2>1. c \in Calls /\ c.node \in Proc /\ idMap[c.node] \in Entries
    BY <1>0, PartsType
  <2>2. Range(idMap[c.node]) \subseteq Addr
    BY <2>1, RangeType
  <2>3. PICK sent \in SUBSET Range(idMap[c.node]),
             failed \in SUBSET Range(idMap[c.node]) :
        /\ net' = net \cup
             {[kind |-> "push", to |-> Host[p], entries |-> idMap[c.node]] :
                p \in sent}
        /\ calls' = (calls \ {c}) \cup
             (IF failed = {} THEN Returned(c)
              ELSE {[c EXCEPT !.pc = "remove", !.failed = failed]})
    BY <1>13, PushStep
  <2>4. net' \subseteq Messages
    <3>1. ASSUME NEW p \in Range(idMap[c.node])
          PROVE  [kind |-> "push", to |-> Host[p], entries |-> idMap[c.node]]
                   \in Messages
      BY <1>0, <2>1, <2>2, SettingType DEF Messages
    <3>2. {[kind |-> "push", to |-> Host[p], entries |-> idMap[c.node]] : p \in sent}
            \subseteq Messages
      BY <3>1
    <3>3. QED
      BY <1>0, <2>3, <3>2
  <2>5. Returned(c) \subseteq Calls
    BY <2>1, ReturnedType
  <2>6. [c EXCEPT !.pc = "remove", !.failed = failed] \in Calls
    BY <2>1, <2>2, FailedCallType
  <2>7. calls' \subseteq Calls
    BY <1>0, <2>3, <2>5, <2>6
  <2>8. QED
    BY <1>0, <1>1, <1>13, <2>4, <2>7 DEF Push
<1>14. ASSUME NEW c \in calls, RemoveFailed(c)
       PROVE  TypeOK'
  <2>1. c \in Calls /\ c.node \in Proc
    BY <1>0, PartsType
  <2>2. Returned(c) \subseteq Calls
    BY <2>1, ReturnedType
  <2>3. RemovePeers(idMap[c.node], c.failed) \in Entries
    BY <1>0, <2>1, ReducedTable
  <2>4. peers' \in [Proc -> SUBSET Addr] /\ idMap' \in [Proc -> Entries]
    BY <1>0, <1>14, <2>1, <2>3 DEF RemoveFailed
  <2>5. calls' \subseteq Calls
    BY <1>0, <1>14, <2>2 DEF RemoveFailed
  <2>6. QED
    BY <1>0, <1>1, <1>14, <2>4, <2>5 DEF RemoveFailed
<1>15. ASSUME NEW n \in Proc, ChainPushFails(n)
       PROVE  TypeOK'
  <2>1. Range(idMap[n]) \subseteq Addr
    BY <1>0, RangeType
  <2>2. PICK failed \in SUBSET Range(idMap[n]) :
          calls' = calls \cup
            {[NewCall(n, "remove", "end", {}) EXCEPT !.failed = failed]}
    BY <1>15, ChainPushStep
  <2>3. [NewCall(n, "remove", "end", {}) EXCEPT !.failed = failed] \in Calls
    BY <2>1, <2>2, ChainCallType
  <2>4. calls' \subseteq Calls
    BY <1>0, <2>2, <2>3
  <2>5. QED
    BY <1>0, <1>1, <1>15, <2>4 DEF ChainPushFails
<1>16. CASE UNCHANGED vars
  BY <1>0, <1>16 DEF vars, TypeOK
<1>17. QED
  BY <1>3, <1>4, <1>5, <1>6, <1>7, <1>8, <1>9, <1>10, <1>11, <1>12, <1>13,
     <1>14, <1>15, <1>16
     DEF Next, Work, Discover, Handle

-----------------------------------------------------------------------------
(* Calls and messages *)

(***************************************************************************)
(* The entries of a table are right.                                       *)
(***************************************************************************)
LEMMA TablesAreRight ==
  ASSUME PeerInv, NEW n \in Proc
  PROVE  Right(idMap[n])
BY DEF PeerInv, IdsAreRight, Right

\* A call whose process runs, with right entries and the right failures.
Sound(c) ==
  /\ status[c.node] \in {"joining", "up"}
  /\ \A p \in c.failed : Unreached(c.node, p)
  /\ Right(c.todo)

(***************************************************************************)
(* Calls end with their process; what they carry stays right.              *)
(***************************************************************************)
LEMMA CallsStep ==
  ASSUME PeerInv, [Next]_vars, NEW d \in calls'
  PROVE  /\ status'[d.node] \in {"joining", "up"}
         /\ \A p \in d.failed :
              status'[Host[p]] = "down" \/ <<d.node, Host[p]>> \in missed'
         /\ Right(d.todo)
<1> DEFINE Goal == /\ status'[d.node] \in {"joining", "up"}
                   /\ \A p \in d.failed :
                        \/ status'[Host[p]] = "down"
                        \/ <<d.node, Host[p]>> \in missed'
                   /\ Right(d.todo)
<1>0. /\ TypeOK /\ CallsRun
      /\ status \in [Proc -> {"new", "joining", "up", "down"}]
      /\ calls \subseteq Calls
      /\ \A n \in Proc, p \in Addr : Unreached(n, p) =>
           status'[Host[p]] = "down" \/ <<n, Host[p]>> \in missed'
  BY UnreachedStep DEF PeerInv, TypeOK
<1>1. \A c \in calls : Sound(c) /\ c \in Calls /\ c.node \in Proc
                       /\ c.failed \subseteq Addr /\ c.todo \in Entries
  <2>1. \A c \in calls : Right(c.todo)
    BY DEF PeerInv, Carried
  <2>2. QED
    BY <1>0, <2>1, PartsType DEF CallsRun, Sound
<1>2. ASSUME status' = status, NEW c \in calls, d.node = c.node,
             d.failed = c.failed \/ d.failed = {}, d.todo = c.todo \/ d.todo = NoEntries
      PROVE  Goal
  BY <1>0, <1>1, <1>2, EmptyTable DEF Sound
<1>3. ASSUME status' = status, d \in calls
      PROVE  Goal
  BY <1>0, <1>1, <1>3 DEF Sound
<1>4. ASSUME NEW k \in Proc, End(k)
      PROVE  Goal
  <2>1. d \in calls /\ d.node # k /\ status' = [status EXCEPT ![k] = "down"]
    BY <1>4 DEF End
  <2>2. Sound(d) /\ d.node \in Proc /\ d.failed \subseteq Addr
    BY <1>1, <2>1
  <2>3. QED
    BY <1>0, <2>1, <2>2 DEF Sound
<1>5. ASSUME NEW k \in Proc, status' = status,
             status[k] \in {"joining", "up"},
             NEW pc \in {"answer", "push"}, NEW news \in SUBSET Addr,
             d = NewCall(k, pc, "end", news)
      PROVE  Goal
  <2>1. d.node = k /\ d.failed = {} /\ d.todo = NoEntries
    BY <1>5, NewCallType
  <2>2. QED
    BY <1>5, <2>1, EmptyTable
<1>6. ASSUME NEW n \in Proc, Start(n)
      PROVE  Goal
  <2>1. /\ status' = [status EXCEPT ![n] = "joining"] /\ status[n] = "new"
        /\ calls' = calls \cup {NewCall(n, "push", "ask", {rootAt[n]})}
    BY <1>6 DEF Start
  <2>2. CASE d \in calls
    <3>1. Sound(d) /\ d.node \in Proc /\ d.failed \subseteq Addr
      BY <1>1, <2>2
    <3>2. QED
      BY <1>0, <2>1, <3>1 DEF Sound
  <2>3. CASE d = NewCall(n, "push", "ask", {rootAt[n]})
    <3>1. d.node = n /\ d.failed = {} /\ d.todo = NoEntries
      BY <2>3, SettingType, NewCallType, <1>0
    <3>2. QED
      BY <1>0, <2>1, <3>1, EmptyTable
  <2>4. QED
    BY <2>1, <2>2, <2>3
<1>7. ASSUME NEW c \in calls, Ask(c) \/ Answer(c)
      PROVE  Goal
  <2>1. /\ status' = status
        /\ d \in calls \/ d = [c EXCEPT !.pc = "wait"] \/ d = [c EXCEPT !.pc = "push"]
    BY <1>7 DEF Ask, Answer, Answered
  <2>2. CASE d = [c EXCEPT !.pc = "wait"] \/ d = [c EXCEPT !.pc = "push"]
    <3>1. d.node = c.node /\ d.failed = c.failed /\ d.todo = c.todo
      BY <1>1, <2>2, MovedCallType
    <3>2. QED
      BY <1>1, <1>2, <2>1, <3>1
  <2>3. QED
    BY <1>3, <2>1, <2>2
<1>8. ASSUME NEW c \in calls, NEW m \in net, TakeAnswer(c, m)
      PROVE  Goal
  <2>1. /\ status' = status /\ m.kind = "answer"
        /\ d \in calls \/ d = [c EXCEPT !.pc = "add", !.todo = m.entries]
    BY <1>8 DEF TakeAnswer
  <2>2. m.entries \in Entries /\ Right(m.entries)
    <3>1. m.kind # "ask"
      BY <2>1
    <3>2. m.entries \in Carried
      BY <3>1 DEF Carried
    <3>3. QED
      BY <1>0, <3>1, <3>2, PartsType DEF PeerInv
  <2>3. CASE d = [c EXCEPT !.pc = "add", !.todo = m.entries]
    <3>1. d.node = c.node /\ d.failed = c.failed /\ d.todo = m.entries
      <4>1. c \in Calls
        BY <1>1
      <4>2. QED
        BY <2>3, <4>1 DEF Calls
    <3>2. QED
      BY <1>0, <1>1, <2>1, <2>2, <3>1 DEF Sound
  <2>4. QED
    BY <1>3, <2>1, <2>3
<1>9. ASSUME NEW c \in calls, NEW i \in DOMAIN c.todo, AddEntry(c, i)
      PROVE  Goal
  <2> DEFINE p == c.todo[i]
             rest == [j \in DOMAIN c.todo \ {i} |-> c.todo[j]]
  <2>1. /\ status' = status
        /\ \/ d \in calls \/ d = [c EXCEPT !.todo = rest]
           \/ d = [c EXCEPT !.pc = "push", !.next = "add", !.news = {p}, !.todo = rest]
    BY <1>9 DEF AddEntry
  <2>2. rest \in Entries /\ Right(rest) /\ p \in Addr
    BY <1>1, PartOfTable, EntriesAreFunctions DEF Sound
  <2> HIDE DEF p, rest
  <2>3. CASE d \notin calls
    <3>1. d.node = c.node /\ d.failed = c.failed /\ d.todo = rest
      <4>1. c \in Calls
        BY <1>1
      <4>2. QED
        BY <2>1, <2>2, <2>3, <4>1 DEF Calls
    <3>2. QED
      BY <1>0, <1>1, <2>1, <2>2, <3>1 DEF Sound
  <2>4. QED
    BY <1>3, <2>1, <2>3
<1>10. ASSUME NEW c \in calls, Serve(c)
       PROVE  Goal
  <2>1. /\ status' = [status EXCEPT ![c.node] = "up"] /\ d \in calls
    BY <1>10 DEF Serve
  <2>2. /\ Sound(d) /\ d.node \in Proc /\ d.failed \subseteq Addr
        /\ Sound(c) /\ c.node \in Proc
    BY <1>1, <2>1
  <2>3. QED
    BY <1>0, <2>1, <2>2 DEF Sound
<1>11. ASSUME NEW c \in calls, d \in Returned(c), status' = status
       PROVE  Goal
  <2>1. d.node = c.node /\ d.failed = {} /\ d.todo = c.todo
    BY <1>1, <1>11, ReturnedType
  <2>2. QED
    BY <1>2, <1>11, <2>1
<1>12. ASSUME NEW m \in net, HandleAsk(m)
       PROVE  Goal
  <2>1. /\ status' = status /\ status[m.to] = "up" /\ m.kind = "ask"
        /\ d \in calls \/ d = NewCall(m.to, "answer", "end", {m.from})
    BY <1>12 DEF HandleAsk
  <2>2. m.to \in Proc /\ {m.from} \in SUBSET Addr
    BY <1>0, <2>1, PartsType, SettingType
  <2>3. QED
    BY <1>3, <1>5, <2>1, <2>2
<1>13. ASSUME NEW m \in net, HandlePush(m)
       PROVE  Goal
  <2> DEFINE ids == {i \in DOMAIN m.entries : Addable(m.to, m.entries[i])}
             f == [i \in ids |-> m.entries[i]]
  <2>1. /\ status' = status /\ status[m.to] = "up" /\ m.kind = "push"
        /\ d \in calls \/ d \in PushIfGrew(m.to, Range(f))
    BY <1>13 DEF HandlePush
  <2>2. m.to \in Proc /\ m.entries \in Entries
    <3>1. m.kind # "ask"
      BY <2>1
    <3>2. QED
      BY <1>0, <3>1, PartsType
  <2>3. f \in Entries
    BY <2>2, PartOfTable
  <2>4. Range(f) \in SUBSET Addr
    BY <2>3, RangeType
  <2> HIDE DEF f
  <2>5. d \in calls \/ d = NewCall(m.to, "push", "end", Range(f))
    BY <2>1 DEF PushIfGrew
  <2>6. QED
    BY <1>3, <1>5, <2>1, <2>2, <2>4, <2>5
<1>14. ASSUME NEW c \in calls, GiveUp(c)
       PROVE  Goal
  BY <1>1, <1>4, <1>14 DEF GiveUp
<1>15. ASSUME NEW c \in calls, Push(c)
       PROVE  Goal
  <2>1. PICK sent, failed \in SUBSET Range(idMap[c.node]) :
          /\ d \in calls \/ d \in Returned(c)
             \/ d = [c EXCEPT !.pc = "remove", !.failed = failed]
          /\ \A p \in failed :
               status'[Host[p]] = "down" \/ <<c.node, Host[p]>> \in missed'
    BY <1>15, PushStep
  <2>2. status' = status
    BY <1>15 DEF Push
  <2>3. CASE d = [c EXCEPT !.pc = "remove", !.failed = failed]
    <3>1. c \in Calls /\ c.node \in Proc
      BY <1>1
    <3>2. idMap[c.node] \in Entries
      BY <1>0, <3>1, PartsType
    <3>3. failed \in SUBSET Addr
      BY <3>2, RangeType
    <3>4. d.node = c.node /\ d.failed = failed /\ d.todo = c.todo
      BY <2>3, <3>1, <3>3, FailedCallType
    <3>5. QED
      BY <1>1, <2>1, <2>2, <3>4 DEF Sound
  <2>4. QED
    BY <1>3, <1>11, <2>1, <2>2, <2>3
<1>16. ASSUME NEW c \in calls, RemoveFailed(c)
       PROVE  Goal
  <2>1. status' = status /\ (d \in calls \/ d \in Returned(c))
    BY <1>16 DEF RemoveFailed
  <2>2. QED
    BY <1>3, <1>11, <2>1
<1>17. ASSUME NEW n \in Proc, ChainPushFails(n)
       PROVE  Goal
  <2>1. PICK failed \in SUBSET Range(idMap[n]) :
          /\ \/ d \in calls
             \/ d = [NewCall(n, "remove", "end", {}) EXCEPT !.failed = failed]
          /\ \A p \in failed :
               status'[Host[p]] = "down" \/ <<n, Host[p]>> \in missed'
    BY <1>17, ChainPushStep
  <2>2. status' = status /\ status[n] = "up"
    BY <1>17 DEF ChainPushFails
  <2>3. CASE d = [NewCall(n, "remove", "end", {}) EXCEPT !.failed = failed]
    <3>1. idMap[n] \in Entries
      BY <1>0, PartsType
    <3>2. failed \in SUBSET Addr
      BY <3>1, RangeType
    <3>3. d.node = n /\ d.failed = failed /\ d.todo = NoEntries
      BY <2>3, <3>2, ChainCallType
    <3>4. QED
      BY <2>1, <2>2, <3>3, EmptyTable
  <2>4. QED
    BY <1>3, <2>1, <2>2, <2>3
<1>18. CASE UNCHANGED vars
  BY <1>3, <1>18 DEF vars
<1>19. QED
  BY <1>4, <1>6, <1>7, <1>8, <1>9, <1>10, <1>12, <1>13, <1>14, <1>15, <1>16,
     <1>17, <1>18
     DEF Next, Work, Discover, Handle, Crash

(***************************************************************************)
(* What is sent is right.                                                  *)
(***************************************************************************)
LEMMA NetStep ==
  ASSUME PeerInv, [Next]_vars, NEW m \in net', m.kind # "ask"
  PROVE  Right(m.entries)
<1>0. TypeOK /\ CallsRun
  BY DEF PeerInv
<1>1. CASE m \in net
  BY <1>1 DEF PeerInv, Carried
<1>2. ASSUME NEW c \in calls, Answer(c) \/ Push(c), m \notin net
      PROVE  Right(m.entries)
  <2>1. m.entries = idMap[c.node]
    <3>1. CASE Answer(c)
      BY <1>2, <3>1 DEF Answer
    <3>2. CASE Push(c)
      <4>1. PICK sent \in SUBSET Range(idMap[c.node]) :
              m \in {[kind |-> "push", to |-> Host[p], entries |-> idMap[c.node]] :
                       p \in sent}
        BY <1>2, <3>2, PushStep
      <4>2. QED
        BY <4>1
    <3>3. QED
      BY <1>2, <3>1, <3>2
  <2>2. c.node \in Proc
    BY <1>0, PartsType
  <2>3. QED
    BY <2>1, <2>2, TablesAreRight
<1>3. ASSUME NEW c \in calls, Ask(c), m \notin net
      PROVE  FALSE
  BY <1>3 DEF Ask
<1>4. CASE net' \subseteq net
  BY <1>1, <1>4
<1>5. QED
  BY <1>1, <1>2, <1>3, <1>4
     DEF Next, Work, Discover, Handle, Start, Crash, End, GiveUp, TakeAnswer,
         AddEntry, Serve, HandleAsk, HandlePush, RemoveFailed, ChainPushFails, vars

-----------------------------------------------------------------------------
(* Tables in a step *)

(***************************************************************************)
(* The tables keep what the invariant says of them.                        *)
(***************************************************************************)
LEMMA TableInvStep ==
  ASSUME PeerInv, [Next]_vars, NEW n \in Proc
  PROVE  /\ Right(idMap'[n])
         /\ Range(idMap'[n]) \subseteq peers'[n]
         /\ \A p \in peers'[n] \ Range(idMap'[n]) :
              \E q \in Addr \ {p} :
                /\ name[Host[q]] = name[Host[p]]
                /\ \/ q \in Range(idMap'[n])
                   \/ status'[Host[q]] = "down" \/ <<n, Host[q]>> \in missed'
         /\ status'[n] = "new" => peers'[n] = {} /\ DOMAIN idMap'[n] = {}
<1> DEFINE Replaced(p, q) ==
             /\ name[Host[q]] = name[Host[p]]
             /\ \/ q \in Range(idMap'[n])
                \/ status'[Host[q]] = "down" \/ <<n, Host[q]>> \in missed'
           Goal ==
             /\ Right(idMap'[n])
             /\ Range(idMap'[n]) \subseteq peers'[n]
             /\ \A p \in peers'[n] \ Range(idMap'[n]) :
                  \E q \in Addr \ {p} : Replaced(p, q)
             /\ status'[n] = "new" => peers'[n] = {} /\ DOMAIN idMap'[n] = {}
<1>1. /\ idMap[n] \in Entries /\ peers[n] \subseteq Addr
      /\ Right(idMap[n])
      /\ Range(idMap[n]) \subseteq peers[n]
      /\ status[n] = "new" => peers[n] = {} /\ DOMAIN idMap[n] = {}
  BY PartsType, TablesAreRight DEF PeerInv, UnpushedShareTheirId, NobodyIsEarly
<1>2. \A p \in peers[n] \ Range(idMap[n]) :
        \E q \in Addr \ {p} :
          /\ name[Host[q]] = name[Host[p]]
          /\ q \in Range(idMap[n]) \/ Unreached(n, q)
  BY DEF PeerInv, UnpushedShareTheirId, Unreached
<1>3. \A q \in Addr : Unreached(n, q) =>
        status'[Host[q]] = "down" \/ <<n, Host[q]>> \in missed'
  BY UnreachedStep DEF PeerInv
<1>4. CASE Stays(n)
  BY <1>1, <1>2, <1>3, <1>4 DEF Stays
<1>5. CASE Ends(n)
  BY <1>5, EmptyTable DEF Ends
<1>6. CASE Starts(n)
  <2> DEFINE f == [i \in {name[Root]} |-> rootAt[n]]
  <2>1. Range(f) = {rootAt[n]} /\ Right(f)
    BY SettingType, SingleEntry DEF PeerInv
  <2>2. idMap'[n] = f /\ peers'[n] = {rootAt[n]} /\ status'[n] # "new"
    BY <1>6 DEF Starts, FirstEntries
  <2> HIDE DEF f
  <2>3. QED
    BY <2>1, <2>2
<1>7. ASSUME NEW f \in Entries, Right(f), Grows(n, f)
      PROVE  Goal
  <2>1. /\ Right(Merge(idMap[n], f))
        /\ Range(f) \subseteq Range(Merge(idMap[n], f))
        /\ Range(Merge(idMap[n], f)) \subseteq Range(idMap[n]) \cup Range(f)
        /\ Range(f) \subseteq Addr
        /\ \A p \in Range(idMap[n]) :
             \/ p \in Range(Merge(idMap[n], f))
             \/ \E i \in DOMAIN idMap[n] \cap DOMAIN f : idMap[n][i] = p
    BY <1>1, <1>7, MergedTable
  \* An entry that is overwritten is so by an address the table did not have.
  <2>2. ASSUME NEW p \in Range(idMap[n]), p \notin Range(idMap'[n])
        PROVE  \E q \in Range(f) : /\ q \in Range(idMap'[n]) /\ q \notin peers[n]
                                   /\ name[Host[q]] = name[Host[p]]
    <3>1. PICK i \in DOMAIN idMap[n] \cap DOMAIN f : idMap[n][i] = p
      BY <1>7, <2>1, <2>2 DEF Grows
    <3>2. f[i] \in Range(f)
      BY <3>1 DEF Range
    <3>3. name[Host[f[i]]] = i /\ name[Host[p]] = i
      BY <1>1, <1>7, <3>1 DEF Right
    <3>4. QED
      BY <1>7, <2>1, <3>2, <3>3 DEF Grows
  <2>3. ASSUME NEW p \in peers'[n] \ Range(idMap'[n])
        PROVE  \E q \in Addr \ {p} : Replaced(p, q)
    <3>1. p \in peers[n]
      BY <1>7, <2>1, <2>3 DEF Grows
    <3>2. CASE p \in Range(idMap[n])
      BY <2>1, <2>2, <2>3, <3>1, <3>2
    <3>3. CASE p \notin Range(idMap[n])
      <4>1. PICK q \in Addr \ {p} :
              /\ name[Host[q]] = name[Host[p]]
              /\ q \in Range(idMap[n]) \/ Unreached(n, q)
        BY <1>2, <3>1, <3>3
      <4>2. CASE q \in Range(idMap'[n]) \/ Unreached(n, q)
        BY <1>3, <4>1, <4>2
      <4>3. CASE q \in Range(idMap[n]) /\ q \notin Range(idMap'[n])
        BY <2>1, <2>2, <3>1, <4>1, <4>3
      <4>4. QED
        BY <4>1, <4>2, <4>3
    <3>4. QED
      BY <3>2, <3>3
  <2>4. /\ Right(idMap'[n]) /\ Range(idMap'[n]) \subseteq peers'[n]
        /\ status'[n] # "new"
    BY <1>1, <1>7, <2>1 DEF Grows
  <2>5. QED
    BY <2>3, <2>4
<1>8. ASSUME NEW gone, Shrinks(n, gone)
      PROVE  Goal
  <2>1. /\ Range(idMap'[n]) = Range(idMap[n]) \ gone
        /\ Right(idMap'[n]) /\ peers'[n] = peers[n] \ gone
        /\ \A q \in gone : Unreached(n, q)
        /\ status'[n] # "new"
    BY <1>1, <1>8, ReducedTable DEF Shrinks
  <2>2. ASSUME NEW p \in peers'[n] \ Range(idMap'[n])
        PROVE  \E q \in Addr \ {p} : Replaced(p, q)
    <3>1. PICK q \in Addr \ {p} :
            /\ name[Host[q]] = name[Host[p]]
            /\ q \in Range(idMap[n]) \/ Unreached(n, q)
      BY <1>2, <2>1, <2>2
    <3>2. q \in Range(idMap'[n]) \/ Unreached(n, q)
      BY <2>1, <3>1
    <3>3. QED
      BY <1>3, <3>1, <3>2
  <2>3. QED
    BY <1>1, <2>1, <2>2
<1>9. QED
  BY <1>4, <1>5, <1>6, <1>7, <1>8, TableStep

-----------------------------------------------------------------------------
(* The theorems *)

(***************************************************************************)
(* The invariant holds when only the root runs.                            *)
(***************************************************************************)
LEMMA PeerInvInit == Init => PeerInv
<1> SUFFICES ASSUME Init PROVE PeerInv
  OBVIOUS
<1>1. TypeOK
  BY EmptyTable, RootAssumption DEF Init, TypeOK
<1>2. \A n \in Proc : peers[n] = {} /\ idMap[n] = NoEntries
  BY DEF Init
<1>3. IdsAreRight /\ UnpushedShareTheirId
  BY <1>2, EmptyTable DEF IdsAreRight, UnpushedShareTheirId
<1>4. CallsRun /\ \A f \in Carried : Right(f)
  BY DEF Init, CallsRun, Carried
<1>5. NobodyIsEarly
  BY <1>2, EmptyTable, RootAssumption DEF Init, NobodyIsEarly
<1>6. QED
  BY <1>1, <1>3, <1>4, <1>5 DEF PeerInv

(***************************************************************************)
(* Every step of the network keeps it.                                     *)
(***************************************************************************)
LEMMA PeerInvStep == PeerInv /\ [Next]_vars => PeerInv'
<1> SUFFICES ASSUME PeerInv, [Next]_vars PROVE PeerInv'
  OBVIOUS
<1>1. TypeOK'
  BY TypeStep
<1>2. name' = name
  BY SettingStep
<1>3. CallsRun'
  BY CallsStep DEF CallsRun, Unreached
<1>4. ASSUME NEW f \in Carried'
      PROVE  Right(f)'
  <2>1. Right(f)
    <3>1. CASE \E d \in calls' : f = d.todo
      BY <3>1, CallsStep
    <3>2. CASE \E m \in net' : m.kind # "ask" /\ f = m.entries
      BY <3>2, NetStep
    <3>3. QED
      BY <1>4, <3>1, <3>2 DEF Carried
  <2>2. QED
    BY <1>2, <2>1 DEF Right
<1>5. NobodyIsEarly'
  <2>1. status'[Root] # "new"
    BY StatusStep, RootAssumption DEF PeerInv, NobodyIsEarly
  <2>2. QED
    BY <2>1, TableInvStep DEF NobodyIsEarly
<1>6. IdsAreRight'
  BY <1>2, TableInvStep DEF IdsAreRight, Right
<1>7. UnpushedShareTheirId'
  BY <1>2, TableInvStep DEF UnpushedShareTheirId
<1>8. QED
  BY <1>1, <1>3, <1>4, <1>5, <1>6, <1>7 DEF PeerInv

(***************************************************************************)
(* The invariant holds in every state of every run.                        *)
(***************************************************************************)
THEOREM PeerInvariant == Spec => []PeerInv
BY PeerInvInit, PeerInvStep, PTL DEF Spec

(***************************************************************************)
(* Tables, calls and messages keep their types.                            *)
(***************************************************************************)
THEOREM TypeCorrect == Spec => []TypeOK
<1>1. PeerInv => TypeOK
  BY DEF PeerInv
<1>2. QED
  BY <1>1, PeerInvariant, PTL

(***************************************************************************)
(* The address under an id is one of a process with that id: add_peer,     *)
(* remove_peer_with_peer and pushes that arrive late never mix up ids.     *)
(***************************************************************************)
THEOREM IdsAreAlwaysRight == Spec => []IdsAreRight
<1>1. PeerInv => IdsAreRight
  BY DEF PeerInv
<1>2. QED
  BY <1>1, PeerInvariant, PTL

(***************************************************************************)
(* What is pushed to is known; an address that is known and not pushed to  *)
(* lost its entry to another address of the same id, which is there still, *)
(* or was not reached.                                                     *)
(***************************************************************************)
THEOREM UnpushedLostTheirId == Spec => []UnpushedShareTheirId
<1>1. PeerInv => UnpushedShareTheirId
  BY DEF PeerInv
<1>2. QED
  BY <1>1, PeerInvariant, PTL

(***************************************************************************)
(* What happens to a live process in the table of one that goes on and has *)
(* not missed it.                                                          *)
(***************************************************************************)
LEMMA EntriesStay ==
  ASSUME PeerInv, [Next]_vars, NEW n \in Proc, NEW p \in Addr,
         status'[n] # "down", ~Unreached(n, p)
  PROVE  /\ p \in peers[n] => p \in peers'[n]
         /\ p \in Range(idMap[n]) /\ p \notin Range(idMap'[n])
              => \E q \in Range(idMap'[n]) : name[Host[q]] = name[Host[p]]
<1>1. /\ idMap[n] \in Entries /\ Right(idMap[n])
      /\ status[n] = "new" => peers[n] = {} /\ DOMAIN idMap[n] = {}
  BY PartsType, TablesAreRight DEF PeerInv, NobodyIsEarly
<1>2. CASE Stays(n) \/ Ends(n)
  BY <1>2 DEF Stays, Ends
<1>3. CASE Starts(n)
  BY <1>1, <1>3 DEF Starts, Range
<1>4. ASSUME NEW f \in Entries, Right(f), Grows(n, f)
      PROVE  /\ p \in peers[n] => p \in peers'[n]
             /\ p \in Range(idMap[n]) /\ p \notin Range(idMap'[n])
                  => \E q \in Range(idMap'[n]) : name[Host[q]] = name[Host[p]]
  <2>1. /\ Range(f) \subseteq Range(Merge(idMap[n], f))
        /\ \A r \in Range(idMap[n]) :
             \/ r \in Range(Merge(idMap[n], f))
             \/ \E i \in DOMAIN idMap[n] \cap DOMAIN f : idMap[n][i] = r
    BY <1>1, MergedTable
  <2>2. ASSUME p \in Range(idMap[n]), p \notin Range(idMap'[n])
        PROVE  \E q \in Range(idMap'[n]) : name[Host[q]] = name[Host[p]]
    <3>1. PICK i \in DOMAIN idMap[n] \cap DOMAIN f : idMap[n][i] = p
      BY <1>4, <2>1, <2>2 DEF Grows
    <3>2. f[i] \in Range(f)
      BY <3>1 DEF Range
    <3>3. name[Host[f[i]]] = i /\ name[Host[p]] = i
      BY <1>1, <1>4, <3>1 DEF Right
    <3>4. QED
      BY <1>4, <2>1, <3>2, <3>3 DEF Grows
  <2>3. QED
    BY <1>4, <2>2 DEF Grows
<1>5. ASSUME NEW gone, Shrinks(n, gone)
      PROVE  /\ p \in peers[n] => p \in peers'[n]
             /\ p \in Range(idMap[n]) => p \in Range(idMap'[n])
  <2>1. p \notin gone
    BY <1>5 DEF Shrinks
  <2>2. QED
    BY <1>1, <1>5, <2>1, ReducedTable DEF Shrinks
<1>6. QED
  BY <1>2, <1>3, <1>4, <1>5, TableStep

(***************************************************************************)
(* No step takes a live peer that no push of a node missed from the        *)
(* addresses of this node, or from its entries but for another address of  *)
(* the same id.                                                            *)
(***************************************************************************)
THEOREM LivePeersAlwaysStay == Spec => LivePeersStay
<1>1. PeerInv /\ [Next]_vars =>
        [\A n \in Proc, p \in Addr :
           /\ status'[n] # "down" /\ status[Host[p]] # "down"
           /\ <<n, Host[p]>> \notin missed
           => /\ p \in peers[n] => p \in peers'[n]
              /\ p \in Range(idMap[n]) /\ p \notin Range(idMap'[n])
                   => \E q \in Range(idMap'[n]) : name[Host[q]] = name[Host[p]]]_vars
  BY EntriesStay DEF Unreached
<1>2. QED
  BY <1>1, PeerInvariant, PTL DEF Spec, LivePeersStay

-----------------------------------------------------------------------------
(* Nobody is forgotten *)

\* Requests for the root's peers go to the root.
AsksGoToRoot == \A m \in net : m.kind = "ask" => m.to = Root

\* The root knows who has begun, or is yet to get its request, or missed it.
RootHears ==
  \A p \in Proc \ {Root} :
    status[p] # "new" /\ Alone(p) /\ <<Root, p>> \notin missed
    => Knows(Root, p) \/ Unheard(p)

\* The root is known from the beginning.
RootIsKnown ==
  \A n \in Proc \ {Root} :
    status[n] # "new" /\ Alone(Root) /\ <<n, Root>> \notin missed
    => Knows(n, Root)

\* Whom the root knows it tells of the others, or will.
RootTells ==
  \A n, p \in Proc :
    /\ Knows(Root, n) /\ Knows(Root, p)
    /\ n # p /\ Alone(n) /\ Alone(p) /\ Reached(n, p)
    => Knows(n, p) \/ ToBeTold(n, p)

TellInv ==
  /\ AsksGoToRoot
  /\ NobodyHasEnded => RootHears /\ RootIsKnown /\ RootTells

(***************************************************************************)
(* A process of an id of its own that is known stays so to those that go   *)
(* on, as long as it lives and is not missed.                              *)
(***************************************************************************)
LEMMA AloneStays ==
  ASSUME PeerInv, [Next]_vars, NEW n \in Proc, NEW p \in Proc, Alone(p),
         status'[n] # "down", ~(status[p] = "down"), <<n, p>> \notin missed,
         Knows(n, p)
  PROVE  \E a \in Range(idMap'[n]) : Host[a] = p
<1>1. PICK a \in Range(idMap[n]) : Host[a] = p
  BY DEF Knows
<1>2. /\ Range(idMap[n]) \subseteq Addr /\ Range(idMap'[n]) \subseteq Addr
      /\ \A q \in Addr : Host[q] \in Proc
  <2>1. idMap[n] \in Entries /\ idMap'[n] \in Entries
    BY PeerInvStep DEF PeerInv, TypeOK
  <2>2. QED
    BY <2>1, RangeType, SettingType DEF PeerInv
<1>3. a \notin Range(idMap'[n]) =>
        \E q \in Range(idMap'[n]) : name[Host[q]] = name[Host[a]]
  BY <1>1, <1>2, EntriesStay DEF Unreached
<1>4. QED
  BY <1>1, <1>2, <1>3 DEF Alone

(***************************************************************************)
(* An id of its own gets a known process into the entries.                 *)
(***************************************************************************)
LEMMA AloneIsEntered ==
  ASSUME PeerInv, [Next]_vars, NobodyHasEnded', NEW n \in Proc,
         NEW a \in peers'[n], Alone(Host[a]), <<n, Host[a]>> \notin missed'
  PROVE  \E b \in Range(idMap'[n]) : Host[b] = Host[a]
<1>1. PeerInv' /\ name' = name
  BY PeerInvStep, SettingStep
<1>2. a \in Addr /\ \A q \in Addr : Host[q] \in Proc
  BY <1>1, SettingType DEF PeerInv, TypeOK
<1>3. a \notin Range(idMap'[n]) =>
        \E q \in Addr \ {a} :
          /\ name[Host[q]] = name[Host[a]]
          /\ \/ q \in Range(idMap'[n])
             \/ status'[Host[q]] = "down" \/ <<n, Host[q]>> \in missed'
  BY <1>1 DEF PeerInv, UnpushedShareTheirId
<1>4. \A q \in Addr : name[Host[q]] = name[Host[a]] => Host[q] = Host[a]
  BY <1>2 DEF Alone
<1>5. \A q \in Addr : status'[Host[q]] # "down"
  BY <1>2 DEF NobodyHasEnded
<1>6. QED
  BY <1>3, <1>4, <1>5

(***************************************************************************)
(* While nobody ends, nobody crashes or gives up.                          *)
(***************************************************************************)
LEMMA QuietStep ==
  ASSUME PeerInv, TellInv, [Next]_vars, NobodyHasEnded'
  PROVE  /\ NobodyHasEnded /\ name' = name
         /\ RootHears /\ RootIsKnown /\ RootTells
         /\ \A n \in Proc : ~Crash(n)
         /\ \A c \in calls : ~GiveUp(c)
<1>1. /\ TypeOK
      /\ \A c \in calls : c.node \in Proc
      /\ status \in [Proc -> {"new", "joining", "up", "down"}]
  BY PartsType DEF PeerInv, TypeOK
<1>2. ASSUME NEW n \in Proc
      PROVE  ~End(n)
  BY <1>1, <1>2 DEF End, NobodyHasEnded
<1>3. NobodyHasEnded
  BY StatusStep DEF NobodyHasEnded, PeerInv
<1>4. QED
  BY <1>1, <1>2, <1>3, SettingStep DEF TellInv, Crash, GiveUp

(***************************************************************************)
(* A push of a process while nobody ends: whom it does not miss it tells,  *)
(* and its call goes on.                                                   *)
(***************************************************************************)
LEMMA QuietPush ==
  ASSUME PeerInv, [Next]_vars, NobodyHasEnded', NEW c \in calls, Push(c)
  PROVE  /\ \A a \in Range(idMap[c.node]) : <<c.node, Host[a]>> \notin missed' =>
              \E m \in net' : /\ m.kind = "push" /\ m.to = Host[a]
                              /\ m.entries = idMap[c.node]
         /\ \/ Returned(c) \subseteq calls'
            \/ \E d \in calls' : d.node = c.node /\ d.pc = "remove" /\ d.next = c.next
         /\ net \subseteq net' /\ \A d \in calls : d \in calls' \/ d = c
<1>1. PICK sent \in SUBSET Range(idMap[c.node]),
           failed \in SUBSET Range(idMap[c.node]) :
        /\ net' = net \cup
             {[kind |-> "push", to |-> Host[p], entries |-> idMap[c.node]] :
                p \in sent}
        /\ calls' = (calls \ {c}) \cup
             (IF failed = {} THEN Returned(c)
              ELSE {[c EXCEPT !.pc = "remove", !.failed = failed]})
        /\ \A p \in Range(idMap[c.node]) :
             p \notin sent \/ p \in failed =>
               status'[Host[p]] = "down" \/ <<c.node, Host[p]>> \in missed'
  BY PushStep
<1>2. /\ c \in Calls /\ Range(idMap[c.node]) \subseteq Addr
      /\ \A p \in Addr : Host[p] \in Proc
  BY PartsType, RangeType, SettingType DEF PeerInv
<1>3. ASSUME NEW a \in Range(idMap[c.node]), <<c.node, Host[a]>> \notin missed'
      PROVE  \E m \in net' : /\ m.kind = "push" /\ m.to = Host[a]
                             /\ m.entries = idMap[c.node]
  <2>1. a \in sent
    BY <1>1, <1>2, <1>3 DEF NobodyHasEnded
  <2> DEFINE m == [kind |-> "push", to |-> Host[a], entries |-> idMap[c.node]]
  <2>2. m \in net' /\ m.kind = "push" /\ m.to = Host[a] /\ m.entries = idMap[c.node]
    BY <1>1, <2>1
  <2> HIDE DEF m
  <2>3. QED
    BY <2>2
<1>4. \/ Returned(c) \subseteq calls'
      \/ \E d \in calls' : d.node = c.node /\ d.pc = "remove" /\ d.next = c.next
  <2> DEFINE d == [c EXCEPT !.pc = "remove", !.failed = failed]
  <2>1. d.node = c.node /\ d.pc = "remove" /\ d.next = c.next
    BY <1>2 DEF Calls
  <2>2. Returned(c) \subseteq calls' \/ d \in calls'
    BY <1>1
  <2> HIDE DEF d
  <2>3. QED
    BY <2>1, <2>2
<1>5. net \subseteq net' /\ \A d \in calls : d \in calls' \/ d = c
  BY <1>1
<1>6. QED
  BY <1>3, <1>4, <1>5

(***************************************************************************)
(* A process begins with its discovery.                                    *)
(***************************************************************************)
LEMMA StartsOnly ==
  ASSUME PeerInv, TellInv, [Next]_vars, NobodyHasEnded', NEW n \in Proc,
         status[n] = "new", status'[n] # "new"
  PROVE  Start(n)
<1>1. /\ TypeOK /\ (\A k \in Proc : ~Crash(k))
      /\ \A c \in calls : ~GiveUp(c)
  BY QuietStep DEF PeerInv
<1>2. \A c \in calls : c.node # n
  BY DEF PeerInv, CallsRun
<1>3. ASSUME NEW c \in calls, Serve(c)
      PROVE  status'[n] = status[n]
  BY <1>1, <1>2, <1>3 DEF Serve, TypeOK
<1>4. ASSUME NEW k \in Proc, Start(k), k # n
      PROVE  status'[n] = status[n]
  BY <1>1, <1>4 DEF Start, TypeOK
<1>5. QED
  BY <1>1, <1>3, <1>4
     DEF Next, Work, Discover, Handle, Ask, TakeAnswer, AddEntry, Answer, Push,
         ChainPushFails, RemoveFailed, HandleAsk, HandlePush, vars

(***************************************************************************)
(* Requests go to the root.                                                *)
(***************************************************************************)
LEMMA AsksStep ==
  ASSUME TypeOK, AsksGoToRoot, [Next]_vars
  PROVE  AsksGoToRoot'
<1>1. ASSUME NEW m \in net', m.kind = "ask", m \notin net
      PROVE  m.to = Root
  <2>1. ASSUME NEW c \in calls, Push(c)
        PROVE  FALSE
    <3>1. PICK sent \in SUBSET Range(idMap[c.node]) :
            m \in {[kind |-> "push", to |-> Host[p], entries |-> idMap[c.node]] :
                     p \in sent}
      BY <1>1, <2>1, PushStep
    <3>2. m.kind = "push"
      BY <3>1
    <3>3. QED
      BY <1>1, <3>2
  <2>2. ASSUME NEW c \in calls, Ask(c) \/ Answer(c)
        PROVE  m.to = Root
    BY <1>1, <2>2 DEF Ask, Answer
  <2>3. CASE net' \subseteq net
    BY <1>1, <2>3
  <2>4. QED
    BY <2>1, <2>2, <2>3
       DEF Next, Work, Discover, Handle, Start, Crash, GiveUp, End, Serve,
           TakeAnswer, AddEntry, RemoveFailed, ChainPushFails, HandleAsk,
           HandlePush, vars
<1>2. QED
  BY <1>1 DEF AsksGoToRoot

(***************************************************************************)
(* A call goes on undisturbed by what others do.                           *)
(***************************************************************************)
LEMMA CallStays ==
  ASSUME PeerInv, TellInv, [Next]_vars, NobodyHasEnded', NEW c \in calls
  PROVE  c \in calls' \/ Discover(c) \/ Answer(c) \/ Push(c) \/ RemoveFailed(c)
<1>1. /\ TypeOK /\ (\A n \in Proc : ~Crash(n)) /\ \A d \in calls : ~GiveUp(d)
  BY QuietStep DEF PeerInv
<1>2. ASSUME NEW d \in calls, d # c, Push(d)
      PROVE  c \in calls'
  BY <1>1, <1>2, QuietPush
<1>3. ASSUME NEW d \in calls, d # c, Answer(d) \/ RemoveFailed(d)
      PROVE  c \in calls'
  BY <1>3 DEF Answer, RemoveFailed
<1>4. ASSUME NEW d \in calls, d # c, Discover(d)
      PROVE  c \in calls'
  <2>1. ASSUME NEW i \in DOMAIN d.todo, AddEntry(d, i)
        PROVE  c \in calls'
    BY <1>4, <2>1 DEF AddEntry
  <2>2. CASE Ask(d) \/ Serve(d) \/ \E m \in net : TakeAnswer(d, m)
    BY <1>4, <2>2 DEF Ask, Serve, TakeAnswer
  <2>3. QED
    BY <1>4, <2>1, <2>2 DEF Discover
<1>5. CASE (\E n \in Proc : Start(n)) \/ Handle \/ UNCHANGED vars
  BY <1>5 DEF Start, Handle, HandleAsk, HandlePush, vars
<1>6. ASSUME NEW n \in Proc, ChainPushFails(n)
      PROVE  c \in calls'
  BY <1>6, ChainPushStep
<1>7. QED
  BY <1>1, <1>2, <1>3, <1>4, <1>5, <1>6 DEF Next, Work

(***************************************************************************)
(* A message that is not handled stays.                                    *)
(***************************************************************************)
LEMMA MessageStays ==
  ASSUME PeerInv, TellInv, [Next]_vars, NobodyHasEnded', NEW m \in net,
         m.kind # "answer"
  PROVE  m \in net' \/ HandleAsk(m) \/ HandlePush(m)
<1>1. /\ (\A n \in Proc : ~Crash(n)) /\ \A c \in calls : ~GiveUp(c)
  BY QuietStep
<1>2. ASSUME NEW c \in calls, Push(c)
      PROVE  m \in net'
  BY <1>2, QuietPush
<1>3. ASSUME NEW o \in net, HandleAsk(o) \/ HandlePush(o), o # m
      PROVE  m \in net'
  BY <1>3 DEF HandleAsk, HandlePush
<1>4. ASSUME NEW c \in calls, Discover(c) \/ Answer(c) \/ RemoveFailed(c)
      PROVE  m \in net'
  <2>1. ASSUME NEW o \in net, TakeAnswer(c, o)
        PROVE  m \in net'
    BY <2>1 DEF TakeAnswer
  <2>2. ASSUME NEW i \in DOMAIN c.todo, AddEntry(c, i)
        PROVE  m \in net'
    BY <2>2 DEF AddEntry
  <2>3. CASE Ask(c) \/ Serve(c) \/ Answer(c) \/ RemoveFailed(c)
    BY <2>3 DEF Ask, Serve, Answer, RemoveFailed
  <2>4. QED
    BY <1>4, <2>1, <2>2, <2>3 DEF Discover
<1>5. CASE (\E n \in Proc : Start(n) \/ ChainPushFails(n)) \/ UNCHANGED vars
  BY <1>5 DEF Start, ChainPushFails, vars
<1>6. QED
  BY <1>1, <1>2, <1>3, <1>4, <1>5 DEF Next, Work, Handle

(***************************************************************************)
(* Who has begun and has an id of its own is known to the root, or its     *)
(* discovery goes on to the request, which the root will handle.           *)
(***************************************************************************)
LEMMA HearsStep ==
  ASSUME PeerInv, TellInv, [Next]_vars, NobodyHasEnded'
  PROVE  RootHears'
<1>0. /\ TypeOK /\ NobodyHasEnded /\ name' = name /\ RootHears
      /\ Root \in Proc /\ AsksGoToRoot
      /\ \A c \in calls : c \in Calls /\ c.node \in Proc
      /\ \A p \in Proc : Host[p] = p
      /\ missed \subseteq missed'
  BY QuietStep, MissedStep, PartsType, SettingType DEF PeerInv, TellInv
<1> SUFFICES ASSUME NEW p \in Proc \ {Root}, status'[p] # "new", Alone(p),
                    <<Root, p>> \notin missed', ~Knows(Root, p)'
             PROVE  Unheard(p)'
  BY <1>0 DEF RootHears, Alone
<1>1. ~Knows(Root, p)
  <2>1. status'[Root] # "down" /\ ~(status[p] = "down") /\ <<Root, p>> \notin missed
    BY <1>0 DEF NobodyHasEnded
  <2>2. QED
    BY <1>0, <2>1, AloneStays DEF Knows
<1>2. ASSUME status[p] = "new"
      PROVE  Unheard(p)'
  <2>1. Start(p)
    BY <1>2, StartsOnly
  <2> DEFINE c == NewCall(p, "push", "ask", {rootAt[p]})
  <2>2. c \in calls' /\ c.node = p /\ c.pc = "push" /\ c.next = "ask"
    BY <2>1 DEF Start, NewCall
  <2> HIDE DEF c
  <2>3. QED
    BY <2>2 DEF Unheard
<1>3. ASSUME NEW m \in net, m.kind = "ask", m.to = Root, m.from = p
      PROVE  Unheard(p)'
  <2>1. ASSUME HandleAsk(m)
        PROVE  FALSE
    <3>1. p \in peers'[Root]
      BY <1>0, <1>3, <2>1 DEF HandleAsk, Addable, TypeOK
    <3>2. Alone(Host[p]) /\ <<Root, Host[p]>> \notin missed'
      BY <1>0
    <3>3. \E b \in Range(idMap'[Root]) : Host[b] = Host[p]
      BY <1>0, <3>1, <3>2, AloneIsEntered
    <3>4. QED
      BY <1>0, <3>3 DEF Knows
  <2>2. ~HandlePush(m)
    BY <1>3 DEF HandlePush
  <2>3. m \in net'
    BY <1>3, <2>1, <2>2, MessageStays
  <2>4. QED
    BY <1>3, <2>3 DEF Unheard
<1>4. ASSUME NEW c \in calls, c.node = p,
             c.pc = "ask" \/ (c.next = "ask" /\ c.pc \in {"push", "remove"})
      PROVE  Unheard(p)'
  <2>1. CASE c \in calls'
    BY <1>4, <2>1 DEF Unheard
  <2>2. CASE Ask(c)
    <3> DEFINE m == [kind |-> "ask", to |-> Root, from |-> c.node]
    <3>1. m \in net' /\ m.kind = "ask" /\ m.to = Root /\ m.from = p
      BY <1>4, <2>2 DEF Ask
    <3> HIDE DEF m
    <3>2. QED
      BY <3>1 DEF Unheard
  <2>3. ASSUME Returned(c) \subseteq calls', c.next = "ask"
        PROVE  Unheard(p)'
    <3> DEFINE d == [c EXCEPT !.pc = c.next, !.failed = {}]
    <3>1. d \in calls'
      BY <2>3 DEF Returned
    <3>2. d.pc = "ask" /\ d.node = p
      BY <1>0, <1>4, <2>3 DEF Calls
    <3> HIDE DEF d
    <3>3. QED
      BY <3>1, <3>2 DEF Unheard
  <2>4. CASE Push(c)
    <3>1. c.next = "ask"
      BY <1>4, <2>4 DEF Push
    <3>2. CASE \E d \in calls' : d.node = c.node /\ d.pc = "remove" /\ d.next = c.next
      BY <1>4, <3>1, <3>2 DEF Unheard
    <3>3. QED
      BY <2>3, <2>4, <3>1, <3>2, QuietPush
  <2>5. CASE RemoveFailed(c)
    <3>1. Returned(c) \subseteq calls' /\ c.next = "ask"
      BY <1>4, <2>5 DEF RemoveFailed
    <3>2. QED
      BY <2>3, <3>1
  <2>6. Discover(c) \/ Answer(c) => Ask(c)
    BY <1>0, <1>4 DEF Discover, Serve, TakeAnswer, AddEntry, Answer
  <2>7. QED
    BY <2>1, <2>2, <2>4, <2>5, <2>6, CallStays
<1>5. QED
  BY <1>0, <1>1, <1>2, <1>3, <1>4 DEF RootHears, Unheard

(***************************************************************************)
(* The root's entry, there from the beginning, stays.                      *)
(***************************************************************************)
LEMMA KnownStep ==
  ASSUME PeerInv, TellInv, [Next]_vars, NobodyHasEnded'
  PROVE  RootIsKnown'
<1>0. /\ TypeOK /\ NobodyHasEnded /\ name' = name /\ RootIsKnown
      /\ Root \in Proc /\ missed \subseteq missed'
      /\ \A n \in Proc : Host[rootAt[n]] = Root
  BY QuietStep, MissedStep, SettingType DEF PeerInv
<1> SUFFICES ASSUME NEW n \in Proc \ {Root}, status'[n] # "new", Alone(Root),
                    <<n, Root>> \notin missed'
             PROVE  Knows(n, Root)'
  BY <1>0 DEF RootIsKnown, Alone
<1>1. CASE status[n] # "new"
  <2>1. Knows(n, Root) /\ <<n, Root>> \notin missed
    BY <1>0, <1>1 DEF RootIsKnown
  <2>2. status'[n] # "down" /\ ~(status[Root] = "down")
    BY <1>0 DEF NobodyHasEnded
  <2>3. QED
    BY <1>0, <2>1, <2>2, AloneStays DEF Knows
<1>2. CASE status[n] = "new"
  <2>1. idMap'[n] = FirstEntries(n)
    <3>1. Start(n)
      BY <1>2, StartsOnly
    <3>2. QED
      BY <1>0, <3>1 DEF Start, TypeOK
  <2>2. rootAt[n] \in Range(idMap'[n])
    BY <2>1 DEF FirstEntries, Range
  <2>3. QED
    BY <1>0, <2>2 DEF Knows
<1>3. QED
  BY <1>1, <1>2

(***************************************************************************)
(* Whenever the root's entries grow, the root is going to push them.       *)
(***************************************************************************)
LEMMA GrowthIsPushed ==
  ASSUME PeerInv, TellInv, [Next]_vars, NobodyHasEnded',
         ~(Range(idMap'[Root]) \subseteq Range(idMap[Root]))
  PROVE  \E c \in calls' : c.node = Root /\ c.pc \in {"answer", "push"}
<1>0. /\ TypeOK /\ Root \in Proc
      /\ idMap \in [Proc -> Entries] /\ peers \in [Proc -> SUBSET Addr]
      /\ \A n \in Proc : ~Crash(n)
      /\ \A c \in calls : ~GiveUp(c)
      /\ \A c \in calls : c \in Calls /\ c.node \in Proc
      /\ \A m \in net : m.to \in Proc
      /\ status[Root] # "new"
  BY QuietStep, RootAssumption, PartsType DEF PeerInv, TypeOK, NobodyIsEarly
<1>1. idMap'[Root] # idMap[Root]
  OBVIOUS
<1>2. ASSUME NEW c \in calls, NEW i \in DOMAIN c.todo, AddEntry(c, i)
      PROVE  \E d \in calls' : d.node = Root /\ d.pc \in {"answer", "push"}
  <2> DEFINE rest == [j \in DOMAIN c.todo \ {i} |-> c.todo[j]]
             d == [c EXCEPT !.pc = "push", !.next = "add", !.news = {c.todo[i]},
                            !.todo = rest]
  <2>1. c.node = Root /\ Addable(Root, c.todo[i])
    BY <1>0, <1>1, <1>2 DEF AddEntry
  <2>2. d \in calls'
    BY <1>2, <2>1 DEF AddEntry
  <2>3. d.node = Root /\ d.pc = "push"
    BY <1>0, <2>1 DEF Calls
  <2> HIDE DEF d
  <2>4. QED
    BY <2>2, <2>3
<1>3. ASSUME NEW m \in net, HandleAsk(m)
      PROVE  \E d \in calls' : d.node = Root /\ d.pc \in {"answer", "push"}
  <2> DEFINE d == NewCall(m.to, "answer", "end", {m.from})
  <2>1. m.to = Root
    BY <1>0, <1>1, <1>3 DEF HandleAsk
  <2>2. d \in calls' /\ d.node = Root /\ d.pc = "answer"
    BY <1>3, <2>1 DEF HandleAsk, NewCall
  <2> HIDE DEF d
  <2>3. QED
    BY <2>2
<1>4. ASSUME NEW m \in net, HandlePush(m)
      PROVE  \E d \in calls' : d.node = Root /\ d.pc \in {"answer", "push"}
  <2> DEFINE ids == {i \in DOMAIN m.entries : Addable(m.to, m.entries[i])}
             new == [i \in ids |-> m.entries[i]]
             d == NewCall(m.to, "push", "end", Range(new))
  <2>1. m.to = Root
    BY <1>0, <1>1, <1>4 DEF HandlePush
  <2>2. /\ idMap'[Root] = Merge(idMap[Root], new)
        /\ calls' = calls \cup PushIfGrew(m.to, Range(new))
    BY <1>0, <1>4, <2>1 DEF HandlePush
  <2>3. new \in Entries
    <3>1. m.entries \in Entries
      BY <1>0, <1>4, PartsType DEF HandlePush
    <3>2. ids \in SUBSET DOMAIN m.entries
      OBVIOUS
    <3> HIDE DEF ids
    <3>3. QED
      BY <3>1, <3>2, PartOfTable
  <2> HIDE DEF new, ids
  <2>4. Range(new) # {}
    BY <1>0, <2>2, <2>3, MergedTable
  <2>5. d \in calls'
    BY <2>2, <2>4 DEF PushIfGrew
  <2>6. d.node = Root /\ d.pc = "push"
    BY <2>1 DEF NewCall
  <2> HIDE DEF d
  <2>7. QED
    BY <2>5, <2>6
<1>5. ASSUME NEW c \in calls, RemoveFailed(c)
      PROVE  FALSE
  <2>1. c.node = Root /\ idMap'[Root] = RemovePeers(idMap[Root], c.failed)
    BY <1>0, <1>1, <1>5 DEF RemoveFailed
  <2>2. Range(idMap'[Root]) = Range(idMap[Root]) \ c.failed
    BY <1>0, <2>1, ReducedTable
  <2>3. QED
    BY <2>2
<1>6. ASSUME NEW n \in Proc, Start(n)
      PROVE  FALSE
  BY <1>0, <1>1, <1>6 DEF Start
<1>7. QED
  BY <1>0, <1>1, <1>2, <1>3, <1>4, <1>5, <1>6
     DEF Next, Work, Discover, Handle, Ask, Serve, TakeAnswer, Answer, Push,
         ChainPushFails, vars

(***************************************************************************)
(* What the root knows it tells everybody it knows: what is on its way and *)
(* not lost arrives, and what it is going to push it pushes.               *)
(***************************************************************************)
LEMMA TellsStep ==
  ASSUME PeerInv, TellInv, [Next]_vars, NobodyHasEnded'
  PROVE  RootTells'
<1>0. /\ TypeOK /\ NobodyHasEnded /\ name' = name /\ RootTells
      /\ Root \in Proc /\ missed \subseteq missed'
      /\ \A c \in calls : c \in Calls /\ c.node \in Proc
      /\ \A p \in Proc : Host[p] = p
  BY QuietStep, MissedStep, PartsType, SettingType DEF PeerInv
<1>1. CASE ~(Range(idMap'[Root]) \subseteq Range(idMap[Root]))
  BY <1>1, GrowthIsPushed DEF RootTells, ToBeTold
<1>2. CASE Range(idMap'[Root]) \subseteq Range(idMap[Root])
  <2> SUFFICES ASSUME NEW n \in Proc, NEW p \in Proc, Knows(Root, n), Knows(Root, p),
                      n # p, Alone(n), Alone(p), Reached(n, p)', ~Knows(n, p)'
               PROVE  ToBeTold(n, p)'
    BY <1>0, <1>2 DEF RootTells, Alone, Knows
  <2>1. /\ <<n, p>> \notin missed' /\ <<Root, n>> \notin missed'
        /\ <<n, p>> \notin missed /\ Reached(n, p)
    BY <1>0 DEF Reached
  <2>2. ~Knows(n, p)
    <3>1. status'[n] # "down" /\ ~(status[p] = "down")
      BY <1>0 DEF NobodyHasEnded
    <3>2. QED
      BY <2>1, <3>1, AloneStays DEF Knows
  <2>3. ASSUME NEW m \in net, m.kind = "push", m.to = n,
               NEW a \in Range(m.entries), Host[a] = p
        PROVE  ToBeTold(n, p)'
    <3>1. ASSUME HandlePush(m)
          PROVE  FALSE
      <4> DEFINE ids == {i \in DOMAIN m.entries : Addable(n, m.entries[i])}
                 new == [i \in ids |-> m.entries[i]]
      <4>1. PICK i \in DOMAIN m.entries : m.entries[i] = a
        BY DEF Range
      <4>2. peers'[n] = peers[n] \cup Range(new)
        BY <1>0, <2>3, <3>1 DEF HandlePush, TypeOK
      <4>3. a # n
        BY <1>0, <2>3
      <4>4. a \in peers[n] \/ i \in ids
        BY <4>1, <4>3 DEF Addable
      <4>5. i \in ids => a \in Range(new)
        BY <4>1 DEF Range
      <4>6. a \in peers'[n]
        BY <4>2, <4>4, <4>5
      <4>7. \E b \in Range(idMap'[n]) : Host[b] = Host[a]
        <5>1. Alone(Host[a]) /\ <<n, Host[a]>> \notin missed'
          BY <2>1, <2>3
        <5> HIDE DEF new, ids
        <5>2. QED
          BY <4>6, <5>1, AloneIsEntered
      <4>8. QED
        BY <2>3, <4>7 DEF Knows
    <3>2. ~HandleAsk(m)
      BY <2>3 DEF HandleAsk
    <3>3. m \in net'
      BY <2>3, <3>1, <3>2, MessageStays
    <3>4. QED
      BY <2>3, <3>3 DEF ToBeTold
  <2>4. ASSUME NEW c \in calls, c.node = Root, c.pc \in {"answer", "push"}
        PROVE  ToBeTold(n, p)'
    <3>1. CASE c \in calls'
      BY <2>4, <3>1 DEF ToBeTold
    <3>2. CASE Answer(c)
      <4> DEFINE d == [c EXCEPT !.pc = "push"]
      <4>1. d \in calls' /\ d.node = Root /\ d.pc = "push"
        BY <1>0, <2>4, <3>2 DEF Answer, Answered, Calls
      <4> HIDE DEF d
      <4>2. QED
        BY <4>1 DEF ToBeTold
    <3>3. CASE Push(c)
      <4>1. PICK b \in Range(idMap[Root]) : Host[b] = n
        BY DEF Knows
      <4>2. \E m \in net' : m.kind = "push" /\ m.to = n /\ m.entries = idMap[Root]
        BY <2>1, <2>4, <3>3, <4>1, QuietPush
      <4>3. QED
        BY <4>2 DEF ToBeTold, Knows
    <3>4. ~Discover(c) /\ ~RemoveFailed(c)
      BY <1>0, <2>4
         DEF Discover, Ask, Serve, TakeAnswer, AddEntry, RemoveFailed
    <3>5. QED
      BY <3>1, <3>2, <3>3, <3>4, CallStays
  <2>5. QED
    BY <1>0, <2>1, <2>2, <2>3, <2>4 DEF RootTells, ToBeTold
<1>3. QED
  BY <1>1, <1>2

(***************************************************************************)
(* As long as nobody crashes or gives up, of any two processes with ids of *)
(* their own each knows the other, or a request or push that will see to   *)
(* it is under way, or a push between the two and the root went wrong:     *)
(* failed or was lost.                                                     *)
(***************************************************************************)
THEOREM NobodyIsEverForgotten == Spec => []NobodyIsForgotten
<1>1. Init => TellInv
  <2> SUFFICES ASSUME Init PROVE TellInv
    OBVIOUS
  <2>1. AsksGoToRoot /\ \A n \in Proc \ {Root} : status[n] = "new"
    BY DEF Init, AsksGoToRoot
  <2>2. \A p : ~Knows(Root, p)
    BY EmptyTable, RootAssumption DEF Init, Knows
  <2>3. QED
    BY <2>1, <2>2 DEF TellInv, RootHears, RootIsKnown, RootTells
<1>2. PeerInv /\ TellInv /\ [Next]_vars => TellInv'
  <2> SUFFICES ASSUME PeerInv, TellInv, [Next]_vars PROVE TellInv'
    OBVIOUS
  <2>1. AsksGoToRoot'
    BY AsksStep DEF PeerInv, TellInv
  <2>2. NobodyHasEnded' => RootHears' /\ RootIsKnown' /\ RootTells'
    BY HearsStep, KnownStep, TellsStep
  <2>3. QED
    BY <2>1, <2>2 DEF TellInv
<1>3. PeerInv /\ TellInv => NobodyIsForgotten
  <2> SUFFICES ASSUME TellInv, NobodyHasEnded,
                      NEW n \in Proc, NEW p \in Proc, n # p,
                      status[n] # "new", status[p] # "new",
                      Alone(n), Alone(p), Reached(n, p),
                      ~Unheard(n), ~Unheard(p)
               PROVE  Knows(n, p) \/ ToBeTold(n, p)
    BY DEF NobodyIsForgotten
  <2>1. RootHears /\ RootIsKnown /\ RootTells
    BY DEF TellInv
  <2>2. <<Root, n>> \notin missed /\ <<Root, p>> \notin missed /\ <<n, p>> \notin missed
    BY DEF Reached
  <2>3. CASE n = Root
    BY <2>1, <2>2, <2>3 DEF RootHears
  <2>4. CASE p = Root
    BY <2>1, <2>2, <2>4 DEF RootIsKnown
  <2>5. CASE n # Root /\ p # Root
    <3>1. Knows(Root, n) /\ Knows(Root, p)
      BY <2>1, <2>2, <2>5 DEF RootHears
    <3>2. QED
      BY <2>1, <3>1 DEF RootTells
  <2>6. QED
    BY <2>3, <2>4, <2>5
<1>4. QED
  BY <1>1, <1>2, <1>3, PeerInvariant, PTL DEF Spec

(***************************************************************************)
(* Once the pushing of peers has come to rest, all that no push between    *)
(* them missed know each other: of discovery only that it comes to rest    *)
(* depends on fairness.                                                    *)
(***************************************************************************)
THEOREM RestingNodesKnowEachOther == Spec => (PeersRest => EveryoneKnowsEveryone)
<1> DEFINE Rest == NobodyHasEnded => calls = {} /\ net = {}
           Know == NobodyHasEnded => \A n, p \in Proc :
             /\ n # p /\ status[n] = "up" /\ status[p] = "up"
             /\ Alone(n) /\ Alone(p) /\ Reached(n, p)
             => Knows(n, p)
<1>1. NobodyIsForgotten /\ Rest => Know
  BY DEF NobodyIsForgotten, Unheard, ToBeTold
<1>2. PeersRest <=> <>[]Rest
  BY DEF PeersRest
<1>3. EveryoneKnowsEveryone <=> <>[]Know
  BY DEF EveryoneKnowsEveryone
<1> HIDE DEF Rest, Know
<1>4. QED
  BY <1>1, <1>2, <1>3, NobodyIsEverForgotten, PTL
=============================================================================
