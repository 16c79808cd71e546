---------------------------- MODULE ClientProofs ----------------------------
(***************************************************************************)
(* What the clients of contracts find, for chains, books and windows of    *)
(* any size: keepers that poll for events miss none, an enumeration finds  *)
(* what stands all the while, and a published order was sent or tried.     *)
(***************************************************************************)
EXTENDS PastEvents, Auctions, Oasis, OffChain, Arithmetic, FiniteSetTheorems, TLAPS

-----------------------------------------------------------------------------
(* Events of the last blocks. *)

(* The blocks that a call in progress is about to read. *)
Asked == IF past.state = "asked" THEN past.from .. past.to ELSE {}

Events(b) == {e \in ToSet(blocks[b]) : e.event = source.event}

Event == [event : UNION ContractEvents, number : Nat]

PastEventsTypeOK ==
    /\ source \in Sources
    /\ blocks \in Seq(Seq(Event)) /\ logged \in Nat
    /\ past \in [state : {"idle", "asked"}, from : Nat, to : Nat]
    /\ polls \in [begin : Nat, covered : Nat, inTime : BOOLEAN, seen : SUBSET Event]

(* Below the block that the last call saw as current everything was read,  *)
(* or is about to be; these blocks are no longer the head.                 *)
PollsInv ==
    /\ PastEventsTypeOK
    /\ polls.covered <= Len(blocks)
    /\ polls.inTime =>
           \A b \in polls.begin .. polls.covered - 1 :
               b \in DOMAIN blocks => b \in Asked \/ Events(b) \subseteq polls.seen

LEMMA MaxOfTwo ==
    ASSUME NEW a \in Int, NEW b \in Int
    PROVE  Max({a, b}) = IF a >= b THEN a ELSE b
<1>1. PICK m \in {a, b} : m = IF a >= b THEN a ELSE b
  OBVIOUS
<1>2. \A y \in {a, b} : m >= y
  BY <1>1
<1>3. Max({a, b}) \in {a, b} /\ \A y \in {a, b} : Max({a, b}) >= y
  BY <1>2 DEF Max
<1> QED
  BY <1>1, <1>2, <1>3

LEMMA NewBlockType ==
    ASSUME source \in Sources, logged \in Nat
    PROVE  \A b \in NewBlocks : b \in Seq(Event)
<1>1. PICK events \in ContractEvents :
          source \in {[events |-> events, event |-> e] : e \in events}
  BY DEF Sources
<1>2. source.events \subseteq UNION ContractEvents
  BY <1>1
<1> SUFFICES ASSUME NEW b \in NewBlocks PROVE b \in Seq(Event)
  OBVIOUS
<1>3. CASE b = <<>>
  BY <1>3
<1>4. CASE b # <<>>
  <2>1. PICK e \in source.events : b = <<[event |-> e, number |-> logged + 1]>>
    BY <1>4 DEF NewBlocks
  <2>2. [event |-> e, number |-> logged + 1] \in Event
    BY <1>2 DEF Event
  <2> QED BY <2>1, <2>2
<1> QED
  BY <1>3, <1>4

LEMMA EventsKept ==
    ASSUME NEW b, blocks'[b] = blocks[b], source' = source
    PROVE  Events(b)' = Events(b)
  BY DEF Events

(* The first block of a window, and what it leaves below.                  *)
LEMMA WindowStart ==
    ASSUME NEW n \in Nat
    PROVE  FromBlock(n) \in Nat /\ FromBlock(n) <= n /\ FromBlock(n) \in {0, n - Window}
  BY MaxOfTwo, PastEventsAssumption DEF FromBlock

(* Entries, block by block. *)
LEMMA EntriesByBlock ==
    ASSUME NEW from \in Int, NEW to \in Int, NEW e
    PROVE  e \in Entries(from, to) <=>
               \E b \in from .. to : b \in DOMAIN blocks /\ e \in Events(b)
  BY DEF Entries, Events

(* Growing and replacing the head leave the blocks below it alone. *)
LEMMA BelowTheHead ==
    ASSUME PollsInv, blocks' \in Seq(Seq(Event)), logged' \in Nat,
           UNCHANGED <<source, past, polls>>, Len(blocks') >= Len(blocks),
           \A c \in 1 .. Len(blocks) - 1 : blocks'[c] = blocks[c]
    PROVE  PollsInv'
<1>1. PastEventsTypeOK' /\ (polls.covered <= Len(blocks))' /\ Asked' = Asked
  BY DEF PollsInv, PastEventsTypeOK, Asked
<1>2. ASSUME polls.inTime, NEW b \in polls.begin .. polls.covered - 1, b \in DOMAIN blocks'
      PROVE  b \in Asked \/ Events(b)' \subseteq polls.seen
  <2>1. b \in 1 .. Len(blocks) - 1 /\ b \in DOMAIN blocks
    <3>0. b \in polls.begin .. polls.covered - 1
      BY <1>2
    <3>1. blocks' \in Seq(Seq(Event)) /\ blocks \in Seq(Seq(Event)) /\ polls.begin \in Nat
          /\ polls.covered \in Nat /\ polls.covered <= Len(blocks)
      BY DEF PollsInv, PastEventsTypeOK
    <3>2. b \in Int /\ b < polls.covered
      BY ONLY <3>0, <3>1
    <3>3. b \in 1 .. Len(blocks')
      BY <1>2, <3>1
    <3>4. Len(blocks) \in Nat /\ DOMAIN blocks = 1 .. Len(blocks)
          /\ Len(blocks') \in Nat
      BY <3>1
    <3>5. b >= 1 /\ b <= Len(blocks) - 1
      BY <3>1, <3>2, <3>3, <3>4
    <3> QED BY <3>2, <3>4, <3>5
  <2>2. Events(b)' = Events(b)
    BY <2>1, EventsKept
  <2> QED BY <1>2, <2>1, <2>2 DEF PollsInv
<1> QED
  BY <1>1, <1>2 DEF PollsInv

LEMMA PollsStep ==
    ASSUME PollsInv, [PastEventsNext]_pastEventsVars
    PROVE  PollsInv'
<1>0. /\ PastEventsTypeOK
      /\ source \in Sources /\ blocks \in Seq(Seq(Event)) /\ logged \in Nat
      /\ polls \in [begin : Nat, covered : Nat, inTime : BOOLEAN, seen : SUBSET Event]
      /\ polls.covered <= Len(blocks)
      /\ Window \in Nat
  BY PastEventsAssumption DEF PollsInv, PastEventsTypeOK
<1>1. CASE PastBlockMined
  <2>1. PICK b \in NewBlocks : blocks' = Append(blocks, b) /\ logged' = logged + Len(b)
    BY <1>1 DEF PastBlockMined
  <2>2. b \in Seq(Event) /\ UNCHANGED <<source, past, polls>>
    BY <1>0, <1>1, NewBlockType DEF PastBlockMined
  <2>3. /\ blocks' \in Seq(Seq(Event)) /\ logged' \in Nat /\ Len(blocks') = Len(blocks) + 1
        /\ \A c \in 1 .. Len(blocks) - 1 : blocks'[c] = blocks[c]
    BY <1>0, <2>1, <2>2
  <2> QED BY <1>0, <2>2, <2>3, BelowTheHead
<1>2. CASE PastHeadReplaced
  <2>1. PICK b \in NewBlocks : blocks' = [blocks EXCEPT ![Len(blocks)] = b]
                               /\ logged' = logged + Len(b)
    BY <1>2 DEF PastHeadReplaced
  <2>2. b \in Seq(Event) /\ UNCHANGED <<source, past, polls>> /\ blocks # <<>>
    BY <1>0, <1>2, NewBlockType DEF PastHeadReplaced
  <2>3. /\ blocks' \in Seq(Seq(Event)) /\ logged' \in Nat /\ Len(blocks') = Len(blocks)
        /\ \A c \in 1 .. Len(blocks) - 1 : blocks'[c] = blocks[c]
    BY <1>0, <2>1, <2>2
  <2> QED BY <1>0, <2>2, <2>3, BelowTheHead
<1>3. CASE AskBlockNumber
  <2> DEFINE n == Len(blocks)
             from == FromBlock(n)
  <2>1. /\ n \in Nat /\ from \in Nat /\ from <= n /\ from \in {0, n - Window}
        /\ polls.covered <= n
    BY <1>0, WindowStart
  <2>2. /\ past' = [state |-> "asked", from |-> from, to |-> n]
        /\ polls' = [polls EXCEPT
               !.begin = IF polls.covered = 0 THEN from ELSE @,
               !.inTime = @ /\ (polls.covered = 0 \/ n - polls.covered <= Window),
               !.covered = n]
        /\ past.state = "idle" /\ UNCHANGED <<source, blocks, logged>>
    BY <1>3 DEF AskBlockNumber
  <2> HIDE DEF n, from
  <2>3. /\ past' \in [state : {"idle", "asked"}, from : Nat, to : Nat]
        /\ polls' \in [begin : Nat, covered : Nat, inTime : BOOLEAN, seen : SUBSET Event]
        /\ polls'.covered = n /\ polls'.seen = polls.seen
        /\ polls'.begin = IF polls.covered = 0 THEN from ELSE polls.begin
        /\ polls'.inTime => polls.inTime /\ (polls.covered = 0 \/ n - polls.covered <= Window)
    BY <1>0, <2>1, <2>2
  <2>4. Asked' = from .. n /\ Asked = {}
    BY <2>2 DEF Asked
  <2>5. ASSUME polls'.inTime, NEW b \in polls'.begin .. n - 1, b \in DOMAIN blocks
        PROVE  b \in from .. n \/ Events(b) \subseteq polls.seen
    <3>1. b \in Int /\ polls'.begin <= b /\ b <= n - 1
      BY <2>1, <2>3
    <3>2. CASE polls.covered = 0
      BY <2>1, <2>3, <3>1, <3>2
    <3>3. CASE polls.covered # 0 /\ b >= polls.covered
      <4>1. n - polls.covered <= Window
        BY <2>3, <2>5, <3>3
      <4>2. n - Window <= polls.covered
        BY <1>0, <2>1, <4>1
      <4> QED BY <1>0, <2>1, <3>1, <3>3, <4>2
    <3>4. CASE polls.covered # 0 /\ b < polls.covered
      <4>1. b \in polls.begin .. polls.covered - 1
        BY <1>0, <2>3, <3>1, <3>4
      <4> QED BY <2>3, <2>4, <2>5, <4>1 DEF PollsInv
    <3> QED BY <1>0, <3>1, <3>2, <3>3, <3>4
  <2>6. \A b : Events(b)' = Events(b)
    BY <2>2, EventsKept
  <2>7. PastEventsTypeOK'
    BY <1>0, <2>2, <2>3 DEF PastEventsTypeOK
  <2>8. polls'.covered <= Len(blocks')
    BY <2>1, <2>2, <2>3 DEF n
  <2> QED BY <2>2, <2>3, <2>4, <2>5, <2>6, <2>7, <2>8 DEF PollsInv
<1>4. CASE PastEtchInRange
  <2>1. /\ past' \in [state : {"asked"}, from : Nat, to : Nat] /\ past.state = "idle"
        /\ UNCHANGED <<source, blocks, logged, polls>>
    BY <1>4, PastEventsAssumption DEF PastEtchInRange
  <2>2. Asked = {} /\ \A b : Events(b)' = Events(b)
    BY <2>1, EventsKept DEF Asked
  <2> QED BY <1>0, <2>1, <2>2 DEF PollsInv, PastEventsTypeOK
<1>5. CASE GetAllEntries
  <2>1. /\ past.state = "asked" /\ past' = NoPast
        /\ polls' = [polls EXCEPT !.seen = @ \cup Entries(past.from, past.to)]
        /\ UNCHANGED <<source, blocks, logged>>
    BY <1>5 DEF GetAllEntries
  <2>2. past.from \in Int /\ past.to \in Int
    BY <1>0 DEF PastEventsTypeOK
  <2>3. Entries(past.from, past.to) \subseteq Event
    <3> SUFFICES ASSUME NEW e \in Entries(past.from, past.to) PROVE e \in Event
      OBVIOUS
    <3>1. PICK b \in DOMAIN blocks : e \in Events(b)
      BY <2>2, EntriesByBlock
    <3> QED BY <1>0, <3>1 DEF Events, ToSet
  <2>4. /\ polls' \in [begin : Nat, covered : Nat, inTime : BOOLEAN, seen : SUBSET Event]
        /\ polls'.seen = polls.seen \cup Entries(past.from, past.to)
        /\ polls'.begin = polls.begin /\ polls'.covered = polls.covered
        /\ polls'.inTime = polls.inTime
    BY <1>0, <2>1, <2>3
  <2>5. \A b \in DOMAIN blocks : b \in Asked => Events(b) \subseteq polls'.seen
    BY <2>1, <2>2, <2>4, EntriesByBlock DEF Asked
  <2>6. \A b : Events(b)' = Events(b)
    BY <2>1, EventsKept
  <2>7. PastEventsTypeOK'
    BY <1>0, <2>1, <2>4 DEF PastEventsTypeOK, NoPast
  <2> QED BY <1>0, <2>1, <2>4, <2>5, <2>6, <2>7 DEF PollsInv
<1>6. CASE UNCHANGED pastEventsVars
  <2>1. Asked' = Asked /\ \A b : Events(b)' = Events(b)
    BY <1>6, EventsKept DEF pastEventsVars, Asked
  <2> QED BY <1>6, <2>1 DEF pastEventsVars, PollsInv, PastEventsTypeOK
<1> QED
  BY <1>1, <1>2, <1>3, <1>4, <1>5, <1>6 DEF PastEventsNext

(* A keeper that looks back at least as many blocks as there are new ones  *)
(* misses no event, for any window and any chain, though heads are replaced *)
(* and blocks are mined while it asks.                                     *)
THEOREM PollsAreComplete == PastEventsSpec => []PollsMissNothing
<1>1. PastEventsInit => PollsInv
  BY DEF PastEventsInit, PollsInv, PastEventsTypeOK, NoPast
<1>2. PollsInv => PollsMissNothing
  <2> SUFFICES ASSUME PollsInv, past.state = "idle", polls.inTime,
                      NEW e \in Entries(polls.begin, polls.covered - 1)
               PROVE  e \in polls.seen
    BY DEF PollsMissNothing
  <2>1. polls.begin \in Int /\ polls.covered - 1 \in Int
    BY DEF PollsInv, PastEventsTypeOK
  <2> QED BY <2>1, EntriesByBlock DEF PollsInv, Asked
<1> QED
  BY <1>1, <1>2, PollsStep, PTL DEF PastEventsSpec

-----------------------------------------------------------------------------
(* Lists: what putting an element in and taking one out do to it. *)

LEMMA JoinEffect ==
    ASSUME NEW S, NEW a \in Seq(S), NEW b \in Seq(S), NEW t, t = a \o b
    PROVE  /\ t \in Seq(S) /\ Len(t) = Len(a) + Len(b)
           /\ \A k \in 1 .. Len(a) : t[k] = a[k]
           /\ \A k \in 1 .. Len(b) : t[k + Len(a)] = b[k]
<1>1. t \in Seq(S) /\ Len(t) = Len(a) + Len(b)
  OBVIOUS
<1>2. \A k \in 1 .. Len(a) : t[k] = a[k]
  OBVIOUS
<1>3. \A k \in 1 .. Len(b) : t[k + Len(a)] = b[k]
  OBVIOUS
<1> QED
  BY <1>1, <1>2, <1>3

LEMMA PartEffect ==
    ASSUME NEW S, NEW s \in Seq(S), NEW p \in 1 .. Len(s), NEW q \in p - 1 .. Len(s),
           NEW t, t = SubSeq(s, p, q)
    PROVE  /\ t \in Seq(S) /\ Len(t) = q - p + 1
           /\ \A k \in 1 .. q - p + 1 : t[k] = s[k + p - 1]
  OBVIOUS

LEMMA InsertEffect ==
    ASSUME NEW S, NEW s \in Seq(S), NEW p \in 1 .. Len(s) + 1, NEW e \in S,
           NEW t, t = InsertAt(s, p, e)
    PROVE  /\ t \in Seq(S) /\ Len(t) = Len(s) + 1 /\ t[p] = e
           /\ \A k \in 1 .. p - 1 : t[k] = s[k]
           /\ \A k \in p .. Len(s) : t[k + 1] = s[k]
<1>1. PICK a : a = SubSeq(s, 1, p - 1)
  OBVIOUS
<1>2. PICK b : b = SubSeq(s, p, Len(s))
  OBVIOUS
<1>3. PICK c : c = a \o <<e>>
  OBVIOUS
<1>4. t = c \o b
  BY <1>1, <1>2, <1>3 DEF InsertAt
<1>5. p \in Nat /\ Len(s) \in Nat
  OBVIOUS
<1>6. a \in Seq(S) /\ Len(a) = p - 1 /\ \A k \in 1 .. p - 1 : a[k] = s[k]
  BY <1>1
<1>7. b \in Seq(S) /\ Len(b) = Len(s) - p + 1 /\ \A k \in 1 .. Len(b) : b[k] = s[k + p - 1]
  BY <1>2
<1>8. c \in Seq(S) /\ Len(c) = p /\ c[p] = e /\ \A k \in 1 .. p - 1 : c[k] = s[k]
  BY <1>3, <1>6
<1>9. /\ t \in Seq(S) /\ Len(t) = Len(c) + Len(b)
      /\ \A k \in 1 .. Len(c) : t[k] = c[k]
      /\ \A k \in 1 .. Len(b) : t[k + Len(c)] = b[k]
  <2>1. c \in Seq(S) /\ b \in Seq(S)
    BY <1>7, <1>8
  <2>2. t = c \o b
    BY <1>4
  <2> QED BY <2>1, <2>2, JoinEffect
<1>10. ASSUME NEW k \in p .. Len(s) PROVE t[k + 1] = s[k]
  <2>1. k - p + 1 \in 1 .. Len(b)
    BY <1>5, <1>7
  <2>2. t[(k - p + 1) + p] = b[k - p + 1]
    BY <1>8, <1>9, <2>1
  <2>3. b[k - p + 1] = s[(k - p + 1) + p - 1]
    BY <1>7, <2>1
  <2> QED BY <1>5, <2>2, <2>3
<1>11. t \in Seq(S) /\ Len(t) = Len(s) + 1
  BY <1>5, <1>7, <1>8, <1>9
<1>12. t[p] = e /\ \A k \in 1 .. p - 1 : t[k] = s[k]
  BY <1>5, <1>8, <1>9
<1> QED
  BY <1>10, <1>11, <1>12

LEMMA RemoveEffect ==
    ASSUME NEW S, NEW s \in Seq(S), NEW p \in 1 .. Len(s), NEW t, t = RemoveAt(s, p)
    PROVE  /\ t \in Seq(S) /\ Len(t) = Len(s) - 1
           /\ \A k \in 1 .. p - 1 : t[k] = s[k]
           /\ \A k \in p .. Len(s) - 1 : t[k] = s[k + 1]
<1>1. PICK a : a = SubSeq(s, 1, p - 1)
  OBVIOUS
<1>2. PICK b : b = SubSeq(s, p + 1, Len(s))
  OBVIOUS
<1>3. t = a \o b
  BY <1>1, <1>2 DEF RemoveAt
<1>5. p \in Nat /\ Len(s) \in Nat
  OBVIOUS
<1>6. a \in Seq(S) /\ Len(a) = p - 1 /\ \A k \in 1 .. p - 1 : a[k] = s[k]
  BY <1>1
<1>7. b \in Seq(S) /\ Len(b) = Len(s) - p /\ \A k \in 1 .. Len(b) : b[k] = s[k + p]
  BY <1>2
<1>8. /\ t \in Seq(S) /\ Len(t) = Len(a) + Len(b)
      /\ \A k \in 1 .. Len(a) : t[k] = a[k]
      /\ \A k \in 1 .. Len(b) : t[k + Len(a)] = b[k]
  <2>1. a \in Seq(S) /\ b \in Seq(S)
    BY <1>6, <1>7
  <2>2. t = a \o b
    BY <1>3
  <2> QED BY <2>1, <2>2, JoinEffect
<1>9. ASSUME NEW k \in p .. Len(s) - 1 PROVE t[k] = s[k + 1]
  <2>1. k - p + 1 \in 1 .. Len(b)
    BY <1>5, <1>7
  <2>2. t[(k - p + 1) + (p - 1)] = b[k - p + 1]
    BY <1>6, <1>8, <2>1
  <2>3. b[k - p + 1] = s[(k - p + 1) + p]
    BY <1>7, <2>1
  <2> QED BY <1>5, <2>2, <2>3
<1> QED
  BY <1>5, <1>6, <1>7, <1>8, <1>9

-----------------------------------------------------------------------------

(* A list s of m elements, and t with e put in at p or without the one at p. *)
IsInserted(s, t, p, e, m) ==
    t[p] = e /\ (\A k \in 1 .. p - 1 : t[k] = s[k]) /\ \A k \in p .. m : t[k + 1] = s[k]

IsRemoved(s, t, p, e, m) ==
    s[p] = e /\ (\A k \in 1 .. p - 1 : t[k] = s[k]) /\ \A k \in p .. m - 1 : t[k] = s[k + 1]

ListsIds(b, m, n) == \A k \in 1 .. m : b[k] \in 1 .. n

(* The pointers of n orders, of which only that of e may change. *)
PointersKept(st, tt, e, n) == \A i \in 1 .. n : st[i] \in 0 .. n /\ (i # e => tt[i] = st[i])

(* The pointer of e leads to place p. *)
LeadsTo(r, tt, e, p, n) == tt[e] \in 0 .. n /\ r[tt[e]] = p

IsRank(r, b, st, m, n) ==
    /\ r \in [0 .. n -> 1 .. m + 1]
    /\ r[0] = m + 1
    /\ \A k \in 1 .. m : r[b[k]] = k
    /\ \A i \in 1 .. n : (\E k \in 1 .. m : b[k] = i) \/ r[i] = r[st[i]]

(* Ranks after an element is put in at p.                                  *)
LEMMA RaisedRank ==
    ASSUME NEW m \in Nat, NEW n \in Nat, NEW p \in 1 .. m + 1,
           NEW b, NEW c, NEW st, NEW tt, NEW r, IsRank(r, b, st, m, n),
           ListsIds(b, m, n), IsInserted(b, c, p, n + 1, m), PointersKept(st, tt, 0, n)
    PROVE  \E q : /\ IsRank(q, c, tt, m + 1, n + 1)
                  /\ \A i, j \in 0 .. n : /\ r[i] >= r[j] => q[i] >= q[j]
                                          /\ r[i] > r[j] => q[i] > q[j]
<1> PICK q : q = [i \in 0 .. n + 1 |-> IF i = n + 1 THEN p
                                       ELSE IF r[i] >= p THEN r[i] + 1 ELSE r[i]]
  OBVIOUS
<1>0. /\ \A k \in 1 .. m : b[k] \in 1 .. n
      /\ c[p] = n + 1
      /\ \A k \in 1 .. p - 1 : c[k] = b[k]
      /\ \A k \in p .. m : c[k + 1] = b[k]
      /\ \A i \in 1 .. n : st[i] \in 0 .. n /\ tt[i] = st[i]
  BY DEF ListsIds, IsInserted, PointersKept
<1>1. \A i \in 0 .. n : r[i] \in 1 .. m + 1
  BY DEF IsRank
<1>2. \A i \in 0 .. n : q[i] = IF r[i] >= p THEN r[i] + 1 ELSE r[i]
  OBVIOUS
<1>3. q[n + 1] = p
  OBVIOUS
<1>4. q \in [0 .. n + 1 -> 1 .. (m + 1) + 1]
  <2>1. \A i \in 0 .. n + 1 : (IF i = n + 1 THEN p ELSE IF r[i] >= p THEN r[i] + 1 ELSE r[i])
                                  \in 1 .. (m + 1) + 1
    BY <1>1
  <2> QED BY <2>1
<1>5. q[0] = (m + 1) + 1
  <2>1. r[0] = m + 1 /\ 0 \in 0 .. n
    BY DEF IsRank
  <2> QED BY <1>2, <2>1
<1>6. ASSUME NEW k \in 1 .. m + 1 PROVE q[c[k]] = k
  <2>1. CASE k < p
    <3>1. k \in 1 .. p - 1 /\ k \in 1 .. m
      BY <2>1
    <3>2. c[k] = b[k] /\ r[b[k]] = k /\ b[k] \in 0 .. n
      BY <1>0, <3>1 DEF IsRank
    <3> QED BY <1>2, <2>1, <3>2
  <2>2. CASE k = p
    BY <1>0, <1>3, <2>2
  <2>3. CASE k > p
    <3>1. k - 1 \in p .. m /\ k - 1 \in 1 .. m /\ (k - 1) + 1 = k
      BY <2>3
    <3>2. c[k] = b[k - 1] /\ r[b[k - 1]] = k - 1 /\ b[k - 1] \in 0 .. n
      BY <1>0, <3>1 DEF IsRank
    <3> QED BY <1>2, <2>3, <3>2
  <2> QED BY <2>1, <2>2, <2>3
<1>7. ASSUME NEW i \in 1 .. n + 1, ~ \E k \in 1 .. m + 1 : c[k] = i
      PROVE  q[i] = q[tt[i]]
  <2>1. i # n + 1
    BY <1>0, <1>7
  <2>2. ASSUME NEW k \in 1 .. m, b[k] = i PROVE FALSE
    <3>1. CASE k < p
      <4>1. k \in 1 .. p - 1 /\ k \in 1 .. m + 1
        BY <3>1
      <4> QED BY <1>0, <1>7, <2>2, <4>1
    <3>2. CASE k >= p
      <4>1. k \in p .. m /\ k + 1 \in 1 .. m + 1
        BY <3>2
      <4> QED BY <1>0, <1>7, <2>2, <4>1
    <3> QED BY <3>1, <3>2
  <2>3. i \in 1 .. n
    BY <2>1
  <2>4. r[i] = r[st[i]] /\ st[i] \in 0 .. n /\ tt[i] = st[i]
    BY <1>0, <2>2, <2>3 DEF IsRank
  <2> QED BY <1>2, <2>3, <2>4
<1>8. \A i, j \in 0 .. n : r[i] >= r[j] => q[i] >= q[j]
  BY <1>1, <1>2
<1>9. \A i, j \in 0 .. n : r[i] > r[j] => q[i] > q[j]
  BY <1>1, <1>2
<1>10. IsRank(q, c, tt, m + 1, n + 1)
  BY <1>4, <1>5, <1>6, <1>7 DEF IsRank
<1> QED
  BY <1>8, <1>9, <1>10

(* Ranks after the element at p is taken out.                              *)
LEMMA LoweredRank ==
    ASSUME NEW m \in Nat, NEW n \in Nat, NEW p \in 1 .. m, NEW e \in 1 .. n,
           NEW b, NEW c, NEW st, NEW tt, NEW r, IsRank(r, b, st, m, n),
           ListsIds(b, m, n), IsRemoved(b, c, p, e, m), PointersKept(st, tt, e, n),
           LeadsTo(r, tt, e, p + 1, n)
    PROVE  \E q : /\ IsRank(q, c, tt, m - 1, n)
                  /\ \A i, j \in 0 .. n : r[i] >= r[j] => q[i] >= q[j]
<1> PICK q : q = [i \in 0 .. n |-> IF r[i] > p THEN r[i] - 1 ELSE r[i]]
  OBVIOUS
<1>0. /\ \A k \in 1 .. m : b[k] \in 1 .. n
      /\ \A k \in 1 .. p - 1 : c[k] = b[k]
      /\ \A k \in p .. m - 1 : c[k] = b[k + 1]
      /\ \A i \in 1 .. n : st[i] \in 0 .. n /\ (i # e => tt[i] = st[i])
      /\ b[p] = e /\ tt[e] \in 0 .. n /\ r[tt[e]] = p + 1
  BY DEF ListsIds, IsRemoved, PointersKept, LeadsTo
<1>1. \A i \in 0 .. n : r[i] \in 1 .. m + 1
  BY DEF IsRank
<1>2. \A i \in 0 .. n : q[i] = IF r[i] > p THEN r[i] - 1 ELSE r[i]
  OBVIOUS
<1>4. q \in [0 .. n -> 1 .. (m - 1) + 1]
  <2>1. \A i \in 0 .. n : (IF r[i] > p THEN r[i] - 1 ELSE r[i]) \in 1 .. (m - 1) + 1
    BY <1>1
  <2> QED BY <2>1
<1>5. q[0] = (m - 1) + 1
  <2>1. r[0] = m + 1 /\ 0 \in 0 .. n
    BY DEF IsRank
  <2> QED BY <1>2, <2>1
<1>6. ASSUME NEW k \in 1 .. m - 1 PROVE q[c[k]] = k
  <2>1. CASE k < p
    <3>1. k \in 1 .. p - 1 /\ k \in 1 .. m
      BY <2>1
    <3>2. c[k] = b[k] /\ r[b[k]] = k /\ b[k] \in 0 .. n
      BY <1>0, <3>1 DEF IsRank
    <3> QED BY <1>2, <2>1, <3>2
  <2>2. CASE k >= p
    <3>1. k \in p .. m - 1 /\ k + 1 \in 1 .. m
      BY <2>2
    <3>2. c[k] = b[k + 1] /\ r[b[k + 1]] = k + 1 /\ b[k + 1] \in 0 .. n
      BY <1>0, <3>1 DEF IsRank
    <3> QED BY <1>2, <2>2, <3>2
  <2> QED BY <2>1, <2>2
<1>7. ASSUME NEW i \in 1 .. n, ~ \E k \in 1 .. m - 1 : c[k] = i
      PROVE  q[i] = q[tt[i]]
  <2>1. CASE i = e
    <3>1. r[e] = p
      BY <1>0 DEF IsRank
    <3>2. q[e] = p /\ q[tt[e]] = p
      BY <1>0, <1>2, <3>1
    <3> QED BY <2>1, <3>2
  <2>2. CASE i # e
    <3>1. ASSUME NEW k \in 1 .. m, b[k] = i PROVE FALSE
      <4>1. CASE k < p
        <5>1. k \in 1 .. p - 1 /\ k \in 1 .. m - 1
          BY <4>1
        <5> QED BY <1>0, <1>7, <3>1, <5>1
      <4>2. CASE k > p
        <5>1. k - 1 \in p .. m - 1 /\ k - 1 \in 1 .. m - 1 /\ (k - 1) + 1 = k
          BY <4>2
        <5> QED BY <1>0, <1>7, <3>1, <5>1
      <4>3. CASE k = p
        BY <1>0, <2>2, <3>1, <4>3
      <4> QED BY <4>1, <4>2, <4>3
    <3>2. r[i] = r[st[i]] /\ st[i] \in 0 .. n /\ tt[i] = st[i]
      BY <1>0, <2>2, <3>1 DEF IsRank
    <3> QED BY <1>2, <3>2
  <2> QED BY <2>1, <2>2
<1>8. \A i, j \in 0 .. n : r[i] >= r[j] => q[i] >= q[j]
  BY <1>1, <1>2
<1>10. IsRank(q, c, tt, m - 1, n)
  BY <1>4, <1>5, <1>6, <1>7 DEF IsRank
<1> QED
  BY <1>8, <1>10

-----------------------------------------------------------------------------

Makers == {o.maker : o \in NewOrders}

Offer == [maker : Makers, pay : Nat \ {0}, buy : Int, timestamp : {0, 1}]

Operations == {"none", "ids", "maker", "walk", "worse", "pages", "next page",
               "done ids", "done maker", "done walk", "done pages"}

ListingOK ==
    listing \in [op : Operations, at : Nat, last : Nat, page : Seq(1 .. Len(offers)),
                 found : SUBSET (1 .. Len(offers)), pay : Nat, buy : Nat, pos : {listing.pos}]

(* The state of a market and of its client.                                *)
OasisTypeOK ==
    /\ market.kind \in {"none", "simple", "matching", "support"}
    /\ offers \in Seq(Offer)
    /\ book \in Seq(1 .. Len(offers))
    /\ stale \in Seq(0 .. Len(offers)) /\ Len(stale) = Len(offers)
    /\ ListingOK
    /\ standing \subseteq Live

Listed == market.kind \in {"matching", "support"}

(* The list of a market that has one holds what is live and nothing else.  *)
BookIsLive ==
    /\ Listed => ToSet(book) = Live
    /\ ~Listed => book = <<>>
    /\ market.kind = "none" => offers = <<>>

(* The place in the book that the pointers lead to from an order: its own, *)
(* or, if it has left, that of the first one still there; past the end     *)
(* there is 0.                                                             *)
Ranked(r) == IsRank(r, book, stale, Len(book), Len(offers))

(* What the enumeration in progress has yet to find.                       *)
Missing == standing \ listing.found

(* What stands and is not yet found is not behind an enumeration. *)
WalkIsAhead(r) ==
    listing.op \in {"walk", "worse"} =>
        /\ Listed /\ listing.at \in 0 .. Len(offers)
        /\ \A s \in Missing : r[s] >= r[listing.at]
        /\ listing.op = "worse" => listing.at # 0 /\ listing.at \notin Missing

PagesAreAhead(r) ==
    /\ listing.op \in {"pages", "next page"} => Listed
    /\ listing.op = "pages" /\ "left" \notin unrest =>
           /\ ToSet(listing.page) \subseteq Live
           /\ \A s \in Missing : \/ s \in ToSet(listing.page)
                                 \/ PageIsFull /\ r[s] > r[listing.page[PAGE]]
    /\ listing.op = "next page" /\ "left" \notin unrest =>
           /\ listing.at \in Live \cup {0}
           /\ \A s \in Missing : r[s] >= r[listing.at]

(* An enumeration by identity has passed only what it found or did not ask *)
(* for.                                                                    *)
ScanIsAhead ==
    listing.op \in {"ids", "maker"} =>
        /\ listing.at # 0 /\ standing \subseteq 1 .. listing.last /\ listing.last <= Len(offers)
        /\ \A s \in Missing : listing.at <= s \/ (listing.op = "maker" /\ offers[s].maker # client)

(* Inductive: what stands unfound is ahead of the enumeration, by identity *)
(* or by rank, whatever leaves or is put in meanwhile.                     *)
OasisInv ==
    /\ OasisTypeOK /\ BookIsLive /\ ScanIsAhead /\ StandingFound
    /\ \E r : Ranked(r) /\ WalkIsAhead(r) /\ PagesAreAhead(r)

(* The place of an order in the book is its rank.                         *)
LEMMA PlaceIsRank ==
    ASSUME OasisTypeOK, NEW r, Ranked(r), NEW i \in ToSet(book)
    PROVE  PlaceOf(i) = r[i] /\ r[i] \in 1 .. Len(book) /\ book[r[i]] = i
<1>1. PICK k \in DOMAIN book : book[k] = i
  BY DEF ToSet
<1>2. PlaceOf(i) \in DOMAIN book /\ book[PlaceOf(i)] = i
  BY <1>1 DEF PlaceOf
<1>3. DOMAIN book = 1 .. Len(book)
  BY DEF OasisTypeOK
<1> QED
  BY <1>2, <1>3 DEF Ranked, IsRank

LEMMA WorseIsNext ==
    ASSUME OasisTypeOK, NEW r, Ranked(r), NEW i \in 0 .. Len(offers)
    PROVE  /\ WorseOffer(i) \in 0 .. Len(offers)
           /\ WorseOffer(i) \in ToSet(book) \cup {0} \/ i \notin ToSet(book)
           /\ r[WorseOffer(i)] = IF i \in ToSet(book) THEN r[i] + 1 ELSE r[i]
<1>0. 0 \notin ToSet(book) /\ Len(book) \in Nat /\ DOMAIN book = 1 .. Len(book)
  BY DEF OasisTypeOK, ToSet
<1>1. CASE i = 0
  BY <1>0, <1>1 DEF WorseOffer
<1>2. CASE i # 0 /\ i \in ToSet(book) /\ r[i] = Len(book)
  BY <1>0, <1>2, PlaceIsRank DEF WorseOffer, Ranked, IsRank
<1>3. CASE i # 0 /\ i \in ToSet(book) /\ r[i] # Len(book)
  <2>1. WorseOffer(i) = book[r[i] + 1] /\ r[i] + 1 \in 1 .. Len(book)
    BY <1>0, <1>3, PlaceIsRank DEF WorseOffer
  <2>2. book[r[i] + 1] \in 1 .. Len(offers) /\ book[r[i] + 1] \in ToSet(book)
    <3>1. book \in Seq(1 .. Len(offers))
      BY DEF OasisTypeOK
    <3>2. book[r[i] + 1] \in 1 .. Len(offers)
      BY <2>1, <3>1
    <3> QED BY <1>0, <2>1, <3>2 DEF ToSet
  <2> QED BY <1>3, <2>1, <2>2 DEF Ranked, IsRank
<1>4. CASE i # 0 /\ i \notin ToSet(book)
  <2>1. WorseOffer(i) = stale[i] /\ i \in 1 .. Len(offers)
    BY <1>4 DEF WorseOffer
  <2>2. stale[i] \in 0 .. Len(offers)
    BY <2>1 DEF OasisTypeOK
  <2>3. r[i] = r[stale[i]]
    BY <1>0, <1>4, <2>1 DEF Ranked, IsRank, ToSet
  <2> QED BY <1>4, <2>1, <2>2, <2>3
<1> QED
  BY <1>1, <1>2, <1>3, <1>4

(* A page p of g elements of a list s of n, or what the list holds, from   *)
(* place a on.                                                             *)
AsksPage(S, s, n, a, g, p) ==
    /\ s \in Seq(S) /\ Len(s) = n /\ n \in Nat /\ a \in Nat /\ a >= 1 /\ a <= n
    /\ g \in Nat /\ g >= 1
    /\ LET rest == SubSeq(s, a, n) IN p = IF Len(rest) <= g THEN rest ELSE SubSeq(rest, 1, g)

GetsPage(S, s, n, a, g, p) ==
    \E m \in Nat : /\ m >= 1 /\ m <= n - a + 1 /\ (m = n - a + 1 \/ m = g)
                   /\ p \in Seq(S) /\ Len(p) = m
                   /\ \A k \in 1 .. m : p[k] = s[k + a - 1]

LEMMA PageEffect ==
    ASSUME NEW S, NEW s, NEW n, NEW a, NEW g, NEW p, AsksPage(S, s, n, a, g, p)
    PROVE  GetsPage(S, s, n, a, g, p)
<1>1. PICK rest : rest = SubSeq(s, a, n)
  OBVIOUS
<1>2. s \in Seq(S) /\ Len(s) = n /\ n \in Nat /\ a \in Nat /\ a >= 1 /\ a <= n /\ g \in Nat /\ g >= 1
  BY DEF AsksPage
<1>3. p = IF Len(rest) <= g THEN rest ELSE SubSeq(rest, 1, g)
  BY <1>1 DEF AsksPage
<1>4. a \in 1 .. Len(s) /\ n \in a - 1 .. Len(s)
  BY ONLY <1>2
<1>5. rest \in Seq(S) /\ Len(rest) = n - a + 1 /\ \A k \in 1 .. n - a + 1 : rest[k] = s[k + a - 1]
  BY ONLY <1>4, <1>2, <1>1, PartEffect
<1>6. PICK l \in Nat : l = n - a + 1 /\ l >= 1
  BY ONLY <1>2
<1>7. rest \in Seq(S) /\ Len(rest) = l /\ \A k \in 1 .. l : rest[k] = s[k + a - 1]
  BY ONLY <1>5, <1>6
<1>8. CASE l <= g
  <2>1. p = rest
    BY ONLY <1>7, <1>8, <1>3
  <2>2. GetsPage(S, s, n, a, g, rest)
    BY ONLY <1>6, <1>7 DEF GetsPage
  <2> QED BY <2>1, <2>2
<1>9. CASE ~(l <= g)
  <2>1. p = SubSeq(rest, 1, g)
    BY ONLY <1>7, <1>9, <1>3
  <2>2. 1 \in 1 .. Len(rest) /\ g \in 1 - 1 .. Len(rest) /\ g \in 1 .. l
    BY ONLY <1>6, <1>7, <1>9, <1>2
  <2>3. rest \in Seq(S)
    BY <1>7
  <2>4. p \in Seq(S) /\ Len(p) = g - 1 + 1 /\ \A k \in 1 .. g - 1 + 1 : p[k] = rest[k + 1 - 1]
    BY ONLY <2>1, <2>2, <2>3, PartEffect
  <2>5. g - 1 + 1 = g /\ \A k \in 1 .. g : k + 1 - 1 = k /\ k \in 1 .. l
    BY ONLY <1>6, <1>9, <1>2
  <2>6. Len(p) = g /\ \A k \in 1 .. g : p[k] = s[k + a - 1]
    BY ONLY <1>7, <2>4, <2>5
  <2>7. g \in Nat /\ g >= 1 /\ g <= n - a + 1
    BY ONLY <1>6, <1>9, <1>2
  <2> QED BY ONLY <2>4, <2>6, <2>7 DEF GetsPage
<1> QED
  BY ONLY <1>8, <1>9

LEMMA PageIsNext ==
    ASSUME OasisTypeOK, NEW r, Ranked(r), NEW i \in ToSet(book), i \in Live
    PROVE  /\ Page(i) \in Seq(1 .. Len(offers)) /\ ToSet(Page(i)) \subseteq ToSet(book)
           /\ \A s \in ToSet(book) : r[s] >= r[i] =>
                  \/ s \in ToSet(Page(i))
                  \/ Len(Page(i)) = PAGE /\ r[s] > r[Page(i)[PAGE]]
<1>1. PICK n \in Nat : n = Len(book) /\ DOMAIN book = 1 .. n
  BY DEF OasisTypeOK
<1>2. \A s \in ToSet(book) : r[s] \in 1 .. n /\ book[r[s]] = s
  BY <1>1, PlaceIsRank
<1>3. PICK a \in Nat : a = r[i] /\ a >= 1 /\ a <= n
  BY <1>1, <1>2
<1>4. PICK p : p = Page(i)
  OBVIOUS
<1>5. PICK m \in Nat : /\ m >= 1 /\ m <= n - a + 1 /\ (m = n - a + 1 \/ m = PAGE)
                       /\ p \in Seq(1 .. Len(offers)) /\ Len(p) = m
                       /\ \A k \in 1 .. m : p[k] = book[k + a - 1]
  <2>1. PICK rest : rest = SubSeq(book, a, n)
    OBVIOUS
  <2>2. p = IF Len(rest) <= PAGE THEN rest ELSE SubSeq(rest, 1, PAGE)
    BY <1>1, <1>3, <1>4, <2>1, PlaceIsRank DEF Page
  <2>3. AsksPage(1 .. Len(offers), book, n, a, PAGE, p)
    BY <1>1, <1>3, <2>1, <2>2, OasisAssumption DEF OasisTypeOK, AsksPage
  <2>4. GetsPage(1 .. Len(offers), book, n, a, PAGE, p)
    BY <2>3, PageEffect
  <2> QED BY ONLY <2>4 DEF GetsPage
<1>6. ASSUME NEW k \in 1 .. m PROVE k + a - 1 \in 1 .. n
  <2>1. a >= 1 /\ m <= n - a + 1
    BY <1>3, <1>5
  <2> QED BY ONLY <2>1, a \in Nat, n \in Nat, m \in Nat, k \in 1 .. m
<1>7. DOMAIN p = 1 .. m
  BY <1>5
<1>8. ToSet(p) \subseteq ToSet(book)
  <2>1. ASSUME NEW k \in 1 .. m PROVE p[k] \in ToSet(book)
    <3>1. p[k] = book[k + a - 1] /\ k + a - 1 \in DOMAIN book
      BY <1>1, <1>5, <1>6
    <3> QED BY <3>1 DEF ToSet
  <2> QED BY <1>7, <2>1 DEF ToSet
<1>9. ASSUME NEW s \in ToSet(book), r[s] >= r[i]
      PROVE  s \in ToSet(p) \/ (Len(p) = PAGE /\ r[s] > r[p[PAGE]])
  <2>1. PICK b \in Nat : b = r[s] /\ b \in 1 .. n /\ book[b] = s /\ b >= a
    BY <1>2, <1>3, <1>9
  <2>2. CASE b - a + 1 <= m
    <3>1. PICK k \in Nat : k = b - a + 1 /\ k \in 1 .. m /\ k + a - 1 = b
      BY ONLY <2>1, <2>2, a \in Nat, b \in Nat, m \in Nat
    <3>2. p[k] = s
      BY <1>5, <2>1, <3>1
    <3> QED BY <1>7, <3>1, <3>2 DEF ToSet
  <2>3. CASE b - a + 1 > m
    <3>1. m = PAGE /\ PAGE + a - 1 < b /\ PAGE \in 1 .. m
      BY ONLY <1>5, <2>1, <2>3, a \in Nat, b \in Nat, m \in Nat, n \in Nat
    <3>2. p[PAGE] = book[PAGE + a - 1] /\ PAGE + a - 1 \in 1 .. n
      BY ONLY <1>5, <1>6, <3>1
    <3>3. r[p[PAGE]] = PAGE + a - 1
      BY <1>1, <3>2 DEF Ranked, IsRank
    <3> QED BY <1>5, <2>1, <3>1, <3>3
  <2> QED BY ONLY <2>2, <2>3, a \in Nat, b \in Nat, m \in Nat
<1> QED
  BY <1>3, <1>4, <1>5, <1>8, <1>9

(* A new order in the book moves those behind it by one place. *)
LEMMA InsertedRank ==
    ASSUME OasisTypeOK, NEW r, Ranked(r), NEW p \in 1 .. Len(book) + 1,
           book' = InsertAt(book, p, Len(offers) + 1), stale' = Append(stale, 0),
           Len(offers') = Len(offers) + 1
    PROVE  /\ book' \in Seq(1 .. Len(offers')) /\ ToSet(book') = ToSet(book) \cup {Len(offers) + 1}
           /\ \E q : /\ Ranked(q)'
                     /\ \A i, j \in 0 .. Len(offers) : /\ r[i] >= r[j] => q[i] >= q[j]
                                                       /\ r[i] > r[j] => q[i] > q[j]
<1>1. PICK n \in Nat : n = Len(offers)
  BY DEF OasisTypeOK
<1>2. PICK m \in Nat : m = Len(book)
  <2>1. book \in Seq(1 .. Len(offers))
    BY DEF OasisTypeOK
  <2> QED BY <2>1
<1>3. book \in Seq(1 .. n) /\ stale \in Seq(0 .. n) /\ Len(stale) = n
  BY <1>1 DEF OasisTypeOK
<1>4. PICK c : c = book'
  OBVIOUS
<1>5. PICK t : t = stale'
  OBVIOUS
<1>6. /\ c \in Seq(1 .. n + 1) /\ Len(c) = m + 1 /\ c[p] = n + 1
      /\ \A k \in 1 .. p - 1 : c[k] = book[k]
      /\ \A k \in p .. m : c[k + 1] = book[k]
  <2>0. PICK S : S = 1 .. n + 1
    OBVIOUS
  <2>9. PICK x : x = n + 1
    OBVIOUS
  <2>1. book \in Seq(S)
    BY <1>3, <2>0
  <2>2. p \in 1 .. Len(book) + 1
    OBVIOUS
  <2>3. x \in S
    BY <2>0, <2>9
  <2>4. c = InsertAt(book, p, x)
    BY <1>1, <1>4, <2>9
  <2>5. /\ c \in Seq(S) /\ Len(c) = Len(book) + 1 /\ c[p] = x
        /\ \A k \in 1 .. p - 1 : c[k] = book[k]
        /\ \A k \in p .. Len(book) : c[k + 1] = book[k]
    BY ONLY <2>1, <2>2, <2>3, <2>4, InsertEffect
  <2> QED BY <1>2, <2>0, <2>5, <2>9
<1>7. \A i \in 1 .. n : stale[i] \in 0 .. n /\ t[i] = stale[i]
  BY <1>3, <1>5
<1>8. \A k \in 1 .. m : book[k] \in 1 .. n
  BY <1>2, <1>3
<1>9. IsRank(r, book, stale, m, n)
  BY <1>1, <1>2 DEF Ranked
<1>10. p \in 1 .. m + 1
  BY <1>2
<1>11. PICK q : /\ IsRank(q, c, t, m + 1, n + 1)
                /\ \A i, j \in 0 .. n : /\ r[i] >= r[j] => q[i] >= q[j]
                                        /\ r[i] > r[j] => q[i] > q[j]
  <2>1. IsInserted(book, c, p, n + 1, m)
    BY <1>6 DEF IsInserted
  <2>2. ListsIds(book, m, n)
    BY <1>8 DEF ListsIds
  <2>3. PointersKept(stale, t, 0, n)
    BY <1>7 DEF PointersKept
  <2>4. m \in Nat
    OBVIOUS
  <2>5. n \in Nat
    OBVIOUS
  <2> QED BY ONLY <1>9, <1>10, <2>1, <2>2, <2>3, <2>4, <2>5, RaisedRank
<1>12. Ranked(q)'
  BY <1>1, <1>4, <1>5, <1>6, <1>11 DEF Ranked
<1>13. ToSet(c) = ToSet(book) \cup {n + 1}
  <2>1. DOMAIN c = 1 .. m + 1 /\ DOMAIN book = 1 .. m
    BY <1>2, <1>3, <1>6
  <2>2. ASSUME NEW k \in 1 .. m + 1 PROVE c[k] \in ToSet(book) \cup {n + 1}
    <3>1. CASE k < p
      <4>1. k \in 1 .. p - 1 /\ k \in 1 .. m
        BY <1>10, <3>1
      <4> QED BY <1>6, <2>1, <4>1 DEF ToSet
    <3>2. CASE k = p
      BY <1>6, <3>2
    <3>3. CASE k > p
      <4>1. k - 1 \in p .. m /\ k - 1 \in 1 .. m /\ (k - 1) + 1 = k
        BY <1>10, <3>3
      <4> QED BY <1>6, <2>1, <4>1 DEF ToSet
    <3> QED BY <1>10, <3>1, <3>2, <3>3
  <2>3. ASSUME NEW k \in 1 .. m PROVE book[k] \in ToSet(c)
    <3>1. CASE k < p
      <4>1. k \in 1 .. p - 1 /\ k \in 1 .. m + 1
        BY <1>10, <3>1
      <4> QED BY <1>6, <2>1, <4>1 DEF ToSet
    <3>2. CASE k >= p
      <4>1. k \in p .. m /\ k + 1 \in 1 .. m + 1
        BY <1>10, <3>2
      <4> QED BY <1>6, <2>1, <4>1 DEF ToSet
    <3> QED BY <1>10, <3>1, <3>2
  <2>4. n + 1 \in ToSet(c)
    BY <1>6, <1>10, <2>1 DEF ToSet
  <2>5. ToSet(c) = {c[k] : k \in 1 .. m + 1} /\ ToSet(book) = {book[k] : k \in 1 .. m}
    BY <2>1 DEF ToSet
  <2>6. ToSet(c) \subseteq ToSet(book) \cup {n + 1}
    BY <2>2, <2>5
  <2>7. ToSet(book) \subseteq ToSet(c)
    BY <2>3, <2>5
  <2> QED BY <2>4, <2>6, <2>7
<1>14. book' \in Seq(1 .. Len(offers'))
  BY <1>1, <1>4, <1>6
<1>15. ToSet(book') = ToSet(book) \cup {Len(offers) + 1}
  BY <1>1, <1>4, <1>13
<1> QED
  BY <1>1, <1>11, <1>12, <1>14, <1>15

(* An order that leaves the book leads to where the next worse one is now. *)
LEMMA RemovedRank ==
    ASSUME OasisTypeOK, NEW r, Ranked(r), NEW e \in ToSet(book),
           book' = RemoveAt(book, PlaceOf(e)), stale' = [stale EXCEPT ![e] = WorseOffer(e)],
           Len(offers') = Len(offers)
    PROVE  /\ book' \in Seq(1 .. Len(offers')) /\ ToSet(book') = ToSet(book) \ {e}
           /\ \E q : /\ Ranked(q)'
                     /\ \A i, j \in 0 .. Len(offers) : r[i] >= r[j] => q[i] >= q[j]
<1>1. PICK n \in Nat : n = Len(offers)
  BY DEF OasisTypeOK
<1>2. PICK m \in Nat : m = Len(book)
  <2>1. book \in Seq(1 .. Len(offers))
    BY DEF OasisTypeOK
  <2> QED BY <2>1
<1>3. book \in Seq(1 .. n) /\ stale \in Seq(0 .. n) /\ Len(stale) = n
  BY <1>1 DEF OasisTypeOK
<1>4. PICK c : c = book'
  OBVIOUS
<1>5. PICK t : t = stale'
  OBVIOUS
<1>6. PICK p : p = PlaceOf(e)
  OBVIOUS
<1>7. p = r[e] /\ p \in 1 .. m /\ book[p] = e
  BY <1>2, <1>6, PlaceIsRank
<1>8. \A k \in 1 .. m : book[k] \in 1 .. n
  BY <1>2, <1>3
<1>9. e \in 1 .. n
  BY <1>7, <1>8
<1>10. /\ c \in Seq(1 .. n) /\ Len(c) = m - 1
       /\ \A k \in 1 .. p - 1 : c[k] = book[k]
       /\ \A k \in p .. m - 1 : c[k] = book[k + 1]
  <2>0. PICK S : S = 1 .. n
    OBVIOUS
  <2>1. book \in Seq(S)
    BY <1>3, <2>0
  <2>2. p \in 1 .. Len(book)
    BY <1>2, <1>7
  <2>3. c = RemoveAt(book, p)
    BY <1>4, <1>6
  <2>4. /\ c \in Seq(S) /\ Len(c) = Len(book) - 1
        /\ \A k \in 1 .. p - 1 : c[k] = book[k]
        /\ \A k \in p .. Len(book) - 1 : c[k] = book[k + 1]
    BY <2>1, <2>2, <2>3, RemoveEffect
  <2> QED BY <1>2, <2>0, <2>4
<1>11. WorseOffer(e) \in 0 .. n /\ r[WorseOffer(e)] = p + 1
  <2>1. e \in 0 .. Len(offers)
    BY <1>1, <1>9
  <2> QED BY <1>1, <1>7, <2>1, WorseIsNext
<1>12. PICK w : w = WorseOffer(e)
  OBVIOUS
<1>13. t = [stale EXCEPT ![e] = w]
  BY <1>5, <1>12
<1>14. t[e] = w /\ \A i \in 1 .. n : stale[i] \in 0 .. n /\ (i # e => t[i] = stale[i])
  BY <1>3, <1>9, <1>13
<1>15. t[e] \in 0 .. n /\ r[t[e]] = p + 1
  BY <1>11, <1>12, <1>14
<1>16. IsRank(r, book, stale, m, n)
  BY <1>1, <1>2 DEF Ranked
<1>17. PICK q : /\ IsRank(q, c, t, m - 1, n)
                /\ \A i, j \in 0 .. n : r[i] >= r[j] => q[i] >= q[j]
  <2>1. IsRemoved(book, c, p, e, m)
    BY <1>7, <1>10 DEF IsRemoved
  <2>2. ListsIds(book, m, n)
    BY <1>8 DEF ListsIds
  <2>3. PointersKept(stale, t, e, n)
    BY <1>14 DEF PointersKept
  <2>4. LeadsTo(r, t, e, p + 1, n)
    BY <1>15 DEF LeadsTo
  <2>5. p \in 1 .. m
    BY <1>7
  <2> QED BY ONLY <1>9, <1>16, <2>1, <2>2, <2>3, <2>4, <2>5, m \in Nat, n \in Nat, LoweredRank
<1>18. Ranked(q)'
  BY <1>1, <1>4, <1>5, <1>10, <1>17 DEF Ranked
<1>19. ToSet(c) = ToSet(book) \ {e}
  <2>1. DOMAIN c = 1 .. m - 1 /\ DOMAIN book = 1 .. m
    BY <1>2, <1>3, <1>10
  <2>2. ToSet(c) = {c[k] : k \in 1 .. m - 1} /\ ToSet(book) = {book[k] : k \in 1 .. m}
    BY <2>1 DEF ToSet
  <2>3. ASSUME NEW k \in 1 .. m - 1 PROVE c[k] \in ToSet(book) /\ c[k] # e
    <3>1. CASE k < p
      <4>1. k \in 1 .. p - 1 /\ k \in 1 .. m
        BY <1>7, <3>1
      <4>2. c[k] = book[k] /\ r[book[k]] = k
        BY <1>10, <1>16, <4>1 DEF IsRank
      <4> QED BY <1>7, <2>2, <3>1, <4>1, <4>2
    <3>2. CASE k >= p
      <4>1. k \in p .. m - 1 /\ k + 1 \in 1 .. m
        BY <1>7, <3>2
      <4>2. c[k] = book[k + 1] /\ r[book[k + 1]] = k + 1
        BY <1>10, <1>16, <4>1 DEF IsRank
      <4>3. k + 1 # p
        BY <1>7, <3>2
      <4> QED BY <1>7, <2>2, <4>1, <4>2, <4>3
    <3> QED BY <1>7, <3>1, <3>2
  <2>4. ASSUME NEW k \in 1 .. m, book[k] # e PROVE book[k] \in ToSet(c)
    <3>1. CASE k < p
      <4>1. k \in 1 .. p - 1 /\ k \in 1 .. m - 1
        BY <1>7, <3>1
      <4> QED BY <1>10, <2>2, <4>1
    <3>2. CASE k > p
      <4>1. k - 1 \in p .. m - 1 /\ k - 1 \in 1 .. m - 1 /\ (k - 1) + 1 = k
        BY <1>7, <3>2
      <4> QED BY <1>10, <2>2, <4>1
    <3>3. CASE k = p
      BY <1>7, <2>4, <3>3
    <3> QED BY <1>7, <3>1, <3>2, <3>3
  <2>5. ToSet(c) \subseteq ToSet(book) \ {e}
    BY <2>2, <2>3
  <2>6. ToSet(book) \ {e} \subseteq ToSet(c)
    BY <2>2, <2>4
  <2> QED BY <2>5, <2>6
<1>20. book' \in Seq(1 .. Len(offers'))
  BY <1>1, <1>4, <1>10
<1>21. ToSet(book') = ToSet(book) \ {e}
  BY <1>4, <1>19
<1> QED
  BY <1>1, <1>17, <1>18, <1>20, <1>21

LEMMA LiveIds ==
    ASSUME OasisTypeOK
    PROVE  Live \subseteq 1 .. Len(offers)
<1>1. offers \in Seq(Offer)
  BY DEF OasisTypeOK
<1> QED
  BY <1>1 DEF Live, Ids

(* A step of an enumeration changes neither the contract nor the history.  *)
LEMMA ListingKeeps ==
    ASSUME OasisTypeOK, BookIsLive, NEW r, Ranked(r),
           UNCHANGED <<market, offers, book, stale>>, standing' \subseteq Live,
           ListingOK', ScanIsAhead', StandingFound', WalkIsAhead(r)', PagesAreAhead(r)'
    PROVE  OasisInv'
<1>1. OasisTypeOK'
  BY DEF OasisTypeOK, Live, Ids
<1>2. BookIsLive'
  BY DEF BookIsLive, Live, Ids, Listed
<1>3. Ranked(r)'
  BY DEF Ranked
<1> QED
  BY <1>1, <1>2, <1>3 DEF OasisInv

(* One identity of getFirstUnsortedOffer or of the list of all orders.     *)
LEMMA ScanKeeps ==
    ASSUME OasisInv, ScanId
    PROVE  OasisInv'
<1>1. PICK r : Ranked(r) /\ WalkIsAhead(r) /\ PagesAreAhead(r)
  BY DEF OasisInv
<1>2. /\ OasisTypeOK /\ BookIsLive /\ ScanIsAhead /\ ListingOK
      /\ UNCHANGED <<market, offers, book, stale, standing, unrest>>
      /\ standing' \subseteq Live /\ standing \subseteq 1 .. Len(offers)
      /\ listing.at \in Nat /\ listing.last \in Nat /\ listing.found \subseteq 1 .. Len(offers)
  <2>1. OasisTypeOK /\ BookIsLive /\ ScanIsAhead /\ ListingOK /\ standing \subseteq Live
    BY DEF OasisInv, OasisTypeOK
  <2>2. UNCHANGED <<market, offers, book, stale, standing, unrest>>
    BY DEF ScanId
  <2>3. listing.at \in Nat /\ listing.last \in Nat /\ listing.found \subseteq 1 .. Len(offers)
    BY <2>1 DEF ListingOK
  <2>4. Live \subseteq 1 .. Len(offers)
    BY <2>1, LiveIds
  <2> QED BY <2>1, <2>2, <2>3, <2>4
<1>3. /\ listing.at # 0 /\ listing.last <= Len(offers) /\ standing \subseteq 1 .. listing.last
      /\ \A s \in standing \ listing.found :
             listing.at <= s \/ (listing.op = "maker" /\ offers[s].maker # client)
  BY <1>2 DEF ScanId, ScanIsAhead, Missing
<1>4. CASE listing.at \in 1 .. listing.last
  <2>1. PICK new : new = {i \in GetOrder(listing.at) : listing.op = "maker" => offers[i].maker = client}
    OBVIOUS
  <2>2. listing' = [listing EXCEPT !.at = @ + 1, !.found = @ \cup new]
    BY <1>4, <2>1 DEF ScanId, ScannedIds
  <2>3. new \subseteq {listing.at} /\ listing.at \in 1 .. Len(offers)
    BY <1>2, <1>3, <1>4, <2>1 DEF GetOrder, OasisTypeOK
  <2>4. ListingOK'
    <3>1. listing.at + 1 \in Nat /\ listing.found \cup new \in SUBSET (1 .. Len(offers))
      BY <1>2, <2>3
    <3>2. PICK a \in Nat : a = listing.at + 1
      BY <3>1
    <3>3. PICK f \in SUBSET (1 .. Len(offers)) : f = listing.found \cup new
      BY <3>1
    <3>4. listing' = [listing EXCEPT !.at = a, !.found = f]
      BY <2>2, <3>2, <3>3
    <3>5. Len(offers') = Len(offers) /\ ListingOK
      BY <1>2
    <3> QED BY <3>4, <3>5 DEF ListingOK
  <2>5. /\ listing'.op = listing.op /\ listing'.at = listing.at + 1
        /\ listing'.last = listing.last /\ listing'.found = listing.found \cup new
    BY <1>2, <2>2 DEF ListingOK
  <2>6. ASSUME NEW s \in standing, s \notin listing.found, s \notin new
        PROVE  listing.at + 1 <= s \/ (listing.op = "maker" /\ offers[s].maker # client)
    <3>1. CASE s = listing.at
      <4>1. offers[s].timestamp # 0
        BY <1>2 DEF OasisTypeOK, Live
      <4>2. GetOrder(listing.at) = {s}
        BY <3>1, <4>1 DEF GetOrder
      <4> QED BY <2>1, <2>6, <4>2
    <3>2. CASE s # listing.at
      <4>1. s \in Nat
        BY <1>2
      <4> QED BY <1>2, <1>3, <2>6, <3>2, <4>1
    <3> QED BY <3>1, <3>2
  <2>7. ScanIsAhead'
    BY <1>2, <1>3, <2>5, <2>6 DEF ScanIsAhead, Missing
  <2>8. StandingFound' /\ WalkIsAhead(r)' /\ PagesAreAhead(r)'
    BY <1>2, <2>5 DEF ScanId, StandingFound, WalkIsAhead, PagesAreAhead
  <2> QED BY <1>1, <1>2, <2>4, <2>7, <2>8, ListingKeeps
<1>5. CASE listing.at \notin 1 .. listing.last
  <2>1. PICK op : op = IF listing.op = "ids" THEN "done ids" ELSE "done maker"
    OBVIOUS
  <2>2. listing' = [listing EXCEPT !.op = op]
    BY <1>2, <1>5, <2>1 DEF ScanId, ScannedIds, ListingOK
  <2>3. ListingOK'
    BY <1>2, <2>1, <2>2 DEF ListingOK, Operations
  <2>4. listing'.op = op /\ listing'.found = listing.found
    BY <1>2, <2>2 DEF ListingOK
  <2>5. \A s \in standing \ listing.found : listing.op = "maker" /\ offers[s].maker # client
    <3>1. ASSUME NEW s \in standing PROVE ~(listing.at <= s)
      <4>1. s \in 1 .. listing.last
        BY <1>3
      <4>2. listing.at > listing.last
        BY <1>2, <1>3, <1>5
      <4> QED BY <1>2, <4>1, <4>2
    <3> QED BY <1>3, <3>1
  <2>6. StandingFound'
    BY <1>2, <2>1, <2>4, <2>5 DEF StandingFound
  <2>7. ScanIsAhead' /\ WalkIsAhead(r)' /\ PagesAreAhead(r)'
    BY <2>1, <2>4 DEF ScanIsAhead, WalkIsAhead, PagesAreAhead
  <2> QED BY <1>1, <1>2, <2>3, <2>6, <2>7, ListingKeeps
<1> QED
  BY <1>4, <1>5

(* What the steps of an enumeration rely on. *)
LEMMA ListingFacts ==
    ASSUME OasisInv
    PROVE  /\ OasisTypeOK /\ BookIsLive /\ ListingOK /\ standing \subseteq Live
           /\ Live \subseteq 1 .. Len(offers) /\ (Listed => ToSet(book) = Live)
           /\ listing.at \in Nat /\ listing.found \subseteq 1 .. Len(offers)
           /\ listing.page \in Seq(1 .. Len(offers)) /\ Len(offers) \in Nat /\ Len(book) \in Nat
<1>1. OasisTypeOK /\ BookIsLive /\ ListingOK /\ standing \subseteq Live
  BY DEF OasisInv, OasisTypeOK
<1>2. /\ listing.at \in Nat /\ listing.found \subseteq 1 .. Len(offers)
      /\ listing.page \in Seq(1 .. Len(offers))
  BY <1>1 DEF ListingOK
<1>3. Live \subseteq 1 .. Len(offers)
  BY <1>1, LiveIds
<1>4. Len(offers) \in Nat
  <2>1. offers \in Seq(Offer)
    BY <1>1 DEF OasisTypeOK
  <2> QED BY <2>1
<1>5. Len(book) \in Nat
  <2>1. book \in Seq(1 .. Len(offers))
    BY <1>1 DEF OasisTypeOK
  <2> QED BY <2>1
<1> QED
  BY <1>1, <1>2, <1>3, <1>4, <1>5 DEF BookIsLive

(* One step along getWorseOffer.                                           *)
LEMMA WalkKeeps ==
    ASSUME OasisInv, WalkOrder \/ WalkWorse
    PROVE  OasisInv'
<1>1. PICK r : Ranked(r) /\ WalkIsAhead(r) /\ PagesAreAhead(r)
  BY DEF OasisInv
<1>2. UNCHANGED <<market, offers, book, stale, standing, unrest>> /\ standing' \subseteq Live
  BY ListingFacts DEF WalkOrder, WalkWorse
<1>3. /\ listing.op \in {"walk", "worse"} /\ Listed /\ listing.at \in 0 .. Len(offers)
      /\ \A s \in Missing : r[s] >= r[listing.at]
      /\ listing.op = "worse" => listing.at # 0 /\ listing.at \notin Missing
  BY <1>1 DEF WalkOrder, WalkWorse, WalkIsAhead
<1>4. \A s \in standing : r[s] \in 1 .. Len(book) /\ book[r[s]] = s
  BY <1>1, <1>3, ListingFacts, PlaceIsRank
<1>5. CASE WalkOrder /\ listing.at = 0
  <2>1. listing' = [listing EXCEPT !.op = "done walk"]
    BY <1>5 DEF WalkOrder
  <2>2. ListingOK'
    BY <1>2, <2>1, ListingFacts DEF ListingOK, Operations
  <2>3. listing'.op = "done walk" /\ listing'.found = listing.found
    BY <2>1, ListingFacts DEF ListingOK
  <2>4. r[0] = Len(book) + 1
    BY <1>1 DEF Ranked, IsRank
  <2>5. ASSUME NEW s \in Missing PROVE FALSE
    <3>1. r[s] >= Len(book) + 1 /\ s \in standing
      BY <1>3, <1>5, <2>4 DEF Missing
    <3>2. r[s] \in 1 .. Len(book)
      BY <1>4, <3>1
    <3> QED BY <3>1, <3>2, ListingFacts
  <2>6. StandingFound'
    BY <1>2, <2>3, <2>5 DEF StandingFound, Missing
  <2>7. ScanIsAhead' /\ WalkIsAhead(r)' /\ PagesAreAhead(r)'
    BY <2>3 DEF ScanIsAhead, WalkIsAhead, PagesAreAhead
  <2> QED BY <1>1, <1>2, <2>2, <2>6, <2>7, ListingFacts, ListingKeeps
<1>6. CASE WalkOrder /\ listing.at # 0
  <2>1. PICK f : f = listing.found \cup GetOrder(listing.at)
    OBVIOUS
  <2>2. listing' = [listing EXCEPT !.op = "worse", !.found = f]
    BY <1>6, <2>1 DEF WalkOrder
  <2>3. listing.at \in 1 .. Len(offers) /\ GetOrder(listing.at) \subseteq {listing.at}
    BY <1>3, <1>6 DEF GetOrder
  <2>4. f \in SUBSET (1 .. Len(offers))
    BY <2>1, <2>3, ListingFacts
  <2>5. ListingOK'
    BY <1>2, <2>2, <2>4, ListingFacts DEF ListingOK, Operations
  <2>6. listing'.op = "worse" /\ listing'.found = f /\ listing'.at = listing.at
    BY <2>2, ListingFacts DEF ListingOK
  <2>7. Missing' \subseteq Missing
    BY <1>2, <2>1, <2>6 DEF Missing
  <2>8. listing.at \notin Missing'
    <3>1. CASE listing.at \in standing
      BY <2>1, <2>6, <3>1, ListingFacts DEF Missing, GetOrder, Live
    <3>2. CASE listing.at \notin standing
      BY <1>2, <3>2 DEF Missing
    <3> QED BY <3>1, <3>2
  <2>9. WalkIsAhead(r)'
    <3>1. Listed' /\ (listing.at \in 0 .. Len(offers))'
      BY <1>2, <1>3, <2>6 DEF Listed
    <3>2. \A s \in Missing' : r[s] >= r[listing'.at]
      BY <1>3, <2>6, <2>7
    <3>3. listing'.at # 0 /\ listing'.at \notin Missing'
      BY <1>6, <2>6, <2>8
    <3> QED BY <3>1, <3>2, <3>3 DEF WalkIsAhead
  <2>10. ScanIsAhead' /\ StandingFound' /\ PagesAreAhead(r)'
    BY <2>6 DEF ScanIsAhead, StandingFound, PagesAreAhead
  <2> QED BY <1>1, <1>2, <2>5, <2>9, <2>10, ListingFacts, ListingKeeps
<1>7. CASE WalkWorse
  <2>1. PICK w : w = WorseOffer(listing.at)
    OBVIOUS
  <2>2. listing' = [listing EXCEPT !.op = "walk", !.at = w] /\ listing.op = "worse"
    BY <1>7, <2>1 DEF WalkWorse
  <2>3. /\ w \in 0 .. Len(offers)
        /\ r[w] = IF listing.at \in ToSet(book) THEN r[listing.at] + 1 ELSE r[listing.at]
    <3>1. OasisTypeOK /\ Ranked(r) /\ listing.at \in 0 .. Len(offers)
      BY <1>1, <1>3, ListingFacts
    <3> QED BY <2>1, <3>1, WorseIsNext
  <2>4. w \in Nat
    BY <2>3, ListingFacts
  <2>5. ListingOK'
    BY <1>2, <2>2, <2>4, ListingFacts DEF ListingOK, Operations
  <2>6. listing'.op = "walk" /\ listing'.found = listing.found /\ listing'.at = w
    BY <2>2, ListingFacts DEF ListingOK
  <2>7. ASSUME NEW s \in Missing PROVE r[s] >= r[w]
    <3>1. s \in standing /\ r[s] >= r[listing.at] /\ s # listing.at
      BY <1>3, <2>2 DEF Missing
    <3>2. r[s] \in 1 .. Len(book) /\ book[r[s]] = s
      BY <1>4, <3>1
    <3>3. CASE listing.at \in ToSet(book)
      <4>1. r[listing.at] \in 1 .. Len(book) /\ book[r[listing.at]] = listing.at
        BY <1>1, <3>3, ListingFacts, PlaceIsRank
      <4>2. r[s] # r[listing.at]
        BY <3>1, <3>2, <4>1
      <4>3. r[w] = r[listing.at] + 1
        BY <2>3, <3>3
      <4> QED BY <3>1, <3>2, <4>1, <4>2, <4>3, ListingFacts
    <3>4. CASE listing.at \notin ToSet(book)
      BY <2>3, <3>1, <3>4
    <3> QED BY <3>3, <3>4
  <2>8. WalkIsAhead(r)'
    BY <1>2, <1>3, <2>3, <2>6, <2>7 DEF WalkIsAhead, Missing, Listed
  <2>9. ScanIsAhead' /\ StandingFound' /\ PagesAreAhead(r)'
    BY <2>6 DEF ScanIsAhead, StandingFound, PagesAreAhead
  <2> QED BY <1>1, <1>2, <2>5, <2>8, <2>9, ListingFacts, ListingKeeps
<1> QED
  BY <1>5, <1>6, <1>7

(* One page of the support contract.                                       *)
LEMMA ReadPageKeeps ==
    ASSUME OasisInv, ReadPage
    PROVE  OasisInv'
<1>1. PICK r : Ranked(r) /\ WalkIsAhead(r) /\ PagesAreAhead(r)
  BY DEF OasisInv
<1>2. UNCHANGED <<market, offers, book, stale, standing, unrest>> /\ standing' \subseteq Live
  BY ListingFacts DEF ReadPage
<1>3. listing.op = "pages" /\ Listed /\ ToSet(book) = Live
  BY <1>1, ListingFacts DEF ReadPage, PagesAreAhead
<1>4. PICK page : page = listing.page
  OBVIOUS
<1>5. /\ page \in Seq(1 .. Len(offers)) /\ PageIsFull = (Len(page) = PAGE)
      /\ DOMAIN page = 1 .. Len(page) /\ PAGE \in Nat \ {0}
  BY <1>4, ListingFacts, OasisAssumption DEF PageIsFull
<1>6. "left" \notin unrest =>
          /\ ToSet(page) \subseteq Live
          /\ \A s \in Missing : s \in ToSet(page) \/ (PageIsFull /\ r[s] > r[page[PAGE]])
  BY <1>1, <1>3, <1>4 DEF PagesAreAhead
<1>7. PICK f : f = listing.found \cup ToSet(page)
  OBVIOUS
<1>8. f \in SUBSET (1 .. Len(offers))
  <2>1. ASSUME NEW i \in ToSet(page) PROVE i \in 1 .. Len(offers)
    <3>1. PICK k \in 1 .. Len(page) : i = page[k]
      BY <1>5, <2>1 DEF ToSet
    <3>2. page \in Seq(1 .. Len(offers))
      BY <1>5
    <3> QED BY ONLY <3>1, <3>2
  <2> QED BY <1>7, <2>1, ListingFacts
<1>9. CASE PageIsFull
  <2>1. PICK w : w = WorseOffer(page[PAGE])
    OBVIOUS
  <2>2. listing' = [listing EXCEPT !.found = f, !.op = "next page", !.at = w]
    BY <1>4, <1>7, <1>9, <2>1, ListingFacts DEF ReadPage, ToSet, ListingOK
  <2>3. page[PAGE] \in ToSet(page) /\ page[PAGE] \in 1 .. Len(offers)
    <3>1. PAGE \in DOMAIN page
      <4>1. Len(page) = PAGE
        BY <1>4, <1>9 DEF PageIsFull
      <4>2. PAGE \in 1 .. PAGE
        BY OasisAssumption
      <4> QED BY <1>5, <4>1, <4>2
    <3>2. page \in Seq(1 .. Len(offers))
      BY <1>5
    <3>3. page[PAGE] \in 1 .. Len(offers)
      BY <3>1, <3>2
    <3> QED BY <3>1, <3>3 DEF ToSet
  <2>4. /\ w \in 0 .. Len(offers)
        /\ w \in ToSet(book) \cup {0} \/ page[PAGE] \notin ToSet(book)
        /\ r[w] = IF page[PAGE] \in ToSet(book) THEN r[page[PAGE]] + 1 ELSE r[page[PAGE]]
    <3>1. OasisTypeOK /\ Ranked(r) /\ page[PAGE] \in 0 .. Len(offers)
      BY <1>1, <2>3, ListingFacts
    <3> QED BY <2>1, <3>1, WorseIsNext
  <2>5. w \in Nat
    BY <2>4, ListingFacts
  <2>6. ListingOK'
    BY <1>2, <1>8, <2>2, <2>5, ListingFacts DEF ListingOK, Operations
  <2>7. listing'.op = "next page" /\ listing'.found = f /\ listing'.at = w
    BY <2>2, ListingFacts DEF ListingOK
  <2>8. ASSUME "left" \notin unrest
        PROVE  w \in Live \cup {0} /\ \A s \in Missing' : r[s] >= r[w]
    <3>1. page[PAGE] \in ToSet(book)
      BY <1>3, <1>6, <2>3, <2>8
    <3>2. r[w] = r[page[PAGE]] + 1 /\ w \in Live \cup {0}
      BY <1>3, <2>4, <3>1
    <3>3. r[page[PAGE]] \in 1 .. Len(book)
      BY <1>1, <3>1, ListingFacts, PlaceIsRank
    <3>4. ASSUME NEW s \in Missing' PROVE r[s] >= r[w]
      <4>1. s \in Missing /\ s \notin ToSet(page)
        BY <1>2, <1>7, <2>7, <3>4 DEF Missing
      <4>2. r[s] > r[page[PAGE]]
        BY <1>6, <2>8, <4>1
      <4>3. r[s] \in 1 .. Len(book)
        BY <1>1, <1>3, <4>1, ListingFacts, PlaceIsRank DEF Missing
      <4> QED BY <3>2, <3>3, <4>2, <4>3, ListingFacts
    <3> QED BY <3>2, <3>4
  <2>9. PagesAreAhead(r)'
    BY <1>2, <1>3, <2>7, <2>8 DEF PagesAreAhead, Listed, Live, Ids
  <2>10. ScanIsAhead' /\ StandingFound' /\ WalkIsAhead(r)'
    BY <2>7 DEF ScanIsAhead, StandingFound, WalkIsAhead
  <2> QED BY <1>1, <1>2, <2>6, <2>9, <2>10, ListingFacts, ListingKeeps
<1>10. CASE ~PageIsFull
  <2>1. listing' = [listing EXCEPT !.found = f, !.op = "done pages"]
    BY <1>4, <1>7, <1>10, ListingFacts DEF ReadPage, ToSet, ListingOK
  <2>2. ListingOK'
    BY <1>2, <1>8, <2>1, ListingFacts DEF ListingOK, Operations
  <2>3. listing'.op = "done pages" /\ listing'.found = f
    BY <2>1, ListingFacts DEF ListingOK
  <2>4. StandingFound'
    BY <1>2, <1>6, <1>7, <1>10, <2>3 DEF StandingFound, Missing
  <2>5. ScanIsAhead' /\ PagesAreAhead(r)' /\ WalkIsAhead(r)'
    BY <2>3 DEF ScanIsAhead, PagesAreAhead, WalkIsAhead
  <2> QED BY <1>1, <1>2, <2>2, <2>4, <2>5, ListingFacts, ListingKeeps
<1> QED
  BY <1>9, <1>10

LEMMA NextPageKeeps ==
    ASSUME OasisInv, NextPage
    PROVE  OasisInv'
<1>1. PICK r : Ranked(r) /\ WalkIsAhead(r) /\ PagesAreAhead(r)
  BY DEF OasisInv
<1>2. UNCHANGED <<market, offers, book, stale, standing, unrest>> /\ standing' \subseteq Live
  BY ListingFacts DEF NextPage
<1>3. listing.op = "next page" /\ Listed /\ ToSet(book) = Live
  BY <1>1, ListingFacts DEF NextPage, PagesAreAhead
<1>4. PICK page : page = Page(listing.at)
  OBVIOUS
<1>5. listing' = [listing EXCEPT !.op = "pages", !.page = page]
  BY <1>4 DEF NextPage
<1>6. "left" \notin unrest =>
          listing.at \in Live \cup {0} /\ \A s \in Missing : r[s] >= r[listing.at]
  BY <1>1, <1>3 DEF PagesAreAhead
<1>7. CASE listing.at \in Live
  <2>1. /\ page \in Seq(1 .. Len(offers)) /\ ToSet(page) \subseteq ToSet(book)
        /\ \A s \in ToSet(book) : r[s] >= r[listing.at] =>
               s \in ToSet(page) \/ (Len(page) = PAGE /\ r[s] > r[page[PAGE]])
    <3>1. OasisTypeOK /\ Ranked(r) /\ listing.at \in ToSet(book)
      BY <1>1, <1>3, <1>7, ListingFacts
    <3> QED BY <1>4, <1>7, <3>1, PageIsNext
  <2>2. ListingOK'
    BY <1>2, <1>5, <2>1, ListingFacts DEF ListingOK, Operations
  <2>3. listing'.op = "pages" /\ listing'.found = listing.found /\ listing'.page = page
    BY <1>5, ListingFacts DEF ListingOK
  <2>4. Missing' = Missing /\ Missing \subseteq ToSet(book) /\ Live' = Live /\ unrest' = unrest
    BY <1>2, <1>3, <2>3, ListingFacts DEF Missing, Live, Ids
  <2>5. (Listed /\ ToSet(listing.page) \subseteq Live)'
    BY <1>2, <1>3, <2>1, <2>3, <2>4 DEF Listed
  <2>6. ASSUME "left" \notin unrest', NEW s \in Missing'
        PROVE  s \in ToSet(page) \/ (PageIsFull' /\ r[s] > r[page[PAGE]])
    <3>1. s \in ToSet(book) /\ r[s] >= r[listing.at]
      BY <1>6, <2>4, <2>6
    <3>2. PageIsFull' = (Len(page) = PAGE)
      BY <2>3 DEF PageIsFull
    <3> QED BY <2>1, <3>1, <3>2
  <2>7. PagesAreAhead(r)'
    BY <2>3, <2>5, <2>6 DEF PagesAreAhead
  <2>8. ScanIsAhead' /\ StandingFound' /\ WalkIsAhead(r)'
    BY <2>3 DEF ScanIsAhead, StandingFound, WalkIsAhead
  <2> QED BY <1>1, <1>2, <2>2, <2>7, <2>8, ListingFacts, ListingKeeps
<1>8. CASE listing.at \notin Live
  <2>1. page = <<>>
    BY <1>4, <1>8 DEF Page
  <2>2. ListingOK'
    <3>1. page \in Seq(1 .. Len(offers))
      BY <2>1
    <3> QED BY <1>2, <1>5, <3>1, ListingFacts DEF ListingOK, Operations
  <2>3. listing'.op = "pages" /\ listing'.found = listing.found /\ listing'.page = <<>>
    BY <1>5, <2>1, ListingFacts DEF ListingOK
  <2>4. ASSUME "left" \notin unrest, NEW s \in Missing PROVE FALSE
    <3>1. r[s] >= r[0] /\ r[0] = Len(book) + 1
      BY <1>1, <1>6, <1>8, <2>4 DEF Ranked, IsRank
    <3>2. r[s] \in 1 .. Len(book)
      BY <1>1, <1>3, ListingFacts, PlaceIsRank DEF Missing
    <3> QED BY <3>1, <3>2, ListingFacts
  <2>5. Missing' = Missing /\ unrest' = unrest /\ Listed' /\ ToSet(<<>>) = {}
    <3>1. ToSet(<<>>) = {}
      BY DEF ToSet
    <3> QED BY <1>2, <1>3, <2>3, <3>1 DEF Missing, Listed
  <2>6. PagesAreAhead(r)'
    BY <2>3, <2>4, <2>5 DEF PagesAreAhead
  <2>7. ScanIsAhead' /\ StandingFound' /\ WalkIsAhead(r)'
    BY <2>3 DEF ScanIsAhead, StandingFound, WalkIsAhead
  <2> QED BY <1>1, <1>2, <2>2, <2>6, <2>7, ListingFacts, ListingKeeps
<1> QED
  BY <1>7, <1>8

LEMMA DoneKeeps ==
    ASSUME OasisInv, GivePosition \/ Forget
    PROVE  OasisInv'
<1>1. PICK r : Ranked(r) /\ WalkIsAhead(r) /\ PagesAreAhead(r)
  BY DEF OasisInv
<1>2. UNCHANGED <<market, offers, book, stale, standing, unrest>> /\ standing' \subseteq Live
  BY ListingFacts DEF GivePosition, Forget
<1>3. CASE GivePosition
  <2>1. PICK pos : listing' = [listing EXCEPT !.pos = pos]
    BY <1>3 DEF GivePosition
  <2>2. ListingOK'
    BY <1>2, <2>1, ListingFacts DEF ListingOK
  <2>3. listing'.op = listing.op /\ listing'.found = listing.found /\ StandingFound
    BY <2>1, ListingFacts DEF ListingOK, OasisInv
  <2>4. StandingFound'
    BY <1>2, <2>3 DEF StandingFound
  <2>5. ScanIsAhead' /\ WalkIsAhead(r)' /\ PagesAreAhead(r)'
    BY <1>3, <2>3 DEF GivePosition, ScanIsAhead, WalkIsAhead, PagesAreAhead
  <2> QED BY <1>1, <1>2, <2>2, <2>4, <2>5, ListingFacts, ListingKeeps
<1>4. CASE Forget
  <2>1. listing' = NoListing
    BY <1>4 DEF Forget
  <2>2. ListingOK'
    BY <2>1 DEF ListingOK, NoListing, Operations
  <2>3. listing'.op = "none"
    BY <2>1 DEF NoListing
  <2>4. StandingFound' /\ ScanIsAhead' /\ WalkIsAhead(r)' /\ PagesAreAhead(r)'
    BY <2>3 DEF StandingFound, ScanIsAhead, WalkIsAhead, PagesAreAhead
  <2> QED BY <1>1, <1>2, <2>2, <2>4, ListingFacts, ListingKeeps
<1> QED
  BY <1>3, <1>4

LEMMA ScanBeginKeeps ==
    ASSUME OasisInv, GetOrders \/ GetOrdersByMaker
    PROVE  OasisInv'
<1>1. PICK r : Ranked(r)
  BY DEF OasisInv
<1>2. UNCHANGED <<market, offers, book, stale>> /\ standing' = Live
  BY DEF GetOrders, GetOrdersByMaker, BeginsListing
<1>3. PICK op \in {"ids", "maker"} :
          listing' = [NoListing EXCEPT !.op = op, !.at = 1, !.last = Len(offers)]
  BY DEF GetOrders, GetOrdersByMaker
<1>4. listing' = [op |-> op, at |-> 1, last |-> Len(offers), page |-> <<>>,
                  found |-> {}, pay |-> 0, buy |-> 0, pos |-> 0]
  BY <1>3 DEF NoListing
<1>5. ListingOK'
  <2>1. <<>> \in Seq(1 .. Len(offers)) /\ {} \in SUBSET (1 .. Len(offers))
    OBVIOUS
  <2> QED BY <1>2, <1>4, <2>1, ListingFacts DEF ListingOK, Operations
<1>6. ScanIsAhead'
  <2>1. ASSUME NEW s \in Live PROVE s \in 1 .. Len(offers) /\ 1 <= s
    BY ListingFacts
  <2>2. Len(offers) <= Len(offers)
    BY ListingFacts
  <2> QED BY <1>2, <1>4, <2>1, <2>2 DEF ScanIsAhead, Missing
<1>7. StandingFound' /\ WalkIsAhead(r)' /\ PagesAreAhead(r)'
  BY <1>4 DEF StandingFound, WalkIsAhead, PagesAreAhead
<1> QED
  BY <1>1, <1>2, <1>5, <1>6, <1>7, ListingFacts, ListingKeeps

LEMMA PairBeginKeeps ==
    ASSUME OasisInv, NEW o \in NewOrders, PairOrders(o.pay, o.buy)
    PROVE  OasisInv'
<1>1. PICK r : Ranked(r)
  BY DEF OasisInv
<1>2. UNCHANGED <<market, offers, book, stale>> /\ standing' = Live /\ standing' \subseteq Live
  BY DEF PairOrders, BeginsListing
<1>3. Listed /\ ToSet(book) = Live /\ o.pay \in Nat /\ o.buy \in Nat
  BY ListingFacts, OasisAssumption DEF PairOrders, Listed
<1>4. Live' = Live /\ Listed'
  BY <1>2, <1>3 DEF Live, Ids, Listed
<1>5. \/ BestOffer \in ToSet(book) /\ r[BestOffer] = 1
      \/ BestOffer = 0 /\ Live = {}
  <2>1. book \in Seq(1 .. Len(offers)) /\ DOMAIN book = 1 .. Len(book)
    BY ListingFacts DEF OasisTypeOK
  <2>2. CASE book = <<>>
    <3>1. ToSet(<<>>) = {}
      BY DEF ToSet
    <3> QED BY <1>3, <2>2, <3>1 DEF BestOffer
  <2>3. CASE book # <<>>
    <3>1. 1 \in 1 .. Len(book) /\ Head(book) = book[1]
      BY <2>1, <2>3
    <3> QED BY <1>1, <2>1, <2>3, <3>1 DEF BestOffer, ToSet, Ranked, IsRank
  <2> QED BY <2>2, <2>3
<1>6. ASSUME NEW s \in Live PROVE r[s] \in 1 .. Len(book)
  BY <1>1, <1>3, ListingFacts, PlaceIsRank
<1>7. CASE market.kind = "matching"
  <2>1. PICK b : b = BestOffer
    OBVIOUS
  <2>2. b \in Nat /\ b \in 0 .. Len(offers)
    <3>1. CASE b = 0
      BY <3>1, ListingFacts
    <3>2. CASE b \in ToSet(book)
      BY <1>3, <3>2, ListingFacts
    <3> QED BY <1>5, <2>1, <3>1, <3>2
  <2>3. listing' = [op |-> "walk", at |-> b, last |-> 0, page |-> <<>>,
                    found |-> {}, pay |-> o.pay, buy |-> o.buy, pos |-> 0]
    BY <1>7, <2>1 DEF PairOrders, NoListing
  <2>4. ListingOK'
    <3>1. <<>> \in Seq(1 .. Len(offers)) /\ {} \in SUBSET (1 .. Len(offers))
      OBVIOUS
    <3> QED BY <1>2, <1>3, <2>2, <2>3, <3>1 DEF ListingOK, Operations
  <2>5. \A s \in Live : r[s] >= r[b]
    <3>1. ASSUME NEW s \in Live PROVE r[s] >= r[b]
      BY <1>5, <1>6, <2>1, <3>1
    <3> QED BY <3>1
  <2>6. WalkIsAhead(r)'
    BY <1>2, <1>4, <2>2, <2>3, <2>5 DEF WalkIsAhead, Missing
  <2>7. ScanIsAhead' /\ StandingFound' /\ PagesAreAhead(r)'
    BY <2>3 DEF ScanIsAhead, StandingFound, PagesAreAhead
  <2> QED BY <1>1, <1>2, <2>4, <2>6, <2>7, ListingFacts, ListingKeeps
<1>8. CASE market.kind # "matching"
  <2>1. PICK page : page = Page(BestOffer)
    OBVIOUS
  <2>2. listing' = [op |-> "pages", at |-> 0, last |-> 0, page |-> page,
                    found |-> {}, pay |-> o.pay, buy |-> o.buy, pos |-> 0]
    BY <1>8, <2>1 DEF PairOrders, NoListing
  <2>3. /\ page \in Seq(1 .. Len(offers)) /\ ToSet(page) \subseteq Live
        /\ \A s \in Live : s \in ToSet(page) \/ (Len(page) = PAGE /\ r[s] > r[page[PAGE]])
    <3>1. CASE Live = {}
      <4>1. page = <<>>
        BY <2>1, <3>1 DEF Page
      <4>2. ToSet(<<>>) = {}
        BY DEF ToSet
      <4> QED BY <3>1, <4>1, <4>2
    <3>2. CASE Live # {}
      <4>1. BestOffer \in ToSet(book) /\ r[BestOffer] = 1
        BY <1>5, <3>2
      <4>2. OasisTypeOK /\ Ranked(r) /\ BestOffer \in Live
        BY <1>1, <1>3, <4>1, ListingFacts
      <4>3. /\ page \in Seq(1 .. Len(offers)) /\ ToSet(page) \subseteq ToSet(book)
            /\ \A s \in ToSet(book) : r[s] >= r[BestOffer] =>
                   s \in ToSet(page) \/ (Len(page) = PAGE /\ r[s] > r[page[PAGE]])
        BY <2>1, <4>1, <4>2, PageIsNext
      <4>4. \A s \in ToSet(book) : r[s] >= r[BestOffer]
        BY <1>3, <1>6, <4>1
      <4> QED BY <1>3, <4>3, <4>4
    <3> QED BY <3>1, <3>2
  <2>4. ListingOK'
    <3>1. {} \in SUBSET (1 .. Len(offers))
      OBVIOUS
    <3> QED BY <1>2, <1>3, <2>2, <2>3, <3>1 DEF ListingOK, Operations
  <2>5. PageIsFull' = (Len(page) = PAGE) /\ Missing' = Live
    BY <1>2, <2>2 DEF PageIsFull, Missing
  <2>6. PagesAreAhead(r)'
    BY <1>4, <2>2, <2>3, <2>5 DEF PagesAreAhead
  <2>7. ScanIsAhead' /\ StandingFound' /\ WalkIsAhead(r)'
    BY <2>2 DEF ScanIsAhead, StandingFound, WalkIsAhead
  <2> QED BY <1>1, <1>2, <2>4, <2>6, <2>7, ListingFacts, ListingKeeps
<1> QED
  BY <1>7, <1>8

-----------------------------------------------------------------------------
(* Trade: what others do to the contract while the client enumerates.      *)
Traded ==
    /\ market' = market /\ listing' = listing
    /\ standing' \subseteq standing /\ unrest \subseteq unrest'
    /\ Len(offers') >= Len(offers)
    /\ \A i \in 1 .. Len(offers) : offers'[i].maker = offers[i].maker
    /\ "left" \notin unrest' => Live \subseteq Live'

(* The order of the places is kept, strictly unless an order left. *)
KeepsPlaces(r, q) ==
    /\ \A i, j \in 0 .. Len(offers) : r[i] >= r[j] => q[i] >= q[j]
    /\ "left" \notin unrest' => \A i, j \in 0 .. Len(offers) : r[i] > r[j] => q[i] > q[j]

LEMMA TradedKeeps ==
    ASSUME OasisInv, Traded, OasisTypeOK', BookIsLive',
           NEW r, WalkIsAhead(r), PagesAreAhead(r), NEW q, Ranked(q)', KeepsPlaces(r, q)
    PROVE  OasisInv'
<1>1. /\ listing' = listing /\ Missing' \subseteq Missing /\ standing \subseteq 1 .. Len(offers)
      /\ Missing \subseteq 1 .. Len(offers) /\ Listed' = Listed /\ Missing' \subseteq standing'
      /\ PageIsFull' = PageIsFull
  BY ListingFacts DEF Traded, Missing, Listed, PageIsFull
<1>2. Len(offers) \in Nat /\ Len(offers') \in Nat /\ Len(offers') >= Len(offers)
  <2>1. offers' \in Seq(Offer)
    BY DEF OasisTypeOK
  <2>2. Len(offers') \in Nat
    BY <2>1
  <2> QED BY <2>2, ListingFacts DEF Traded
<1>3. ScanIsAhead'
  <2>1. ScanIsAhead
    BY DEF OasisInv
  <2>2. SUFFICES ASSUME listing.op \in {"ids", "maker"}
                 PROVE  ScanIsAhead'
    BY <1>1 DEF ScanIsAhead
  <2>3. /\ listing.at # 0 /\ standing \subseteq 1 .. listing.last /\ listing.last <= Len(offers)
        /\ \A s \in Missing : listing.at <= s \/ (listing.op = "maker" /\ offers[s].maker # client)
    BY <2>1, <2>2 DEF ScanIsAhead
  <2>4. listing.last <= Len(offers') /\ standing' \subseteq 1 .. listing.last
    <3>1. listing.last \in Nat
      BY ListingFacts DEF ListingOK
    <3>2. listing.last <= Len(offers')
      BY <1>2, <2>3, <3>1
    <3> QED BY <2>3, <3>2 DEF Traded
  <2>5. ASSUME NEW s \in Missing'
        PROVE  listing.at <= s \/ (listing.op = "maker" /\ offers'[s].maker # client)
    <3>1. s \in Missing /\ offers'[s].maker = offers[s].maker
      BY <1>1, <2>5 DEF Traded
    <3> QED BY <2>3, <3>1
  <2> QED BY <1>1, <2>3, <2>4, <2>5 DEF ScanIsAhead
<1>4. StandingFound'
  <2>1. StandingFound
    BY DEF OasisInv
  <2>2. ASSUME listing.op = "done maker", NEW s \in standing', offers'[s].maker = client
        PROVE  s \in listing.found
    <3>1. s \in standing /\ offers[s].maker = client
      BY <1>1, <2>2 DEF Traded
    <3> QED BY <2>1, <2>2, <3>1 DEF StandingFound
  <2>3. ASSUME listing.op \in {"done ids", "done walk"} PROVE standing' \subseteq listing.found
    BY <2>1, <2>3 DEF StandingFound, Traded
  <2>4. ASSUME listing.op = "done pages", "left" \notin unrest' PROVE standing' \subseteq listing.found
    BY <2>1, <2>4 DEF StandingFound, Traded
  <2> QED BY <1>1, <2>2, <2>3, <2>4 DEF StandingFound
<1>5. WalkIsAhead(q)'
  <2>1. SUFFICES ASSUME listing.op \in {"walk", "worse"}
                 PROVE  WalkIsAhead(q)'
    BY <1>1 DEF WalkIsAhead
  <2>2. /\ Listed /\ listing.at \in 0 .. Len(offers)
        /\ \A s \in Missing : r[s] >= r[listing.at]
        /\ listing.op = "worse" => listing.at # 0 /\ listing.at \notin Missing
    BY <2>1 DEF WalkIsAhead
  <2>3. listing.at \in 0 .. Len(offers')
    BY <1>2, <2>2
  <2>4. ASSUME NEW s \in Missing' PROVE q[s] >= q[listing.at]
    <3>1. s \in 0 .. Len(offers) /\ r[s] >= r[listing.at]
      BY <1>1, <2>2, <2>4
    <3> QED BY <2>2, <3>1 DEF KeepsPlaces
  <2> QED BY <1>1, <2>2, <2>3, <2>4 DEF WalkIsAhead
<1>6. PagesAreAhead(q)'
  <2>1. (listing.op \in {"pages", "next page"} => Listed)'
    BY <1>1 DEF PagesAreAhead
  <2>2. ASSUME listing.op = "pages", "left" \notin unrest'
        PROVE  /\ ToSet(listing.page) \subseteq Live'
               /\ \A s \in Missing' : \/ s \in ToSet(listing.page)
                                      \/ PageIsFull /\ q[s] > q[listing.page[PAGE]]
    <3>1. "left" \notin unrest /\ Live \subseteq Live'
      BY <2>2 DEF Traded
    <3>2. /\ ToSet(listing.page) \subseteq Live
          /\ \A s \in Missing : \/ s \in ToSet(listing.page)
                                \/ PageIsFull /\ r[s] > r[listing.page[PAGE]]
      BY <2>2, <3>1 DEF PagesAreAhead
    <3>3. ASSUME PageIsFull PROVE listing.page[PAGE] \in 0 .. Len(offers)
      <4>1. PAGE \in 1 .. PAGE
        BY OasisAssumption
      <4>2. Len(listing.page) = PAGE
        BY <3>3 DEF PageIsFull
      <4>3. PAGE \in DOMAIN listing.page
        BY <4>1, <4>2, ListingFacts
      <4>4. listing.page[PAGE] \in 1 .. Len(offers)
        BY <4>3, ListingFacts
      <4> QED BY <1>2, <4>4
    <3>4. ASSUME NEW s \in Missing', s \notin ToSet(listing.page)
          PROVE  PageIsFull /\ q[s] > q[listing.page[PAGE]]
      <4>1. s \in 0 .. Len(offers) /\ PageIsFull /\ r[s] > r[listing.page[PAGE]]
        BY <1>1, <3>2, <3>4
      <4>2. listing.page[PAGE] \in 0 .. Len(offers)
        BY <3>3, <4>1
      <4> QED BY <2>2, <4>1, <4>2 DEF KeepsPlaces
    <3> QED BY <3>1, <3>2, <3>4
  <2>3. ASSUME listing.op = "next page", "left" \notin unrest'
        PROVE  listing.at \in Live' \cup {0} /\ \A s \in Missing' : q[s] >= q[listing.at]
    <3>1. "left" \notin unrest /\ Live \subseteq Live'
      BY <2>3 DEF Traded
    <3>2. listing.at \in Live \cup {0} /\ \A s \in Missing : r[s] >= r[listing.at]
      BY <2>3, <3>1 DEF PagesAreAhead
    <3>3. listing.at \in 0 .. Len(offers)
      BY <3>2, ListingFacts
    <3>4. ASSUME NEW s \in Missing' PROVE q[s] >= q[listing.at]
      <4>1. s \in 0 .. Len(offers) /\ r[s] >= r[listing.at]
        BY <1>1, <3>2, <3>4
      <4> QED BY <3>3, <4>1 DEF KeepsPlaces
    <3> QED BY <3>1, <3>2, <3>4
  <2> QED BY <1>1, <2>1, <2>2, <2>3 DEF PagesAreAhead
<1> QED
  BY <1>3, <1>4, <1>5, <1>6 DEF OasisInv

(* A market without a list has an empty one, to which nothing leads. *)
LEMMA UnlistedRank ==
    ASSUME OasisTypeOK', book' = <<>>
    PROVE  \E q : /\ Ranked(q)' /\ \A i \in 0 .. Len(offers') : q[i] = 1
<1>1. PICK n : n = Len(offers')
  OBVIOUS
<1>2. PICK t : t = stale'
  OBVIOUS
<1>3. n \in Nat /\ Len(book') = 0 /\ \A i \in 1 .. n : t[i] \in 0 .. n
  <2>1. offers' \in Seq(Offer)
    BY DEF OasisTypeOK
  <2>2. t \in Seq(0 .. n) /\ Len(t) = n
    BY <1>1, <1>2 DEF OasisTypeOK
  <2>3. n \in Nat
    BY <1>1, <2>1
  <2> QED BY <2>2, <2>3
<1>4. PICK q : q = [i \in 0 .. n |-> 1]
  OBVIOUS
<1>5. (\A i \in 0 .. n : q[i] = 1) /\ q \in [0 .. n -> 1 .. 0 + 1] /\ q[0] = 0 + 1
  BY <1>3, <1>4
<1>6. IsRank(q, book', t, 0, n)
  <2>1. \A i \in 1 .. n : q[i] = q[t[i]]
    BY <1>3, <1>5
  <2>2. \A k \in 1 .. 0 : FALSE
    OBVIOUS
  <2> QED BY <1>5, <2>1, <2>2 DEF IsRank
<1> QED
  BY <1>1, <1>2, <1>3, <1>5, <1>6 DEF Ranked

LEMMA MadeEffect ==
    ASSUME OasisInv, NEW o \in NewOrders, Offers(o)
    PROVE  /\ offers' \in Seq(Offer) /\ Len(offers') = Len(offers) + 1
           /\ stale' \in Seq(0 .. Len(offers')) /\ Len(stale') = Len(offers')
           /\ ListingOK' /\ Live' = Live \cup {Len(offers) + 1} /\ standing' \subseteq Live'
           /\ Traded /\ market' = market /\ stale' = Append(stale, 0)
<1>1. PICK n \in Nat : n = Len(offers)
  BY ListingFacts
<1>2. offers \in Seq(Offer) /\ stale \in Seq(0 .. n) /\ Len(stale) = n
  BY <1>1, ListingFacts DEF OasisTypeOK
<1>3. PICK new : new = [maker |-> o.maker, pay |-> o.pay, buy |-> o.buy, timestamp |-> 1]
  OBVIOUS
<1>4. new \in Offer
  BY <1>3, OasisAssumption DEF Offer, Makers
<1>5. offers' = Append(offers, new) /\ stale' = Append(stale, 0)
  BY <1>3 DEF Offers
<1>6. /\ offers' \in Seq(Offer) /\ Len(offers') = n + 1 /\ offers'[n + 1] = new
      /\ \A i \in 1 .. n : offers'[i] = offers[i]
  BY <1>1, <1>2, <1>4, <1>5
<1>7. stale' \in Seq(0 .. n + 1) /\ Len(stale') = n + 1
  <2>1. stale \in Seq(0 .. n + 1) /\ 0 \in 0 .. n + 1
    BY <1>2
  <2> QED BY <1>2, <1>5, <2>1
<1>8. ListingOK'
  <2>1. listing' = listing /\ Seq(1 .. n) \subseteq Seq(1 .. n + 1)
    BY DEF Offers
  <2>2. listing.page \in Seq(1 .. n + 1) /\ listing.found \in SUBSET (1 .. n + 1)
    BY <1>1, <2>1, ListingFacts
  <2> QED BY <1>1, <1>6, <2>1, <2>2, ListingFacts DEF ListingOK
<1>9. Live' = Live \cup {n + 1}
  <2>1. DOMAIN offers = 1 .. n /\ DOMAIN offers' = 1 .. n + 1 /\ new.timestamp # 0
    BY <1>1, <1>2, <1>3, <1>6
  <2>2. Live = {i \in 1 .. n : offers[i].timestamp # 0}
    BY <2>1 DEF Live, Ids
  <2>3. Live' = {i \in 1 .. n + 1 : offers'[i].timestamp # 0}
    BY <2>1 DEF Live, Ids
  <2> QED BY <1>6, <2>1, <2>2, <2>3
<1>10. Traded
  <2>1. Len(offers') >= Len(offers)
    BY <1>1, <1>6
  <2>2. \A i \in 1 .. Len(offers) : offers'[i].maker = offers[i].maker
    BY <1>1, <1>6
  <2> QED BY <1>9, <2>1, <2>2 DEF Traded, Offers
<1>11. standing' \subseteq Live'
  BY <1>9, ListingFacts DEF Offers
<1> QED
  BY <1>1, <1>5, <1>6, <1>7, <1>8, <1>9, <1>10, <1>11 DEF Offers

LEMMA MakeSimpleKeeps ==
    ASSUME OasisInv, NEW o \in NewOrders, MakeSimple(o)
    PROVE  OasisInv'
<1>1. PICK r : Ranked(r) /\ WalkIsAhead(r) /\ PagesAreAhead(r)
  BY DEF OasisInv
<1>2. Offers(o) /\ book' = book /\ book = <<>> /\ ~Listed /\ market.kind = "simple"
  BY ListingFacts DEF MakeSimple, BookIsLive, Listed
<1>3. OasisTypeOK'
  <2>1. book' \in Seq(1 .. Len(offers'))
    BY <1>2
  <2> QED BY <1>2, <2>1, MadeEffect, ListingFacts DEF OasisTypeOK
<1>4. BookIsLive'
  BY <1>2, MadeEffect DEF BookIsLive, Listed
<1>5. PICK q : Ranked(q)' /\ \A i \in 0 .. Len(offers') : q[i] = 1
  BY <1>2, <1>3, UnlistedRank
<1>6. KeepsPlaces(r, q)
  <2>1. \A i \in 0 .. Len(offers) : q[i] = 1 /\ r[i] = 1
    <3>1. Len(book) = 0 /\ r \in [0 .. Len(offers) -> 1 .. Len(book) + 1]
      BY <1>1, <1>2 DEF Ranked, IsRank
    <3>2. 0 .. Len(offers) \subseteq 0 .. Len(offers')
      BY <1>2, MadeEffect, ListingFacts
    <3>3. \A i \in 0 .. Len(offers) : r[i] \in 1 .. 0 + 1
      BY <3>1
    <3> QED BY <1>5, <3>2, <3>3
  <2> QED BY <2>1 DEF KeepsPlaces
<1> QED
  BY <1>1, <1>2, <1>3, <1>4, <1>5, <1>6, MadeEffect, TradedKeeps

LEMMA MakeMatchingKeeps ==
    ASSUME OasisInv, market.kind # "none", NEW o \in NewOrders, MakeMatching(o)
    PROVE  OasisInv'
<1>1. PICK r : Ranked(r) /\ WalkIsAhead(r) /\ PagesAreAhead(r)
  BY DEF OasisInv
<1>2. PICK behind : behind = {k \in DOMAIN book :
                        AtLeast(offers[book[k]].pay, offers[book[k]].buy, o.pay, o.buy)}
  OBVIOUS
<1>3. PICK p : p = Cardinality(behind) + 1
  OBVIOUS
<1>4. Offers(o) /\ book' = InsertAt(book, p, Len(offers) + 1) /\ Listed
  BY <1>2, <1>3, ListingFacts DEF MakeMatching, NewId, Listed, OasisTypeOK
<1>5. p \in 1 .. Len(book) + 1
  <2>1. behind \subseteq 1 .. Len(book)
    <3>1. book \in Seq(1 .. Len(offers))
      BY ListingFacts DEF OasisTypeOK
    <3> QED BY <1>2, <3>1
  <2>2. PICK m \in Nat : m = Len(book)
    BY ListingFacts
  <2>3. IsFiniteSet(1 .. m) /\ Cardinality(1 .. m) = m
    <3>1. 1 \in Int /\ m \in Int
      OBVIOUS
    <3>2. IsFiniteSet(1 .. m) /\ Cardinality(1 .. m) = IF 1 > m THEN 0 ELSE m - 1 + 1
      BY <3>1, FS_Interval
    <3> QED BY <3>2
  <2>4. IsFiniteSet(behind) /\ Cardinality(behind) <= m /\ Cardinality(behind) \in Nat
    BY <2>1, <2>2, <2>3, FS_Subset, FS_CardinalityType
  <2> QED BY <1>3, <2>2, <2>4
<1>6. /\ book' \in Seq(1 .. Len(offers')) /\ ToSet(book') = ToSet(book) \cup {Len(offers) + 1}
      /\ \E q : /\ Ranked(q)'
                /\ \A i, j \in 0 .. Len(offers) : /\ r[i] >= r[j] => q[i] >= q[j]
                                                  /\ r[i] > r[j] => q[i] > q[j]
  <2>1. OasisTypeOK /\ Ranked(r)
    BY <1>1, ListingFacts
  <2>2. Len(offers') = Len(offers) + 1 /\ stale' = Append(stale, 0)
    BY <1>4, MadeEffect
  <2>3. book' = InsertAt(book, p, Len(offers) + 1)
    BY <1>4
  <2> QED BY <1>5, <2>1, <2>2, <2>3, InsertedRank
<1>7. OasisTypeOK'
  BY <1>4, <1>6, MadeEffect, ListingFacts DEF OasisTypeOK
<1>8. BookIsLive'
  <2>1. ToSet(book') = Live'
    BY <1>4, <1>6, MadeEffect, ListingFacts
  <2>2. Listed' /\ market'.kind # "none"
    BY <1>4, MadeEffect DEF Listed
  <2> QED BY <2>1, <2>2 DEF BookIsLive
<1>9. PICK q : Ranked(q)' /\ KeepsPlaces(r, q)
  BY <1>6 DEF KeepsPlaces
<1> QED
  BY <1>1, <1>4, <1>7, <1>8, <1>9, MadeEffect, TradedKeeps

(* An offer whose terms change, or that is marked as gone. *)
LEMMA ChangedEffect ==
    ASSUME OasisTypeOK, NEW i \in 1 .. Len(offers), NEW new \in Offer, new.maker = offers[i].maker,
           offers' = [offers EXCEPT ![i] = new]
    PROVE  /\ offers' \in Seq(Offer) /\ Len(offers') = Len(offers)
           /\ \A j \in 1 .. Len(offers) : offers'[j].maker = offers[j].maker
           /\ Live' = IF new.timestamp # 0 THEN Live \cup {i} ELSE Live \ {i}
<1>1. PICK n : n = Len(offers)
  OBVIOUS
<1>2. PICK s : s = offers'
  OBVIOUS
<1>3. offers \in Seq(Offer) /\ i \in 1 .. n /\ s = [offers EXCEPT ![i] = new]
  BY <1>1, <1>2 DEF OasisTypeOK
<1>4. /\ s \in Seq(Offer) /\ Len(s) = n /\ s[i] = new /\ DOMAIN s = 1 .. n
      /\ DOMAIN offers = 1 .. n /\ \A j \in 1 .. n : j # i => s[j] = offers[j]
  BY <1>1, <1>3
<1>5. \A j \in 1 .. n : s[j].maker = offers[j].maker
  BY <1>3, <1>4
<1>6. Live = {j \in 1 .. n : offers[j].timestamp # 0} /\ Live' = {j \in 1 .. n : s[j].timestamp # 0}
  BY <1>2, <1>4 DEF Live, Ids
<1>7. Live' = IF new.timestamp # 0 THEN Live \cup {i} ELSE Live \ {i}
  BY <1>3, <1>4, <1>6
<1> QED
  BY <1>1, <1>2, <1>4, <1>5, <1>7

LEMMA LeavesKeeps ==
    ASSUME OasisInv, NEW e \in Live, market.kind # "none", Leaves(e), UNCHANGED <<market, listing>>
    PROVE  OasisInv'
<1>1. PICK r : Ranked(r) /\ WalkIsAhead(r) /\ PagesAreAhead(r)
  BY DEF OasisInv
<1>2. e \in 1 .. Len(offers) /\ OasisTypeOK
  BY ListingFacts
<1>3. PICK new : new = [offers[e] EXCEPT !.timestamp = 0]
  OBVIOUS
<1>4. new \in Offer /\ new.maker = offers[e].maker /\ new.timestamp = 0
  <2>1. offers[e] \in Offer
    BY <1>2 DEF OasisTypeOK
  <2> QED BY <1>3, <2>1 DEF Offer
<1>5. /\ offers' \in Seq(Offer) /\ Len(offers') = Len(offers)
      /\ \A j \in 1 .. Len(offers) : offers'[j].maker = offers[j].maker
      /\ Live' = Live \ {e}
  <2>1. offers' = [offers EXCEPT ![e] = new]
    BY <1>2, <1>3 DEF Leaves, OasisTypeOK
  <2> QED BY <1>2, <1>4, <2>1, ChangedEffect
<1>6. PICK w : w = WorseOffer(e)
  OBVIOUS
<1>7. w \in 0 .. Len(offers)
  <2>1. e \in 0 .. Len(offers)
    BY <1>2
  <2> QED BY <1>1, <1>2, <1>6, <2>1, WorseIsNext
<1>8. stale' \in Seq(0 .. Len(offers')) /\ Len(stale') = Len(offers')
  <2>1. stale \in Seq(0 .. Len(offers)) /\ Len(stale) = Len(offers)
    BY <1>2 DEF OasisTypeOK
  <2>2. stale' = [stale EXCEPT ![e] = w]
    BY <1>6 DEF Leaves
  <2>3. stale' \in Seq(0 .. Len(offers)) /\ Len(stale') = Len(offers)
    BY <1>2, <1>7, <2>1, <2>2
  <2> QED BY <1>5, <2>3
<1>9. ListingOK' /\ standing' \subseteq Live' /\ "left" \in unrest' /\ standing' \subseteq standing
  BY <1>5, ListingFacts DEF ListingOK, Leaves
<1>10. Traded
  <2>1. Len(offers') >= Len(offers)
    BY <1>5, ListingFacts
  <2> QED BY <1>5, <1>9, <2>1 DEF Traded, Leaves
<1>11. CASE Listed
  <2>1. e \in ToSet(book)
    BY <1>11, ListingFacts
  <2>2. /\ book' \in Seq(1 .. Len(offers')) /\ ToSet(book') = ToSet(book) \ {e}
        /\ \E q : /\ Ranked(q)'
                  /\ \A i, j \in 0 .. Len(offers) : r[i] >= r[j] => q[i] >= q[j]
    <3>1. book' = RemoveAt(book, PlaceOf(e)) /\ stale' = [stale EXCEPT ![e] = WorseOffer(e)]
      BY <2>1 DEF Leaves
    <3> QED BY <1>1, <1>2, <1>5, <2>1, <3>1, RemovedRank
  <2>3. OasisTypeOK'
    BY <1>2, <1>5, <1>8, <1>9, <2>2 DEF OasisTypeOK
  <2>4. BookIsLive'
    <3>1. ToSet(book') = Live' /\ Listed'
      BY <1>5, <1>11, <2>2, ListingFacts DEF Listed
    <3> QED BY <3>1 DEF BookIsLive, Listed
  <2>5. PICK q : Ranked(q)' /\ KeepsPlaces(r, q)
    BY <1>9, <2>2 DEF KeepsPlaces
  <2> QED BY <1>1, <1>10, <2>3, <2>4, <2>5, TradedKeeps
<1>12. CASE ~Listed
  <2>1. book = <<>> /\ book' = <<>>
    <3>1. book = <<>>
      BY <1>12, ListingFacts DEF BookIsLive
    <3>2. ToSet(<<>>) = {}
      BY DEF ToSet
    <3> QED BY <3>1, <3>2 DEF Leaves
  <2>2. OasisTypeOK'
    <3>1. book' \in Seq(1 .. Len(offers'))
      BY <2>1
    <3> QED BY <1>2, <1>5, <1>8, <1>9, <3>1 DEF OasisTypeOK
  <2>3. BookIsLive'
    BY <1>12, <2>1 DEF BookIsLive, Listed
  <2>4. PICK q : Ranked(q)' /\ \A i \in 0 .. Len(offers') : q[i] = 1
    BY <2>1, <2>2, UnlistedRank
  <2>5. KeepsPlaces(r, q)
    <3>1. \A i \in 0 .. Len(offers) : q[i] = 1
      BY <1>5, <2>4
    <3> QED BY <1>9, <3>1 DEF KeepsPlaces
  <2> QED BY <1>1, <1>10, <2>2, <2>3, <2>4, <2>5, TradedKeeps
<1> QED
  BY <1>11, <1>12

LEMMA TakePartKeeps ==
    ASSUME OasisInv, NEW e \in Live, market.kind # "none", NEW quantity, TakeOffer(e, quantity),
           quantity # offers[e].pay
    PROVE  OasisInv'
<1>1. PICK r : Ranked(r) /\ WalkIsAhead(r) /\ PagesAreAhead(r)
  BY DEF OasisInv
<1>2. /\ e \in 1 .. Len(offers) /\ OasisTypeOK
      /\ UNCHANGED <<market, listing, book, stale, standing, unrest>>
  BY ListingFacts DEF TakeOffer
<1>3. offers[e] \in Offer
  BY <1>2 DEF OasisTypeOK
<1>4. PICK spend : spend = (quantity * offers[e].buy) \div offers[e].pay
  OBVIOUS
<1>5. PICK new : new = [offers[e] EXCEPT !.pay = @ - quantity, !.buy = @ - spend]
  OBVIOUS
<1>6. new \in Offer /\ new.maker = offers[e].maker /\ new.timestamp = offers[e].timestamp
  <2>1. /\ offers[e].pay \in Nat \ {0} /\ offers[e].buy \in Int /\ quantity \in 1 .. offers[e].pay
    BY <1>3 DEF Offer, TakeOffer
  <2>2. offers[e].pay - quantity \in Nat \ {0}
    BY <2>1
  <2>3. spend \in Int
    BY <1>4, <2>1
  <2>4. offers[e].buy - spend \in Int
    BY <2>1, <2>3
  <2> QED BY <1>3, <1>5, <2>2, <2>4 DEF Offer
<1>7. /\ offers' \in Seq(Offer) /\ Len(offers') = Len(offers)
      /\ \A j \in 1 .. Len(offers) : offers'[j].maker = offers[j].maker
      /\ Live' = Live
  <2>1. offers' = [offers EXCEPT ![e] = new]
    BY <1>2, <1>4, <1>5 DEF TakeOffer, OasisTypeOK
  <2>2. new.timestamp # 0
    BY <1>6 DEF Live
  <2> QED BY <1>2, <1>6, <2>1, <2>2, ChangedEffect
<1>8. ListingOK'
  BY <1>2, <1>7, ListingFacts DEF ListingOK
<1>9. OasisTypeOK' /\ BookIsLive'
  <2>1. OasisTypeOK'
    BY <1>2, <1>7, <1>8 DEF OasisTypeOK
  <2>2. Len(offers') # 0 /\ offers' # <<>>
    BY <1>2, <1>7
  <2>3. BookIsLive'
    BY <1>2, <1>7, ListingFacts DEF BookIsLive, Listed
  <2> QED BY <2>1, <2>3
<1>10. Traded
  <2>1. Len(offers') >= Len(offers)
    BY <1>7, ListingFacts
  <2> QED BY <1>2, <1>7, <2>1 DEF Traded
<1>11. Ranked(r)' /\ KeepsPlaces(r, r)
  BY <1>1, <1>2, <1>7 DEF Ranked, KeepsPlaces
<1> QED
  BY <1>1, <1>9, <1>10, <1>11, TradedKeeps

LEMMA OpenKeeps ==
    ASSUME OasisInv, OpenMarket
    PROVE  OasisInv'
<1>1. PICK r : Ranked(r) /\ WalkIsAhead(r) /\ PagesAreAhead(r)
  BY DEF OasisInv
<1>2. /\ market.kind = "none" /\ ~Listed /\ offers = <<>> /\ book = <<>>
      /\ UNCHANGED <<offers, book, stale, listing, standing, unrest>>
  BY ListingFacts DEF OpenMarket, Listed, BookIsLive
<1>3. market'.kind \in {"simple", "matching", "support"}
  BY OasisAssumption DEF OpenMarket
<1>4. Live = {} /\ ToSet(book) = {}
  BY <1>2 DEF Live, Ids, ToSet
<1>5. ListingOK' /\ Live' = Live
  BY <1>2, ListingFacts DEF ListingOK, Live, Ids
<1>6. OasisTypeOK'
  BY <1>2, <1>3, <1>5, ListingFacts DEF OasisTypeOK
<1>7. BookIsLive'
  BY <1>2, <1>3, <1>4, <1>5 DEF BookIsLive, Listed
<1>8. listing.op \notin {"walk", "worse", "pages", "next page"}
  BY <1>1, <1>2 DEF WalkIsAhead, PagesAreAhead
<1>9. Ranked(r)' /\ WalkIsAhead(r)' /\ PagesAreAhead(r)'
  BY <1>1, <1>2, <1>8 DEF Ranked, WalkIsAhead, PagesAreAhead
<1>10. ScanIsAhead' /\ StandingFound'
  <2>1. ScanIsAhead /\ StandingFound
    BY DEF OasisInv
  <2> QED BY <1>2, <2>1 DEF ScanIsAhead, StandingFound, Missing
<1> QED
  BY <1>6, <1>7, <1>9, <1>10 DEF OasisInv

LEMMA StandingInit ==
    ASSUME OasisInit
    PROVE  OasisInv
<1>1. /\ market.kind = "none" /\ offers = <<>> /\ book = <<>> /\ stale = <<>> /\ standing = {}
      /\ listing = NoListing /\ listing.op = "none" /\ Len(offers) = 0
  BY DEF OasisInit, NoListing
<1>2. OasisTypeOK
  <2>1. ListingOK
    <3>1. <<>> \in Seq(1 .. Len(offers)) /\ {} \in SUBSET (1 .. Len(offers))
      OBVIOUS
    <3> QED BY <1>1, <3>1 DEF ListingOK, NoListing, Operations
  <2>2. offers \in Seq(Offer) /\ book \in Seq(1 .. Len(offers)) /\ stale \in Seq(0 .. Len(offers))
    BY <1>1
  <2> QED BY <1>1, <2>1, <2>2 DEF OasisTypeOK
<1>3. BookIsLive /\ ScanIsAhead /\ StandingFound
  BY <1>1 DEF BookIsLive, Listed, ScanIsAhead, StandingFound
<1>4. PICK r : r = [i \in 0 .. 0 |-> 1]
  OBVIOUS
<1>5. Ranked(r)
  <2>1. IsRank(r, book, stale, 0, 0)
    BY <1>4 DEF IsRank
  <2> QED BY <1>1, <2>1 DEF Ranked
<1>6. WalkIsAhead(r) /\ PagesAreAhead(r)
  BY <1>1 DEF WalkIsAhead, PagesAreAhead
<1> QED
  BY <1>2, <1>3, <1>5, <1>6 DEF OasisInv

LEMMA OasisStep == OasisInv /\ [OasisNext]_oasisVars => OasisInv'
<1>1. SUFFICES ASSUME OasisInv, [OasisNext]_oasisVars
               PROVE  OasisInv'
  OBVIOUS
<1>2. CASE OpenMarket
  BY <1>1, <1>2, OpenKeeps
<1>3. CASE market.kind # "none" /\ Trade
  <2>1. CASE \E o \in NewOrders : MakeSimple(o) \/ MakeMatching(o)
    BY <1>1, <1>3, <2>1, MakeSimpleKeeps, MakeMatchingKeeps
  <2>2. CASE \E i \in Ids : \E quantity \in 1 .. offers[i].pay : TakeOffer(i, quantity)
    <3>0. PICK i : \E quantity \in 1 .. offers[i].pay : TakeOffer(i, quantity)
      BY <2>2
    <3>1. PICK quantity : i \in Live /\ TakeOffer(i, quantity)
      BY <3>0 DEF TakeOffer
    <3>2. CASE quantity = offers[i].pay
      BY <1>1, <1>3, <3>1, <3>2, LeavesKeeps DEF TakeOffer
    <3>3. CASE quantity # offers[i].pay
      BY <1>1, <1>3, <3>1, <3>3, TakePartKeeps
    <3> QED BY <3>2, <3>3
  <2>3. CASE \E i \in Ids : \E o \in NewOrders : Kill(o.maker, i)
    <3>1. PICK i \in Live : Leaves(i) /\ UNCHANGED <<market, listing>>
      BY <2>3 DEF Kill
    <3> QED BY <1>1, <1>3, <3>1, LeavesKeeps
  <2> QED BY <1>3, <2>1, <2>2, <2>3 DEF Trade
<1>4. CASE GetOrders \/ GetOrdersByMaker
  BY <1>1, <1>4, ScanBeginKeeps
<1>5. CASE \E o \in NewOrders : PairOrders(o.pay, o.buy)
  BY <1>1, <1>5, PairBeginKeeps
<1>6. CASE ScanId
  BY <1>1, <1>6, ScanKeeps
<1>7. CASE WalkOrder \/ WalkWorse
  BY <1>1, <1>7, WalkKeeps
<1>8. CASE ReadPage
  BY <1>1, <1>8, ReadPageKeeps
<1>9. CASE NextPage
  BY <1>1, <1>9, NextPageKeeps
<1>10. CASE GivePosition \/ Forget
  BY <1>1, <1>10, DoneKeeps
<1>11. CASE UNCHANGED oasisVars
  BY <1>1, <1>11 DEF oasisVars, OasisInv, OasisTypeOK, ListingOK, BookIsLive, Listed, ScanIsAhead,
     StandingFound, Ranked, WalkIsAhead, PagesAreAhead, Missing, Live, Ids, PageIsFull
<1> QED BY <1>1, <1>2, <1>3, <1>4, <1>5, <1>6, <1>7, <1>8, <1>9, <1>10, <1>11 DEF OasisNext

(* Enumerations of the orders of a market (oasis.py:351, 371, 569) return  *)
(* every order that stands from the beginning to the end of the            *)
(* enumeration: for any number of orders, any book and any page size.      *)
THEOREM StandingIsFound == OasisSpec => []StandingFound
<1>1. OasisInit => OasisInv
  BY StandingInit
<1>2. OasisInv /\ [OasisNext]_oasisVars => OasisInv'
  BY OasisStep
<1>3. OasisInv => StandingFound
  BY DEF OasisInv
<1> QED
  BY <1>1, <1>2, <1>3, PTL DEF OasisSpec

-----------------------------------------------------------------------------
(* Orders off the chain. *)

Buys == {a[2] : a \in OrderAmounts}

Hash == [pay : Nat \ {0}, buy : Buys, fee : Nat, salt : Nat, expiration : Nat]

SignedOrder == [pay : Nat \ {0}, buy : Buys, fee : Nat, salt : Nat, expiration : Nat,
                signature : Hash \cup {Unsigned}]

Thread == [state : {"none", "tool runs", "sent", "failed", "timeout"}, attempt : 0 .. ATTEMPTS]

(* The orders, the books of the contract and the threads that publish.     *)
OffChainTypeOK ==
    /\ venue \in Venues \cup {"none"} /\ now \in Nat
    /\ orders \in Seq(SignedOrder) /\ relayed \subseteq SignedOrder
    /\ publisher \in Seq(Thread) /\ Len(publisher) = Len(orders)
    /\ venue = "none" => orders = <<>> /\ relayed = {}

(* The contract books no more of an order than there is, and with the      *)
(* first thing it books as cancelled all of it.                            *)
Booked(h, e) ==
    /\ e \in [filled : Nat, cancelled : Nat]
    /\ e.filled + e.cancelled <= h.buy
    /\ e.cancelled > 0 => e.filled + e.cancelled = h.buy

LedgerOK == \A h \in Hash : Booked(h, Entry(h))

(* A thread runs for an order of EtherDelta, which does not change.        *)
ThreadsOK ==
    \A i \in 1 .. Len(orders) :
        /\ publisher[i].state # "none" => venue = "EtherDelta"
        /\ publisher[i].state = "sent" => orders[i] \in relayed
        /\ publisher[i].state = "failed" => publisher[i].attempt = ATTEMPTS

OffChainInv == OffChainTypeOK /\ LedgerOK /\ ThreadsOK

LEMMA BuysAreAmounts ==
    /\ Buys \subseteq Nat \ {0} /\ \A b \in Buys : FillAmounts(b) \subseteq Nat \ {0}
    /\ ATTEMPTS \in Nat \ {0}
<1>1. ASSUME NEW a \in OrderAmounts PROVE a[2] \in Nat \ {0} /\ FillAmounts(a[2]) \subseteq Nat \ {0}
  BY OffChainAssumption
<1> QED
  BY <1>1, OffChainAssumption DEF Buys

LEMMA HashType ==
    ASSUME NEW o \in SignedOrder
    PROVE  HashFields(o) \in Hash /\ HashFields(o).buy = o.buy
  BY DEF HashFields, SignedOrder, Hash

LEMMA EntryEffect ==
    ASSUME NEW h, NEW e, Enter(h, e)
    PROVE  Entry(h)' = e /\ \A g : g # h => Entry(g)' = Entry(g)
<1>1. ledger' = [g \in DOMAIN ledger \cup {h} |-> IF g = h THEN e ELSE ledger[g]]
  BY DEF Enter
<1>2. DOMAIN ledger' = DOMAIN ledger \cup {h} /\ ledger'[h] = e
  BY <1>1
<1>3. ASSUME NEW g, g # h PROVE Entry(g)' = Entry(g)
  BY <1>1, <1>3 DEF Entry
<1> QED
  BY <1>2, <1>3 DEF Entry

(* A fill or a cancellation leaves less of the order, and a cancellation   *)
(* nothing.                                                                *)
LEMMA BookingEffect ==
    ASSUME LedgerOK, NEW h \in Hash, NEW e, Enter(h, e),
           \/ \E amount \in Nat : e = [Entry(h) EXCEPT !.filled = @ + Smaller(amount, Available(h))]
                                  /\ Available(h) > 0
           \/ e = [Entry(h) EXCEPT !.cancelled = @ + Smaller(h.buy, Available(h))]
    PROVE  /\ LedgerOK'
           /\ \A g \in Hash : Available(g)' <= Available(g) /\ Entry(g)'.filled >= Entry(g).filled
<1>1. /\ Entry(h) \in [filled : Nat, cancelled : Nat]
      /\ Entry(h).filled + Entry(h).cancelled <= h.buy
      /\ Entry(h).cancelled > 0 => Entry(h).filled + Entry(h).cancelled = h.buy
      /\ h.buy \in Nat
  BY BuysAreAmounts DEF LedgerOK, Booked, Hash
<1>2. PICK f \in Nat : f = Entry(h).filled
  BY <1>1
<1>3. PICK c \in Nat : c = Entry(h).cancelled
  BY <1>1
<1>4. PICK a : a = Available(h)
  OBVIOUS
<1>5. a = h.buy - f - c /\ a >= 0 /\ a \in Nat /\ (c > 0 => a = 0)
  BY <1>1, <1>2, <1>3, <1>4 DEF Available
<1>6. /\ e \in [filled : Nat, cancelled : Nat] /\ e.filled + e.cancelled <= h.buy
      /\ e.cancelled > 0 => e.filled + e.cancelled = h.buy
      /\ e.filled >= f /\ e.filled + e.cancelled >= f + c
  <2>1. ASSUME NEW amount \in Nat, a > 0,
               e = [Entry(h) EXCEPT !.filled = @ + Smaller(amount, a)]
        PROVE  /\ e \in [filled : Nat, cancelled : Nat] /\ e.filled >= f /\ e.cancelled = c
               /\ e.filled + e.cancelled <= h.buy /\ c = 0
    <3>1. PICK m : m = Smaller(amount, a)
      OBVIOUS
    <3>2. m \in Nat /\ m <= a
      BY <1>5, <3>1 DEF Smaller
    <3>3. e.filled = f + m /\ e.cancelled = c /\ e \in [filled : Nat, cancelled : Nat]
      BY <1>1, <1>2, <1>3, <2>1, <3>1, <3>2
    <3> QED BY <1>1, <1>5, <2>1, <3>2, <3>3
  <2>2. ASSUME e = [Entry(h) EXCEPT !.cancelled = @ + Smaller(h.buy, a)]
        PROVE  /\ e \in [filled : Nat, cancelled : Nat] /\ e.filled = f
               /\ e.filled + e.cancelled = h.buy
    <3>1. Smaller(h.buy, a) = a
      BY <1>1, <1>5 DEF Smaller
    <3>2. e.filled = f /\ e.cancelled = c + a /\ e \in [filled : Nat, cancelled : Nat]
      BY <1>1, <1>2, <1>3, <1>5, <2>2, <3>1
    <3> QED BY <1>1, <1>5, <3>2
  <2>3. CASE \E amount \in Nat : e = [Entry(h) EXCEPT !.filled = @ + Smaller(amount, a)] /\ a > 0
    <3>1. PICK amount \in Nat : e = [Entry(h) EXCEPT !.filled = @ + Smaller(amount, a)] /\ a > 0
      BY <2>3
    <3>2. /\ e \in [filled : Nat, cancelled : Nat] /\ e.filled >= f /\ e.cancelled = c
          /\ e.filled + e.cancelled <= h.buy /\ c = 0
      BY <2>1, <3>1
    <3>3. e.filled + e.cancelled >= f + c
      BY <3>2
    <3> QED BY <3>2, <3>3
  <2>4. CASE e = [Entry(h) EXCEPT !.cancelled = @ + Smaller(h.buy, a)]
    <3>1. /\ e \in [filled : Nat, cancelled : Nat] /\ e.filled = f
          /\ e.filled + e.cancelled = h.buy
      BY <2>2, <2>4
    <3> QED BY <1>1, <1>2, <1>3, <3>1
  <2> QED BY <1>4, <2>3, <2>4
<1>7. Entry(h)' = e /\ \A g : g # h => Entry(g)' = Entry(g)
  BY EntryEffect
<1>8. LedgerOK'
  <2>1. ASSUME NEW g \in Hash PROVE Booked(g, Entry(g)')
    <3>1. CASE g = h
      BY <1>6, <1>7, <3>1 DEF Booked
    <3>2. CASE g # h
      BY <1>7, <3>2 DEF LedgerOK
    <3> QED BY <3>1, <3>2
  <2> QED BY <2>1 DEF LedgerOK, Booked
<1>9. ASSUME NEW g \in Hash
      PROVE  Available(g)' <= Available(g) /\ Entry(g)'.filled >= Entry(g).filled
  <2>1. CASE g = h
    <3>1. Available(g)' = h.buy - e.filled - e.cancelled
      BY <1>7, <2>1 DEF Available
    <3>2. h.buy - e.filled - e.cancelled <= a
      BY <1>1, <1>5, <1>6
    <3> QED BY <1>2, <1>4, <1>6, <1>7, <2>1, <3>1, <3>2
  <2>2. CASE g # h
    <3>1. Entry(g)' = Entry(g)
      BY <1>7, <2>2
    <3>2. Entry(g).filled \in Nat /\ Entry(g).cancelled \in Nat /\ g.buy \in Nat
      BY BuysAreAmounts DEF LedgerOK, Booked, Hash
    <3>3. Available(g)' = Available(g) /\ Available(g) \in Int
      BY <3>1, <3>2 DEF Available
    <3> QED BY <3>1, <3>2, <3>3
  <2> QED BY <2>1, <2>2
<1> QED
  BY <1>8, <1>9

LEMMA LedgerKept ==
    ASSUME LedgerOK, ledger' = ledger
    PROVE  LedgerOK' /\ \A h : Entry(h)' = Entry(h)
  BY DEF LedgerOK, Booked, Entry

LEMMA ReplaceEffect ==
    ASSUME NEW S, NEW s \in Seq(S), NEW i \in 1 .. Len(s), NEW e \in S, NEW t, t = [s EXCEPT ![i] = e]
    PROVE  /\ t \in Seq(S) /\ Len(t) = Len(s) /\ t[i] = e
           /\ \A j \in 1 .. Len(s) : j # i => t[j] = s[j]
  OBVIOUS

LEMMA CreatesKeeps ==
    ASSUME OffChainInv, NEW o \in SignedOrder, Creates(o), venue # "none"
    PROVE  OffChainInv'
<1>1. PICK n : n = Len(orders)
  OBVIOUS
<1>2. PICK t \in Thread : t.state = "none" /\ t.attempt = 0 /\ t = [state |-> "none", attempt |-> 0]
  <2>1. 0 \in 0 .. ATTEMPTS
    BY BuysAreAmounts
  <2>2. [state |-> "none", attempt |-> 0] \in Thread
    BY <2>1 DEF Thread
  <2> QED BY <2>2
<1>3. /\ orders \in Seq(SignedOrder) /\ publisher \in Seq(Thread) /\ Len(publisher) = n
      /\ orders' = Append(orders, o) /\ publisher' = Append(publisher, t)
      /\ UNCHANGED <<venue, now, relayed, ledger, deposited>>
  BY <1>1, <1>2 DEF OffChainInv, OffChainTypeOK, Creates
<1>4. /\ orders' \in Seq(SignedOrder) /\ Len(orders') = n + 1 /\ n \in Nat
      /\ \A i \in 1 .. n : orders'[i] = orders[i]
  BY <1>1, <1>3
<1>5. /\ publisher' \in Seq(Thread) /\ Len(publisher') = n + 1 /\ publisher'[n + 1] = t
      /\ \A i \in 1 .. n : publisher'[i] = publisher[i]
  BY <1>1, <1>3
<1>6. OffChainTypeOK'
  BY <1>3, <1>4, <1>5 DEF OffChainInv, OffChainTypeOK
<1>7. LedgerOK'
  BY <1>3, LedgerKept DEF OffChainInv
<1>8. ThreadsOK'
  <2>1. ASSUME NEW i \in 1 .. n
        PROVE  /\ publisher'[i].state # "none" => venue' = "EtherDelta"
               /\ publisher'[i].state = "sent" => orders'[i] \in relayed'
               /\ publisher'[i].state = "failed" => publisher'[i].attempt = ATTEMPTS
    BY <1>1, <1>3, <1>4, <1>5 DEF OffChainInv, ThreadsOK
  <2>2. publisher'[n + 1].state = "none"
    BY <1>2, <1>5
  <2>3. \A i \in 1 .. n + 1 : i \in 1 .. n \/ i = n + 1
    BY <1>4
  <2>4. Len(orders') = n + 1
    BY <1>4
  <2> QED BY <2>1, <2>2, <2>3, <2>4 DEF ThreadsOK
<1> QED
  BY <1>6, <1>7, <1>8 DEF OffChainInv

(* 0x alone changes an order, and has no threads. *)
LEMMA ChangesKeeps ==
    ASSUME OffChainInv, NEW i \in DOMAIN orders, NEW o \in SignedOrder, Changes(i, o),
           venue # "EtherDelta"
    PROVE  OffChainInv'
<1>1. PICK n : n = Len(orders)
  OBVIOUS
<1>2. /\ orders \in Seq(SignedOrder) /\ orders' = [orders EXCEPT ![i] = o] /\ i \in 1 .. n
      /\ UNCHANGED <<venue, now, relayed, ledger, deposited, publisher>>
  BY <1>1 DEF OffChainInv, OffChainTypeOK, Changes
<1>3. orders' \in Seq(SignedOrder) /\ Len(orders') = n /\ orders # <<>>
  BY <1>1, <1>2
<1>4. OffChainTypeOK'
  BY <1>1, <1>2, <1>3 DEF OffChainInv, OffChainTypeOK
<1>5. LedgerOK'
  BY <1>2, LedgerKept DEF OffChainInv
<1>6. ThreadsOK'
  <2>1. \A j \in 1 .. n : publisher[j].state = "none"
    BY <1>1 DEF OffChainInv, ThreadsOK
  <2>2. \A j \in 1 .. Len(orders') : publisher'[j].state = "none"
    BY <1>2, <1>3, <2>1
  <2> QED BY <2>2 DEF ThreadsOK
<1> QED
  BY <1>4, <1>5, <1>6 DEF OffChainInv

LEMMA ThreadFacts ==
    ASSUME OffChainInv, NEW i \in DOMAIN orders
    PROVE  /\ i \in 1 .. Len(orders) /\ publisher[i] \in Thread /\ orders[i] \in SignedOrder
           /\ publisher[i].state # "none" => venue = "EtherDelta"
           /\ publisher[i].state = "sent" => orders[i] \in relayed
           /\ publisher[i].state = "failed" => publisher[i].attempt = ATTEMPTS
           /\ publisher = [publisher EXCEPT ![i] = publisher[i]]
<1>1. /\ orders \in Seq(SignedOrder) /\ publisher \in Seq(Thread) /\ Len(publisher) = Len(orders)
      /\ i \in 1 .. Len(orders)
  BY DEF OffChainInv, OffChainTypeOK
<1>2. publisher[i] \in Thread /\ orders[i] \in SignedOrder
  BY <1>1
<1>3. publisher = [publisher EXCEPT ![i] = publisher[i]]
  BY <1>1
<1> QED
  BY <1>1, <1>2, <1>3 DEF OffChainInv, ThreadsOK

(* The relayer gets an order, a thread goes on or neither. *)
LEMMA ThreadKeeps ==
    ASSUME OffChainInv, NEW i \in DOMAIN orders, NEW t \in Thread,
           Lists(i) \/ UNCHANGED relayed,
           publisher' = [publisher EXCEPT ![i] = t],
           UNCHANGED <<venue, now, orders, ledger>>,
           t.state # "none" => venue = "EtherDelta",
           t.state = "sent" => orders[i] \in relayed',
           t.state = "failed" => t.attempt = ATTEMPTS
    PROVE  OffChainInv'
<1>1. PICK n : n = Len(orders)
  OBVIOUS
<1>2. /\ orders \in Seq(SignedOrder) /\ publisher \in Seq(Thread) /\ Len(publisher) = n
      /\ i \in 1 .. n /\ orders[i] \in SignedOrder /\ orders # <<>>
      /\ relayed \subseteq relayed'
  <2>1. orders \in Seq(SignedOrder) /\ publisher \in Seq(Thread) /\ Len(publisher) = n
    BY <1>1 DEF OffChainInv, OffChainTypeOK
  <2>2. i \in 1 .. n /\ orders[i] \in SignedOrder /\ orders # <<>>
    <3>1. i \in 1 .. n /\ orders[i] \in SignedOrder
      BY <1>1, ThreadFacts
    <3>2. orders # <<>>
      <4>1. DOMAIN orders # {}
        OBVIOUS
      <4> QED BY <4>1
    <3> QED BY <3>1, <3>2
  <2>3. relayed \subseteq relayed'
    BY DEF Lists
  <2> QED BY <2>1, <2>2, <2>3
<1>3. relayed' \subseteq SignedOrder
  <2>1. relayed \subseteq SignedOrder
    BY DEF OffChainInv, OffChainTypeOK
  <2> QED BY <1>2, <2>1 DEF Lists
<1>4. /\ publisher' \in Seq(Thread) /\ Len(publisher') = n /\ publisher'[i] = t
      /\ \A j \in 1 .. n : j # i => publisher'[j] = publisher[j]
  <2>1. PICK s : s = publisher'
    OBVIOUS
  <2>2. s = [publisher EXCEPT ![i] = t]
    BY <2>1
  <2>3. publisher \in Seq(Thread)
    BY <1>2
  <2>4. i \in 1 .. Len(publisher)
    BY <1>2
  <2>5. /\ s \in Seq(Thread) /\ Len(s) = Len(publisher) /\ s[i] = t
        /\ \A j \in 1 .. Len(publisher) : j # i => s[j] = publisher[j]
    BY ONLY <2>2, <2>3, <2>4, t \in Thread, ReplaceEffect
  <2> QED BY <1>2, <2>1, <2>5
<1>5. OffChainTypeOK'
  BY <1>1, <1>2, <1>3, <1>4 DEF OffChainInv, OffChainTypeOK
<1>6. LedgerOK'
  BY LedgerKept DEF OffChainInv
<1>7. ASSUME NEW j \in 1 .. n
      PROVE  /\ publisher'[j].state # "none" => venue = "EtherDelta"
             /\ publisher'[j].state = "sent" => orders[j] \in relayed'
             /\ publisher'[j].state = "failed" => publisher'[j].attempt = ATTEMPTS
  <2>1. CASE j = i
    BY <1>4, <2>1
  <2>2. CASE j # i
    BY <1>1, <1>2, <1>4, <2>2 DEF OffChainInv, ThreadsOK
  <2> QED BY <2>1, <2>2
<1>8. ThreadsOK'
  BY <1>1, <1>7 DEF ThreadsOK
<1> QED
  BY <1>5, <1>6, <1>8 DEF OffChainInv

LEMMA PublishingKeeps ==
    ASSUME OffChainInv, NEW i \in DOMAIN orders,
           PublishOrder(i) \/ ToolEnds(i) \/ ToolHangs(i) \/ ToolEndsLate(i)
    PROVE  OffChainInv'
<1>1. PICK attempt : attempt = publisher[i].attempt
  OBVIOUS
<1>2. attempt \in 0 .. ATTEMPTS /\ ATTEMPTS \in Nat \ {0}
  BY <1>1, ThreadFacts, BuysAreAmounts DEF Thread
<1>3. CASE PublishOrder(i)
  <2>1. PICK t \in Thread : t.state = "tool runs" /\ t = [state |-> "tool runs", attempt |-> 1]
    <3>1. 1 \in 0 .. ATTEMPTS
      BY <1>2
    <3>2. [state |-> "tool runs", attempt |-> 1] \in Thread
      BY <3>1 DEF Thread
    <3> QED BY <3>2
  <2>2. /\ publisher' = [publisher EXCEPT ![i] = t] /\ UNCHANGED relayed /\ venue = "EtherDelta"
        /\ UNCHANGED <<venue, now, orders, ledger>>
    BY <1>3, <2>1 DEF PublishOrder, Publishes
  <2> QED BY <2>1, <2>2, ThreadKeeps
<1>4. CASE ToolEnds(i)
  <2>1. /\ publisher[i].state = "tool runs" /\ venue = "EtherDelta"
        /\ UNCHANGED <<venue, now, orders, ledger>>
    BY <1>1, <1>4, ThreadFacts DEF ToolEnds
  <2>2. CASE Lists(i) /\ Publishes(i, "sent", attempt)
    <3>1. PICK t \in Thread : t.state = "sent" /\ t.attempt = attempt /\ t = [state |-> "sent", attempt |-> attempt]
      BY <1>2 DEF Thread
    <3>2. publisher' = [publisher EXCEPT ![i] = t] /\ orders[i] \in relayed'
      BY <2>2, <3>1 DEF Publishes, Lists
    <3> QED BY <2>1, <2>2, <3>1, <3>2, ThreadKeeps
  <2>3. CASE /\ Lists(i) \/ UNCHANGED relayed
             /\ AttemptsLeft(attempt) /\ Publishes(i, "tool runs", attempt + 1)
    <3>1. PICK t \in Thread : /\ t.state = "tool runs"
                            /\ t = [state |-> "tool runs", attempt |-> attempt + 1]
      <4>1. attempt + 1 \in 0 .. ATTEMPTS
        <5>1. attempt < ATTEMPTS
          BY <2>3 DEF AttemptsLeft
        <5> QED BY <1>2, <5>1
      <4>2. [state |-> "tool runs", attempt |-> attempt + 1] \in Thread
        BY <4>1 DEF Thread
      <4> QED BY <4>2
    <3>2. publisher' = [publisher EXCEPT ![i] = t]
      BY <2>3, <3>1 DEF Publishes
    <3> QED BY <2>1, <2>3, <3>1, <3>2, ThreadKeeps
  <2>4. CASE /\ Lists(i) \/ UNCHANGED relayed
             /\ ~AttemptsLeft(attempt) /\ Publishes(i, "failed", attempt)
    <3>1. PICK t \in Thread : t.state = "failed" /\ t.attempt = attempt /\ t = [state |-> "failed", attempt |-> attempt]
      BY <1>2 DEF Thread
    <3>2. publisher' = [publisher EXCEPT ![i] = t] /\ t.attempt = ATTEMPTS
      BY <1>2, <2>4, <3>1 DEF Publishes, AttemptsLeft
    <3> QED BY <2>1, <2>4, <3>1, <3>2, ThreadKeeps
  <2> QED BY <1>1, <1>4, <2>2, <2>3, <2>4 DEF ToolEnds
<1>5. CASE ToolHangs(i)
  <2>1. PICK t \in Thread : t.state = "timeout" /\ t.attempt = attempt /\ t = [state |-> "timeout", attempt |-> attempt]
    BY <1>2 DEF Thread
  <2>2. /\ publisher' = [publisher EXCEPT ![i] = t] /\ UNCHANGED relayed /\ venue = "EtherDelta"
        /\ UNCHANGED <<venue, now, orders, ledger>>
    BY <1>1, <1>5, <2>1, ThreadFacts DEF ToolHangs, Publishes
  <2> QED BY <2>1, <2>2, ThreadKeeps
<1>6. CASE ToolEndsLate(i)
  <2>1. PICK t \in Thread : t = publisher[i]
    BY ThreadFacts
  <2>2. /\ publisher' = [publisher EXCEPT ![i] = t] /\ Lists(i) /\ t.state = "timeout"
        /\ UNCHANGED <<venue, now, orders, ledger>> /\ venue = "EtherDelta"
    BY <1>6, <2>1, ThreadFacts DEF ToolEndsLate
  <2> QED BY <2>1, <2>2, ThreadKeeps
<1> QED
  BY <1>3, <1>4, <1>5, <1>6

LEMMA SubmitsKeeps ==
    ASSUME OffChainInv, NEW i \in DOMAIN orders, Submits(i)
    PROVE  OffChainInv'
<1>1. PICK t \in Thread : t = publisher[i]
  BY ThreadFacts
<1>2. /\ publisher' = [publisher EXCEPT ![i] = t] /\ Lists(i) /\ relayed \subseteq relayed'
      /\ UNCHANGED <<venue, now, orders, ledger>>
  BY <1>1, ThreadFacts DEF Submits, Lists
<1>3. /\ t.state # "none" => venue = "EtherDelta"
      /\ t.state = "sent" => orders[i] \in relayed'
      /\ t.state = "failed" => t.attempt = ATTEMPTS
  BY <1>1, <1>2, ThreadFacts
<1> QED
  BY <1>1, <1>2, <1>3, ThreadKeeps

(* Steps that leave the orders, the relayer and the threads as they are.   *)
LEMMA OrdersRest ==
    ASSUME OffChainInv, UNCHANGED <<orders, relayed, publisher>>, LedgerOK', now' \in Nat,
           \/ venue' = venue
           \/ venue = "none" /\ venue' \in Venues
    PROVE  OffChainInv'
<1>1. OffChainTypeOK'
  BY DEF OffChainInv, OffChainTypeOK
<1>2. ThreadsOK'
  <2>1. CASE venue' = venue
    BY <2>1 DEF OffChainInv, ThreadsOK
  <2>2. CASE venue = "none"
    <3>1. orders' = <<>>
      BY <2>2 DEF OffChainInv, OffChainTypeOK
    <3>2. Len(orders') = 0
      BY <3>1
    <3>3. \A i \in 1 .. Len(orders') : FALSE
      BY <3>2
    <3> QED BY <3>3 DEF ThreadsOK
  <2> QED BY <2>1, <2>2
<1> QED
  BY <1>1, <1>2 DEF OffChainInv

(* The amounts of the contract change only while orders do not, and never  *)
(* so that more is available.                                              *)
Ebbs ==
    \/ ledger' = ledger /\ now' = now
    \/ /\ orders' = orders /\ venue' = venue /\ now' \in Nat /\ now' >= now
       /\ \A h \in Hash : Available(h)' <= Available(h) /\ Entry(h)'.filled >= Entry(h).filled

LEMMA BookingKeeps ==
    ASSUME OffChainInv, NEW h \in Hash,
           \/ Cancels(h, h.buy)
           \/ \E amount \in Nat :
                  /\ Available(h) > 0
                  /\ Enter(h, [Entry(h) EXCEPT !.filled = @ + Smaller(amount, Available(h))])
                  /\ UNCHANGED <<venue, now, orders, relayed, publisher>>
    PROVE  OffChainInv' /\ Ebbs
<1>1. PICK e : /\ Enter(h, e)
               /\ UNCHANGED <<venue, now, orders, relayed, publisher>>
               /\ \/ \E amount \in Nat :
                         /\ e = [Entry(h) EXCEPT !.filled = @ + Smaller(amount, Available(h))]
                         /\ Available(h) > 0
                  \/ e = [Entry(h) EXCEPT !.cancelled = @ + Smaller(h.buy, Available(h))]
  <2>1. CASE Cancels(h, h.buy)
    BY <2>1 DEF Cancels
  <2>2. CASE \E amount \in Nat :
                /\ Available(h) > 0
                /\ Enter(h, [Entry(h) EXCEPT !.filled = @ + Smaller(amount, Available(h))])
                /\ UNCHANGED <<venue, now, orders, relayed, publisher>>
    BY <2>2
  <2> QED BY <2>1, <2>2
<1>2. /\ LedgerOK'
      /\ \A g \in Hash : Available(g)' <= Available(g) /\ Entry(g)'.filled >= Entry(g).filled
  <2>1. LedgerOK
    BY DEF OffChainInv
  <2> QED BY <1>1, <2>1, BookingEffect
<1>3. now' \in Nat /\ now' >= now /\ venue' = venue
  BY <1>1 DEF OffChainInv, OffChainTypeOK
<1>4. OffChainInv'
  BY <1>1, <1>2, <1>3, OrdersRest
<1> QED
  BY <1>1, <1>2, <1>3, <1>4 DEF Ebbs

LEMMA NewOrderType ==
    ASSUME OffChainTypeOK, NEW a \in OrderAmounts
    PROVE  /\ NewOrder(a, RandomSalt) \in SignedOrder /\ NewOrder(a, TimeSalt) \in SignedOrder
           /\ [NewOrder(a, RandomSalt) EXCEPT !.signature = HashFields(NewOrder(a, RandomSalt))]
                  \in SignedOrder
<1>1. a[1] \in Nat \ {0} /\ a[2] \in Buys
  BY OffChainAssumption DEF Buys
<1>2. PICK expiration \in Nat : expiration = Second + 1
  <2>1. now \in Nat
    BY DEF OffChainTypeOK
  <2> QED BY <2>1 DEF Second
<1>3. RandomSalt \in Nat /\ TimeSalt \in Nat
  <2>1. now \in Nat /\ Len(orders) \in Nat
    BY DEF OffChainTypeOK
  <2> QED BY <2>1, OffChainAssumption DEF RandomSalt, TimeSalt
<1>4. ASSUME NEW salt \in Nat
      PROVE  /\ NewOrder(a, salt) \in SignedOrder
             /\ [NewOrder(a, salt) EXCEPT !.signature = HashFields(NewOrder(a, salt))] \in SignedOrder
  <2>1. PICK o : o = NewOrder(a, salt)
    OBVIOUS
  <2>2. o = [pay |-> a[1], buy |-> a[2], fee |-> 0, salt |-> salt, expiration |-> expiration,
             signature |-> Unsigned]
    BY <1>2, <2>1 DEF NewOrder
  <2>3. o \in SignedOrder
    BY <1>1, <2>2 DEF SignedOrder
  <2>4. HashFields(o) \in Hash
    BY <2>3, HashType
  <2>5. [o EXCEPT !.signature = HashFields(o)] \in SignedOrder
    BY <2>3, <2>4 DEF SignedOrder
  <2> QED BY <2>1, <2>3, <2>5
<1> QED
  BY <1>3, <1>4

LEMMA OrderStep ==
    ASSUME OffChainInv, NEW i \in DOMAIN orders,
           \/ CalculateFees(i) \/ ConfigureOrder(i) \/ SignOrderV1(i) \/ SignOrderV2(i)
           \/ SubmitOrderV1(i) \/ SubmitOrderV2(i)
           \/ CancelOrderEtherDelta(i) \/ CancelOrderV1(i) \/ CancelOrderV2(i)
           \/ PublishOrder(i) \/ ToolEnds(i) \/ ToolHangs(i) \/ ToolEndsLate(i)
    PROVE  OffChainInv' /\ Ebbs
<1>1. orders[i] \in SignedOrder
  BY ThreadFacts
<1>2. CASE CalculateFees(i) \/ ConfigureOrder(i)
  <2>1. PICK fee \in Fees : Changes(i, [orders[i] EXCEPT !.fee = fee]) /\ venue # "EtherDelta"
    BY <1>2 DEF CalculateFees, ConfigureOrder
  <2>2. [orders[i] EXCEPT !.fee = fee] \in SignedOrder
    BY <1>1, OffChainAssumption DEF SignedOrder
  <2>3. OffChainInv'
    BY <2>1, <2>2, ChangesKeeps
  <2> QED BY <2>1, <2>3 DEF Changes, Ebbs
<1>3. CASE SignOrderV1(i) \/ SignOrderV2(i)
  <2>1. Changes(i, [orders[i] EXCEPT !.signature = HashFields(orders[i])]) /\ venue # "EtherDelta"
    BY <1>3 DEF SignOrderV1, SignOrderV2
  <2>2. HashFields(orders[i]) \in Hash
    BY <1>1, HashType
  <2>3. [orders[i] EXCEPT !.signature = HashFields(orders[i])] \in SignedOrder
    BY <1>1, <2>2 DEF SignedOrder
  <2>4. OffChainInv'
    BY <2>1, <2>3, ChangesKeeps
  <2> QED BY <2>1, <2>4 DEF Changes, Ebbs
<1>4. CASE SubmitOrderV1(i) \/ SubmitOrderV2(i)
  <2>1. Submits(i)
    BY <1>4 DEF SubmitOrderV1, SubmitOrderV2
  <2>2. OffChainInv'
    BY <2>1, SubmitsKeeps
  <2> QED BY <2>1, <2>2 DEF Submits, Ebbs
<1>5. CASE CancelOrderEtherDelta(i) \/ CancelOrderV1(i) \/ CancelOrderV2(i)
  <2>1. PICK h \in Hash : h = HashFields(orders[i]) /\ h.buy = orders[i].buy
    BY <1>1, HashType
  <2>2. Cancels(h, h.buy)
    BY <1>5, <2>1 DEF CancelOrderEtherDelta, CancelOrderV1, CancelOrderV2
  <2> QED BY <2>2, BookingKeeps
<1>6. CASE PublishOrder(i) \/ ToolEnds(i) \/ ToolHangs(i) \/ ToolEndsLate(i)
  <2>1. OffChainInv'
    BY <1>6, PublishingKeeps
  <2> QED BY <1>6, <2>1 DEF PublishOrder, ToolEnds, ToolHangs, ToolEndsLate, Ebbs
<1> QED
  BY <1>2, <1>3, <1>4, <1>5, <1>6

LEMMA FillStep ==
    ASSUME OffChainInv, NEW o \in relayed, NEW amount \in FillAmounts(o.buy), Fills(o, amount)
    PROVE  OffChainInv' /\ Ebbs
<1>1. o \in SignedOrder /\ amount \in Nat
  <2>1. o \in SignedOrder
    BY DEF OffChainInv, OffChainTypeOK
  <2>2. o.buy \in Buys
    BY <2>1 DEF SignedOrder
  <2> QED BY <2>1, <2>2, BuysAreAmounts
<1>2. PICK h \in Hash : h = HashFields(o)
  BY <1>1, HashType
<1>3. /\ Available(h) > 0
      /\ Enter(h, [Entry(h) EXCEPT !.filled = @ + Smaller(amount, Available(h))])
      /\ UNCHANGED <<venue, now, orders, relayed, publisher>>
  BY <1>2 DEF Fills
<1> QED
  BY <1>1, <1>3, BookingKeeps

LEMMA OffChainStep ==
    ASSUME OffChainInv, [OffChainNext]_offChainVars
    PROVE  OffChainInv' /\ Ebbs
<1>1. OffChainTypeOK /\ LedgerOK /\ now \in Nat
  BY DEF OffChainInv, OffChainTypeOK
<1>2. CASE ChooseVenue
  <2>1. LedgerOK' /\ now' \in Nat
    BY <1>1, <1>2, LedgerKept DEF ChooseVenue
  <2>2. OffChainInv'
    BY <1>2, <2>1, OrdersRest DEF ChooseVenue
  <2> QED BY <1>2, <2>2 DEF ChooseVenue, Ebbs
<1>3. CASE \E a \in OrderAmounts : CreateOrderEtherDelta(a) \/ CreateOrderV1(a) \/ CreateOrderV2(a)
  <2>1. PICK a \in OrderAmounts : CreateOrderEtherDelta(a) \/ CreateOrderV1(a) \/ CreateOrderV2(a)
    BY <1>3
  <2>2. PICK o \in SignedOrder : Creates(o) /\ venue # "none"
    BY <1>1, <2>1, NewOrderType DEF CreateOrderEtherDelta, CreateOrderV1, CreateOrderV2
  <2>3. OffChainInv'
    BY <2>2, CreatesKeeps
  <2> QED BY <2>2, <2>3 DEF Creates, Ebbs
<1>4. CASE \E i \in DOMAIN orders :
              \/ CalculateFees(i) \/ ConfigureOrder(i) \/ SignOrderV1(i) \/ SignOrderV2(i)
              \/ SubmitOrderV1(i) \/ SubmitOrderV2(i)
              \/ CancelOrderEtherDelta(i) \/ CancelOrderV1(i) \/ CancelOrderV2(i)
              \/ PublishOrder(i) \/ ToolEnds(i) \/ ToolHangs(i) \/ ToolEndsLate(i)
  BY <1>4, OrderStep
<1>5. CASE \E amount \in Deposits : Deposit(amount) \/ Withdraw(amount)
  <2>1. UNCHANGED <<venue, now, orders, relayed, ledger, publisher>>
    BY <1>5 DEF Deposit, Withdraw
  <2>2. LedgerOK' /\ now' \in Nat
    BY <1>1, <2>1, LedgerKept
  <2>3. OffChainInv'
    BY <2>1, <2>2, OrdersRest
  <2> QED BY <2>1, <2>3 DEF Ebbs
<1>6. CASE \/ \E o \in GetOrdersV1 : \E amount \in FillAmounts(o.buy) : FillOrderV1(o, amount)
           \/ \E o \in GetOrdersV2 : \E amount \in FillAmounts(o.buy) : FillOrderV2(o, amount)
           \/ \E o \in relayed : \E amount \in FillAmounts(o.buy) : Trades(o, amount)
  <2>1. PICK o \in relayed : \E amount \in FillAmounts(o.buy) : Fills(o, amount)
    BY <1>6 DEF GetOrdersV1, GetOrdersV2, FillOrderV1, FillOrderV2, Trades
  <2> QED BY <2>1, FillStep
<1>7. CASE Millisecond
  <2>1. /\ now' \in Nat /\ now' >= now
        /\ UNCHANGED <<venue, orders, relayed, ledger, deposited, publisher>>
    BY <1>1, <1>7 DEF Millisecond
  <2>2. LedgerOK' /\ \A h : Entry(h)' = Entry(h)
    BY <1>1, <2>1, LedgerKept
  <2>3. OffChainInv'
    BY <2>1, <2>2, OrdersRest
  <2>4. ASSUME NEW h \in Hash
        PROVE  Available(h)' <= Available(h) /\ Entry(h)'.filled >= Entry(h).filled
    <3>1. Entry(h).filled \in Nat /\ Entry(h).cancelled \in Nat /\ h.buy \in Nat
      BY <1>1, BuysAreAmounts DEF LedgerOK, Booked, Hash
    <3>2. Entry(h)' = Entry(h) /\ Available(h)' = Available(h) /\ Available(h) \in Int
      BY <2>2, <3>1 DEF Available
    <3> QED BY <3>1, <3>2
  <2> QED BY <2>1, <2>3, <2>4 DEF Ebbs
<1>8. CASE UNCHANGED offChainVars
  <2>1. UNCHANGED <<venue, now, orders, relayed, ledger, publisher>>
    BY <1>8 DEF offChainVars
  <2>2. LedgerOK' /\ now' \in Nat
    BY <1>1, <2>1, LedgerKept
  <2>3. OffChainInv'
    BY <2>1, <2>2, OrdersRest
  <2> QED BY <2>1, <2>3 DEF Ebbs
<1> QED
  BY <1>2, <1>3, <1>4, <1>5, <1>6, <1>7, <1>8 DEF OffChainNext

LEMMA OffChainStarts ==
    ASSUME OffChainInit
    PROVE  OffChainInv
<1>1. orders = <<>> /\ publisher = <<>> /\ relayed = {} /\ venue = "none" /\ now = 0
      /\ DOMAIN ledger = {}
  BY DEF OffChainInit
<1>2. OffChainTypeOK
  BY <1>1 DEF OffChainTypeOK
<1>3. LedgerOK
  <2>1. ASSUME NEW h \in Hash PROVE Booked(h, [filled |-> 0, cancelled |-> 0])
    <3>1. PICK e : e = [filled |-> 0, cancelled |-> 0]
      OBVIOUS
    <3>2. e \in [filled : Nat, cancelled : Nat] /\ e.filled = 0 /\ e.cancelled = 0
      BY <3>1
    <3>3. h.buy \in Nat
      BY BuysAreAmounts DEF Hash
    <3>4. e.filled + e.cancelled <= h.buy /\ ~(e.cancelled > 0)
      BY <3>2, <3>3
    <3> QED BY <3>1, <3>2, <3>4 DEF Booked
  <2> QED BY <1>1, <2>1 DEF LedgerOK, Entry
<1>4. ThreadsOK
  <2>1. Len(orders) = 0
    BY <1>1
  <2>2. \A i \in 1 .. Len(orders) : FALSE
    BY <2>1
  <2> QED BY <2>2 DEF ThreadsOK
<1> QED
  BY <1>2, <1>3, <1>4 DEF OffChainInv

(* publish_order of EtherDelta gives up only after number_of_attempts      *)
(* attempts, and what it calls sent is with the relayer                    *)
(* (etherdelta.py:587, 643): for any number of attempts and orders,        *)
(* whatever the other threads do.                                          *)
THEOREM AttemptsAreMade == OffChainSpec => []PublishedOrTried
<1>1. OffChainInit => OffChainInv
  BY OffChainStarts
<1>2. OffChainInv /\ [OffChainNext]_offChainVars => OffChainInv'
  BY OffChainStep
<1>3. OffChainInv => PublishedOrTried
  <2>1. SUFFICES ASSUME OffChainInv, NEW i \in DOMAIN publisher
                 PROVE  /\ publisher[i].state = "sent" => orders[i] \in relayed
                        /\ publisher[i].state = "failed" => publisher[i].attempt = ATTEMPTS
    BY DEF PublishedOrTried
  <2>2. i \in 1 .. Len(orders)
    BY <2>1 DEF OffChainInv, OffChainTypeOK
  <2> QED BY <2>1, <2>2 DEF OffChainInv, ThreadsOK
<1> QED
  BY <1>1, <1>2, <1>3, PTL DEF OffChainSpec

(* What remains to be bought of an order is what the contract has          *)
(* available, unless it expired at the second version of 0x.               *)
LEMMA WhatRemains ==
    ASSUME OffChainInv, NEW o \in SignedOrder, venue # "none"
    PROVE  /\ RemainingBuy(o) = IF venue = "ZrxExchangeV2" /\ Expired(HashFields(o)) THEN 0
                                ELSE Available(HashFields(o))
           /\ Available(HashFields(o)) \in 0 .. o.buy /\ o.buy \in Nat
           /\ venue \in {"EtherDelta", "ZrxExchange", "ZrxExchangeV2"}
<1>1. PICK h \in Hash : h = HashFields(o) /\ h.buy = o.buy
  BY HashType
<1>2. Booked(h, Entry(h)) /\ h.buy \in Nat
  BY BuysAreAmounts DEF OffChainInv, LedgerOK, Hash
<1>3. PICK f \in Nat : f = Entry(h).filled
  BY <1>2 DEF Booked
<1>4. PICK c \in Nat : c = Entry(h).cancelled
  BY <1>2 DEF Booked
<1>5. PICK b \in Nat : b = o.buy
  BY <1>1, <1>2
<1>6. f + c <= b /\ (c > 0 => f + c = b) /\ Available(h) = b - f - c
  BY <1>1, <1>2, <1>3, <1>4, <1>5 DEF Booked, Available
<1>7. AmountFilled(o) = f + c
  BY <1>1, <1>5, <1>6 DEF AmountFilled
<1>8. CASE venue = "EtherDelta"
  <2>1. RemainingBuy(o) = b - (f + c)
    BY <1>5, <1>7, <1>8 DEF RemainingBuy, RemainingBuyEtherDelta
  <2> QED BY <1>1, <1>5, <1>6, <1>8, <2>1
<1>9. CASE venue = "ZrxExchange"
  <2>1. RemainingBuy(o) = Larger(b - (f + c), 0)
    BY <1>5, <1>7, <1>9 DEF RemainingBuy, RemainingBuyV1, UnavailableV1
  <2>2. RemainingBuy(o) = b - (f + c)
    BY <1>6, <2>1 DEF Larger
  <2> QED BY <1>1, <1>5, <1>6, <1>9, <2>2
<1>10. CASE venue = "ZrxExchangeV2"
  <2>1. UnavailableV2(o) = IF Expired(h) \/ b - f - c = 0 THEN b ELSE f
    BY <1>1, <1>3, <1>5, <1>6 DEF UnavailableV2
  <2>2. RemainingBuy(o) = Larger(b - UnavailableV2(o), 0)
    BY <1>5, <1>10 DEF RemainingBuy, RemainingBuyV2
  <2>3. CASE Expired(h)
    <3>1. RemainingBuy(o) = 0
      BY <2>1, <2>2, <2>3 DEF Larger
    <3> QED BY <1>1, <1>5, <1>6, <1>10, <2>3, <3>1
  <2>4. CASE ~Expired(h) /\ b - f - c = 0
    <3>1. RemainingBuy(o) = 0
      BY <2>1, <2>2, <2>4 DEF Larger
    <3> QED BY <1>1, <1>5, <1>6, <1>10, <2>4, <3>1
  <2>5. CASE ~Expired(h) /\ b - f - c # 0
    <3>1. c = 0
      BY <1>6, <2>5
    <3>2. RemainingBuy(o) = b - f
      BY <1>6, <2>1, <2>2, <2>5, <3>1 DEF Larger
    <3>3. RemainingBuy(o) = Available(h)
      BY <1>6, <3>1, <3>2
    <3> QED BY <1>1, <1>5, <1>6, <1>10, <2>5, <3>3
  <2> QED BY <2>3, <2>4, <2>5
<1>11. venue \in {"EtherDelta", "ZrxExchange", "ZrxExchangeV2"}
  BY OffChainAssumption DEF OffChainInv, OffChainTypeOK
<1> QED
  BY <1>8, <1>9, <1>10, <1>11

WhatRemainsIs(o) ==
    OffChainInv /\ venue # "none" =>
        /\ RemainingBuy(o) = IF venue = "ZrxExchangeV2" /\ Expired(HashFields(o)) THEN 0
                             ELSE Available(HashFields(o))
        /\ Available(HashFields(o)) \in 0 .. o.buy

LEMMA WhatRemainsThroughout == (\A o \in SignedOrder : WhatRemainsIs(o))
                               /\ (\A o \in SignedOrder : WhatRemainsIs(o))'
<1>1. \A o \in SignedOrder : WhatRemainsIs(o)
  BY WhatRemains DEF WhatRemainsIs
<1>2. (\A o \in SignedOrder : WhatRemainsIs(o))'
  BY <1>1, PTL
<1> QED BY <1>1, <1>2

=============================================================================
