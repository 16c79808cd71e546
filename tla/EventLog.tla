------------------------------ MODULE EventLog ------------------------------
(***************************************************************************)
(* The retrieval of past events in chunks of blocks: past_logs of Vat, in  *)
(* src/pymaker/dss.py, and get_past_lognotes with past_logs and            *)
(* parse_event of the auction contracts, in auctions.py.  The chain grows, *)
(* and its head may be replaced, between two requests.                     *)
(*                                                                         *)
(* An event is its kind and its number in the order of emission.  The      *)
(* filters by collateral type and the fields of an event are left out.     *)
(***************************************************************************)
EXTENDS Integers, SequencesExt

CONSTANTS
    LogClients,     \* among "Vat", "Flipper", "Flapper", "Flopper", "Clipper"
    BlockKinds,     \* the kinds of events of a block, as sequences
    CHUNK,          \* chunk_size
    MaxBlocks,      \* bound: the length of the chain
    MaxReorgs       \* bound: replaced head blocks

ASSUME EventLogAssumption ==
    /\ LogClients \subseteq {"Vat", "Flipper", "Flapper", "Flopper", "Clipper"}
    /\ BlockKinds \subseteq Seq(STRING)
    /\ CHUNK \in Nat \ {0} /\ MaxBlocks \in Nat \ {0}
    /\ MaxReorgs \in Nat

VARIABLES
    chain,      \* the events of each block
    emitted,    \* how many events there have been
    reorgs,     \* how many heads were replaced
    scan        \* the retrieval in progress

eventLogVars == <<chain, emitted, reorgs, scan>>

NoScan == [client |-> "none", state |-> "idle", from |-> 0, to |-> 0, start |-> 0,
           events |-> <<>>, include |-> {}, reorgs |-> 0]

EventLogInit ==
    /\ chain = <<>> /\ emitted = 0 /\ reorgs = 0 /\ scan = NoScan

(* The events of a new block. *)
BlockEvents ==
    {[n \in DOMAIN kinds |-> [kind |-> kinds[n], number |-> emitted + n]] : kinds \in BlockKinds}

EventsOfBlocks(blocks) == FlattenSeq(blocks)

BlockMined ==
    /\ Len(chain) < MaxBlocks
    /\ \E events \in BlockEvents :
        chain' = Append(chain, events) /\ emitted' = emitted + Len(events)
    /\ UNCHANGED <<reorgs, scan>>

HeadReplaced ==
    /\ reorgs < MaxReorgs /\ chain # <<>>
    /\ \E events \in BlockEvents :
        /\ chain' = [chain EXCEPT ![Len(chain)] = events]
        /\ emitted' = emitted + Len(events)
    /\ reorgs' = reorgs + 1
    /\ UNCHANGED scan

-----------------------------------------------------------------------------
(* What each client makes of the events of a chunk. *)

(* The kinds that parse_event or past_logs recognises; kick, take and redo *)
(* are events of their own, the others are recognised in a LogNote.        *)
FlipperKinds == {"kick", "tend", "dent", "deal"}

FlapperKinds == {"kick", "tend", "deal"}

FlopperKinds == {"kick", "dent", "deal"}

ClipperKinds == {"kick", "take", "redo"}

VatKinds == {"frob"} \cup scan.include

WantedKinds ==
    CASE scan.client = "Vat" -> VatKinds
      [] scan.client = "Flipper" -> FlipperKinds
      [] scan.client = "Flapper" -> FlapperKinds
      [] scan.client = "Flopper" -> FlopperKinds
      [] scan.client = "Clipper" -> ClipperKinds

(* The events of some kinds, in the same order. *)
OfKinds(events, kinds) ==
    LET upTo[n \in 0 .. Len(events)] ==
            IF n = 0 THEN <<>>
            ELSE IF events[n].kind \in kinds THEN Append(upTo[n - 1], events[n])
            ELSE upTo[n - 1]
    IN  upTo[Len(events)]

(* Vat collects the frobs of a chunk, then the moves, then the forks. *)
GroupedByKind(events) ==
    OfKinds(events, {"frob"}) \o OfKinds(events, {"move"} \cap scan.include)
        \o OfKinds(events, {"fork"} \cap scan.include)

(* The auctions keep the order. *)
InOrder(events) == OfKinds(events, WantedKinds)

-----------------------------------------------------------------------------

(* A mutant: a chunk may reach beyond the last block. *)
WholeChunk(start) == start + CHUNK

ChunkEnd(start) == IF scan.to < start + CHUNK THEN scan.to ELSE start + CHUNK

NextStart(start) == start + CHUNK

Starts(who, from, to, include) ==
    /\ scan.state = "idle"
    /\ scan' = [NoScan EXCEPT !.client = who, !.state = "scanning", !.from = from,
                              !.to = to, !.start = from, !.include = include,
                              !.reorgs = reorgs]
    /\ UNCHANGED <<chain, emitted, reorgs>>

(* past_logs of Vat: any part of the chain; get_past_lognotes: not from    *)
(* the head only.  Without to_block, up to the current block.              *)
PastLogsOfVat ==
    /\ "Vat" \in LogClients
    /\ \E from \in DOMAIN chain : \E to \in from .. Len(chain) :
        \E include \in SUBSET {"move", "fork"} : Starts("Vat", from, to, include)

PastLognotes ==
    \E who \in LogClients \ {"Vat"}, from \in DOMAIN chain : \E to \in from .. Len(chain) :
        from < Len(chain) /\ Starts(who, from, to, {})

(* getLogs of the node: the blocks that there are. *)
GetLogs ==
    LET end == Min({ChunkEnd(scan.start), Len(chain)})
    IN  EventsOfBlocks(SubSeq(chain, scan.start, end))

Receives(events) ==
    LET start == NextStart(scan.start)
    IN  /\ scan' = [scan EXCEPT !.events = @ \o events, !.start = start,
                                !.state = IF start <= scan.to THEN "scanning" ELSE "done"]
        /\ UNCHANGED <<chain, emitted, reorgs>>

VatChunk ==
    scan.state = "scanning" /\ scan.client = "Vat" /\ Receives(GroupedByKind(GetLogs))

AuctionChunk ==
    scan.state = "scanning" /\ scan.client # "Vat" /\ Receives(InOrder(GetLogs))

EventLogNext ==
    \/ BlockMined \/ HeadReplaced
    \/ PastLogsOfVat \/ PastLognotes
    \/ VatChunk \/ AuctionChunk

EventLogSpec == EventLogInit /\ [][EventLogNext]_eventLogVars

-----------------------------------------------------------------------------

Wanted == OfKinds(EventsOfBlocks(SubSeq(chain, scan.from, scan.to)), WantedKinds)

Undisturbed == scan.state = "done" /\ scan.reorgs = reorgs

(* Whatever was mined meanwhile, the result has every event of the blocks  *)
(* asked for and no other; events occur twice at most, and only those of   *)
(* the blocks where two chunks meet (dss.py:406, auctions.py:115).         *)
EventsComplete ==
    LET Times(e) == Cardinality({n \in DOMAIN scan.events : scan.events[n] = e})
        Meeting == {b \in scan.from + 1 .. scan.to : (b - scan.from) % CHUNK = 0}
        Doubled == UNION {ToSet(chain[b]) : b \in Meeting}
    IN  /\ ToSet(scan.events) = ToSet(Wanted)
        /\ \A e \in ToSet(scan.events) : Times(e) = 1 \/ (Times(e) = 2 /\ e \in Doubled)

(* A replay of an auction's history, which takes each event as it comes,   *)
(* ends with its last event: the events that are repeated are repeated     *)
(* before any later one (auctions.py:114).                                 *)
ReplayEndsRight ==
    scan.client # "Vat" /\ scan.events # <<>> =>
        /\ Last(scan.events) = Last(Wanted)
        /\ \A n \in 1 .. Len(scan.events) - 1 :
              scan.events[n + 1].number <= scan.events[n].number =>
                  \E b \in DOMAIN chain :
                      {scan.events[n], scan.events[n + 1]} \subseteq ToSet(chain[b])

(* Retrieval in chunks is as good as in one piece, but for repetitions     *)
(* that a replay does not notice, unless a head was replaced meanwhile.    *)
ScanIsComplete == Undisturbed => EventsComplete /\ ReplayEndsRight
=============================================================================
