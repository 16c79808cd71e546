----------------------------- MODULE PastEvents -----------------------------
(***************************************************************************)
(* The past_ methods that retrieve the events of the last blocks:          *)
(* _past_events of src/pymaker/__init__.py and those that call it.  The    *)
(* caller asks again and again, as a keeper does, while blocks are mined   *)
(* and the head of the chain is replaced.  Filters by the arguments of an  *)
(* event are left out.  Blocks count from 1; block 0 has no events.        *)
(***************************************************************************)
EXTENDS Integers, SequencesExt

CONSTANTS
    Window,         \* number_of_past_blocks
    MaxPastBlocks,  \* bound: the length of the chain
    MaxReplaced     \* bound: replaced head blocks

ASSUME PastEventsAssumption ==
    Window \in Nat /\ MaxPastBlocks \in Nat /\ MaxReplaced \in Nat

VARIABLES
    source,     \* the contract asked, and the event asked for
    blocks,     \* the events of each block
    logged,     \* how many events there have been
    replaced,   \* how many heads were replaced
    past,       \* the call in progress
    polls       \* history: what calls returned, and whether they came in time

pastEventsVars == <<source, blocks, logged, replaced, past, polls>>

(* The events that the client of each contract retrieves. *)
MarketEvents == {"LogMake", "LogBump", "LogTake", "LogKill"}

EtherDeltaEvents == {"Trade"}

ZrxEvents == {"LogFill", "LogCancel"}

ZrxV2Events == {"Fill", "Cancel"}

CatEvents == {"Bite"}

DogEvents == {"Bark"}

FactoryEvents == {"Created"}

ChiefEvents == {"Etch"}

ContractEvents ==
    {MarketEvents, EtherDeltaEvents, ZrxEvents, ZrxV2Events,
     CatEvents, DogEvents, FactoryEvents, ChiefEvents}

Sources == UNION {{[events |-> events, event |-> e] : e \in events} : events \in ContractEvents}

NoPast == [state |-> "idle", from |-> 0, to |-> 0]

PastEventsInit ==
    /\ source \in Sources
    /\ blocks = <<>> /\ logged = 0 /\ replaced = 0
    /\ past = NoPast
    /\ polls = [begin |-> 0, covered |-> 0, inTime |-> TRUE, seen |-> {}]

(* A block with one event at most. *)
NewBlocks ==
    {<<>>} \cup {<<[event |-> e, number |-> logged + 1]>> : e \in source.events}

PastBlockMined ==
    /\ Len(blocks) < MaxPastBlocks
    /\ \E b \in NewBlocks : blocks' = Append(blocks, b) /\ logged' = logged + Len(b)
    /\ UNCHANGED <<source, replaced, past, polls>>

PastHeadReplaced ==
    /\ replaced < MaxReplaced /\ blocks # <<>>
    /\ \E b \in NewBlocks :
          blocks' = [blocks EXCEPT ![Len(blocks)] = b] /\ logged' = logged + Len(b)
    /\ replaced' = replaced + 1
    /\ UNCHANGED <<source, past, polls>>

(* A mutant: as many blocks as asked for, the current one among them. *)
WindowLess(block_number) == Max({block_number - Window + 1, 0})

FromBlock(block_number) == Max({block_number - Window, 0})

(* _past_events asks for the number of the block.  The call is in time if  *)
(* there are no more new blocks since the last one than it looks back.     *)
AskBlockNumber ==
    /\ past.state = "idle"
    /\ LET n == Len(blocks)
       IN  /\ past' = [state |-> "asked", from |-> FromBlock(n), to |-> n]
           /\ polls' = [polls EXCEPT
                  !.begin = IF polls.covered = 0 THEN FromBlock(n) ELSE @,
                  !.inTime = @ /\ (polls.covered = 0 \/ n - polls.covered <= Window),
                  !.covered = n]
    /\ UNCHANGED <<source, blocks, logged, replaced>>

(* past_etch_in_range: the caller says which blocks, however recent. *)
PastEtchInRange ==
    /\ past.state = "idle" /\ source.events = ChiefEvents
    /\ \E from, to \in 0 .. MaxPastBlocks :
          past' = [state |-> "asked", from |-> from, to |-> to]
    /\ UNCHANGED <<source, blocks, logged, replaced, polls>>

(* get_all_entries of a filter: the events of a range of blocks. *)
Entries(from, to) ==
    {e \in UNION {ToSet(blocks[b]) : b \in from .. to \cap DOMAIN blocks} : e.event = source.event}

(* _past_events_in_block_range, up to the block that was current. *)
GetAllEntries ==
    /\ past.state = "asked"
    /\ past' = NoPast
    /\ polls' = [polls EXCEPT !.seen = @ \cup Entries(past.from, past.to)]
    /\ UNCHANGED <<source, blocks, logged, replaced>>

PastEventsNext ==
    \/ PastBlockMined \/ PastHeadReplaced
    \/ AskBlockNumber \/ PastEtchInRange \/ GetAllEntries

PastEventsSpec == PastEventsInit /\ [][PastEventsNext]_pastEventsVars

-----------------------------------------------------------------------------

(* A caller that looks back at least as many blocks as there are new ones  *)
(* since its last call misses no event, neither one of a block mined while *)
(* it asked nor one of a head replaced after it asked: everything in the   *)
(* blocks below the last one that it saw as current has been returned      *)
(* (__init__.py:216-219).                                                  *)
PollsMissNothing ==
    past.state = "idle" /\ polls.inTime =>
        Entries(polls.begin, polls.covered - 1) \subseteq polls.seen
=============================================================================
