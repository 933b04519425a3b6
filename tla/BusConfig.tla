----------------------------- MODULE BusConfig -----------------------------
(***************************************************************************)
(* bus_config (bus_config.cpp): which buses an instrument reads and mixes  *)
(* into, the graph of aux buses this builds up, the check that it has no   *)
(* loop, and the play lists inTraverse() walks.  A bus slot keeps the      *)
(* fields auxin, out and auxout; the `in` channels take part in none of    *)
(* this.  Calls come from scores, one at a time.                           *)
(***************************************************************************)
EXTENDS Integers, Sequences, SequencesExt, FiniteSets

CONSTANTS
  MAXBUS,           \* one more than the number of buses
  NCHANS,           \* output channels
  Names,            \* instrument names
  Configs,          \* the bus slots scores ask for
  MaxConfigs        \* bound: calls of bus_config

ASSUME MaxbusAssumption == MAXBUS \in Nat /\ MAXBUS > 1
ASSUME NchansAssumption == NCHANS \in 1 .. MAXBUS - 1
ASSUME BoundAssumption == MaxConfigs \in Nat

(* What parse_bus_chan() lets through, but for negative channels, which     *)
(* index outside of the arrays.  A reversed range is an empty sequence.     *)
Bus == 0 .. MAXBUS - 2
BusSlots == [auxin : Seq(Bus), out : Seq(Bus), auxout : Seq(Bus)]
ASSUME ConfigsAssumption == Configs \subseteq BusSlots

NoSlot == [auxin |-> <<>>, out |-> <<>>, auxout |-> <<>>]
DefaultSlot == [NoSlot EXCEPT !.out = [i \in 1 .. NCHANS |-> i - 1]]

VARIABLES
  Bus_Config_Status,    \* has the graph been allocated?
  OutInUse,             \* buses named by an "out", kept as a set
  AuxOutInUse,          \* buses named by an "aux-out"
  graph,                \* AuxInUse, HasParent, HasChild and Bus_In_Config
  ToOutPlayList,        \* MAXBUS entries each, from index 1, -1 where unused
  ToAuxPlayList,
  AuxToAuxPlayList,
  aux_buffer,           \* aux buses with a buffer
  Inst_Bus_Config,      \* the slot registered for a name, if any
  calls,                \* bus_config calls so far
  accepted              \* history: every slot an instrument can have got

vars == <<Bus_Config_Status, OutInUse, AuxOutInUse, graph, ToOutPlayList,
          ToAuxPlayList, AuxToAuxPlayList, aux_buffer, Inst_Bus_Config, calls,
          accepted>>

Unused == [i \in 1 .. MAXBUS |-> -1]

Init ==
  /\ Bus_Config_Status = FALSE
  /\ OutInUse = {} /\ AuxOutInUse = {}
  /\ graph = [AuxInUse |-> {}, HasParent |-> {}, HasChild |-> {},
              BusIn |-> [b \in Bus |-> <<>>]]
  /\ ToOutPlayList = Unused /\ ToAuxPlayList = Unused
  /\ AuxToAuxPlayList = Unused
  /\ aux_buffer = {}
  /\ Inst_Bus_Config = [n \in Names |-> NoSlot]
  /\ calls = 0 /\ accepted = {}

(* A list is written from the start; the entries after the new ones stay.  *)
Ascending(S) ==
  LET upto[i \in 0 .. MAXBUS - 1] ==
        IF i = 0 THEN <<>>
        ELSE IF i - 1 \in S THEN Append(upto[i - 1], i - 1) ELSE upto[i - 1]
  IN  upto[MAXBUS - 1]
Rewrite(list, new) ==
  [i \in 1 .. MAXBUS |-> IF i <= Len(new) THEN new[i] ELSE list[i]]

(***************************************************************************)
(* check_bus_inst_config(): a breadth-first walk against the edges of the  *)
(* graph, from a list of buses.  It skips the buses in `visited`, and      *)
(* notes in `rev` (RevPlay) the buses with a parent, in the order met.     *)
(***************************************************************************)
Meet(g, w, b) ==
  IF g.BusIn[b] = <<>> \/ b \in w.visited
  THEN [w EXCEPT !.met = @ \cup {b}]
  ELSE [todo    |-> Append(w.todo, g.BusIn[b]),
        visited |-> w.visited \cup {b},
        rev     |-> IF b \in g.HasParent THEN Append(w.rev, b) ELSE w.rev,
        met     |-> w.met \cup {b}]

(* The loops over the buses of a node and over the nodes.  Every bus is    *)
(* visited once, so MAXBUS nodes of the queue are enough.                  *)
MeetAll(g, w, buses) ==
  LET after[i \in 0 .. Len(buses)] ==
        IF i = 0 THEN w ELSE Meet(g, after[i - 1], buses[i])
  IN  after[Len(buses)]
Serve(g, w) ==
  IF w.todo = <<>> THEN w
  ELSE MeetAll(g, [w EXCEPT !.todo = Tail(@)], Head(w.todo))
Walk(g, buses, visited) ==
  LET node[k \in 0 .. MAXBUS] ==
        IF k = 0
        THEN [todo |-> <<buses>>, visited |-> visited, rev |-> <<>>, met |-> {}]
        ELSE Serve(g, node[k - 1])
  IN  node[MAXBUS]

(* Mutant: only the slot's own inputs are compared with its outputs. *)
LoopsDirectly(g, slot) == ToSet(slot.auxin) \cap ToSet(slot.auxout) # {}
(* LOOP_ERR: a bus the slot writes is among those its inputs come from. *)
Loops(g, slot) == Walk(g, slot.auxin, {}).met \cap ToSet(slot.auxout) # {}

(***************************************************************************)
(* insert_bus_slot()                                                       *)
(***************************************************************************)
(* bus_list of a node with one more bus; it wraps around to empty. *)
AddIn(list, b) == IF Len(list) + 1 >= MAXBUS THEN <<>> ELSE Append(list, b)
AddIns(list, ins) ==
  LET upto[j \in 0 .. Len(ins)] ==
        IF j = 0 THEN list ELSE AddIn(upto[j - 1], ins[j])
  IN  upto[Len(ins)]
AddEdgesTo(b, busIn, ins) == [busIn EXCEPT ![b] = AddIns(@, ins)]
AddEdges(busIn, ins, outs) ==
  LET upto[i \in 0 .. Len(outs)] ==
        IF i = 0 THEN busIn
        ELSE AddEdgesTo(outs[i], upto[i - 1], ins)
  IN  upto[Len(outs)]

Inserted(g, slot) ==
  LET ins  == IF slot.auxout = <<>> THEN {} ELSE ToSet(slot.auxin)
      outs == ToSet(slot.auxout)
  IN  [AuxInUse  |-> g.AuxInUse \cup outs \cup ins,
       HasParent |-> g.HasParent \cup (IF ins = {} THEN {} ELSE outs),
       HasChild  |-> g.HasChild \cup ins,
       BusIn     |-> AddEdges(g.BusIn, slot.auxin, slot.auxout)]

(***************************************************************************)
(* create_play_order(): the buses without a parent, then from each bus     *)
(* without a child its ancestors, the last met first.  Only the first walk *)
(* starts with nothing visited.                                            *)
(***************************************************************************)
(* Mutant: RevPlay is read from the front. *)
BackwardsUnreversed(rev) == rev
Backwards(rev) == Reverse(rev)

(* Mutant: Visited is cleared for every walk. *)
TraverseAnew(g, leaf, visited) == Walk(g, <<leaf>>, {})
Traverse(g, leaf, visited) == Walk(g, <<leaf>>, visited)

(* The traversal from one more bus without a child. *)
Extend(g, acc, leaf) ==
  LET w == Traverse(g, leaf, acc.visited)
  IN  [visited |-> w.visited, order |-> acc.order \o Backwards(w.rev)]
Traversals(g, leaves) ==
  LET upto[i \in 0 .. Len(leaves)] ==
        IF i = 0 THEN [visited |-> {}, order |-> Ascending(g.AuxInUse \ g.HasParent)]
        ELSE Extend(g, upto[i - 1], leaves[i])
  IN  upto[Len(leaves)]
PlayOrder(g) == Traversals(g, Ascending(g.AuxInUse \ g.HasChild)).order

(***************************************************************************)
(* Calls.                                                                  *)
(***************************************************************************)
(* Parsing notes the buses in use, also where the slot is then refused. *)
Parse(slot) ==
  /\ OutInUse' = OutInUse \cup ToSet(slot.out)
  /\ AuxOutInUse' = AuxOutInUse \cup ToSet(slot.auxout)

(* Mutant: the list of the buses in use before this slot. *)
StaleList(list, inUse) == list
InUseList(list, inUse) == Rewrite(list, Ascending(inUse))

(* check_bus_inst_config() renews these two lists whatever it finds. *)
RenewLists ==
  /\ ToOutPlayList' = InUseList(ToOutPlayList, OutInUse')
  /\ ToAuxPlayList' = InUseList(ToAuxPlayList, AuxOutInUse')

(* bus_config(): an error is reported and does not end the call. *)
BusConfig(name, slot) ==
  LET ok == ~Loops(graph, slot)
  IN  /\ calls < MaxConfigs
      /\ calls' = calls + 1
      /\ Parse(slot)
      /\ RenewLists
      /\ Bus_Config_Status' = TRUE
      /\ graph' = IF ok THEN Inserted(graph, slot) ELSE graph
      /\ Inst_Bus_Config' =
           IF ok THEN [Inst_Bus_Config EXCEPT ![name] = slot] ELSE Inst_Bus_Config
      /\ accepted' = IF ok THEN accepted \cup {slot} ELSE accepted
      /\ aux_buffer' = aux_buffer \cup ToSet(slot.auxin) \cup ToSet(slot.auxout)
      /\ AuxToAuxPlayList' = Rewrite(AuxToAuxPlayList, PlayOrder(graph'))

(* The same with a bus name that does not parse, after the names in slot. *)
BusConfigError(slot) ==
  /\ calls < MaxConfigs
  /\ calls' = calls + 1
  /\ Parse(slot)
  /\ UNCHANGED <<Bus_Config_Status, graph, ToOutPlayList, ToAuxPlayList,
                 AuxToAuxPlayList, aux_buffer, Inst_Bus_Config, accepted>>

(* get_bus_config() for a name without a slot gives it the default one,    *)
(* which has no aux buses; it starts the lists over if it comes before any *)
(* bus_config.                                                             *)
GetBusConfig(name) ==
  LET Before(v, fresh) == IF Bus_Config_Status THEN v ELSE fresh
      chans == Rewrite(Before(ToOutPlayList, Unused), DefaultSlot.out)
  IN  /\ Inst_Bus_Config[name] = NoSlot
      /\ OutInUse' = Before(OutInUse, {}) \cup ToSet(DefaultSlot.out)
      /\ ToOutPlayList' = InUseList(chans, OutInUse')
      /\ ToAuxPlayList' = InUseList(Before(ToAuxPlayList, Unused), AuxOutInUse)
      /\ AuxToAuxPlayList' = Before(AuxToAuxPlayList, Unused)
      /\ Bus_Config_Status' = TRUE
      /\ Inst_Bus_Config' = [Inst_Bus_Config EXCEPT ![name] = DefaultSlot]
      /\ accepted' = accepted \cup {DefaultSlot}
      /\ UNCHANGED <<AuxOutInUse, graph, aux_buffer, calls>>

(* For a name with a slot it returns this slot. *)
GetKnownConfig(name) == Inst_Bus_Config[name] # NoSlot /\ UNCHANGED vars

Next ==
  \/ \E n \in Names, s \in Configs : BusConfig(n, s)
  \/ \E s \in Configs : BusConfigError(s)
  \/ \E n \in Names : GetBusConfig(n) \/ GetKnownConfig(n)

Spec == Init /\ [][Next]_vars

(***************************************************************************)
(* Properties.                                                             *)
(***************************************************************************)
Lists == [1 .. MAXBUS -> Bus \cup {-1}]
TypeOK ==
  /\ Bus_Config_Status \in BOOLEAN
  /\ OutInUse \subseteq Bus /\ AuxOutInUse \subseteq Bus
  /\ graph \in [AuxInUse : SUBSET Bus, HasParent : SUBSET Bus,
                HasChild : SUBSET Bus, BusIn : [Bus -> Seq(Bus)]]
  /\ ToOutPlayList \in Lists /\ ToAuxPlayList \in Lists
  /\ AuxToAuxPlayList \in Lists
  /\ aux_buffer \subseteq Bus
  /\ Inst_Bus_Config \in [Names -> BusSlots]
  /\ calls \in 0 .. MaxConfigs
  /\ accepted \subseteq BusSlots

(* Edges between aux buses through an instrument that can have been made.  *)
Edges ==
  UNION {ToSet(s.auxin) \X ToSet(s.auxout) : s \in accepted}

(* "bus_config loop ... config not allowed": no aux bus comes to feed      *)
(* itself, however many calls the loop is spread over.  (In each set of    *)
(* buses one has no input from the set.)                                   *)
Acyclic ==
  \A S \in (SUBSET {e[1] : e \in Edges}) \ {{}} :
    \E b \in S : \A a \in S : <<a, b>> \notin Edges

(* The part of a play list inTraverse() walks: up to the first -1.         *)
Played(list) ==
  LET ends == {i \in 1 .. MAXBUS : list[i] = -1}
      n    == CHOOSE i \in ends : \A j \in ends : i <= j
  IN  IF ends = {} THEN list ELSE SubSeq(list, 1, n - 1)
PlayLists == {ToOutPlayList, ToAuxPlayList, AuxToAuxPlayList}

(* No queue is played twice in a period.  As there are fewer buses than    *)
(* entries, every list then has its -1, at which the traversal stops.      *)
PlayedOnce == \A list \in PlayLists : IsInjective(Played(list))

(* Whatever an instrument is pushed on in inTraverse() is on the play list *)
(* of its class: no note stays in a queue that is never played.            *)
AllPlayed ==
  \A s \in accepted :
    /\ ToSet(s.out) \subseteq ToSet(Played(ToOutPlayList))
    /\ ToSet(s.auxout) \subseteq ToSet(Played(IF s.auxin = <<>> THEN ToAuxPlayList
                                                           ELSE AuxToAuxPlayList))

(* An aux bus is played before the aux buses made from it. *)
PlayedBefore(a, b) ==
  LET order == Played(AuxToAuxPlayList)
  IN  \E i, j \in 1 .. Len(order) : i < j /\ order[i] = a /\ order[j] = b
PlayedInOrder == \A e \in Edges : PlayedBefore(e[1], e[2])

(* The order is right where no bus feeds two others, so that from every    *)
(* bus only one path leads on.                                             *)
OnePath == \A a, b, c \in Bus : <<a, b>> \in Edges /\ <<a, c>> \in Edges => b = c
PlayedInOrderOnOnePath == OnePath => PlayedInOrder

(***************************************************************************)
(* The inductive invariant behind the properties above.  It relies on      *)
(* input lists that have room for every call: one that wraps is empty, and *)
(* the loop check and the play order lose the edges that were in it.       *)
(***************************************************************************)
Room ==
  \A s \in Configs : (Len(s.auxin) * Len(s.auxout)) * MaxConfigs < MAXBUS

(* HasParent and HasChild tell what the lists do, and all these are in use. *)
GraphShape(g) ==
  /\ g.HasParent = {b \in Bus : g.BusIn[b] # <<>>}
  /\ g.HasChild = UNION {ToSet(g.BusIn[b]) : b \in Bus}
  /\ g.HasParent \cup g.HasChild \subseteq g.AuxInUse
LoopFree(g) ==
  \A S \in (SUBSET Bus) \ {{}} : \E b \in S : \A a \in S : a \notin ToSet(g.BusIn[b])

GraphInv ==
  /\ \A a, b \in Bus : <<a, b>> \in Edges <=> a \in ToSet(graph.BusIn[b])
  /\ GraphShape(graph) /\ LoopFree(graph)
  /\ \A s \in accepted : ToSet(s.auxout) \subseteq graph.AuxInUse
  /\ \A b \in Bus : Len(graph.BusIn[b]) * MaxConfigs <= calls * (MAXBUS - 1)

(* A list holds the buses of a set in order, and -1 behind them.           *)
ListsInv ==
  /\ \E S \in SUBSET OutInUse :
       /\ ToOutPlayList = Rewrite(Unused, Ascending(S))
       /\ \A s \in accepted : ToSet(s.out) \subseteq S
  /\ \E S \in SUBSET AuxOutInUse :
       /\ ToAuxPlayList = Rewrite(Unused, Ascending(S))
       /\ \A s \in accepted : ToSet(s.auxout) \subseteq S
  /\ AuxToAuxPlayList = Rewrite(Unused, PlayOrder(graph))
  /\ ~Bus_Config_Status =>
       /\ accepted = {}
       /\ {ToOutPlayList, ToAuxPlayList, AuxToAuxPlayList} = {Unused}

BusInv == TypeOK /\ GraphInv /\ ListsInv
=============================================================================
