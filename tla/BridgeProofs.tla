---------------------------- MODULE BridgeProofs ----------------------------
(***************************************************************************)
(* Theorems about Bridge, for any number of nodes, handlers, requests and  *)
(* faults.  Types hold whatever overlaps.  That switches complete and that *)
(* the places agree is proved of requests that come one after the other:   *)
(* nothing locks what the handlers share.                                  *)
(***************************************************************************)
EXTENDS Bridge, FiniteSetTheorems, TLAPS

OneByOne == MaxActive = 1

\* sing-box.json, if sing-box runs, has been given the nodes of list l.
Fresh(l) == sb # Down /\ Valid(l) => sbjson = Last(l)

\* The five places that say which mode it is agree.
Agreed ==
    /\ EffectiveMode = toml.socks /\ tp.socks = toml.socks
    /\ boot = toml.socks /\ (sb # Down) = toml.socks

\* As many failures as RenderedMatchesNodes allows, and no reboot after one of them.
Mild == faults <= 1 /\ ~mishap /\ (faults = 0 \/ RebootAfter \subseteq {0})

\* The system between two requests, and beside one that has not written yet, if l is the list.
Settled(l) ==
    /\ faults = 0 => Agreed /\ (sb # Down => Valid(l))
    /\ Mild => Fresh(l)

\* A request that has not written anything yet.
Reading(h) ==
    pc[h] \in {"en_nodes", "nd_save", "nd_save_last", "ping", "us_detect", "us_write"} =>
        /\ Settled(list)
        /\ pc[h] \in {"en_nodes", "nd_save", "nd_save_last"} => job[h].previous = list
        /\ pc[h] = "en_nodes" => (faults = 0 /\ sb # Down => Valid(job[h].new))
        /\ pc[h] = "nd_save_last" => job[h].last /\ ~Valid(job[h].new)
        /\ pc[h] = "ping" => job[h].new = list
        /\ pc[h] = "us_write" => job[h].snapshot.socks = toml.socks

\* One that has saved its list, and not yet rendered it or not yet restored the one before.
Saved(h) ==
    pc[h] \in {"en_json", "nd_render", "nd_restore"} =>
        /\ list = job[h].new /\ Settled(job[h].previous)
        /\ pc[h] = "en_json" => (faults = 0 /\ sb # Down => Valid(list))
        /\ pc[h] = "nd_restore" => (faults = 0 => ~Valid(list))

\* The list before, if it is restored, is the one sing-box.json is restored to.
Restorable(h) ==
    Mild /\ sb # Down /\ Valid(job[h].previous) => job[h].json = Last(job[h].previous)

\* Enable from the rendering on.
Enabling(h) ==
    /\ pc[h] = "en_cursor" => list = job[h].new /\ Valid(list) /\ sbjson = Render(list)
    /\ pc[h] \in {"en_toml", "en_start", "en_restart", "en_check", "en_mode"} =>
          /\ list = Advanced(job[h].new) /\ Valid(list) /\ sbjson = Last(list)
          /\ pc[h] # "en_toml" => toml = Upstream(h)
          /\ pc[h] \in {"en_restart", "en_check", "en_mode"} => boot /\ sb = sbjson
          /\ pc[h] \in {"en_check", "en_mode"} => tp = toml

\* Its rollback; without a failure there is one only in Single mode.
RollingBack(h) ==
    pc[h] \in {"rb_nodes", "rb_toml", "rb_stop", "rb_disable", "rb_restart"} =>
        /\ faults = 0 => Agreed /\ sb = Down
        /\ Mild /\ pc[h] \in {"rb_disable", "rb_restart"} => sb = Down
        /\ ~job[h].errs =>
              /\ pc[h] # "rb_nodes" => list = job[h].previous
              /\ pc[h] \in {"rb_stop", "rb_disable", "rb_restart"} => toml = Direct(h)
              /\ pc[h] \in {"rb_disable", "rb_restart"} => sb = Down

\* The list that Disable leaves, or that is restored if it fails.
Kept(h) == IF job[h].last THEN job[h].previous ELSE list

\* Disable and its rollback.
Disabling(h) ==
    pc[h] \in {"di_stop", "di_disable", "di_toml", "di_restart", "di_mode",
               "dr_toml", "dr_restart", "dr_start"} =>
        /\ job[h].last => list = job[h].new /\ ~Valid(list)
        /\ Mild /\ (sb # Down \/ job[h].wasActive) /\ Valid(Kept(h)) => sbjson = Last(Kept(h))
        /\ pc[h] \in {"di_disable", "di_toml", "di_restart", "di_mode"} => sb = Down
        /\ pc[h] \in {"di_toml", "di_restart", "di_mode"} => ~boot
        /\ pc[h] \in {"di_restart", "di_mode"} => toml = Direct(h)
        /\ pc[h] = "di_mode" => tp = toml
        /\ pc[h] \in {"dr_toml", "dr_restart", "dr_start"} => faults > 0
        /\ ~job[h].errs /\ pc[h] \in {"dr_restart", "dr_start"} => toml = job[h].snapshot
        /\ ~job[h].errs /\ pc[h] = "dr_start" => tp = toml

\* The nodes have been rendered, or partly so.
Rendering(h) ==
    /\ pc[h] = "nd_cursor" =>
          /\ list = job[h].new /\ Valid(list) /\ sbjson = Render(list)
          /\ (faults = 0 => Agreed) /\ Restorable(h)
    /\ pc[h] = "nd_unrender" => list = job[h].new /\ faults > 0 /\ Restorable(h)

Doing(h) ==
    Reading(h) /\ Saved(h) /\ Enabling(h) /\ RollingBack(h) /\ Disabling(h) /\ Rendering(h)

Rest == Idle => Settled(list)

OneAtWork ==
    /\ \A g, h \in Handlers : pc[g] # "idle" /\ pc[h] # "idle" => g = h
    /\ mishap => faults > 0

Inductive == OneAtWork /\ Rest /\ \A h \in Handlers : Doing(h)

-----------------------------------------------------------------------------
(* The list of nodes. *)

LEMMA Numbers ==
    /\ MaxNode \in Nat /\ MaxNode > 0
    /\ MaxActive \in Nat /\ MaxRequests \in Nat /\ MaxFaults \in Nat
    /\ RebootAfter \subseteq Nat
  BY BridgeAssumption

LEMMA ListMade ==
    ASSUME NEW ids \in SUBSET Ids, NEW nodes \in [ids -> Node], NEW rr \in BOOLEAN,
           NEW c \in 0..MaxNode - 1
    PROVE  [nodes |-> nodes, roundrobin |-> rr, cursor |-> c] \in NodeList
  <1>1. nodes \in UNION {[i -> Node] : i \in SUBSET Ids}
    OBVIOUS
  <1>2. QED
    BY <1>1 DEF NodeList

LEMMA ListParts ==
    ASSUME NEW nl \in NodeList
    PROVE  /\ DOMAIN nl.nodes \subseteq Ids /\ nl.nodes \in [DOMAIN nl.nodes -> Node]
           /\ nl.roundrobin \in BOOLEAN /\ nl.cursor \in 0..MaxNode - 1 /\ nl.cursor \in Nat
           /\ nl = [nodes |-> nl.nodes, roundrobin |-> nl.roundrobin, cursor |-> nl.cursor]
  <1>1. nl.nodes \in UNION {[i -> Node] : i \in SUBSET Ids}
    BY DEF NodeList
  <1>2. PICK ids \in SUBSET Ids : nl.nodes \in [ids -> Node]
    BY <1>1
  <1>3. DOMAIN nl.nodes = ids
    BY <1>2
  <1>4. QED
    BY <1>2, <1>3, Numbers DEF NodeList

LEMMA ActiveParts ==
    ASSUME NEW nl \in NodeList
    PROVE  /\ Active(nl) \subseteq Ids /\ IsFiniteSet(Active(nl))
           /\ Cardinality(Active(nl)) \in 0..MaxNode /\ Cardinality(Active(nl)) \in Nat
           /\ Cardinality(Active(nl)) = 0 <=> Active(nl) = {}
  <1>1. IsFiniteSet(Ids) /\ Cardinality(Ids) = MaxNode
    BY FS_Interval, Numbers DEF Ids
  <1>2. Active(nl) \subseteq Ids
    BY ListParts DEF Active
  <1>3. IsFiniteSet(Active(nl)) /\ Cardinality(Active(nl)) <= Cardinality(Ids)
    BY <1>1, <1>2, FS_Subset
  <1>4. Cardinality(Active(nl)) \in Nat
    BY <1>3, FS_CardinalityType
  <1>5. QED
    BY <1>1, <1>2, <1>3, <1>4, FS_EmptySet, Numbers

\* Numbering the elements of a set of ids from 0 leaves none out.
LEMMA NthType ==
    ASSUME NEW S \in SUBSET Ids, NEW n \in 0..Cardinality(S) - 1
    PROVE  Nth(S, n) \in S
  <1> DEFINE below(id) == {i \in S : i < id}
             size == Cardinality(S)
             rank == [id \in S |-> Cardinality(below(id))]
  <1>1. IsFiniteSet(S) /\ size \in Nat
    <2>1. IsFiniteSet(Ids)
      BY FS_Interval, Numbers DEF Ids
    <2>2. IsFiniteSet(S)
      BY <2>1, FS_Subset
    <2>3. QED
      BY <2>2, FS_CardinalityType
  <1>2. ASSUME NEW id \in S
        PROVE  /\ IsFiniteSet(below(id)) /\ Cardinality(below(id)) \in 0..size - 1
               /\ Cardinality(below(id)) \in Nat
               /\ id \notin below(id) /\ id \in Nat
    <2>1. id \notin below(id) /\ below(id) \subseteq S /\ below(id) # S /\ id \in Nat
      BY DEF Ids
    <2>2. IsFiniteSet(below(id)) /\ Cardinality(below(id)) <= size
          /\ (size = Cardinality(below(id)) => S = below(id))
      BY <1>1, <2>1, FS_Subset
    <2>3. Cardinality(below(id)) \in Nat
      BY <2>2, FS_CardinalityType
    <2>4. QED
      BY <1>1, <2>1, <2>2, <2>3
  <1>3. ASSUME NEW a \in S, NEW b \in S, a < b PROVE Cardinality(below(a)) < Cardinality(below(b))
    <2>1. a \in Nat /\ b \in Nat /\ a \in below(b) /\ a \notin below(a)
      BY <1>2, <1>3
    <2>2. \A i \in Nat : i < a => i < b
      BY <1>3, <2>1
    <2>3. below(a) \subseteq below(b)
      BY <1>2, <2>2
    <2>4. IsFiniteSet(below(b)) /\ Cardinality(below(a)) \in Nat /\ Cardinality(below(b)) \in Nat
      BY <1>2
    <2> HIDE DEF below
    <2>5. Cardinality(below(a)) <= Cardinality(below(b))
          /\ (Cardinality(below(b)) = Cardinality(below(a)) => below(b) = below(a))
      BY <2>3, <2>4, FS_Subset
    <2>6. QED
      BY <2>1, <2>4, <2>5
  <1>4. ASSUME NEW a \in S, NEW b \in S, rank[a] = rank[b] PROVE a = b
    <2>1. a \in Nat /\ b \in Nat
      BY <1>2
    <2>2. Cardinality(below(a)) = Cardinality(below(b))
      BY <1>4
    <2>3. Cardinality(below(a)) \in Nat
      BY <1>2
    <2> HIDE DEF below
    <2>4. ~(a < b) /\ ~(b < a)
      BY <1>3, <2>2, <2>3
    <2>5. QED
      BY <2>1, <2>4
  <1>5. rank \in [S -> 0..size - 1]
    BY <1>2
  <1> HIDE DEF rank, below, size
  <1>6. rank \in Injection(S, 0..size - 1)
    BY <1>4, <1>5 DEF Injection, IsInjective
  <1>7. IsFiniteSet(0..size - 1) /\ Cardinality(0..size - 1) = size
    BY <1>1, FS_Interval
  <1>8. rank \in Surjection(S, 0..size - 1)
    BY <1>6, <1>7, FS_Injection DEF size
  <1>9. PICK id \in S : rank[id] = n
    BY <1>8 DEF Surjection, size
  <1>10. Cardinality({i \in S : i < id}) = n
    BY <1>9 DEF rank, below
  <1>11. QED
    BY <1>10 DEF Nth

LEMMA Remainder ==
    ASSUME NEW n \in Nat, n > 0, NEW c \in Nat
    PROVE  c % n \in 0..n - 1
  OBVIOUS

LEMMA Back ==
    ASSUME NEW n \in Nat, n > 0, NEW c \in 0..n - 1
    PROVE  /\ c % n = c
           /\ (((c + 1) % n) + n - 1) % n = c
  <1>1. c % n = c
    OBVIOUS
  <1>2. CASE c + 1 < n
    <2>1. (c + 1) % n = c + 1
      BY <1>2
    <2>2. (c + n) % n = c
      OBVIOUS
    <2>3. QED
      BY <1>1, <2>1, <2>2
  <1>3. CASE c + 1 = n
    <2>1. (c + 1) % n = 0
      BY <1>3
    <2>2. (n - 1) % n = n - 1
      OBVIOUS
    <2>3. QED
      BY <1>1, <1>3, <2>1, <2>2
  <1>4. QED
    BY <1>2, <1>3

-----------------------------------------------------------------------------
(* Rendering. *)

LEMMA ValidParts ==
    ASSUME NEW nl \in NodeList, Valid(nl)
    PROVE  /\ Active(nl) # {} /\ Cardinality(Active(nl)) > 0
           /\ Rotates(nl) <=> nl.roundrobin
  BY ActiveParts, ListParts DEF Valid, Rotates

LEMMA RenderedType ==
    ASSUME NEW nl \in NodeList, Active(nl) # {}, NEW n \in 0..Cardinality(Active(nl)) - 1
    PROVE  Rendered(nl, n) \in Outbounds /\ Rendered(nl, n) # Down
  <1> DEFINE revs == [id \in Active(nl) |-> nl.nodes[id].rev]
  <1>1. Nth(Active(nl), n) \in 0..MaxNode
    <2>1. Active(nl) \in SUBSET Ids
      BY ActiveParts
    <2>2. Nth(Active(nl), n) \in Ids
      BY <2>1, NthType
    <2>3. QED
      BY <2>2, Numbers DEF Ids
  <1>2. revs \in UNION {[ids -> 0..1] : ids \in SUBSET Ids}
    <2>1. ASSUME NEW id \in Active(nl) PROVE nl.nodes[id].rev \in 0..1
      BY ListParts DEF Active, Node
    <2>2. revs \in [Active(nl) -> 0..1] /\ Active(nl) \in SUBSET Ids
      BY <2>1, ActiveParts
    <2>3. QED
      BY <2>2
  <1>3. DOMAIN revs # DOMAIN [id \in {} |-> 0]
    OBVIOUS
  <1> HIDE DEF revs
  <1>4. Rendered(nl, n) = [revs |-> revs, first |-> Nth(Active(nl), n)]
    BY DEF Rendered, revs
  <1>5. QED
    BY <1>1, <1>2, <1>3, <1>4 DEF Outbounds, Down

LEMMA DownType == Down \in Outbounds
  <1>1. [id \in {} |-> 0] \in [{} -> 0..1] /\ {} \in SUBSET Ids
    OBVIOUS
  <1>2. [id \in {} |-> 0] \in UNION {[ids -> 0..1] : ids \in SUBSET Ids}
    BY <1>1
  <1>3. QED
    BY <1>2, Numbers DEF Outbounds, Down

LEMMA OffsetType ==
    ASSUME NEW nl \in NodeList, Active(nl) # {}
    PROVE  /\ Offset(nl) \in 0..Cardinality(Active(nl)) - 1
           /\ Rotates(nl) => Offset(nl) = nl.cursor % Cardinality(Active(nl))
           /\ ~Rotates(nl) => Offset(nl) = 0
  <1>1. Cardinality(Active(nl)) \in Nat /\ Cardinality(Active(nl)) > 0 /\ nl.cursor \in Nat
    BY ActiveParts, ListParts
  <1>2. nl.cursor % Cardinality(Active(nl)) \in 0..Cardinality(Active(nl)) - 1
    BY <1>1, Remainder
  <1>3. QED
    BY <1>1, <1>2 DEF Offset

LEMMA RenderType ==
    ASSUME NEW nl \in NodeList, Active(nl) # {}
    PROVE  Render(nl) \in Outbounds /\ Render(nl) # Down
  BY OffsetType, RenderedType DEF Render

\* The list whose cursor has been moved on is the same otherwise, and says what was rendered.
LEMMA AdvancedParts ==
    ASSUME NEW nl \in NodeList, Valid(nl)
    PROVE  /\ Advanced(nl) \in NodeList /\ Active(Advanced(nl)) = Active(nl)
           /\ Valid(Advanced(nl)) /\ Last(Advanced(nl)) = Render(nl)
           /\ ~Rotates(nl) => Advanced(nl) = nl
  <1> DEFINE n == Cardinality(Active(nl))
             c == (Offset(nl) + 1) % n
             next == [nodes |-> nl.nodes, roundrobin |-> nl.roundrobin, cursor |-> c]
  <1>1. n \in Nat /\ n > 0 /\ n <= MaxNode /\ Active(nl) # {}
    BY ActiveParts, ValidParts
  <1>2. Offset(nl) \in 0..n - 1 /\ (~Rotates(nl) => Offset(nl) = 0)
    BY <1>1, OffsetType
  <1>3. CASE ~Rotates(nl)
    <2>1. Advanced(nl) = nl
      BY <1>3 DEF Advanced
    <2>2. Last(nl) = Render(nl)
      BY <1>2, <1>3 DEF Last, Render
    <2>3. QED
      BY <2>1, <2>2
  <1>4. CASE Rotates(nl)
    <2>1. c \in 0..n - 1
      BY <1>1, <1>2, Remainder
    <2> HIDE DEF c, n
    <2>2. Advanced(nl) = next
      BY <1>4, ListParts DEF Advanced, c, n
    <2>3. next \in NodeList
      BY <1>1, <2>1, ListParts, ListMade, Numbers
    <2>4. Active(next) = Active(nl) /\ next.roundrobin = nl.roundrobin
      BY DEF Active
    <2>5. Rotates(next) /\ Valid(next)
      BY <1>4, <2>4 DEF Rotates, Valid
    <2>6. (c + n - 1) % n = Offset(nl)
      BY <1>1, <1>2, Back DEF c
    <2>7. Last(next) = Rendered(next, Offset(nl))
      BY <2>4, <2>5, <2>6 DEF Last, n
    <2>8. Rendered(next, Offset(nl)) = Rendered(nl, Offset(nl))
      BY <2>4 DEF Rendered
    <2> HIDE DEF next
    <2>9. QED
      BY <1>4, <2>2, <2>3, <2>4, <2>5, <2>7, <2>8 DEF Render
  <1>5. QED
    BY <1>3, <1>4

\* What sing-box.json holds after a rendering is something sing-box starts with.
LEMMA LastNotDown ==
    ASSUME NEW nl \in NodeList, Valid(nl)
    PROVE  Last(nl) \in Outbounds /\ Last(nl) # Down
  <1> DEFINE n == Cardinality(Active(nl))
  <1>1. n \in Nat /\ n > 0 /\ Active(nl) # {} /\ nl.cursor \in Nat
    BY ActiveParts, ValidParts, ListParts
  <1>2. nl.cursor + n - 1 \in Nat
    BY <1>1
  <1>3. (nl.cursor + n - 1) % n \in 0..n - 1 /\ 0 \in 0..n - 1
    BY <1>1, <1>2, Remainder
  <1>4. QED
    BY <1>1, <1>3, RenderedType DEF Last

-----------------------------------------------------------------------------
(* The edits. *)

LEMMA WithNodeParts ==
    ASSUME NEW nl \in NodeList, NEW id \in Ids
    PROVE  /\ WithNode(nl, id, New) \in NodeList
           /\ Active(WithNode(nl, id, New)) = Active(nl) \cup {id}
           /\ Valid(nl) => Valid(WithNode(nl, id, New))
  <1> DEFINE nodes == [i \in DOMAIN nl.nodes \cup {id} |-> IF i = id THEN New ELSE nl.nodes[i]]
             next == [nodes |-> nodes, roundrobin |-> nl.roundrobin, cursor |-> nl.cursor]
  <1>1. New \in Node /\ New.on
    BY DEF New, Node
  <1>2. nodes \in [DOMAIN nl.nodes \cup {id} -> Node] /\ DOMAIN nl.nodes \cup {id} \in SUBSET Ids
    BY <1>1, ListParts
  <1>3. next \in NodeList
    BY <1>2, ListParts, ListMade
  <1>4. WithNode(nl, id, New) = next
    BY ListParts DEF WithNode
  <1>5. Active(next) = Active(nl) \cup {id}
    BY <1>1 DEF Active
  <1>6. Cardinality(Active(nl)) <= Cardinality(Active(next))
    BY <1>3, <1>5, ActiveParts, FS_Subset
  <1>7. Valid(nl) => Valid(next)
    <2>1. next.roundrobin = nl.roundrobin
      OBVIOUS
    <2>2. Cardinality(Active(nl)) \in Nat /\ Cardinality(Active(next)) \in Nat
      BY <1>3, ActiveParts
    <2> HIDE DEF next
    <2>3. QED
      BY <1>6, <2>1, <2>2 DEF Valid
  <1>8. QED
    BY <1>3, <1>4, <1>5, <1>7

LEMMA WithoutType ==
    ASSUME NEW nl \in NodeList, NEW id PROVE Without(nl, id) \in NodeList
  <1> DEFINE nodes == [i \in DOMAIN nl.nodes \ {id} |-> nl.nodes[i]]
  <1>1. nodes \in [DOMAIN nl.nodes \ {id} -> Node] /\ DOMAIN nl.nodes \ {id} \in SUBSET Ids
    BY ListParts
  <1>2. Without(nl, id) = [nodes |-> nodes, roundrobin |-> nl.roundrobin, cursor |-> nl.cursor]
    BY ListParts DEF Without
  <1>3. QED
    BY <1>1, <1>2, ListParts, ListMade

\* A node that is replaced by another one.
LEMMA NodeChanged ==
    ASSUME NEW nl \in NodeList, NEW id \in DOMAIN nl.nodes, NEW node \in Node
    PROVE  [nl EXCEPT !.nodes = [nl.nodes EXCEPT ![id] = node]] \in NodeList
  <1> DEFINE nodes == [nl.nodes EXCEPT ![id] = node]
  <1>1. nodes \in [DOMAIN nl.nodes -> Node] /\ DOMAIN nl.nodes \in SUBSET Ids
    BY ListParts
  <1>2. [nl EXCEPT !.nodes = nodes]
         = [nodes |-> nodes, roundrobin |-> nl.roundrobin, cursor |-> nl.cursor]
    BY ListParts
  <1>3. QED
    BY <1>1, <1>2, ListParts, ListMade

LEMMA ToggledType ==
    ASSUME list \in NodeList, NEW id \in DOMAIN list.nodes PROVE Toggled(id) \in NodeList
  <1> DEFINE node == [list.nodes[id] EXCEPT !.on = ~@]
  <1>1. node \in Node
    <2>1. list.nodes[id] \in Node
      BY ListParts
    <2>2. /\ list.nodes[id].rev \in 0..1 /\ (~list.nodes[id].on) \in BOOLEAN
          /\ list.nodes[id] = [on |-> list.nodes[id].on, rev |-> list.nodes[id].rev]
      BY <2>1 DEF Node
    <2>3. node = [on |-> ~list.nodes[id].on, rev |-> list.nodes[id].rev]
      BY <2>2
    <2>4. QED
      BY <2>2, <2>3 DEF Node
  <1>2. Toggled(id) = [list EXCEPT !.nodes = [list.nodes EXCEPT ![id] = node]]
    BY ListParts DEF Toggled
  <1>3. QED
    BY <1>1, <1>2, NodeChanged

LEMMA EditedType ==
    ASSUME list \in NodeList, NEW id \in DOMAIN list.nodes
    PROVE  [list EXCEPT !.nodes[id].rev = 1 - @] \in NodeList
  <1> DEFINE node == [list.nodes[id] EXCEPT !.rev = 1 - @]
  <1>1. node \in Node
    <2>1. list.nodes[id] \in Node
      BY ListParts
    <2>2. 1 - list.nodes[id].rev \in 0..1
      BY <2>1 DEF Node
    <2>3. QED
      BY <2>1, <2>2 DEF Node
  <1>2. [list EXCEPT !.nodes[id].rev = 1 - @] = [list EXCEPT !.nodes = [list.nodes EXCEPT ![id] = node]]
    BY ListParts
  <1>3. QED
    BY <1>1, <1>2, NodeChanged

LEMMA StrategyType ==
    ASSUME NEW nl \in NodeList, NEW rr \in BOOLEAN
    PROVE  [nl EXCEPT !.roundrobin = rr] \in NodeList
  <1>1. [nl EXCEPT !.roundrobin = rr] = [nodes |-> nl.nodes, roundrobin |-> rr, cursor |-> nl.cursor]
    BY ListParts
  <1>2. DOMAIN nl.nodes \in SUBSET Ids
    BY ListParts
  <1>3. QED
    BY <1>1, <1>2, ListParts, ListMade

-----------------------------------------------------------------------------
(* Types. *)

Control == pc \in [Handlers -> PC] /\ job \in [Handlers -> Job]

Data ==
    /\ list \in NodeList /\ sbjson \in Outbounds /\ sb \in Outbounds
    /\ boot \in BOOLEAN /\ toml \in TOML /\ tp \in TOML
    /\ mode \in {"", "single", "bridge"} /\ suspended \in BOOLEAN
    /\ requests \in 0..MaxRequests /\ faults \in 0..MaxFaults /\ mishap \in BOOLEAN

LEMMA TypeParts == TypeOK <=> Control /\ Data
  BY DEF TypeOK, Control, Data

LEMMA TypesAfter == ASSUME Control', Data' PROVE TypeOK'
  BY DEF TypeOK, Control, Data

LEMMA EmptyType == Empty \in NodeList
  <1>1. [id \in {} |-> New] \in [{} -> Node] /\ {} \in SUBSET Ids /\ FALSE \in BOOLEAN
    OBVIOUS
  <1>2. 0 \in 0..MaxNode - 1
    BY Numbers
  <1>3. QED
    BY <1>1, <1>2, ListMade DEF Empty

\* What the installer leaves.
LEMMA InstalledParts ==
    ASSUME Init
    PROVE  /\ list \in NodeList /\ sb \in Outbounds /\ sbjson = sb
           /\ boot \in BOOLEAN /\ toml \in TOML /\ tp = toml
           /\ (sb # Down) = boot /\ toml.socks = boot
           /\ sb # Down => Valid(list) /\ sbjson = Last(list)
  <1>1. PICK bridge \in BOOLEAN :
           /\ list = IF bridge THEN WithNode(Empty, 1, New) ELSE Empty
           /\ sb = IF bridge THEN Render(list) ELSE Down
           /\ boot = bridge /\ toml = [Single EXCEPT !.socks = bridge]
    BY DEF Init
  <1>2. sbjson = sb /\ tp = toml
    BY DEF Init
  <1>3. boot \in BOOLEAN /\ toml \in TOML /\ toml.socks = boot
    BY <1>1 DEF Single, TOML
  <1>4. CASE ~bridge
    BY <1>1, <1>2, <1>3, <1>4, EmptyType, DownType
  <1>5. CASE bridge
    <2> DEFINE one == WithNode(Empty, 1, New)
    <2>1. 1 \in Ids
      BY Numbers DEF Ids
    <2>2. one \in NodeList /\ Active(one) = Active(Empty) \cup {1}
      BY <2>1, EmptyType, WithNodeParts
    <2>3. Active(one) = {1}
      BY <2>2 DEF Active, Empty
    <2>4. ~one.roundrobin
      BY DEF WithNode, Empty
    <2> HIDE DEF one
    <2>5. Cardinality(Active(one)) = 1
      BY <2>3, FS_Singleton
    <2>6. Valid(one) /\ ~Rotates(one)
      BY <2>4, <2>5 DEF Valid, Rotates
    <2>7. Render(one) = Last(one)
      BY <2>6 DEF Render, Last, Offset
    <2>8. Render(one) \in Outbounds /\ Render(one) # Down
      BY <2>2, <2>3, RenderType
    <2>9. list = one /\ sb = Render(one) /\ boot
      BY <1>1, <1>5 DEF one
    <2>10. QED
      BY <1>2, <1>3, <2>2, <2>6, <2>7, <2>8, <2>9
  <1>6. QED
    BY <1>4, <1>5

LEMMA JobTypes ==
    /\ NoJob \in Job
    /\ \A nl, old \in NodeList, b \in BOOLEAN :
          /\ [NoJob EXCEPT !.new = nl] \in Job
          /\ [NoJob EXCEPT !.new = nl, !.previous = old] \in Job
          /\ [NoJob EXCEPT !.new = nl, !.previous = old, !.last = b] \in Job
    /\ \A t \in TOML, b \in BOOLEAN : [NoJob EXCEPT !.snapshot = t, !.wasActive = b] \in Job
  <1>1. NoJob \in Job /\ Single \in TOML
    BY EmptyType, DownType DEF NoJob, Job, Single, TOML
  <1>2. QED
    BY <1>1 DEF Job

LEMMA JobChanged ==
    ASSUME NEW j \in Job, NEW b \in BOOLEAN, NEW t \in TOML, NEW o \in Outbounds
    PROVE  /\ [j EXCEPT !.errs = TRUE] \in Job
           /\ [j EXCEPT !.snapshot = t] \in Job
           /\ [j EXCEPT !.snapshot = t, !.wasActive = b] \in Job
           /\ [j EXCEPT !.json = o] \in Job
  BY DEF Job

LEMMA JobParts ==
    ASSUME Control, NEW h \in Handlers
    PROVE  /\ job[h] \in Job /\ pc[h] \in PC
           /\ job[h].new \in NodeList /\ job[h].previous \in NodeList
           /\ job[h].snapshot \in TOML /\ job[h].json \in Outbounds
           /\ job[h].admits \in BOOLEAN /\ job[h].last \in BOOLEAN /\ job[h].errs \in BOOLEAN
           /\ job[h].wasActive \in BOOLEAN
           /\ Upstream(h) \in TOML /\ Direct(h) \in TOML
  <1>1. job[h] \in Job /\ pc[h] \in PC
    BY DEF Control
  <1>2. QED
    BY <1>1 DEF Job, Upstream, Direct, TOML

LEMMA TornType ==
    ASSUME NEW old \in TOML, NEW new \in TOML PROVE Torn(old, new) \subseteq TOML
  <1> SUFFICES ASSUME NEW t \in Torn(old, new) PROVE t \in TOML
    OBVIOUS
  <1>1. new.socks \in BOOLEAN
    BY DEF TOML
  <1>2. CASE t = old
    BY <1>2
  <1>3. ASSUME NEW s \in {FALSE, new.socks}, t = [socks |-> s, admits |-> FALSE] PROVE t \in TOML
    BY <1>1, <1>3 DEF TOML
  <1>4. QED
    BY <1>2, <1>3 DEF Torn

\* Where a handler goes, and what it takes along.
LEMMA GoesOn ==
    ASSUME Control, NEW h \in Handlers, NEW to \in PC, pc' = [pc EXCEPT ![h] = to],
           UNCHANGED job
    PROVE  Control'
  BY DEF Control

LEMMA GoesWith ==
    ASSUME Control, NEW h \in Handlers, NEW to \in PC, NEW j \in Job,
           pc' = [pc EXCEPT ![h] = to], job' = [job EXCEPT ![h] = j]
    PROVE  Control'
  BY DEF Control

LEMMA Ends ==
    ASSUME Control, NEW h \in Handlers, pc' = [pc EXCEPT ![h] = "idle"], End(h)
    PROVE  Control'
  BY JobTypes, GoesWith DEF End, PC

LEMMA CountedFault ==
    ASSUME Data, faults < MaxFaults, faults' = faults + 1 PROVE faults' \in 0..MaxFaults
  <1>1. faults \in 0..MaxFaults
    BY DEF Data
  <1>2. QED
    BY <1>1, Numbers

LEMMA ToldTypes ==
    ASSUME Data, NEW active, Told(active)
    PROVE  faults' \in 0..MaxFaults /\ mishap' \in BOOLEAN
  <1>1. mishap \in BOOLEAN /\ faults \in 0..MaxFaults
    BY DEF Data
  <1>2. CASE UNCHANGED <<faults, mishap>>
    BY <1>1, <1>2
  <1>3. CASE faults < MaxFaults /\ faults' = faults + 1 /\ mishap' = TRUE
    BY <1>3, CountedFault
  <1>4. QED
    BY <1>2, <1>3 DEF Told

LEMMA AdvancedSaved ==
    ASSUME NEW nl \in NodeList, Rotates(nl) PROVE Valid(nl) /\ Advanced(nl) \in NodeList
  <1>1. Valid(nl)
    BY ActiveParts DEF Valid, Rotates
  <1>2. QED
    BY <1>1, AdvancedParts

LEMMA InitTypes == Init => TypeOK
  <1> SUFFICES ASSUME Init PROVE TypeOK
    OBVIOUS
  <1>1. Control
    BY JobTypes DEF Init, Control, PC
  <1>2. Data
    <2>1. list \in NodeList /\ sb \in Outbounds /\ boot \in BOOLEAN /\ toml \in TOML
          /\ sbjson = sb /\ tp = toml
      BY InstalledParts
    <2>2. requests \in 0..MaxRequests /\ faults \in 0..MaxFaults
      <3>1. requests = 0 /\ faults = 0
        BY DEF Init
      <3>2. QED
        BY <3>1, Numbers
    <2>3. QED
      BY <2>1, <2>2 DEF Init, Data
  <1>3. QED
    BY <1>1, <1>2, TypeParts

\* Steps that leave the files alone but for one of them.
LEMMA EnableTypes ==
    ASSUME TypeOK, NEW h \in Handlers,
           \/ SaveNodes(h) \/ WriteJSON(h) \/ NotValid(h) \/ SaveCursor(h) \/ WriteBridgeTOML(h)
           \/ StartSingbox(h) \/ RestartTeleproxy(h) \/ EnableCheck(h) \/ EnableMode(h)
    PROVE  TypeOK'
  <1> USE DEF Goto
  <1>1. Control /\ Data
    BY TypeParts
  <1>2. CASE SaveNodes(h)
    <2>1. Control'
      BY <1>1, <1>2, GoesOn DEF SaveNodes, PC
    <2>2. Data'
      BY <1>1, <1>2, JobParts DEF SaveNodes, Data, files, procs
    <2>3. QED
      BY <2>1, <2>2, TypesAfter
  <1>3. CASE NotValid(h)
    <2>1. Control'
      BY <1>1, <1>3, GoesOn DEF NotValid, PC
    <2>2. Data'
      BY <1>1, <1>3 DEF NotValid, Data, files, procs
    <2>3. QED
      BY <2>1, <2>2, TypesAfter
  <1>4. CASE SaveCursor(h)
    <2>1. Control'
      BY <1>1, <1>4, GoesOn DEF SaveCursor, PC
    <2>2. Data'
      BY <1>1, <1>4, JobParts, AdvancedSaved DEF SaveCursor, Data, files, procs
    <2>3. QED
      BY <2>1, <2>2, TypesAfter
  <1>5. CASE WriteBridgeTOML(h)
    <2>1. Control'
      BY <1>1, <1>5, GoesOn DEF WriteBridgeTOML, PC
    <2>2. Data'
      BY <1>1, <1>5, JobParts DEF WriteBridgeTOML, Data, files, procs
    <2>3. QED
      BY <2>1, <2>2, TypesAfter
  <1>6. CASE StartSingbox(h)
    <2>1. Control'
      BY <1>1, <1>6, GoesOn DEF StartSingbox, PC
    <2>2. Data'
      BY <1>1, <1>6 DEF StartSingbox, Data, files, procs
    <2>3. QED
      BY <2>1, <2>2, TypesAfter
  <1>7. CASE RestartTeleproxy(h)
    <2>1. Control'
      BY <1>1, <1>7, GoesOn DEF RestartTeleproxy, PC
    <2>2. Data'
      BY <1>1, <1>7 DEF RestartTeleproxy, Data, files, procs
    <2>3. QED
      BY <2>1, <2>2, TypesAfter
  <1>8. CASE EnableCheck(h)
    <2>1. Control'
      BY <1>1, <1>8, GoesOn DEF EnableCheck, PC
    <2>2. Data'
      BY <1>1, <1>8 DEF EnableCheck, Data, files, procs
    <2>3. QED
      BY <2>1, <2>2, TypesAfter
  <1>9. CASE WriteJSON(h)
    <2>1. Control'
      BY <1>1, <1>9, GoesOn DEF WriteJSON, PC
    <2>2. Data'
      BY <1>1, <1>9, JobParts, ValidParts, RenderType DEF WriteJSON, Data, files, procs
    <2>3. QED
      BY <2>1, <2>2, TypesAfter
  <1>10. CASE EnableMode(h)
    <2>1. Control'
      BY <1>1, <1>10, Ends DEF EnableMode
    <2>2. Data'
      BY <1>1, <1>10 DEF EnableMode, Data, files, procs
    <2>3. QED
      BY <2>1, <2>2, TypesAfter
  <1>11. QED
    BY <1>2, <1>3, <1>4, <1>5, <1>6, <1>7, <1>8, <1>9, <1>10

LEMMA RollbackTypes ==
    ASSUME TypeOK, NEW h \in Handlers,
           \/ RollbackNodes(h) \/ RollbackTOML(h) \/ RollbackStop(h) \/ RollbackDisable(h)
           \/ RollbackRestart(h)
    PROVE  TypeOK'
  <1> USE DEF Goto
  <1>1. Control /\ Data
    BY TypeParts
  <1>2. CASE RollbackNodes(h)
    <2>1. Control'
      BY <1>1, <1>2, GoesOn DEF RollbackNodes, PC
    <2>2. Data'
      BY <1>1, <1>2, JobParts DEF RollbackNodes, Data, files, procs
    <2>3. QED
      BY <2>1, <2>2, TypesAfter
  <1>3. CASE RollbackTOML(h)
    <2>1. Control'
      BY <1>1, <1>3, GoesOn DEF RollbackTOML, PC
    <2>2. Data'
      BY <1>1, <1>3, JobParts DEF RollbackTOML, Data, files, procs
    <2>3. QED
      BY <2>1, <2>2, TypesAfter
  <1>4. CASE RollbackStop(h)
    <2>1. Control'
      BY <1>1, <1>4, GoesOn DEF RollbackStop, PC
    <2>2. Data'
      BY <1>1, <1>4, DownType DEF RollbackStop, Data, files, procs
    <2>3. QED
      BY <2>1, <2>2, TypesAfter
  <1>5. CASE RollbackDisable(h)
    <2>1. Control'
      BY <1>1, <1>5, GoesOn DEF RollbackDisable, PC
    <2>2. Data'
      BY <1>1, <1>5 DEF RollbackDisable, Data, files, procs
    <2>3. QED
      BY <2>1, <2>2, TypesAfter
  <1>6. CASE RollbackRestart(h)
    <2>1. Control'
      BY <1>1, <1>6, Ends DEF RollbackRestart
    <2>2. Data'
      BY <1>1, <1>6 DEF RollbackRestart, Data, files, procs
    <2>3. QED
      BY <2>1, <2>2, TypesAfter
  <1>7. QED
    BY <1>2, <1>3, <1>4, <1>5, <1>6

LEMMA DisableTypes ==
    ASSUME TypeOK, NEW h \in Handlers,
           \/ StopSingbox(h) \/ DisableSingbox(h) \/ WriteSingleTOML(h) \/ RestartSingle(h)
           \/ DisableMode(h) \/ RestoreTOML(h) \/ RestoreTeleproxy(h) \/ RestoreSingbox(h)
    PROVE  TypeOK'
  <1> USE DEF Goto
  <1>1. Control /\ Data
    BY TypeParts
  <1>2. CASE StopSingbox(h)
    <2>1. Control'
      BY <1>1, <1>2, GoesOn DEF StopSingbox, PC
    <2>2. Data'
      BY <1>1, <1>2, DownType DEF StopSingbox, Data, files, procs
    <2>3. QED
      BY <2>1, <2>2, TypesAfter
  <1>3. CASE DisableSingbox(h)
    <2>1. Control'
      BY <1>1, <1>3, GoesOn DEF DisableSingbox, PC
    <2>2. Data'
      BY <1>1, <1>3 DEF DisableSingbox, Data, files, procs
    <2>3. QED
      BY <2>1, <2>2, TypesAfter
  <1>4. CASE WriteSingleTOML(h)
    <2>1. Control'
      BY <1>1, <1>4, GoesOn DEF WriteSingleTOML, PC
    <2>2. Data'
      BY <1>1, <1>4, JobParts DEF WriteSingleTOML, Data, files, procs
    <2>3. QED
      BY <2>1, <2>2, TypesAfter
  <1>5. CASE RestartSingle(h)
    <2>1. Control'
      BY <1>1, <1>5, GoesOn DEF RestartSingle, PC
    <2>2. Data'
      BY <1>1, <1>5 DEF RestartSingle, Data, files, procs
    <2>3. QED
      BY <2>1, <2>2, TypesAfter
  <1>6. CASE RestoreTOML(h)
    <2>1. Control'
      BY <1>1, <1>6, GoesOn DEF RestoreTOML, PC
    <2>2. Data'
      BY <1>1, <1>6, JobParts DEF RestoreTOML, Data, files, procs
    <2>3. QED
      BY <2>1, <2>2, TypesAfter
  <1>7. CASE RestoreTeleproxy(h)
    <2>1. Control'
      BY <1>1, <1>7, GoesOn DEF RestoreTeleproxy, PC
    <2>2. Data'
      BY <1>1, <1>7 DEF RestoreTeleproxy, Data, files, procs
    <2>3. QED
      BY <2>1, <2>2, TypesAfter
  <1>8. CASE DisableMode(h)
    <2>1. Control'
      BY <1>1, <1>8, Ends DEF DisableMode
    <2>2. Data'
      BY <1>1, <1>8 DEF DisableMode, Data, files, procs
    <2>3. QED
      BY <2>1, <2>2, TypesAfter
  <1>9. CASE RestoreSingbox(h)
    <2>1. Control'
      BY <1>1, <1>9, GoesOn, Ends DEF RestoreSingbox, PC, End
    <2>2. Data'
      BY <1>1, <1>9 DEF RestoreSingbox, Data, files, procs
    <2>3. QED
      BY <2>1, <2>2, TypesAfter
  <1>10. QED
    BY <1>2, <1>3, <1>4, <1>5, <1>6, <1>7, <1>8, <1>9

LEMMA NodesTypes ==
    ASSUME TypeOK, NEW h \in Handlers,
           \/ SaveList(h) \/ SaveLast(h) \/ RenderNodes(h) \/ RenderNothing(h) \/ RenderNotValid(h)
           \/ SaveNodesCursor(h) \/ RestoreJSON(h) \/ RestoreList(h) \/ SavePing(h)
    PROVE  TypeOK'
  <1> USE DEF Goto
  <1>1. Control /\ Data
    BY TypeParts
  <1>2. CASE SaveList(h)
    <2>1. Control'
      BY <1>1, <1>2, GoesOn DEF SaveList, PC
    <2>2. Data'
      BY <1>1, <1>2, JobParts DEF SaveList, Data, files, procs
    <2>3. QED
      BY <2>1, <2>2, TypesAfter
  <1>3. CASE SaveLast(h)
    <2>4. PICK active \in BOOLEAN :
             /\ Told(active)
             /\ job' = [job EXCEPT ![h].snapshot = toml, ![h].wasActive = active]
      BY <1>3 DEF SaveLast
    <2>5. job' = [job EXCEPT ![h] = [@ EXCEPT !.snapshot = toml, !.wasActive = active]]
      BY <1>1, <2>4 DEF Control
    <2>6. [job[h] EXCEPT !.snapshot = toml, !.wasActive = active] \in Job
      BY <1>1, JobParts, JobChanged, DownType DEF Data
    <2>1. Control'
      BY <1>1, <1>3, <2>5, <2>6, GoesWith DEF SaveLast, PC
    <2>2. Data'
      BY <1>1, <1>3, <2>4, ToldTypes, JobParts DEF SaveLast, Data, files, procs
    <2>3. QED
      BY <2>1, <2>2, TypesAfter
  <1>4. CASE RenderNodes(h)
    <2>4. /\ job' = [job EXCEPT ![h] = [@ EXCEPT !.json = sbjson]]
          /\ [job[h] EXCEPT !.json = sbjson] \in Job
      BY <1>1, <1>4, JobParts, JobChanged DEF RenderNodes, Data, Control
    <2>1. Control'
      BY <1>1, <1>4, <2>4, GoesWith DEF RenderNodes, PC
    <2>2. Data'
      BY <1>1, <1>4, JobParts, ValidParts, RenderType DEF RenderNodes, Data, files, procs
    <2>3. QED
      BY <2>1, <2>2, TypesAfter
  <1>5. CASE RenderNothing(h)
    <2>1. Control'
      BY <1>1, <1>5, Ends DEF RenderNothing
    <2>2. Data'
      BY <1>1, <1>5, ToldTypes DEF RenderNothing, Data, files, procs
    <2>3. QED
      BY <2>1, <2>2, TypesAfter
  <1>6. CASE RenderNotValid(h)
    <2>1. Control'
      BY <1>1, <1>6, GoesOn DEF RenderNotValid, PC
    <2>2. Data'
      BY <1>1, <1>6 DEF RenderNotValid, Data, files, procs
    <2>3. QED
      BY <2>1, <2>2, TypesAfter
  <1>7. CASE SaveNodesCursor(h)
    <2>1. Control'
      BY <1>1, <1>7, Ends DEF SaveNodesCursor
    <2>2. Data'
      BY <1>1, <1>7, JobParts, AdvancedSaved DEF SaveNodesCursor, Data, files, procs
    <2>3. QED
      BY <2>1, <2>2, TypesAfter
  <1>8. CASE RestoreJSON(h)
    <2>1. Control'
      BY <1>1, <1>8, GoesOn DEF RestoreJSON, PC
    <2>2. Data'
      BY <1>1, <1>8, JobParts DEF RestoreJSON, Data, files, procs
    <2>3. QED
      BY <2>1, <2>2, TypesAfter
  <1>9. CASE RestoreList(h)
    <2>1. Control'
      BY <1>1, <1>9, Ends DEF RestoreList
    <2>2. Data'
      BY <1>1, <1>9, JobParts DEF RestoreList, Data, files, procs
    <2>3. QED
      BY <2>1, <2>2, TypesAfter
  <1>10. CASE SavePing(h)
    <2>1. Control'
      BY <1>1, <1>10, Ends DEF SavePing
    <2>2. Data'
      BY <1>1, <1>10, JobParts DEF SavePing, Data, files, procs
    <2>3. QED
      BY <2>1, <2>2, TypesAfter
  <1>11. QED
    BY <1>2, <1>3, <1>4, <1>5, <1>6, <1>7, <1>8, <1>9, <1>10

\* Calls that fail.
LEMMA FailTypes ==
    ASSUME TypeOK, NEW h \in Handlers,
           \/ SaveNodesFails(h) \/ ModeNotSaved(h) \/ EnableFails(h) \/ RollbackFails(h)
           \/ StopFails(h) \/ DisableFails(h) \/ DisableRollbackFails(h)
           \/ SaveListFails(h) \/ RenderFails(h) \/ RestoreJSONFails(h) \/ RestoreListFails(h)
    PROVE  TypeOK'
  <1> USE DEF Fail
  <1>1. Control /\ Data
    BY TypeParts
  <1>2. faults' \in 0..MaxFaults
    <2>1. faults < MaxFaults /\ faults' = faults + 1
      BY DEF SaveNodesFails, ModeNotSaved, EnableFails, RollbackFails, StopFails, DisableFails,
             DisableRollbackFails, SaveListFails, RenderFails, RestoreJSONFails, RestoreListFails
    <2>2. QED
      BY <1>1, <2>1, CountedFault
  <1>3. UNCHANGED <<mode, suspended, requests, mishap>>
    BY DEF SaveNodesFails, ModeNotSaved, EnableFails, RollbackFails, StopFails, DisableFails,
           DisableRollbackFails, SaveListFails, RenderFails, RestoreJSONFails, RestoreListFails,
           files
  <1>4. ASSUME UNCHANGED <<list, sbjson, toml, procs>> PROVE Data'
    BY <1>1, <1>2, <1>3, <1>4 DEF Data, procs
  <1>5. CASE SaveNodesFails(h) \/ ModeNotSaved(h) \/ SaveListFails(h) \/ RestoreListFails(h)
    <2>1. Control'
      BY <1>1, <1>5, Ends DEF SaveNodesFails, ModeNotSaved, SaveListFails, RestoreListFails
    <2>2. QED
      BY <1>4, <1>5, <2>1, TypesAfter
         DEF SaveNodesFails, ModeNotSaved, SaveListFails, RestoreListFails, files
  <1>6. CASE RestoreJSONFails(h)
    <2>1. Control'
      BY <1>1, <1>6, GoesOn DEF RestoreJSONFails, PC
    <2>2. QED
      BY <1>4, <1>6, <2>1, TypesAfter DEF RestoreJSONFails, files
  <1>7. CASE EnableFails(h)
    <2>1. Control'
      BY <1>1, <1>7, GoesOn DEF EnableFails, PC
    <2>2. toml' \in TOML
      BY <1>1, <1>7, JobParts, TornType DEF EnableFails, Data
    <2>3. sbjson' \in Outbounds /\ boot' \in BOOLEAN /\ sb' \in Outbounds /\ tp' \in TOML
      BY <1>1, <1>7, DownType DEF EnableFails, Data
    <2>4. UNCHANGED list
      BY <1>7 DEF EnableFails
    <2>5. QED
      BY <1>1, <1>2, <1>3, <2>1, <2>2, <2>3, <2>4, TypesAfter DEF Data
  <1>8. CASE RollbackFails(h)
    <2>1. PICK i \in 1..5 :
            /\ pc' = [pc EXCEPT ![h] = RollbackSteps[i + 1]]
            /\ job' = [job EXCEPT ![h] = IF i = 5 THEN NoJob ELSE [@ EXCEPT !.errs = TRUE]]
            /\ toml' \in IF i = 2 THEN Torn(toml, Direct(h)) ELSE {toml}
            /\ sb' \in {sb} \cup (IF i = 3 THEN {Down} ELSE {})
            /\ boot' \in {boot} \cup (IF i = 4 THEN {FALSE} ELSE {})
            /\ tp' \in {tp} \cup (IF i = 5 THEN {toml} ELSE {})
            /\ UNCHANGED <<list, sbjson>>
      BY <1>8 DEF RollbackFails
    <2>2. RollbackSteps[i + 1] \in PC
      BY DEF RollbackSteps, PC
    <2>3. Control'
      <3>1. CASE i = 5
        BY <1>1, <2>1, <2>2, <3>1, GoesWith, JobTypes
      <3>2. CASE i # 5
        <4>1. job' = [job EXCEPT ![h] = [@ EXCEPT !.errs = TRUE]]
          BY <2>1, <3>2
        <4>2. job[h] \in Job /\ [job[h] EXCEPT !.errs = TRUE] \in Job
          BY <1>1, JobParts, JobChanged DEF Data
        <4>3. QED
          BY <1>1, <2>1, <2>2, <4>1, <4>2, GoesWith
      <3>3. QED
        BY <3>1, <3>2
    <2>4. toml' \in TOML
      BY <1>1, <2>1, JobParts, TornType DEF Data
    <2>5. boot' \in BOOLEAN /\ sb' \in Outbounds /\ tp' \in TOML
      BY <1>1, <2>1, DownType DEF Data
    <2>6. QED
      BY <1>1, <1>2, <1>3, <2>1, <2>3, <2>4, <2>5, TypesAfter DEF Data
  <1>9. CASE StopFails(h)
    <2>1. Control'
      BY <1>1, <1>9, GoesOn, GoesWith, JobTypes DEF StopFails, PC
    <2>2. boot' \in BOOLEAN /\ sb' \in Outbounds /\ UNCHANGED <<files, tp>>
      BY <1>1, <1>9, DownType DEF StopFails, Data
    <2>3. QED
      BY <1>1, <1>2, <1>3, <2>1, <2>2, TypesAfter DEF Data, files
  <1>10. CASE DisableFails(h)
    <2>1. Control'
      BY <1>1, <1>10, GoesOn DEF DisableFails, PC
    <2>2. toml' \in TOML
      BY <1>1, <1>10, JobParts, TornType DEF DisableFails, Data
    <2>3. tp' \in TOML /\ UNCHANGED <<list, sbjson, sb, boot>>
      BY <1>1, <1>10 DEF DisableFails, Data
    <2>4. QED
      BY <1>1, <1>2, <1>3, <2>1, <2>2, <2>3, TypesAfter DEF Data
  <1>11. CASE DisableRollbackFails(h)
    <2>1. Control'
      <3>1. CASE job' = [job EXCEPT ![h].errs = TRUE] /\ pc' = [pc EXCEPT ![h] = "dr_start"]
        <4>1. job' = [job EXCEPT ![h] = [@ EXCEPT !.errs = TRUE]]
          BY <1>1, <3>1 DEF Control
        <4>2. job[h] \in Job /\ [job[h] EXCEPT !.errs = TRUE] \in Job
          BY <1>1, JobParts, JobChanged DEF Data
        <4>3. QED
          BY <1>1, <3>1, <4>1, <4>2, GoesWith DEF PC
      <3>2. CASE /\ pc' = [pc EXCEPT ![h] = IF job[h].last THEN "nd_restore" ELSE "idle"]
                 /\ job' = IF job[h].last THEN job ELSE [job EXCEPT ![h] = NoJob]
        BY <1>1, <3>2, GoesOn, GoesWith, JobTypes DEF PC
      <3>3. QED
        BY <1>11, <3>1, <3>2 DEF DisableRollbackFails
    <2>2. toml' \in TOML
      BY <1>1, <1>11, JobParts, TornType DEF DisableRollbackFails, Data
    <2>3. tp' \in TOML /\ sb' \in Outbounds /\ UNCHANGED <<list, sbjson, boot>>
      BY <1>1, <1>11, DownType DEF DisableRollbackFails, Data
    <2>4. QED
      BY <1>1, <1>2, <1>3, <2>1, <2>2, <2>3, TypesAfter DEF Data
  <1>12. CASE RenderFails(h)
    <2>1. Control'
      <3>1. CASE job' = job
        BY <1>1, <1>12, <3>1, GoesOn DEF RenderFails, PC
      <3>2. CASE job' = [job EXCEPT ![h].json = sbjson]
        <4>1. job' = [job EXCEPT ![h] = [@ EXCEPT !.json = sbjson]]
          BY <1>1, <3>2 DEF Control
        <4>2. job[h] \in Job /\ [job[h] EXCEPT !.json = sbjson] \in Job
          BY <1>1, JobParts, JobChanged DEF Data
        <4>3. QED
          BY <1>1, <1>12, <4>1, <4>2, GoesWith DEF RenderFails, PC
      <3>3. QED
        BY <1>12, <3>1, <3>2 DEF RenderFails
    <2>2. sbjson' \in Outbounds /\ UNCHANGED <<list, toml, procs>>
      BY <1>1, <1>12, DownType DEF RenderFails, Data
    <2>3. QED
      BY <1>1, <1>2, <1>3, <2>1, <2>2, TypesAfter DEF Data, procs
  <1>13. QED
    BY <1>5, <1>6, <1>7, <1>8, <1>9, <1>10, <1>11, <1>12

\* Requests that arrive.
LEMMA BeginTypes ==
    ASSUME TypeOK, NEW h \in Handlers,
           \/ Enable(h) \/ Disable(h) \/ AddNode(h) \/ EditNode(h) \/ ChangeNode(h)
           \/ SetStrategy(h) \/ Ping(h) \/ Suspend(h)
    PROVE  TypeOK'
  <1>1. Control /\ Data
    BY TypeParts
  <1>2. requests' \in 0..MaxRequests /\ UNCHANGED <<files, procs>>
    <2>1. requests \in 0..MaxRequests
      BY <1>1 DEF Data
    <2>2. requests < MaxRequests /\ requests' = requests + 1 /\ UNCHANGED <<files, procs>>
      BY DEF Enable, Disable, AddNode, EditNode, ChangeNode, SetStrategy, Ping, Suspend, Begin,
             Request
    <2>3. QED
      BY <2>1, <2>2, Numbers
  <1>3. ASSUME NEW to \in PC, pc' = [pc EXCEPT ![h] = to],
               NEW j \in Job, job' = [job EXCEPT ![h] = j],
               suspended' \in BOOLEAN, faults' \in 0..MaxFaults, mishap' \in BOOLEAN
        PROVE  TypeOK'
    <2>1. Control'
      BY <1>1, <1>3, GoesWith
    <2>2. Data'
      BY <1>1, <1>2, <1>3 DEF Data, files, procs
    <2>3. QED
      BY <2>1, <2>2, TypesAfter
  <1>4. faults \in 0..MaxFaults /\ mishap \in BOOLEAN /\ suspended \in BOOLEAN /\ toml \in TOML
        /\ list \in NodeList
    BY <1>1 DEF Data
  <1>5. CASE Enable(h) \/ AddNode(h)
    <2>1. WithNode(list, NextID(list), New) \in NodeList
      BY <1>4, <1>5, WithNodeParts DEF Enable, AddNode
    <2>2. [NoJob EXCEPT !.new = WithNode(list, NextID(list), New), !.previous = list] \in Job
      BY <1>4, <2>1, JobTypes
    <2>3. QED
      BY <1>3, <1>4, <1>5, <2>2 DEF Enable, AddNode, Begin, Goto, PC
  <1>6. CASE Disable(h)
    <2>1. PICK active \in BOOLEAN :
            /\ Told(active)
            /\ job' = [job EXCEPT ![h] = [NoJob EXCEPT !.snapshot = toml, !.wasActive = active]]
      BY <1>6 DEF Disable
    <2>2. [NoJob EXCEPT !.snapshot = toml, !.wasActive = active] \in Job
      BY <1>4, JobTypes
    <2>3. faults' \in 0..MaxFaults /\ mishap' \in BOOLEAN
      BY <1>1, <2>1, ToldTypes
    <2>4. QED
      BY <1>3, <1>4, <1>6, <2>1, <2>2, <2>3 DEF Disable, Begin, Goto, PC
  <1>7. CASE EditNode(h)
    <2>1. PICK id \in DOMAIN list.nodes :
            job' = [job EXCEPT ![h] = [NoJob EXCEPT
                       !.new = [list EXCEPT !.nodes[id].rev = 1 - @], !.previous = list]]
      BY <1>7 DEF EditNode
    <2>2. [NoJob EXCEPT !.new = [list EXCEPT !.nodes[id].rev = 1 - @], !.previous = list] \in Job
      BY <1>4, EditedType, JobTypes
    <2>3. QED
      BY <1>3, <1>4, <1>7, <2>1, <2>2 DEF EditNode, Begin, Goto, PC
  <1>8. CASE ChangeNode(h)
    <2> DEFINE Chosen(nl, active) ==
                 LET last == active /\ Active(nl) = {}
                 IN  /\ Told(active)
                     /\ Begin(h, IF last THEN "nd_save_last" ELSE "nd_save")
                     /\ job' = [job EXCEPT ![h] = [NoJob EXCEPT !.new = nl, !.previous = list,
                                                                !.last = last]]
                     /\ UNCHANGED suspended
    <2>9. PICK id \in DOMAIN list.nodes, active \in BOOLEAN :
            \E nl \in {Toggled(id), Without(list, id)} : Chosen(nl, active)
      BY <1>8 DEF ChangeNode
    <2>1. PICK nl \in {Toggled(id), Without(list, id)} : Chosen(nl, active)
      BY <2>9
    <2>2. nl \in NodeList
      BY <1>4, ToggledType, WithoutType
    <2> DEFINE last == active /\ Active(nl) = {}
    <2>3. last \in BOOLEAN
      OBVIOUS
    <2>4. pc' = [pc EXCEPT ![h] = IF last THEN "nd_save_last" ELSE "nd_save"]
          /\ job' = [job EXCEPT ![h] = [NoJob EXCEPT !.new = nl, !.previous = list, !.last = last]]
      BY <2>1 DEF Begin, Goto
    <2>5. faults' \in 0..MaxFaults /\ mishap' \in BOOLEAN /\ UNCHANGED suspended
      BY <1>1, <2>1, ToldTypes
    <2> HIDE DEF last
    <2>6. [NoJob EXCEPT !.new = nl, !.previous = list, !.last = last] \in Job
      BY <1>4, <2>2, <2>3, JobTypes
    <2>7. (IF last THEN "nd_save_last" ELSE "nd_save") \in PC
      BY DEF PC
    <2>8. QED
      BY <1>3, <1>4, <2>4, <2>5, <2>6, <2>7
  <1>9. CASE SetStrategy(h)
    <2>1. PICK rr \in BOOLEAN :
            job' = [job EXCEPT ![h] = [NoJob EXCEPT !.new = [list EXCEPT !.roundrobin = rr],
                                                    !.previous = list]]
      BY <1>9 DEF SetStrategy
    <2>2. [NoJob EXCEPT !.new = [list EXCEPT !.roundrobin = rr], !.previous = list] \in Job
      BY <1>4, StrategyType, JobTypes
    <2>3. QED
      BY <1>3, <1>4, <1>9, <2>1, <2>2 DEF SetStrategy, Begin, Goto, PC
  <1>10. CASE Ping(h)
    BY <1>3, <1>4, <1>10, JobTypes DEF Ping, Begin, Goto, PC
  <1>11. CASE Suspend(h)
    <2>1. Control'
      BY <1>1, <1>11, GoesOn DEF Suspend, Begin, Goto, PC
    <2>2. Data'
      BY <1>1, <1>2, <1>11 DEF Suspend, Data, files, procs
    <2>3. QED
      BY <2>1, <2>2, TypesAfter
  <1>12. QED
    BY <1>5, <1>6, <1>7, <1>8, <1>9, <1>10, <1>11

\* The users, reconcile, kills and reboots.
LEMMA RestTypes ==
    ASSUME TypeOK,
           \/ \E h \in Handlers : DetectMode(h) \/ WriteAndReload(h)
           \/ Reconcile \/ PanelKilled \/ Reboot
    PROVE  TypeOK'
  <1>1. Control /\ Data
    BY TypeParts
  <1>2. ASSUME Request PROVE requests' \in 0..MaxRequests
    <2>1. requests \in 0..MaxRequests
      BY <1>1 DEF Data
    <2>2. QED
      BY <1>2, <2>1, Numbers DEF Request
  <1>3. ASSUME NEW h \in Handlers, DetectMode(h) PROVE TypeOK'
    <2>1. [socks |-> toml.socks, admits |-> ~suspended] \in TOML
      <3>1. toml.socks \in BOOLEAN /\ (~suspended) \in BOOLEAN
        BY <1>1 DEF Data, TOML
      <3>2. QED
        BY <3>1 DEF TOML
    <2> DEFINE t == [socks |-> toml.socks, admits |-> ~suspended]
    <2>2. job' = [job EXCEPT ![h] = [@ EXCEPT !.snapshot = t]]
      BY <1>1, <1>3 DEF DetectMode, Control
    <2>3. pc' = [pc EXCEPT ![h] = "us_write"] /\ UNCHANGED <<files, procs, suspended, requests, faults, mishap>>
      BY <1>3 DEF DetectMode, Goto
    <2> HIDE DEF t
    <2>4. [job[h] EXCEPT !.snapshot = t] \in Job
      BY <1>1, <2>1, JobParts DEF Job, t
    <2>5. Control'
      BY <1>1, <2>2, <2>3, <2>4, GoesWith DEF PC
    <2>6. Data'
      BY <1>1, <2>3 DEF Data, files, procs
    <2>7. QED
      BY <2>5, <2>6, TypesAfter
  <1>4. ASSUME NEW h \in Handlers, WriteAndReload(h) PROVE TypeOK'
    <2>1. Control'
      BY <1>1, <1>4, Ends DEF WriteAndReload, Goto
    <2>2. toml' \in TOML
      BY <1>1, <1>4, JobParts DEF WriteAndReload
    <2>3. tp' \in TOML
      <3>1. tp \in TOML /\ toml'.admits \in BOOLEAN /\ tp' = [tp EXCEPT !.admits = toml'.admits]
        BY <1>1, <1>4, <2>2 DEF WriteAndReload, Data, TOML
      <3>2. QED
        BY <3>1 DEF TOML
    <2>4. UNCHANGED <<list, sbjson, mode, sb, boot, suspended, requests, faults, mishap>>
      BY <1>4 DEF WriteAndReload
    <2>5. QED
      BY <1>1, <2>1, <2>2, <2>3, <2>4, TypesAfter DEF Data
  <1>5. CASE Reconcile
    <2>1. toml' \in TOML
      <3>1. toml \in TOML /\ (mode = "bridge") \in BOOLEAN
        BY <1>1 DEF Data
      <3>2. toml' = toml \/ toml' = [toml EXCEPT !.socks = (mode = "bridge")]
        BY <1>1, <1>5 DEF Reconcile, EffectiveMode, Data, TOML
      <3>3. QED
        BY <3>1, <3>2 DEF TOML
    <2>2. tp' \in TOML /\ requests' \in 0..MaxRequests
      BY <1>1, <1>2, <1>5, <2>1 DEF Reconcile, Data
    <2>3. UNCHANGED <<list, sbjson, mode, sb, boot, suspended, pc, job, faults, mishap>>
      BY <1>5 DEF Reconcile
    <2>4. QED
      BY <1>1, <2>1, <2>2, <2>3, TypesAfter DEF Data, Control
  <1>6. CASE PanelKilled
    <2>1. Control'
      BY <1>6, JobTypes DEF PanelKilled, Control, PC
    <2>2. PICK h \in Handlers :
            /\ sbjson' \in IF pc[h] \in {"en_json", "nd_render"} THEN {sbjson, Down} ELSE {sbjson}
            /\ toml' \in CASE pc[h] = "en_toml" -> Torn(toml, Upstream(h))
                           [] pc[h] \in {"rb_toml", "di_toml"} -> Torn(toml, Direct(h))
                           [] pc[h] \in {"dr_toml", "us_write"} -> Torn(toml, job[h].snapshot)
                           [] OTHER -> {toml}
      BY <1>6 DEF PanelKilled
    <2>3. toml' \in TOML
      <3>1. toml \in TOML /\ Upstream(h) \in TOML /\ Direct(h) \in TOML /\ job[h].snapshot \in TOML
        BY <1>1, JobParts DEF Data
      <3>2. toml' \in Torn(toml, Upstream(h)) \/ toml' \in Torn(toml, Direct(h))
            \/ toml' \in Torn(toml, job[h].snapshot) \/ toml' = toml
        BY <2>2
      <3>3. QED
        BY <3>1, <3>2, TornType
    <2>4. sbjson' \in Outbounds
      BY <1>1, <2>2, DownType DEF Data
    <2>5. faults' \in 0..MaxFaults /\ mishap' = TRUE
      BY <1>1, <1>6, CountedFault DEF PanelKilled
    <2>6. UNCHANGED <<list, mode, procs, suspended, requests>>
      BY <1>6 DEF PanelKilled
    <2>7. QED
      BY <1>1, <2>1, <2>3, <2>4, <2>5, <2>6, TypesAfter DEF Data, procs
  <1>7. CASE Reboot
    <2>1. sb' \in Outbounds /\ tp' \in TOML /\ requests' \in 0..MaxRequests
      BY <1>1, <1>2, <1>7, DownType DEF Reboot, Data
    <2>2. UNCHANGED <<files, boot, suspended, pc, job, faults, mishap>>
      BY <1>7 DEF Reboot
    <2>3. QED
      BY <1>1, <2>1, <2>2, TypesAfter DEF Data, Control, files
  <1>8. QED
    BY <1>3, <1>4, <1>5, <1>6, <1>7

LEMMA NextTypes == TypeOK /\ [Next]_vars => TypeOK'
  <1>1. ASSUME TypeOK, NEW h \in Handlers, Switch(h) PROVE TypeOK'
    BY <1>1, EnableTypes, RollbackTypes, DisableTypes, FailTypes, BeginTypes DEF Switch
  <1>2. ASSUME TypeOK, NEW h \in Handlers, Nodes(h) PROVE TypeOK'
    BY <1>2, NodesTypes, FailTypes, BeginTypes DEF Nodes
  <1>3. ASSUME TypeOK, UNCHANGED vars PROVE TypeOK'
    BY <1>3 DEF TypeOK, vars, files, procs
  <1>4. QED
    BY <1>1, <1>2, <1>3, BeginTypes, RestTypes DEF Next

\* Every variable has the type its comment gives it, however many requests overlap.
THEOREM TypeCorrect == Spec => []TypeOK
  BY InitTypes, NextTypes, PTL DEF Spec

-----------------------------------------------------------------------------
(* One request after the other. *)

LEMMA BeginsAlone == ASSUME OneByOne, TypeOK, Request PROVE Idle
  <1> DEFINE S == {h \in Handlers : pc[h] # "idle"}
  <1>1. IsFiniteSet(Handlers) /\ S \subseteq Handlers
    BY BridgeAssumption
  <1>2. IsFiniteSet(S) /\ Cardinality(S) \in Nat
    BY <1>1, FS_Subset, FS_CardinalityType
  <1>3. Cardinality(S) < 1
    BY DEF Request, OneByOne
  <1>4. S = {}
    BY <1>2, <1>3, FS_EmptySet
  <1>5. QED
    BY <1>4 DEF Idle

LEMMA IdleDoes == ASSUME NEW h \in Handlers, pc[h] = "idle" PROVE Doing(h)
  BY DEF Doing, Reading, Saved, Enabling, RollingBack, Disabling, Rendering

LEMMA IdleDoesAfter == ASSUME NEW h \in Handlers, pc'[h] = "idle" PROVE Doing(h)'
  BY DEF Doing, Reading, Saved, Enabling, RollingBack, Disabling, Rendering

LEMMA EffectiveKept ==
    ASSUME mode' = mode, toml' = toml PROVE EffectiveMode' = EffectiveMode
  BY DEF EffectiveMode

\* The step of one handler, while the others are idle.
LEMMA OneSteps ==
    ASSUME Inductive, TypeOK, NEW h \in Handlers, pc[h] # "idle" \/ Idle,
           NEW to \in PC, pc' = [pc EXCEPT ![h] = to], mishap' => faults' > 0,
           Doing(h)', to = "idle" => Settled(list)'
    PROVE  Inductive'
  <1>1. pc \in [Handlers -> PC]
    BY DEF TypeOK
  <1>2. \A g \in Handlers : g # h => pc'[g] = "idle"
    BY <1>1 DEF Inductive, OneAtWork, Idle
  <1>3. \A g \in Handlers : Doing(g)'
    BY <1>2, IdleDoesAfter
  <1>4. OneAtWork'
    BY <1>2 DEF OneAtWork
  <1>5. Rest'
    <2>1. Idle' => to = "idle"
      BY <1>1 DEF Idle
    <2>2. QED
      BY <2>1 DEF Rest
  <1>6. QED
    BY <1>3, <1>4, <1>5 DEF Inductive

\* Enable, step by step.
LEMMA EnableKeeps ==
    ASSUME Inductive, TypeOK, NEW h \in Handlers,
           \/ SaveNodes(h) \/ WriteJSON(h) \/ NotValid(h) \/ SaveCursor(h)
           \/ WriteBridgeTOML(h) \/ StartSingbox(h) \/ RestartTeleproxy(h) \/ EnableCheck(h)
           \/ EnableMode(h)
    PROVE  Inductive'
  <1>1. Doing(h) /\ (mishap => faults > 0) /\ (Idle => Settled(list))
    BY DEF Inductive, OneAtWork, Rest
  <1>2. Control /\ pc \in [Handlers -> PC] /\ job \in [Handlers -> Job]
    BY TypeParts DEF Control
  <1>3. faults \in Nat /\ boot \in BOOLEAN /\ toml \in TOML /\ tp \in TOML
    <2>1. faults \in 0..MaxFaults /\ MaxFaults \in Nat
      BY Numbers DEF TypeOK
    <2>2. faults \in Nat
      BY <2>1
    <2>3. QED
      BY <2>2 DEF TypeOK
  <1>4. CASE SaveNodes(h)
    <2>1. /\ pc[h] = "en_nodes" /\ pc' = [pc EXCEPT ![h] = "en_json"]
          /\ list' = job[h].new
          /\ UNCHANGED <<sbjson, sb, boot, toml, tp, mode, job, faults, mishap>>
      BY <1>2, <1>4 DEF SaveNodes, Goto, files, procs
    <2>2. pc'[h] = "en_json"
      BY <1>2, <2>1
    <2>3. Doing(h)'
      BY <1>1, <1>3, <2>1, <2>2
      DEF Doing, Reading, Saved, Enabling, RollingBack, Disabling, Rendering, Settled, Fresh,
         Agreed, EffectiveMode, Mild
    <2>4. QED
      BY <1>1, <1>3, <2>1, <2>2, <2>3, OneSteps, IdleDoesAfter DEF PC
  <1>5. CASE WriteJSON(h)
    <2>1. /\ pc[h] = "en_json" /\ pc' = [pc EXCEPT ![h] = "en_cursor"]
          /\ sbjson' = Render(job[h].new) /\ Valid(job[h].new)
          /\ UNCHANGED <<list, sb, boot, toml, tp, mode, job, faults, mishap>>
      BY <1>2, <1>5 DEF WriteJSON, Goto, files, procs
    <2>2. pc'[h] = "en_cursor"
      BY <1>2, <2>1
    <2>3. Doing(h)'
      BY <1>1, <1>3, <2>1, <2>2
      DEF Doing, Reading, Saved, Enabling, RollingBack, Disabling, Rendering, Settled, Fresh,
         Agreed, EffectiveMode, Mild
    <2>4. QED
      BY <1>1, <1>3, <2>1, <2>2, <2>3, OneSteps, IdleDoesAfter DEF PC
  <1>6. CASE NotValid(h)
    <2>1. /\ pc[h] = "en_json" /\ pc' = [pc EXCEPT ![h] = "rb_nodes"]
          /\ ~Valid(job[h].new)
          /\ UNCHANGED <<list, sbjson, sb, boot, toml, tp, mode, job, faults, mishap>>
      BY <1>2, <1>6 DEF NotValid, Goto, files, procs
    <2>2. pc'[h] = "rb_nodes"
      BY <1>2, <2>1
    <2>3. Doing(h)'
      BY <1>1, <1>3, <2>1, <2>2
      DEF Doing, Reading, Saved, Enabling, RollingBack, Disabling, Rendering, Settled, Fresh,
         Agreed, EffectiveMode, Mild
    <2>4. QED
      BY <1>1, <1>3, <2>1, <2>2, <2>3, OneSteps, IdleDoesAfter DEF PC
  <1>7. CASE SaveCursor(h)
    <2>1. /\ pc[h] = "en_cursor" /\ pc' = [pc EXCEPT ![h] = "en_toml"]
          /\ list' = IF Rotates(job[h].new) THEN Advanced(job[h].new) ELSE list
          /\ UNCHANGED <<sbjson, sb, boot, toml, tp, mode, job, faults, mishap>>
      BY <1>2, <1>7 DEF SaveCursor, Goto, files, procs
    <2>2. pc'[h] = "en_toml"
      BY <1>2, <2>1
    <2>3. Doing(h)'
      BY <1>1, <1>3, <2>1, <2>2, <1>2, JobParts, AdvancedParts
      DEF Doing, Reading, Saved, Enabling, RollingBack, Disabling, Rendering, Settled, Fresh,
         Agreed, EffectiveMode, Mild
    <2>4. QED
      BY <1>1, <1>3, <2>1, <2>2, <2>3, OneSteps, IdleDoesAfter DEF PC
  <1>8. CASE WriteBridgeTOML(h)
    <2>1. /\ pc[h] = "en_toml" /\ pc' = [pc EXCEPT ![h] = "en_start"]
          /\ toml' = Upstream(h)
          /\ UNCHANGED <<list, sbjson, sb, boot, tp, mode, job, faults, mishap>>
      BY <1>2, <1>8 DEF WriteBridgeTOML, Goto, files, procs
    <2>2. pc'[h] = "en_start"
      BY <1>2, <2>1
    <2>3. Doing(h)'
      BY <1>1, <1>3, <2>1, <2>2
      DEF Doing, Reading, Saved, Enabling, RollingBack, Disabling, Rendering, Settled, Fresh,
         Agreed, EffectiveMode, Mild, Upstream
    <2>4. QED
      BY <1>1, <1>3, <2>1, <2>2, <2>3, OneSteps, IdleDoesAfter DEF PC
  <1>9. CASE StartSingbox(h)
    <2>5. sbjson # Down
      <3>1. list \in NodeList /\ Valid(list) /\ sbjson = Last(list)
        BY <1>1, <1>9 DEF StartSingbox, Goto, TypeOK, Doing, Enabling
      <3>2. QED
        BY <3>1, LastNotDown
    <2>1. /\ pc[h] = "en_start" /\ pc' = [pc EXCEPT ![h] = "en_restart"]
          /\ boot' = TRUE /\ sb' = sbjson
          /\ UNCHANGED <<list, sbjson, toml, tp, mode, job, faults, mishap>>
      BY <1>2, <1>9, <2>5 DEF StartSingbox, Goto, files, procs
    <2>2. pc'[h] = "en_restart"
      BY <1>2, <2>1
    <2>3. Doing(h)'
      BY <1>1, <1>3, <2>1, <2>2
      DEF Doing, Reading, Saved, Enabling, RollingBack, Disabling, Rendering, Settled, Fresh,
         Agreed, EffectiveMode, Mild, Upstream
    <2>4. QED
      BY <1>1, <1>3, <2>1, <2>2, <2>3, OneSteps, IdleDoesAfter DEF PC
  <1>10. CASE RestartTeleproxy(h)
    <2>1. /\ pc[h] = "en_restart" /\ pc' = [pc EXCEPT ![h] = "en_check"]
          /\ tp' = toml
          /\ UNCHANGED <<list, sbjson, sb, boot, toml, mode, job, faults, mishap>>
      BY <1>2, <1>10 DEF RestartTeleproxy, Goto, files, procs
    <2>2. pc'[h] = "en_check"
      BY <1>2, <2>1
    <2>3. Doing(h)'
      BY <1>1, <1>3, <2>1, <2>2
      DEF Doing, Reading, Saved, Enabling, RollingBack, Disabling, Rendering, Settled, Fresh,
         Agreed, EffectiveMode, Mild, Upstream
    <2>4. QED
      BY <1>1, <1>3, <2>1, <2>2, <2>3, OneSteps, IdleDoesAfter DEF PC
  <1>11. CASE EnableCheck(h)
    <2>5. sb # Down
      <3>1. list \in NodeList /\ Valid(list) /\ sb = Last(list)
        BY <1>1, <1>11 DEF EnableCheck, Goto, TypeOK, Doing, Enabling
      <3>2. QED
        BY <3>1, LastNotDown
    <2>1. /\ pc[h] = "en_check" /\ pc' = [pc EXCEPT ![h] = "en_mode"]
          /\ UNCHANGED <<list, sbjson, sb, boot, toml, tp, mode, job, faults, mishap>>
      BY <1>2, <1>11, <2>5 DEF EnableCheck, Goto, files, procs
    <2>2. pc'[h] = "en_mode"
      BY <1>2, <2>1
    <2>3. Doing(h)'
      BY <1>1, <1>3, <2>1, <2>2
      DEF Doing, Reading, Saved, Enabling, RollingBack, Disabling, Rendering, Settled, Fresh,
         Agreed, EffectiveMode, Mild, Upstream
    <2>4. QED
      BY <1>1, <1>3, <2>1, <2>2, <2>3, OneSteps, IdleDoesAfter DEF PC
  <1>12. CASE EnableMode(h)
    <2>5. sb # Down
      <3>1. list \in NodeList /\ Valid(list) /\ sb = Last(list)
        BY <1>1, <1>12 DEF EnableMode, Goto, TypeOK, Doing, Enabling
      <3>2. QED
        BY <3>1, LastNotDown
    <2>1. /\ pc[h] = "en_mode" /\ pc' = [pc EXCEPT ![h] = "idle"]
          /\ mode' = "bridge"
          /\ UNCHANGED <<list, sbjson, sb, boot, toml, tp, faults, mishap>>
      BY <1>2, <1>12 DEF EnableMode, Goto, files, procs
    <2>2. pc'[h] = "idle"
      BY <1>2, <2>1
    <2>6. boot = TRUE /\ toml.socks = TRUE /\ tp = toml /\ sb # Down /\ Valid(list) /\ sbjson =
       Last(list)
      BY <1>1, <1>3, <2>1, <2>5 DEF Doing, Enabling, Upstream
    <2>3. Settled(list)'
      BY <1>1, <1>3, <2>1, <2>2, <2>6
      DEF Settled, Fresh, Agreed, EffectiveMode, Mild
    <2>4. QED
      BY <1>1, <1>3, <2>1, <2>2, <2>3, OneSteps, IdleDoesAfter DEF PC
  <1>13. QED
    BY <1>4, <1>5, <1>6, <1>7, <1>8, <1>9, <1>10, <1>11, <1>12

\* The rollback of Enable.
LEMMA RollbackKeeps ==
    ASSUME Inductive, TypeOK, NEW h \in Handlers,
           \/ RollbackNodes(h) \/ RollbackTOML(h) \/ RollbackStop(h) \/ RollbackDisable(h)
           \/ RollbackRestart(h)
    PROVE  Inductive'
  <1>1. Doing(h) /\ (mishap => faults > 0) /\ (Idle => Settled(list))
    BY DEF Inductive, OneAtWork, Rest
  <1>2. Control /\ pc \in [Handlers -> PC] /\ job \in [Handlers -> Job]
    BY TypeParts DEF Control
  <1>3. faults \in Nat /\ boot \in BOOLEAN /\ toml \in TOML /\ tp \in TOML
    <2>1. faults \in 0..MaxFaults /\ MaxFaults \in Nat
      BY Numbers DEF TypeOK
    <2>2. faults \in Nat
      BY <2>1
    <2>3. QED
      BY <2>2 DEF TypeOK
  <1>4. CASE RollbackNodes(h)
    <2>1. /\ pc[h] = "rb_nodes" /\ pc' = [pc EXCEPT ![h] = "rb_toml"]
          /\ list' = job[h].previous
          /\ UNCHANGED <<sbjson, sb, boot, toml, tp, mode, job, faults, mishap>>
      BY <1>2, <1>4 DEF RollbackNodes, Goto, files, procs
    <2>2. pc'[h] = "rb_toml"
      BY <1>2, <2>1
    <2>3. Doing(h)'
      BY <1>1, <1>3, <2>1, <2>2
      DEF Doing, Reading, Saved, Enabling, RollingBack, Disabling, Rendering, Settled, Fresh,
         Agreed, EffectiveMode, Mild
    <2>4. QED
      BY <1>1, <1>3, <2>1, <2>2, <2>3, OneSteps, IdleDoesAfter DEF PC
  <1>5. CASE RollbackTOML(h)
    <2>1. /\ pc[h] = "rb_toml" /\ pc' = [pc EXCEPT ![h] = "rb_stop"]
          /\ toml' = Direct(h)
          /\ UNCHANGED <<list, sbjson, sb, boot, tp, mode, job, faults, mishap>>
      BY <1>2, <1>5 DEF RollbackTOML, Goto, files, procs
    <2>2. pc'[h] = "rb_stop"
      BY <1>2, <2>1
    <2>3. Doing(h)'
      BY <1>1, <1>3, <2>1, <2>2
      DEF Doing, Reading, Saved, Enabling, RollingBack, Disabling, Rendering, Settled, Fresh,
         Agreed, EffectiveMode, Mild, Direct
    <2>4. QED
      BY <1>1, <1>3, <2>1, <2>2, <2>3, OneSteps, IdleDoesAfter DEF PC
  <1>6. CASE RollbackStop(h)
    <2>1. /\ pc[h] = "rb_stop" /\ pc' = [pc EXCEPT ![h] = "rb_disable"]
          /\ sb' = Down
          /\ UNCHANGED <<list, sbjson, boot, toml, tp, mode, job, faults, mishap>>
      BY <1>2, <1>6 DEF RollbackStop, Goto, files, procs
    <2>2. pc'[h] = "rb_disable"
      BY <1>2, <2>1
    <2>3. Doing(h)'
      BY <1>1, <1>3, <2>1, <2>2
      DEF Doing, Reading, Saved, Enabling, RollingBack, Disabling, Rendering, Settled, Fresh,
         Agreed, EffectiveMode, Mild, Direct
    <2>4. QED
      BY <1>1, <1>3, <2>1, <2>2, <2>3, OneSteps, IdleDoesAfter DEF PC
  <1>7. CASE RollbackDisable(h)
    <2>1. /\ pc[h] = "rb_disable" /\ pc' = [pc EXCEPT ![h] = "rb_restart"]
          /\ boot' = FALSE
          /\ UNCHANGED <<list, sbjson, sb, toml, tp, mode, job, faults, mishap>>
      BY <1>2, <1>7 DEF RollbackDisable, Goto, files, procs
    <2>2. pc'[h] = "rb_restart"
      BY <1>2, <2>1
    <2>3. Doing(h)'
      BY <1>1, <1>3, <2>1, <2>2
      DEF Doing, Reading, Saved, Enabling, RollingBack, Disabling, Rendering, Settled, Fresh,
         Agreed, EffectiveMode, Mild, Direct
    <2>4. QED
      BY <1>1, <1>3, <2>1, <2>2, <2>3, OneSteps, IdleDoesAfter DEF PC
  <1>8. CASE RollbackRestart(h)
    <2>1. /\ pc[h] = "rb_restart" /\ pc' = [pc EXCEPT ![h] = "idle"]
          /\ tp' = toml
          /\ UNCHANGED <<list, sbjson, sb, boot, toml, mode, faults, mishap>>
      BY <1>2, <1>8 DEF RollbackRestart, Goto, files, procs
    <2>2. pc'[h] = "idle"
      BY <1>2, <2>1
    <2>3. Settled(list)'
      BY <1>1, <1>3, <2>1, <2>2
      DEF Doing, Reading, Saved, Enabling, RollingBack, Disabling, Rendering, Settled, Fresh,
         Agreed, EffectiveMode, Mild
    <2>4. QED
      BY <1>1, <1>3, <2>1, <2>2, <2>3, OneSteps, IdleDoesAfter DEF PC
  <1>9. QED
    BY <1>4, <1>5, <1>6, <1>7, <1>8

\* Disable, and its rollback.
LEMMA DisableKeeps ==
    ASSUME Inductive, TypeOK, NEW h \in Handlers,
           \/ StopSingbox(h) \/ DisableSingbox(h) \/ WriteSingleTOML(h) \/ RestartSingle(h)
           \/ DisableMode(h) \/ RestoreTOML(h) \/ RestoreTeleproxy(h) \/ RestoreSingbox(h)
    PROVE  Inductive'
  <1>1. Doing(h) /\ (mishap => faults > 0) /\ (Idle => Settled(list))
    BY DEF Inductive, OneAtWork, Rest
  <1>2. Control /\ pc \in [Handlers -> PC] /\ job \in [Handlers -> Job]
    BY TypeParts DEF Control
  <1>3. faults \in Nat /\ boot \in BOOLEAN /\ toml \in TOML /\ tp \in TOML
    <2>1. faults \in 0..MaxFaults /\ MaxFaults \in Nat
      BY Numbers DEF TypeOK
    <2>2. faults \in Nat
      BY <2>1
    <2>3. QED
      BY <2>2 DEF TypeOK
  <1>4. CASE StopSingbox(h)
    <2>1. /\ pc[h] = "di_stop" /\ pc' = [pc EXCEPT ![h] = "di_disable"]
          /\ sb' = Down
          /\ UNCHANGED <<list, sbjson, boot, toml, tp, mode, job, faults, mishap>>
      BY <1>2, <1>4 DEF StopSingbox, Goto, files, procs
    <2>2. pc'[h] = "di_disable"
      BY <1>2, <2>1
    <2>3. Doing(h)'
      BY <1>1, <1>3, <2>1, <2>2
      DEF Doing, Reading, Saved, Enabling, RollingBack, Disabling, Rendering, Settled, Fresh,
         Agreed, EffectiveMode, Mild, Direct, Kept
    <2>4. QED
      BY <1>1, <1>3, <2>1, <2>2, <2>3, OneSteps, IdleDoesAfter DEF PC
  <1>5. CASE DisableSingbox(h)
    <2>1. /\ pc[h] = "di_disable" /\ pc' = [pc EXCEPT ![h] = "di_toml"]
          /\ boot' = FALSE
          /\ UNCHANGED <<list, sbjson, sb, toml, tp, mode, job, faults, mishap>>
      BY <1>2, <1>5 DEF DisableSingbox, Goto, files, procs
    <2>2. pc'[h] = "di_toml"
      BY <1>2, <2>1
    <2>3. Doing(h)'
      BY <1>1, <1>3, <2>1, <2>2
      DEF Doing, Reading, Saved, Enabling, RollingBack, Disabling, Rendering, Settled, Fresh,
         Agreed, EffectiveMode, Mild, Direct, Kept
    <2>4. QED
      BY <1>1, <1>3, <2>1, <2>2, <2>3, OneSteps, IdleDoesAfter DEF PC
  <1>6. CASE WriteSingleTOML(h)
    <2>1. /\ pc[h] = "di_toml" /\ pc' = [pc EXCEPT ![h] = "di_restart"]
          /\ toml' = Direct(h)
          /\ UNCHANGED <<list, sbjson, sb, boot, tp, mode, job, faults, mishap>>
      BY <1>2, <1>6 DEF WriteSingleTOML, Goto, files, procs
    <2>2. pc'[h] = "di_restart"
      BY <1>2, <2>1
    <2>3. Doing(h)'
      BY <1>1, <1>3, <2>1, <2>2
      DEF Doing, Reading, Saved, Enabling, RollingBack, Disabling, Rendering, Settled, Fresh,
         Agreed, EffectiveMode, Mild, Direct, Kept
    <2>4. QED
      BY <1>1, <1>3, <2>1, <2>2, <2>3, OneSteps, IdleDoesAfter DEF PC
  <1>7. CASE RestartSingle(h)
    <2>1. /\ pc[h] = "di_restart" /\ pc' = [pc EXCEPT ![h] = "di_mode"]
          /\ tp' = toml
          /\ UNCHANGED <<list, sbjson, sb, boot, toml, mode, job, faults, mishap>>
      BY <1>2, <1>7 DEF RestartSingle, Goto, files, procs
    <2>2. pc'[h] = "di_mode"
      BY <1>2, <2>1
    <2>3. Doing(h)'
      BY <1>1, <1>3, <2>1, <2>2
      DEF Doing, Reading, Saved, Enabling, RollingBack, Disabling, Rendering, Settled, Fresh,
         Agreed, EffectiveMode, Mild, Direct, Kept
    <2>4. QED
      BY <1>1, <1>3, <2>1, <2>2, <2>3, OneSteps, IdleDoesAfter DEF PC
  <1>8. CASE DisableMode(h)
    <2>1. /\ pc[h] = "di_mode" /\ pc' = [pc EXCEPT ![h] = "idle"]
          /\ mode' = "single"
          /\ UNCHANGED <<list, sbjson, sb, boot, toml, tp, faults, mishap>>
      BY <1>2, <1>8 DEF DisableMode, Goto, files, procs
    <2>2. pc'[h] = "idle"
      BY <1>2, <2>1
    <2>5. boot = FALSE /\ toml.socks = FALSE /\ tp = toml /\ sb = Down
      BY <1>1, <1>3, <2>1 DEF Doing, Disabling, Direct
    <2>3. Settled(list)'
      BY <1>1, <1>3, <2>1, <2>2, <2>5
      DEF Settled, Fresh, Agreed, EffectiveMode, Mild
    <2>4. QED
      BY <1>1, <1>3, <2>1, <2>2, <2>3, OneSteps, IdleDoesAfter DEF PC
  <1>9. CASE RestoreTOML(h)
    <2>1. /\ pc[h] = "dr_toml" /\ pc' = [pc EXCEPT ![h] = "dr_restart"]
          /\ toml' = job[h].snapshot
          /\ UNCHANGED <<list, sbjson, sb, boot, tp, mode, job, faults, mishap>>
      BY <1>2, <1>9 DEF RestoreTOML, Goto, files, procs
    <2>2. pc'[h] = "dr_restart"
      BY <1>2, <2>1
    <2>3. Doing(h)'
      BY <1>1, <1>3, <2>1, <2>2
      DEF Doing, Reading, Saved, Enabling, RollingBack, Disabling, Rendering, Settled, Fresh,
         Agreed, EffectiveMode, Mild, Direct, Kept
    <2>4. QED
      BY <1>1, <1>3, <2>1, <2>2, <2>3, OneSteps, IdleDoesAfter DEF PC
  <1>10. CASE RestoreTeleproxy(h)
    <2>1. /\ pc[h] = "dr_restart" /\ pc' = [pc EXCEPT ![h] = "dr_start"]
          /\ tp' = toml
          /\ UNCHANGED <<list, sbjson, sb, boot, toml, mode, job, faults, mishap>>
      BY <1>2, <1>10 DEF RestoreTeleproxy, Goto, files, procs
    <2>2. pc'[h] = "dr_start"
      BY <1>2, <2>1
    <2>3. Doing(h)'
      BY <1>1, <1>3, <2>1, <2>2
      DEF Doing, Reading, Saved, Enabling, RollingBack, Disabling, Rendering, Settled, Fresh,
         Agreed, EffectiveMode, Mild, Direct, Kept
    <2>4. QED
      BY <1>1, <1>3, <2>1, <2>2, <2>3, OneSteps, IdleDoesAfter DEF PC
  <1>11. CASE RestoreSingbox(h)
    <2>1. /\ pc[h] = "dr_start" /\ sb' = IF job[h].wasActive THEN sbjson ELSE sb
          /\ UNCHANGED <<list, sbjson, boot, toml, tp, mode, faults, mishap>>
      BY <1>11 DEF RestoreSingbox, Goto, files
    <2>2. faults > 0 /\ (Mild' /\ sb' # Down /\ Valid(Kept(h)) => sbjson' = Last(Kept(h)))
          /\ (job[h].last => list = job[h].new /\ ~Valid(list))
      BY <1>1, <2>1 DEF Doing, Disabling, Mild
    <2>3. CASE job[h].last
      <3>1. pc' = [pc EXCEPT ![h] = "nd_restore"] /\ job' = job /\ pc'[h] = "nd_restore"
        BY <1>2, <1>11, <2>3 DEF RestoreSingbox, Goto
      <3>2. Settled(job[h].previous)'
        BY <1>3, <2>1, <2>2, <2>3, <3>1 DEF Settled, Fresh, Mild, Kept
      <3>3. Saved(h)'
        BY <1>3, <2>1, <2>2, <2>3, <3>1, <3>2 DEF Saved
      <3>4. Doing(h)'
        BY <3>1, <3>3 DEF Doing, Reading, Enabling, RollingBack, Disabling, Rendering
      <3>5. QED
        BY <1>1, <2>1, <3>1, <3>4, OneSteps DEF PC
    <2>4. CASE ~job[h].last
      <3>1. pc' = [pc EXCEPT ![h] = "idle"] /\ pc'[h] = "idle"
        BY <1>2, <1>11, <2>4 DEF RestoreSingbox, Goto
      <3>2. Settled(list)'
        BY <1>3, <2>1, <2>2, <2>4 DEF Settled, Fresh, Mild, Kept
      <3>3. QED
        BY <1>1, <2>1, <3>1, <3>2, OneSteps, IdleDoesAfter DEF PC
    <2>5. QED
      BY <2>3, <2>4
  <1>12. QED
    BY <1>4, <1>5, <1>6, <1>7, <1>8, <1>9, <1>10, <1>11

\* The edits of the nodes.
LEMMA NodesKeep ==
    ASSUME Inductive, TypeOK, NEW h \in Handlers,
           \/ SaveList(h) \/ SaveLast(h) \/ RenderNodes(h) \/ RenderNothing(h)
           \/ RenderNotValid(h) \/ SaveNodesCursor(h) \/ RestoreJSON(h) \/ RestoreList(h)
           \/ SavePing(h)
    PROVE  Inductive'
  <1>1. Doing(h) /\ (mishap => faults > 0) /\ (Idle => Settled(list))
    BY DEF Inductive, OneAtWork, Rest
  <1>2. Control /\ pc \in [Handlers -> PC] /\ job \in [Handlers -> Job]
    BY TypeParts DEF Control
  <1>3. faults \in Nat /\ boot \in BOOLEAN /\ toml \in TOML /\ tp \in TOML
    <2>1. faults \in 0..MaxFaults /\ MaxFaults \in Nat
      BY Numbers DEF TypeOK
    <2>2. faults \in Nat
      BY <2>1
    <2>3. QED
      BY <2>2 DEF TypeOK
  <1>4. CASE SaveList(h)
    <2>1. /\ pc[h] = "nd_save" /\ pc' = [pc EXCEPT ![h] = "nd_render"]
          /\ list' = job[h].new
          /\ UNCHANGED <<sbjson, sb, boot, toml, tp, mode, job, faults, mishap>>
      BY <1>2, <1>4 DEF SaveList, Goto, files, procs
    <2>2. pc'[h] = "nd_render"
      BY <1>2, <2>1
    <2>3. Doing(h)'
      BY <1>1, <1>3, <2>1, <2>2
      DEF Doing, Reading, Saved, Enabling, RollingBack, Disabling, Rendering, Settled, Fresh,
         Agreed, EffectiveMode, Mild
    <2>4. QED
      BY <1>1, <1>3, <2>1, <2>2, <2>3, OneSteps, IdleDoesAfter DEF PC
  <1>5. CASE SaveLast(h)
    <2>1. /\ pc[h] = "nd_save_last" /\ pc' = [pc EXCEPT ![h] = "di_stop"] /\ list' = job[h].new
          /\ UNCHANGED <<sbjson, toml, mode, sb, boot, tp>>
      BY <1>5 DEF SaveLast, Goto, procs
    <2>2. PICK active \in BOOLEAN :
            Told(active) /\ job' = [job EXCEPT ![h].snapshot = toml, ![h].wasActive = active]
      BY <1>5 DEF SaveLast
    <2>3. /\ pc'[h] = "di_stop" /\ job'[h].new = job[h].new /\ job'[h].previous = job[h].previous
          /\ job'[h].last = job[h].last /\ job'[h].wasActive = active
      <3>1. job[h] \in Job
        BY <1>2
      <3>2. job'[h] = [job[h] EXCEPT !.snapshot = toml, !.wasActive = active]
        BY <1>2, <2>2
      <3>3. QED
        BY <1>2, <2>1, <3>1, <3>2 DEF Job
    <2>4. (mishap' => faults' > 0) /\ (Mild' => Mild /\ active = (sb # Down))
      BY <1>1, <1>3, <2>2 DEF Told, Mild
    <2>5. /\ Mild => Fresh(job[h].previous)
          /\ job[h].last /\ ~Valid(job[h].new)
      BY <1>1, <2>1 DEF Doing, Reading, Settled
    <2>6. Disabling(h)'
      BY <2>1, <2>3, <2>4, <2>5 DEF Disabling, Kept, Fresh
    <2>7. Doing(h)'
      BY <2>3, <2>6 DEF Doing, Reading, Saved, Enabling, RollingBack, Rendering
    <2>8. QED
      BY <2>1, <2>4, <2>7, OneSteps DEF PC
  <1>6. CASE RenderNodes(h)
    <2>1. /\ pc[h] = "nd_render" /\ pc' = [pc EXCEPT ![h] = "nd_cursor"]
          /\ sbjson' = Render(job[h].new) /\ Valid(job[h].new)
          /\ job'[h] = [job[h] EXCEPT !.json = sbjson]
          /\ UNCHANGED <<list, sb, boot, toml, tp, mode, faults, mishap>>
      BY <1>2, <1>6 DEF RenderNodes, Goto, files, procs
    <2>2. pc'[h] = "nd_cursor"
      BY <1>2, <2>1
    <2>9. EffectiveMode' = EffectiveMode
      BY <2>1, EffectiveKept
    <2>3. Doing(h)'
      BY <1>1, <1>3, <2>1, <2>2, <1>2, <2>9
      DEF Doing, Reading, Saved, Enabling, RollingBack, Disabling, Rendering, Settled, Fresh,
         Agreed, Mild, Restorable, Job
    <2>4. QED
      BY <1>1, <1>3, <2>1, <2>2, <2>3, OneSteps, IdleDoesAfter DEF PC
  <1>7. CASE RenderNothing(h)
    <2>1. /\ pc[h] = "nd_render" /\ pc' = [pc EXCEPT ![h] = "idle"] /\ Told(FALSE)
          /\ UNCHANGED <<list, sbjson, toml, mode, sb, boot, tp>>
      BY <1>7 DEF RenderNothing, Goto, files, procs
    <2>2. pc'[h] = "idle"
      BY <1>2, <2>1
    <2>3. faults = 0 => Agreed
      BY <1>1, <2>1 DEF Doing, Saved, Settled
    <2>4. CASE sb = Down /\ UNCHANGED <<faults, mishap>>
      <3>1. Settled(list)'
        BY <1>3, <2>1, <2>3, <2>4 DEF Settled, Fresh, Agreed, EffectiveMode
      <3>2. QED
        BY <1>1, <2>1, <2>2, <2>4, <3>1, OneSteps, IdleDoesAfter DEF PC
    <2>5. CASE faults' = faults + 1 /\ mishap' = TRUE
      <3>1. faults' > 0 /\ faults' # 0
        BY <1>3, <2>5
      <3>2. ~Mild'
        BY <2>5 DEF Mild
      <3>3. Settled(list)'
        BY <3>1, <3>2 DEF Settled
      <3>4. QED
        BY <2>1, <2>2, <3>1, <3>3, OneSteps, IdleDoesAfter DEF PC
    <2>6. QED
      BY <2>1, <2>4, <2>5 DEF Told
  <1>8. CASE RenderNotValid(h)
    <2>1. /\ pc[h] = "nd_render" /\ pc' = [pc EXCEPT ![h] = "nd_restore"]
          /\ ~Valid(job[h].new)
          /\ UNCHANGED <<list, sbjson, sb, boot, toml, tp, mode, job, faults, mishap>>
      BY <1>2, <1>8 DEF RenderNotValid, Goto, files, procs
    <2>2. pc'[h] = "nd_restore"
      BY <1>2, <2>1
    <2>3. Doing(h)'
      BY <1>1, <1>3, <2>1, <2>2
      DEF Doing, Reading, Saved, Enabling, RollingBack, Disabling, Rendering, Settled, Fresh,
         Agreed, EffectiveMode, Mild
    <2>4. QED
      BY <1>1, <1>3, <2>1, <2>2, <2>3, OneSteps, IdleDoesAfter DEF PC
  <1>9. CASE SaveNodesCursor(h)
    <2>1. /\ pc[h] = "nd_cursor" /\ pc' = [pc EXCEPT ![h] = "idle"]
          /\ list' = IF Rotates(job[h].new) THEN Advanced(job[h].new) ELSE list
          /\ UNCHANGED <<sbjson, toml, mode, sb, boot, tp, faults, mishap>>
      BY <1>9 DEF SaveNodesCursor, Goto, procs
    <2>2. /\ list \in NodeList /\ list = job[h].new /\ Valid(list) /\ sbjson = Render(list)
          /\ faults = 0 => Agreed
      BY <1>1, <2>1 DEF Doing, Rendering, TypeOK
    <2>3. list' = Advanced(list) /\ Valid(list') /\ Last(list') = sbjson
      BY <2>1, <2>2, AdvancedParts
    <2>4. Settled(list)' /\ pc'[h] = "idle"
      BY <1>2, <2>1, <2>2, <2>3 DEF Settled, Fresh, Agreed, EffectiveMode
    <2>5. QED
      BY <1>1, <2>1, <2>4, OneSteps, IdleDoesAfter DEF PC
  <1>10. CASE RestoreJSON(h)
    <2>1. /\ pc[h] = "nd_unrender" /\ pc' = [pc EXCEPT ![h] = "nd_restore"]
          /\ sbjson' = job[h].json
          /\ UNCHANGED <<list, sb, boot, toml, tp, mode, job, faults, mishap>>
      BY <1>2, <1>10 DEF RestoreJSON, Goto, files, procs
    <2>2. pc'[h] = "nd_restore"
      BY <1>2, <2>1
    <2>9. EffectiveMode' = EffectiveMode
      BY <2>1, EffectiveKept
    <2>3. Doing(h)'
      BY <1>1, <1>3, <2>1, <2>2, <2>9
      DEF Doing, Reading, Saved, Enabling, RollingBack, Disabling, Rendering, Settled, Fresh,
         Agreed, Mild, Restorable
    <2>4. QED
      BY <1>1, <1>3, <2>1, <2>2, <2>3, OneSteps, IdleDoesAfter DEF PC
  <1>11. CASE RestoreList(h)
    <2>1. /\ pc[h] = "nd_restore" /\ pc' = [pc EXCEPT ![h] = "idle"]
          /\ list' = job[h].previous
          /\ UNCHANGED <<sbjson, sb, boot, toml, tp, mode, faults, mishap>>
      BY <1>2, <1>11 DEF RestoreList, Goto, files, procs
    <2>2. pc'[h] = "idle"
      BY <1>2, <2>1
    <2>3. Settled(list)'
      BY <1>1, <1>3, <2>1, <2>2
      DEF Doing, Reading, Saved, Enabling, RollingBack, Disabling, Rendering, Settled, Fresh,
         Agreed, EffectiveMode, Mild
    <2>4. QED
      BY <1>1, <1>3, <2>1, <2>2, <2>3, OneSteps, IdleDoesAfter DEF PC
  <1>12. CASE SavePing(h)
    <2>1. /\ pc[h] = "ping" /\ pc' = [pc EXCEPT ![h] = "idle"]
          /\ list' = job[h].new
          /\ UNCHANGED <<sbjson, sb, boot, toml, tp, mode, faults, mishap>>
      BY <1>2, <1>12 DEF SavePing, Goto, files, procs
    <2>2. pc'[h] = "idle"
      BY <1>2, <2>1
    <2>3. Settled(list)'
      BY <1>1, <1>3, <2>1, <2>2
      DEF Doing, Reading, Saved, Enabling, RollingBack, Disabling, Rendering, Settled, Fresh,
         Agreed, EffectiveMode, Mild
    <2>4. QED
      BY <1>1, <1>3, <2>1, <2>2, <2>3, OneSteps, IdleDoesAfter DEF PC
  <1>13. QED
    BY <1>4, <1>5, <1>6, <1>7, <1>8, <1>9, <1>10, <1>11, <1>12

\* A call that fails.
LEMMA FaultsKeep ==
    ASSUME Inductive, TypeOK, NEW h \in Handlers,
           \/ SaveNodesFails(h) \/ ModeNotSaved(h) \/ EnableFails(h) \/ RollbackFails(h)
           \/ StopFails(h) \/ DisableFails(h) \/ DisableRollbackFails(h) \/ SaveListFails(h)
           \/ RenderFails(h) \/ RestoreJSONFails(h) \/ RestoreListFails(h)
    PROVE  Inductive'
  <1>1. Doing(h) /\ (mishap => faults > 0) /\ (Idle => Settled(list))
    BY DEF Inductive, OneAtWork, Rest
  <1>2. Control /\ pc \in [Handlers -> PC] /\ job \in [Handlers -> Job]
    BY TypeParts DEF Control
  <1>3. faults \in Nat /\ boot \in BOOLEAN /\ toml \in TOML /\ tp \in TOML
    <2>1. faults \in 0..MaxFaults /\ MaxFaults \in Nat
      BY Numbers DEF TypeOK
    <2>2. faults \in Nat
      BY <2>1
    <2>3. QED
      BY <2>2 DEF TypeOK
  <1>4. CASE SaveNodesFails(h)
    <2>1. /\ pc[h] = "en_nodes" /\ pc' = [pc EXCEPT ![h] = "idle"]
          /\ faults' = faults + 1
          /\ UNCHANGED <<list, sbjson, sb, boot, toml, tp, mode, mishap>>
      BY <1>2, <1>4 DEF SaveNodesFails, Goto, files, procs, Fail
    <2>2. pc'[h] = "idle"
      BY <1>2, <2>1
    <2>5. faults' > 0
      BY <1>3, <2>1
    <2>3. Settled(list)'
      BY <1>1, <1>3, <2>1, <2>2, <2>5
      DEF Doing, Reading, Saved, Enabling, RollingBack, Disabling, Rendering, Settled, Fresh,
         Mild
    <2>4. QED
      BY <1>1, <1>3, <2>1, <2>2, <2>3, <2>5, OneSteps, IdleDoesAfter DEF PC
  <1>5. CASE ModeNotSaved(h)
    <2>1. /\ pc[h] \in {"en_mode", "di_mode"} /\ pc' = [pc EXCEPT ![h] = "idle"]
          /\ faults' = faults + 1
          /\ UNCHANGED <<list, sbjson, sb, boot, toml, tp, mode, mishap>>
      BY <1>2, <1>5 DEF ModeNotSaved, Goto, files, procs, Fail
    <2>2. pc'[h] = "idle"
      BY <1>2, <2>1
    <2>5. faults' > 0
      BY <1>3, <2>1
    <2>3. Settled(list)'
      BY <1>1, <1>3, <2>1, <2>2, <2>5
      DEF Doing, Reading, Saved, Enabling, RollingBack, Disabling, Rendering, Settled, Fresh,
         Mild
    <2>4. QED
      BY <1>1, <1>3, <2>1, <2>2, <2>3, <2>5, OneSteps, IdleDoesAfter DEF PC
  <1>6. CASE EnableFails(h)
    <2>1. /\ pc[h] \in {"en_json", "en_cursor", "en_toml", "en_start", "en_restart", "en_check"}
       /\ pc' = [pc EXCEPT ![h] = "rb_nodes"]
          /\ job' = job /\ mishap' = mishap /\ faults' = faults + 1
      BY <1>2, <1>6 DEF EnableFails, Goto, files, procs, Fail
    <2>2. pc'[h] = "rb_nodes"
      BY <1>2, <2>1
    <2>5. faults' > 0
      BY <1>3, <2>1
    <2>3. Doing(h)'
      BY <1>1, <1>3, <2>1, <2>2, <2>5
      DEF Doing, Reading, Saved, Enabling, RollingBack, Disabling, Rendering, Settled, Fresh,
         Mild
    <2>4. QED
      BY <1>1, <1>3, <2>1, <2>2, <2>3, <2>5, OneSteps, IdleDoesAfter DEF PC
  <1>7. CASE RollbackFails(h)
    <2>1. PICK i \in 1..5 :
            /\ Fail(h, {RollbackSteps[i]}, RollbackSteps[i + 1])
            /\ job' = [job EXCEPT ![h] = IF i = 5 THEN NoJob ELSE [@ EXCEPT !.errs = TRUE]]
            /\ toml' \in IF i = 2 THEN Torn(toml, Direct(h)) ELSE {toml}
            /\ sb' \in {sb} \cup (IF i = 3 THEN {Down} ELSE {})
            /\ boot' \in {boot} \cup (IF i = 4 THEN {FALSE} ELSE {})
            /\ tp' \in {tp} \cup (IF i = 5 THEN {toml} ELSE {})
            /\ UNCHANGED <<list, sbjson, mode, suspended, requests, mishap>>
      BY <1>7 DEF RollbackFails
    <2>1a. /\ pc[h] \in {RollbackSteps[i]} /\ pc' = [pc EXCEPT ![h] = RollbackSteps[i + 1]]
          /\ faults' = faults + 1 /\ mishap' = mishap
      BY <2>1 DEF Fail
    <2>2. /\ pc[h] \in {"rb_nodes", "rb_toml", "rb_stop", "rb_disable", "rb_restart"}
          /\ pc'[h] \in {"rb_toml", "rb_stop", "rb_disable", "rb_restart", "idle"}
          /\ RollbackSteps[i + 1] = pc'[h] /\ faults' > 0
          /\ pc[h] = "rb_restart" <=> pc'[h] = "idle"
          /\ pc[h] = "rb_stop" <=> pc'[h] = "rb_disable"
          /\ pc[h] = "rb_disable" <=> pc'[h] = "rb_restart"
          /\ i = 5 <=> pc'[h] = "idle"
          /\ i = 3 <=> pc'[h] = "rb_disable"
      <3>1. pc[h] = RollbackSteps[i] /\ pc'[h] = RollbackSteps[i + 1]
        BY <1>2, <2>1, <2>1a
      <3>2. CASE i = 1
        BY <1>3, <2>1, <2>1a, <3>1, <3>2 DEF RollbackSteps
      <3>3. CASE i = 2
        BY <1>3, <2>1, <2>1a, <3>1, <3>3 DEF RollbackSteps
      <3>4. CASE i = 3
        BY <1>3, <2>1, <2>1a, <3>1, <3>4 DEF RollbackSteps
      <3>5. CASE i = 4
        BY <1>3, <2>1, <2>1a, <3>1, <3>5 DEF RollbackSteps
      <3>6. CASE i = 5
        BY <1>3, <2>1, <2>1a, <3>1, <3>6 DEF RollbackSteps
      <3>7. QED
        BY <3>2, <3>3, <3>4, <3>5, <3>6
    <2>3. Mild' => Mild /\ faults = 0
      BY <1>3, <2>1, <2>1a DEF Mild
    <2>4. Mild' /\ pc'[h] \in {"rb_disable", "rb_restart", "idle"} => sb' = Down
      BY <1>1, <2>1, <2>1a, <2>2, <2>3 DEF Doing, RollingBack
    <2>5. CASE pc'[h] = "idle"
      <3>1. Settled(list)'
        BY <1>3, <2>1, <2>1a, <2>4, <2>5 DEF Settled, Fresh
      <3>2. QED
        <4>1. pc' = [pc EXCEPT ![h] = "idle"]
          BY <2>1, <2>1a, <2>2, <2>5
        <4>2. QED
          BY <1>1, <2>1, <2>1a, <2>2, <2>5, <3>1, <4>1, OneSteps, IdleDoesAfter DEF PC
    <2>6. CASE pc'[h] # "idle"
      <3>1. job'[h] = [job[h] EXCEPT !.errs = TRUE] /\ job[h] \in Job
        <4>1. i # 5
          BY <2>2, <2>6
        <4>2. job' = [job EXCEPT ![h] = [@ EXCEPT !.errs = TRUE]]
          BY <2>1, <2>1a, <4>1
        <4>3. job[h] \in Job /\ DOMAIN job = Handlers
          BY <1>2
        <4>4. job'[h] = [job[h] EXCEPT !.errs = TRUE]
          BY <4>2, <4>3
        <4>5. QED
          BY <4>3, <4>4
      <3>2. job'[h].errs
        BY <3>1 DEF Job
      <3>3. RollingBack(h)'
        BY <1>3, <2>1, <2>1a, <2>4, <3>2 DEF RollingBack
      <3>4. Doing(h)'
        BY <2>2, <2>6, <3>3 DEF Doing, Reading, Saved, Enabling, Disabling, Rendering
      <3>5. RollbackSteps[i + 1] \in PC
        BY <2>2 DEF PC
      <3>6. QED
        BY <1>1, <2>1, <2>1a, <2>2, <2>6, <3>4, <3>5, OneSteps
    <2>7. QED
      BY <2>5, <2>6
  <1>8. ASSUME pc[h] \in {"di_stop", "di_disable", "dr_start"}, faults' > 0,
               (Mild' => Mild), mishap' = mishap, list' = list, sbjson' = sbjson,
               Mild' /\ sb' # Down => sb # Down \/ job[h].wasActive,
               pc' = [pc EXCEPT ![h] = IF job[h].last THEN "nd_restore" ELSE "idle"],
               job' = IF job[h].last THEN job ELSE [job EXCEPT ![h] = NoJob]
        PROVE  Inductive'
    <2>1. /\ Mild' /\ sb' # Down /\ Valid(Kept(h)) => sbjson' = Last(Kept(h))
          /\ job[h].last => list = job[h].new /\ ~Valid(list)
      BY <1>1, <1>8 DEF Doing, Disabling
    <2>2. CASE job[h].last
      <3>1. pc' = [pc EXCEPT ![h] = "nd_restore"] /\ job' = job /\ pc'[h] = "nd_restore"
        BY <1>2, <1>8, <2>2
      <3>2. Settled(job[h].previous)'
        BY <1>8, <2>1, <2>2, <3>1 DEF Settled, Fresh, Kept
      <3>3. Saved(h)'
        BY <1>8, <2>1, <2>2, <3>1, <3>2 DEF Saved
      <3>4. Doing(h)'
        BY <3>1, <3>3 DEF Doing, Reading, Enabling, RollingBack, Disabling, Rendering
      <3>5. QED
        BY <1>8, <3>1, <3>4, OneSteps DEF PC
    <2>3. CASE ~job[h].last
      <3>1. pc' = [pc EXCEPT ![h] = "idle"] /\ pc'[h] = "idle"
        BY <1>2, <1>8, <2>3
      <3>2. Settled(list)'
        BY <1>8, <2>1, <2>3 DEF Settled, Fresh, Kept
      <3>3. QED
        BY <1>8, <3>1, <3>2, OneSteps, IdleDoesAfter DEF PC
    <2>4. QED
      BY <2>2, <2>3
  <1>9. CASE StopFails(h)
    <2>1. /\ pc[h] \in {"di_stop", "di_disable"} /\ faults' = faults + 1
          /\ mishap' = mishap /\ list' = list /\ sbjson' = sbjson
          /\ sb' = sb \/ sb' = Down
          /\ pc' = [pc EXCEPT ![h] = IF job[h].last THEN "nd_restore" ELSE "idle"]
          /\ job' = IF job[h].last THEN job ELSE [job EXCEPT ![h] = NoJob]
      BY <1>9 DEF StopFails, Fail, files
    <2>2. faults' > 0 /\ (Mild' => Mild)
      BY <1>3, <2>1 DEF Mild
    <2>3. QED
      BY <1>8, <2>1, <2>2
  <1>10. CASE DisableFails(h)
    <2>1. /\ pc[h] \in {"di_toml", "di_restart"} /\ pc' = [pc EXCEPT ![h] = "dr_toml"]
          /\ faults' = faults + 1
          /\ UNCHANGED <<list, sbjson, mode, sb, boot, job, mishap>>
      BY <1>10 DEF DisableFails, Fail
    <2>2. faults' > 0 /\ (Mild' => Mild) /\ pc'[h] = "dr_toml"
      BY <1>2, <1>3, <2>1 DEF Mild
    <2>3. Disabling(h)'
      BY <1>1, <2>1, <2>2 DEF Doing, Disabling, Kept
    <2>4. Doing(h)'
      BY <2>2, <2>3 DEF Doing, Reading, Saved, Enabling, RollingBack, Rendering
    <2>5. QED
      BY <2>1, <2>2, <2>4, OneSteps DEF PC
  <1>11. CASE DisableRollbackFails(h)
    <2>1. /\ mishap' = mishap /\ list' = list /\ sbjson' = sbjson /\ faults' = faults + 1
          /\ sb' = sb \/ pc[h] = "dr_start"
          /\ \/ /\ pc[h] \in {"dr_toml", "dr_restart"} /\ pc' = [pc EXCEPT ![h] = "dr_start"]
                /\ job' = [job EXCEPT ![h].errs = TRUE]
             \/ /\ pc[h] = "dr_start" /\ job[h].wasActive
                /\ pc' = [pc EXCEPT ![h] = IF job[h].last THEN "nd_restore" ELSE "idle"]
                /\ job' = IF job[h].last THEN job ELSE [job EXCEPT ![h] = NoJob]
      BY <1>11 DEF DisableRollbackFails, Fail
    <2>2. faults' > 0 /\ (Mild' => Mild)
      BY <1>3, <2>1 DEF Mild
    <2>3. CASE pc[h] = "dr_start"
      BY <1>8, <2>1, <2>2, <2>3
    <2>4. CASE pc[h] \in {"dr_toml", "dr_restart"}
      <3>1. pc' = [pc EXCEPT ![h] = "dr_start"] /\ pc'[h] = "dr_start" /\ sb' = sb
        BY <1>2, <2>1, <2>4
      <3>2. job[h] \in Job /\ job'[h] = [job[h] EXCEPT !.errs = TRUE]
        BY <1>2, <2>1, <2>4
      <3>3. /\ job'[h].errs /\ job'[h].new = job[h].new /\ job'[h].previous = job[h].previous
            /\ job'[h].last = job[h].last /\ job'[h].wasActive = job[h].wasActive
        BY <3>2 DEF Job
      <3>4. Disabling(h)'
        BY <1>1, <2>1, <2>2, <2>4, <3>1, <3>3 DEF Doing, Disabling, Kept
      <3>5. Doing(h)'
        BY <3>1, <3>4 DEF Doing, Reading, Saved, Enabling, RollingBack, Rendering
      <3>6. QED
        BY <1>1, <2>1, <2>2, <2>4, <3>1, <3>5, OneSteps DEF PC
    <2>5. QED
      BY <2>1, <2>3, <2>4
  <1>12. CASE SaveListFails(h)
    <2>1. /\ pc[h] \in {"nd_save", "nd_save_last"} /\ pc' = [pc EXCEPT ![h] = "idle"]
          /\ faults' = faults + 1
          /\ UNCHANGED <<list, sbjson, sb, boot, toml, tp, mode, mishap>>
      BY <1>2, <1>12 DEF SaveListFails, Goto, files, procs, Fail
    <2>2. pc'[h] = "idle"
      BY <1>2, <2>1
    <2>5. faults' > 0
      BY <1>3, <2>1
    <2>3. Settled(list)'
      BY <1>1, <1>3, <2>1, <2>2, <2>5
      DEF Doing, Reading, Saved, Enabling, RollingBack, Disabling, Rendering, Settled, Fresh,
         Mild
    <2>4. QED
      BY <1>1, <1>3, <2>1, <2>2, <2>3, <2>5, OneSteps, IdleDoesAfter DEF PC
  <1>13. CASE RenderFails(h)
    <2>1. /\ pc[h] \in {"nd_render", "nd_cursor"} /\ pc' = [pc EXCEPT ![h] = "nd_unrender"]
          /\ faults' = faults + 1
          /\ job' = IF pc[h] = "nd_render" THEN [job EXCEPT ![h].json = sbjson] ELSE job
          /\ UNCHANGED <<list, toml, mode, sb, boot, tp, mishap>>
      BY <1>13 DEF RenderFails, Fail, procs
    <2>2. faults' > 0 /\ (Mild' => Mild) /\ pc'[h] = "nd_unrender"
      BY <1>2, <1>3, <2>1 DEF Mild
    <2>3. /\ job'[h].new = job[h].new /\ job'[h].previous = job[h].previous
          /\ job'[h].json = IF pc[h] = "nd_render" THEN sbjson ELSE job[h].json
      <3>1. job[h] \in Job
        BY <1>2
      <3>2. job'[h] = IF pc[h] = "nd_render" THEN [job[h] EXCEPT !.json = sbjson] ELSE job[h]
        BY <1>2, <2>1
      <3>3. QED
        BY <3>1, <3>2 DEF Job
    <2>4. Rendering(h)'
      BY <1>1, <2>1, <2>2, <2>3 DEF Doing, Saved, Settled, Fresh, Rendering, Restorable
    <2>5. Doing(h)'
      BY <2>2, <2>4 DEF Doing, Reading, Saved, Enabling, RollingBack, Disabling
    <2>6. QED
      BY <2>1, <2>2, <2>5, OneSteps DEF PC
  <1>14. CASE RestoreJSONFails(h)
    <2>1. /\ pc[h] = "nd_unrender" /\ pc' = [pc EXCEPT ![h] = "nd_restore"]
          /\ faults' = faults + 1
          /\ UNCHANGED <<list, sbjson, sb, boot, toml, tp, mode, job, mishap>>
      BY <1>2, <1>14 DEF RestoreJSONFails, Goto, files, procs, Fail
    <2>2. pc'[h] = "nd_restore"
      BY <1>2, <2>1
    <2>5. faults' > 0
      BY <1>3, <2>1
    <2>3. Doing(h)'
      BY <1>1, <1>3, <2>1, <2>2, <2>5
      DEF Doing, Reading, Saved, Enabling, RollingBack, Disabling, Rendering, Settled, Fresh,
         Mild
    <2>4. QED
      BY <1>1, <1>3, <2>1, <2>2, <2>3, <2>5, OneSteps, IdleDoesAfter DEF PC
  <1>15. CASE RestoreListFails(h)
    <2>1. /\ pc[h] = "nd_restore" /\ pc' = [pc EXCEPT ![h] = "idle"]
          /\ faults' = faults + 1
          /\ UNCHANGED <<list, sbjson, sb, boot, toml, tp, mode, mishap>>
      BY <1>2, <1>15 DEF RestoreListFails, Goto, files, procs, Fail
    <2>2. pc'[h] = "idle"
      BY <1>2, <2>1
    <2>5. faults' > 0
      BY <1>3, <2>1
    <2>3. Settled(list)'
      BY <1>1, <1>3, <2>1, <2>2, <2>5
      DEF Doing, Reading, Saved, Enabling, RollingBack, Disabling, Rendering, Settled, Fresh,
         Mild
    <2>4. QED
      BY <1>1, <1>3, <2>1, <2>2, <2>3, <2>5, OneSteps, IdleDoesAfter DEF PC
  <1>16. QED
    BY <1>4, <1>5, <1>6, <1>7, <1>9, <1>10, <1>11, <1>12, <1>13, <1>14, <1>15

\* A request begins between two others.
LEMMA BeginsKeep ==
    ASSUME OneByOne, Inductive, TypeOK, NEW h \in Handlers,
           \/ Enable(h) \/ Disable(h) \/ AddNode(h) \/ EditNode(h) \/ ChangeNode(h)
           \/ SetStrategy(h) \/ Ping(h) \/ Suspend(h)
    PROVE  Inductive'
  <1>1. Request /\ pc[h] = "idle"
    BY DEF Enable, Disable, AddNode, EditNode, ChangeNode, SetStrategy, Ping, Suspend, Begin, Goto
  <1>2. Idle /\ Settled(list) /\ (mishap => faults > 0)
    BY <1>1, BeginsAlone DEF Inductive, OneAtWork, Rest
  <1>3. /\ pc \in [Handlers -> PC] /\ job \in [Handlers -> Job] /\ list \in NodeList
        /\ DOMAIN pc = Handlers /\ DOMAIN job = Handlers
    BY DEF TypeOK
  <1>4. faults \in Nat
    <2>1. faults \in 0..MaxFaults /\ MaxFaults \in Nat
      BY Numbers DEF TypeOK
    <2>2. QED
      BY <2>1
  \* Nothing but the request itself is new.
  <1>5. ASSUME NEW to \in {"en_nodes", "nd_save", "ping", "us_detect"},
               pc' = [pc EXCEPT ![h] = to], UNCHANGED <<files, procs, faults, mishap>>,
               to \in {"en_nodes", "nd_save"} => job'[h].previous = list,
               to = "en_nodes" => (Valid(list) => Valid(job'[h].new)),
               to = "ping" => job'[h].new = list
        PROVE  Inductive'
    <2>1. pc'[h] = to
      BY <1>3, <1>5
    <2>2. Settled(list)'
      BY <1>2, <1>5 DEF Settled, Agreed, EffectiveMode, Fresh, Mild, files, procs
    <2>3. to = "en_nodes" => (faults' = 0 /\ sb' # Down => Valid(job'[h].new))
      BY <1>2, <1>5 DEF Settled, procs
    <2>4. list' = list
      BY <1>5 DEF files
    <2>5. Reading(h)'
      BY <1>5, <2>1, <2>2, <2>3, <2>4 DEF Reading
    <2>6. Doing(h)'
      BY <2>1, <2>5 DEF Doing, Saved, Enabling, RollingBack, Disabling, Rendering
    <2>7. to \in PC /\ to # "idle"
      BY DEF PC
    <2>8. QED
      BY <1>2, <1>5, <2>6, <2>7, OneSteps
  <1>6. CASE Enable(h)
    <2>1. /\ pc' = [pc EXCEPT ![h] = "en_nodes"] /\ NextID(list) \in Ids
          /\ job' = [job EXCEPT ![h] = [NoJob EXCEPT
                        !.new = WithNode(list, NextID(list), New), !.previous = list]]
          /\ UNCHANGED <<files, procs, faults, mishap>>
      BY <1>6 DEF Enable, Begin, Goto
    <2>2. job'[h] = [NoJob EXCEPT !.new = WithNode(list, NextID(list), New), !.previous = list]
      BY <1>3, <2>1
    <2>3. job'[h].new = WithNode(list, NextID(list), New) /\ job'[h].previous = list
      BY <2>2 DEF NoJob
    <2>4. Valid(list) => Valid(job'[h].new)
      BY <1>3, <2>1, <2>3, WithNodeParts
    <2>5. QED
      BY <1>5, <2>1, <2>3, <2>4
  <1>7. CASE AddNode(h)
    <2>1. /\ pc' = [pc EXCEPT ![h] = "nd_save"]
          /\ job' = [job EXCEPT ![h] = [NoJob EXCEPT
                        !.new = WithNode(list, NextID(list), New), !.previous = list]]
          /\ UNCHANGED <<files, procs, faults, mishap>>
      BY <1>7 DEF AddNode, Begin, Goto
    <2>2. job'[h] = [NoJob EXCEPT !.new = WithNode(list, NextID(list), New), !.previous = list]
      BY <1>3, <2>1
    <2>3. job'[h].previous = list
      BY <2>2 DEF NoJob
    <2>4. QED
      BY <1>5, <2>1, <2>3
  <1>8. CASE EditNode(h)
    <2>1. PICK id \in DOMAIN list.nodes :
            job' = [job EXCEPT ![h] = [NoJob EXCEPT
                       !.new = [list EXCEPT !.nodes[id].rev = 1 - @], !.previous = list]]
      BY <1>8 DEF EditNode
    <2>2. pc' = [pc EXCEPT ![h] = "nd_save"] /\ UNCHANGED <<files, procs, faults, mishap>>
      BY <1>8 DEF EditNode, Begin, Goto
    <2> DEFINE nl == [list EXCEPT !.nodes[id].rev = 1 - @]
    <2>3. job'[h] = [NoJob EXCEPT !.new = nl, !.previous = list]
      BY <1>3, <2>1
    <2> HIDE DEF nl
    <2>4. job'[h].previous = list
      BY <2>3 DEF NoJob
    <2>5. QED
      BY <1>5, <2>2, <2>4
  <1>9. CASE SetStrategy(h)
    <2>1. PICK rr \in BOOLEAN :
            job' = [job EXCEPT ![h] = [NoJob EXCEPT
                       !.new = [list EXCEPT !.roundrobin = rr], !.previous = list]]
      BY <1>9 DEF SetStrategy
    <2>2. pc' = [pc EXCEPT ![h] = "nd_save"] /\ UNCHANGED <<files, procs, faults, mishap>>
      BY <1>9 DEF SetStrategy, Begin, Goto
    <2>3. job'[h] = [NoJob EXCEPT !.new = [list EXCEPT !.roundrobin = rr], !.previous = list]
      BY <1>3, <2>1
    <2>4. job'[h].previous = list
      BY <2>3 DEF NoJob
    <2>5. QED
      BY <1>5, <2>2, <2>4
  <1>10. CASE Ping(h)
    <2>1. /\ pc' = [pc EXCEPT ![h] = "ping"] /\ job' = [job EXCEPT ![h] = [NoJob EXCEPT !.new = list]]
          /\ UNCHANGED <<files, procs, faults, mishap>>
      BY <1>10 DEF Ping, Begin, Goto
    <2>2. job'[h] = [NoJob EXCEPT !.new = list]
      BY <1>3, <2>1
    <2>3. job'[h].new = list
      BY <2>2 DEF NoJob
    <2>4. QED
      BY <1>5, <2>1, <2>3
  <1>11. CASE Suspend(h)
    <2>1. pc' = [pc EXCEPT ![h] = "us_detect"] /\ UNCHANGED <<files, procs, faults, mishap>>
      BY <1>11 DEF Suspend, Begin, Goto
    <2>2. QED
      BY <1>5, <2>1
  <1>12. CASE Disable(h)
    <2>1. pc' = [pc EXCEPT ![h] = "di_stop"] /\ UNCHANGED <<files, procs>>
      BY <1>12 DEF Disable, Begin, Goto
    <2>2. PICK active \in BOOLEAN :
            /\ Told(active)
            /\ job' = [job EXCEPT ![h] = [NoJob EXCEPT !.snapshot = toml, !.wasActive = active]]
      BY <1>12 DEF Disable
    <2>3. job'[h] = [NoJob EXCEPT !.snapshot = toml, !.wasActive = active]
      BY <1>3, <2>2
    <2>4. job'[h].wasActive = active /\ ~job'[h].last /\ ~job'[h].errs
      BY <2>3 DEF NoJob
    <2>5. (mishap' => faults' > 0) /\ (Mild' => Mild /\ (active => sb # Down))
      BY <1>2, <1>4, <2>2 DEF Told, Mild
    <2>6. pc'[h] = "di_stop"
      BY <1>3, <2>1
    <2>7. Mild => Fresh(list)
      BY <1>2 DEF Settled
    <2>8. Disabling(h)'
      BY <2>1, <2>4, <2>5, <2>6, <2>7 DEF Disabling, Kept, Fresh, files, procs
    <2>9. Doing(h)'
      BY <2>6, <2>8 DEF Doing, Reading, Saved, Enabling, RollingBack, Rendering
    <2>10. QED
      BY <1>2, <2>1, <2>5, <2>9, OneSteps DEF PC
  <1>13. CASE ChangeNode(h)
    <2>1. UNCHANGED <<files, procs>>
      BY <1>13 DEF ChangeNode
    <2>2. PICK nl, active, last :
            /\ Told(active) /\ last = (active /\ Active(nl) = {}) /\ nl \in NodeList
            /\ pc' = [pc EXCEPT ![h] = IF last THEN "nd_save_last" ELSE "nd_save"]
            /\ job' = [job EXCEPT ![h] = [NoJob EXCEPT !.new = nl, !.previous = list,
                                                       !.last = last]]
      <3>1. PICK id \in DOMAIN list.nodes, active \in BOOLEAN :
              \E nl \in {Toggled(id), Without(list, id)} :
                LET last == active /\ Active(nl) = {}
                IN  /\ Told(active)
                    /\ Begin(h, IF last THEN "nd_save_last" ELSE "nd_save")
                    /\ job' = [job EXCEPT ![h] = [NoJob EXCEPT !.new = nl, !.previous = list,
                                                               !.last = last]]
                    /\ UNCHANGED <<files, procs, suspended>>
        BY <1>13 DEF ChangeNode
      <3>2. PICK nl \in {Toggled(id), Without(list, id)} :
                LET last == active /\ Active(nl) = {}
                IN  /\ Told(active)
                    /\ Begin(h, IF last THEN "nd_save_last" ELSE "nd_save")
                    /\ job' = [job EXCEPT ![h] = [NoJob EXCEPT !.new = nl, !.previous = list,
                                                               !.last = last]]
                    /\ UNCHANGED <<files, procs, suspended>>
        BY <3>1
      <3>3. nl \in NodeList
        BY <1>3, <3>2, ToggledType, WithoutType
      <3>4. QED
        BY <3>2, <3>3 DEF Begin, Goto
    <2> DEFINE to == IF last THEN "nd_save_last" ELSE "nd_save"
    <2>3. job'[h] = [NoJob EXCEPT !.new = nl, !.previous = list, !.last = last]
      BY <1>3, <2>2
    <2>4. job'[h].new = nl /\ job'[h].previous = list /\ job'[h].last = last
      BY <2>3 DEF NoJob
    <2>5. last => ~Valid(nl)
      <3>1. last => Cardinality(Active(nl)) = 0
        BY <2>2, ActiveParts
      <3>2. QED
        BY <3>1 DEF Valid
    <2>6. (mishap' => faults' > 0) /\ (Mild' => Mild) /\ (faults' = 0 => faults = 0)
      BY <1>2, <1>4, <2>2 DEF Told, Mild
    <2>7. pc'[h] = to /\ to \in {"nd_save_last", "nd_save"}
      BY <1>3, <2>2
    <2>8. Settled(list)' /\ list' = list
      BY <1>2, <2>1, <2>6 DEF Settled, Agreed, EffectiveMode, Fresh, files, procs
    <2>9. Reading(h)'
      BY <2>4, <2>5, <2>7, <2>8 DEF Reading
    <2>10. Doing(h)'
      BY <2>7, <2>9 DEF Doing, Saved, Enabling, RollingBack, Disabling, Rendering
    <2>11. to \in PC /\ to # "idle"
      BY <2>7 DEF PC
    <2>12. QED
      BY <1>2, <2>2, <2>6, <2>10, <2>11, OneSteps
  <1>14. QED
    BY <1>6, <1>7, <1>8, <1>9, <1>10, <1>11, <1>12, <1>13

\* The file rendered again for its users, tgproxy-cli reconcile, a kill and a reboot.
LEMMA OthersKeep ==
    ASSUME OneByOne, Inductive, TypeOK,
           \/ \E h \in Handlers : DetectMode(h) \/ WriteAndReload(h)
           \/ Reconcile \/ PanelKilled \/ Reboot
    PROVE  Inductive'
  <1>1. /\ pc \in [Handlers -> PC] /\ job \in [Handlers -> Job] /\ list \in NodeList
        /\ toml \in TOML /\ tp \in TOML /\ boot \in BOOLEAN
        /\ DOMAIN pc = Handlers /\ DOMAIN job = Handlers
    BY DEF TypeOK
  <1>2. faults \in Nat
    <2>1. faults \in 0..MaxFaults /\ MaxFaults \in Nat
      BY Numbers DEF TypeOK
    <2>2. QED
      BY <2>1
  <1>3. (mishap => faults > 0) /\ (\A h \in Handlers : Doing(h)) /\ (Idle => Settled(list))
    BY DEF Inductive, OneAtWork, Rest
  \* Nobody is at work afterwards.
  <1>4. ASSUME \A h \in Handlers : pc'[h] = "idle", Settled(list)', mishap' => faults' > 0
        PROVE  Inductive'
    BY <1>4, IdleDoesAfter DEF Inductive, OneAtWork, Rest
  <1>5. ASSUME NEW h \in Handlers, DetectMode(h) PROVE Inductive'
    <2>1. /\ pc[h] = "us_detect" /\ pc' = [pc EXCEPT ![h] = "us_write"]
          /\ job' = [job EXCEPT ![h].snapshot = [socks |-> toml.socks, admits |-> ~suspended]]
          /\ UNCHANGED <<files, procs, faults, mishap>>
      BY <1>5 DEF DetectMode, Goto
    <2>2. job'[h] = [job[h] EXCEPT !.snapshot = [socks |-> toml.socks, admits |-> ~suspended]]
      BY <1>1, <2>1
    <2>3. job[h] \in Job /\ pc'[h] = "us_write" /\ toml' = toml
      BY <1>1, <2>1 DEF files
    <2>4. job'[h].snapshot.socks = toml.socks
      BY <2>2, <2>3 DEF Job
    <2>5. Settled(list)'
      BY <1>3, <2>1 DEF Doing, Reading, Settled, Agreed, EffectiveMode, Fresh, Mild, files, procs
    <2>6. Reading(h)'
      BY <2>3, <2>4, <2>5 DEF Reading
    <2>7. Doing(h)'
      BY <2>3, <2>6 DEF Doing, Saved, Enabling, RollingBack, Disabling, Rendering
    <2>8. QED
      BY <1>3, <2>1, <2>7, OneSteps DEF PC
  <1>6. ASSUME NEW h \in Handlers, WriteAndReload(h) PROVE Inductive'
    <2>1. /\ pc[h] = "us_write" /\ pc' = [pc EXCEPT ![h] = "idle"]
          /\ toml' = job[h].snapshot /\ tp' = [tp EXCEPT !.admits = toml'.admits]
          /\ UNCHANGED <<list, sbjson, mode, sb, boot, faults, mishap>>
      BY <1>6 DEF WriteAndReload, Goto
    <2>2. Settled(list) /\ toml'.socks = toml.socks
      BY <1>3, <2>1 DEF Doing, Reading
    <2>3. tp'.socks = tp.socks
      BY <1>1, <2>1 DEF TOML
    <2>4. Settled(list)' /\ pc'[h] = "idle"
      BY <1>1, <2>1, <2>2, <2>3 DEF Settled, Agreed, EffectiveMode, Fresh, Mild
    <2>5. QED
      BY <1>3, <2>1, <2>4, OneSteps, IdleDoesAfter DEF PC
  <1>7. CASE Reconcile
    <2>1. Idle /\ Settled(list)
      BY <1>3, <1>7, BeginsAlone DEF Reconcile
    <2>2. /\ toml' = [toml EXCEPT !.socks = EffectiveMode]
          /\ tp' = IF toml' = toml THEN tp ELSE toml'
          /\ UNCHANGED <<list, sbjson, mode, sb, boot, pc, faults, mishap>>
      BY <1>7 DEF Reconcile
    <2>3. faults = 0 => Agreed'
      <3> SUFFICES ASSUME faults = 0 PROVE Agreed'
        OBVIOUS
      <3>1. Agreed
        BY <2>1 DEF Settled
      <3>2. toml'.socks = toml.socks
        BY <1>1, <2>2, <3>1 DEF TOML, Agreed
      <3>3. tp'.socks = toml'.socks
        BY <2>2, <3>1, <3>2 DEF Agreed, EffectiveMode
      <3>4. QED
        BY <2>2, <3>1, <3>2, <3>3 DEF Agreed, EffectiveMode
    <2>4. Settled(list)'
      BY <2>1, <2>2, <2>3 DEF Settled, Fresh, Mild
    <2>5. QED
      BY <1>3, <1>4, <2>1, <2>2, <2>4 DEF Idle
  <1>8. CASE PanelKilled
    <2>1. /\ faults' = faults + 1 /\ mishap' = TRUE
          /\ pc' = [h \in Handlers |-> "idle"]
      BY <1>8 DEF PanelKilled
    <2>2. faults' > 0 /\ faults' # 0 /\ ~Mild'
      BY <1>2, <2>1 DEF Mild
    <2>3. Settled(list)'
      BY <2>2 DEF Settled
    <2>4. QED
      BY <1>4, <2>1, <2>2, <2>3
  <1>9. CASE Reboot
    <2>1. Idle /\ Settled(list) /\ faults \in RebootAfter
      BY <1>3, <1>9 DEF Reboot
    <2>2. /\ sb' = (IF boot THEN sbjson ELSE Down) /\ tp' = toml
          /\ UNCHANGED <<list, sbjson, mode, toml, boot, pc, faults, mishap>>
      BY <1>9 DEF Reboot, files
    <2>3. Mild => faults = 0
      BY <2>1 DEF Mild
    <2>4. faults = 0 => /\ Agreed /\ (sb # Down => Valid(list) /\ sbjson = Last(list))
      BY <1>3, <2>1 DEF Settled, Fresh, Mild
    <2>5. faults = 0 /\ boot => sbjson # Down /\ sbjson = Last(list) /\ Valid(list)
      BY <1>1, <2>4, LastNotDown DEF Agreed, EffectiveMode
    <2>6. faults = 0 => Agreed' /\ (sb' # Down => boot)
      BY <2>2, <2>4, <2>5 DEF Agreed, EffectiveMode
    <2>7. Settled(list)'
      BY <2>2, <2>3, <2>5, <2>6 DEF Settled, Fresh, Mild
    <2>8. QED
      BY <1>3, <1>4, <2>1, <2>2, <2>7 DEF Idle
  <1>10. QED
    BY <1>5, <1>6, <1>7, <1>8, <1>9

LEMMA InitInductive == Init => Inductive
  <1> SUFFICES ASSUME Init PROVE Inductive
    OBVIOUS
  <1>1. \A h \in Handlers : pc[h] = "idle"
    BY DEF Init
  <1>2. /\ (sb # Down) = boot /\ toml.socks = boot /\ tp = toml
        /\ sb # Down => Valid(list) /\ sbjson = Last(list)
    BY InstalledParts
  <1>3. mode = "" /\ ~mishap
    BY DEF Init
  <1>4. Settled(list)
    BY <1>2, <1>3 DEF Settled, Fresh, Agreed, EffectiveMode
  <1>5. QED
    BY <1>1, <1>3, <1>4, IdleDoes DEF Inductive, OneAtWork, Rest

LEMMA NextInductive == OneByOne /\ TypeOK /\ Inductive /\ [Next]_vars => Inductive'
  <1> SUFFICES ASSUME OneByOne, TypeOK, Inductive, [Next]_vars PROVE Inductive'
    OBVIOUS
  <1>1. ASSUME NEW h \in Handlers, Switch(h) PROVE Inductive'
    BY <1>1, EnableKeeps, RollbackKeeps, DisableKeeps, FaultsKeep, BeginsKeep DEF Switch
  <1>2. ASSUME NEW h \in Handlers, Nodes(h) PROVE Inductive'
    BY <1>2, NodesKeep, FaultsKeep, BeginsKeep DEF Nodes
  <1>3. ASSUME NEW h \in Handlers, Suspend(h) PROVE Inductive'
    BY <1>3, BeginsKeep
  <1>4. CASE UNCHANGED vars
    <2>1. EffectiveMode' = EffectiveMode
      BY <1>4, EffectiveKept DEF vars, files
    <2>2. QED
      BY <1>4, <2>1 DEF vars, files, procs, Inductive, OneAtWork, Rest, Idle, Doing, Reading,
                  Saved, Enabling, RollingBack, Disabling, Rendering, Restorable, Kept, Settled,
                  Fresh, Agreed, Mild, Upstream, Direct
  <1>5. QED
    BY <1>1, <1>2, <1>3, <1>4, OthersKeep DEF Next

\* When requests come one after the other, the invariant holds.
LEMMA InductiveHolds == ASSUME OneByOne PROVE Spec => [](TypeOK /\ Inductive)
  <1>1. Init => Inductive
    BY InitInductive
  <1>2. TypeOK /\ Inductive /\ [Next]_vars => Inductive'
    BY NextInductive
  <1>3. QED
    BY <1>1, <1>2, TypeCorrect, PTL DEF Spec

\* Whichever mode was installed, and however many switches, edits, reconciles and reboots there
\* have been, one after the other, what teleproxy.toml, Teleproxy, sing-box, its unit and, once
\* a switch has written it, the settings table say of the mode agrees between two requests
\* unless a call has failed; and sing-box.json is what a list that
\* can be rendered renders to, even after one failing call.  Reboots are taken to come before
\* the first failure, as in the run: they show what a rollback has not enabled.
THEOREM PlacesAgreeHolds ==
    ASSUME OneByOne, RebootAfter \subseteq {0} PROVE Spec => []PlacesAgree
  <1>1. TypeOK /\ Inductive => PlacesAgree
    <2> SUFFICES ASSUME TypeOK, Inductive, Idle PROVE PlacesAgree
      BY DEF PlacesAgree, ModeConsistent, RenderedMatchesNodes
    <2>1. Settled(list)
      BY DEF Inductive, Rest
    <2>2. ModeConsistent
      BY <2>1 DEF Settled, Agreed, EffectiveMode, ModeConsistent
    <2>3. RenderedMatchesNodes
      BY <2>1 DEF Settled, Fresh, Mild, RenderedMatchesNodes
    <2>4. QED
      BY <2>2, <2>3 DEF PlacesAgree
  <1>2. QED
    BY <1>1, InductiveHolds, PTL

\* A switch that is not disturbed by another request leaves one mode, completely, whatever
\* calls had failed and wherever the panel had been killed before: one that reaches its last
\* step has taken effect in the file, in Teleproxy, in sing-box, in its unit and in the list;
\* one that is rolled back without a further error has restored what it should.
THEOREM SwitchesCompleteHolds == ASSUME OneByOne PROVE Spec => SwitchesComplete
  <1>1. ASSUME TypeOK, Inductive
        PROVE  \A h \in Handlers : RolledBack(h) /\ (pc'[h] = "idle" => Switched(h))
    <2> SUFFICES ASSUME NEW h \in Handlers PROVE RolledBack(h) /\ Switched(h)
      OBVIOUS
    <2>1. Doing(h)
      BY <1>1 DEF Inductive
    <2>2. ASSUME ~job[h].errs, RestoreSingbox(h)
          PROVE  /\ toml' = job[h].snapshot /\ tp' = toml'
                 /\ job[h].wasActive /\ sbjson # Down => sb' # Down
      <3>1. /\ pc[h] = "dr_start" /\ toml' = toml /\ tp' = tp
            /\ sb' = IF job[h].wasActive THEN sbjson ELSE sb
        BY <2>2 DEF RestoreSingbox, Goto, files
      <3>2. QED
        BY <2>1, <2>2, <3>1 DEF Doing, Disabling
    <2>3. ASSUME ~job[h].errs, RollbackRestart(h)
          PROVE  ~toml'.socks /\ tp' = toml' /\ sb' = Down /\ list' = job[h].previous
      <3>1. pc[h] = "rb_restart" /\ tp' = toml /\ UNCHANGED <<toml, list, sb>>
        BY <2>3 DEF RollbackRestart, Goto, files
      <3>2. toml = Direct(h) /\ sb = Down /\ list = job[h].previous
        BY <2>1, <2>3, <3>1 DEF Doing, RollingBack
      <3>3. QED
        BY <3>1, <3>2 DEF Direct
    <2>4. RolledBack(h)
      BY <2>2, <2>3 DEF RolledBack
    <2>5. Switched(h)
      BY <2>1 DEF Doing, Enabling, Disabling, Switched
    <2>6. QED
      BY <2>4, <2>5
  <1>2. TypeOK /\ Inductive
        => [\A h \in Handlers : RolledBack(h) /\ (pc'[h] = "idle" => Switched(h))]_vars
    BY <1>1
  <1>3. QED
    BY <1>2, InductiveHolds, PTL DEF SwitchesComplete

\* user_actions.go:741 holds of a change of the users that no other request overlaps: the
\* run in which it fails needs two.
THEOREM ModePreservedAlone == ASSUME OneByOne PROVE Spec => ModePreserved
  <1>1. ASSUME TypeOK, Inductive, [Next]_vars, NEW h \in Handlers, pc[h] = "us_write", ~mishap'
        PROVE  toml'.socks = toml.socks
    <2>1. ~Idle /\ ~Request
      BY <1>1, BeginsAlone DEF Idle
    <2>2. job[h].snapshot.socks = toml.socks
      BY <1>1 DEF Inductive, Doing, Reading
    <2>3. ASSUME NEW g \in Handlers, pc[g] # "idle" PROVE pc[g] = "us_write"
      BY <1>1, <2>3 DEF Inductive, OneAtWork
    <2>4. CASE UNCHANGED vars
      BY <2>4 DEF vars, files
    <2>5. ASSUME NEW g \in Handlers, Switch(g) PROVE FALSE
      <3>1. pc[g] = "idle" \/ pc[g] = "us_write"
        BY <2>3
      <3>2. ~RollbackFails(g)
        <4>1. ASSUME NEW i \in 1..5 PROVE RollbackSteps[i] \notin {"idle", "us_write"}
          BY DEF RollbackSteps
        <4>2. QED
          BY <3>1, <4>1 DEF RollbackFails, Fail
      <3>3. ~(Enable(g) \/ SaveNodes(g) \/ WriteJSON(g) \/ NotValid(g) \/ SaveCursor(g)
              \/ WriteBridgeTOML(g) \/ StartSingbox(g) \/ RestartTeleproxy(g) \/ EnableCheck(g)
              \/ EnableMode(g) \/ ModeNotSaved(g) \/ SaveNodesFails(g) \/ EnableFails(g))
        BY <2>1, <3>1
           DEF Enable, SaveNodes, WriteJSON, NotValid, SaveCursor, WriteBridgeTOML, StartSingbox,
               RestartTeleproxy, EnableCheck, EnableMode, ModeNotSaved, SaveNodesFails,
               EnableFails, Begin, Goto, Fail
      <3>4. ~(RollbackNodes(g) \/ RollbackTOML(g) \/ RollbackStop(g) \/ RollbackDisable(g)
              \/ RollbackRestart(g))
        BY <3>1 DEF RollbackNodes, RollbackTOML, RollbackStop, RollbackDisable,
                    RollbackRestart, Goto
      <3>5. ~(Disable(g) \/ StopSingbox(g) \/ DisableSingbox(g) \/ StopFails(g)
              \/ WriteSingleTOML(g) \/ RestartSingle(g) \/ DisableMode(g) \/ DisableFails(g)
              \/ RestoreTOML(g) \/ RestoreTeleproxy(g) \/ RestoreSingbox(g)
              \/ DisableRollbackFails(g))
        BY <2>1, <3>1
           DEF Disable, StopSingbox, DisableSingbox, StopFails, WriteSingleTOML, RestartSingle,
               DisableMode, DisableFails, RestoreTOML, RestoreTeleproxy, RestoreSingbox,
               DisableRollbackFails, Begin, Goto, Fail
      <3>6. QED
        BY <2>5, <3>2, <3>3, <3>4, <3>5 DEF Switch
    <2>6. ASSUME NEW g \in Handlers, Nodes(g) PROVE FALSE
      BY <2>1, <2>3, <2>6
         DEF Nodes, AddNode, EditNode, ChangeNode, SetStrategy, SaveList, SaveLast,
             SaveListFails, RenderNodes, RenderNothing, RenderNotValid, SaveNodesCursor,
             RenderFails, RestoreJSON, RestoreJSONFails, RestoreList, RestoreListFails, Ping,
             SavePing, Begin, Goto, Fail
    <2>7. ASSUME NEW g \in Handlers, Suspend(g) \/ DetectMode(g) PROVE FALSE
      BY <2>1, <2>3, <2>7 DEF Suspend, DetectMode, Begin, Goto
    <2>8. ASSUME NEW g \in Handlers, WriteAndReload(g) PROVE toml'.socks = toml.socks
      <3>1. g = h
        BY <1>1, <2>8 DEF WriteAndReload, Goto, Inductive, OneAtWork
      <3>2. toml' = job[h].snapshot
        BY <2>8, <3>1 DEF WriteAndReload
      <3>3. QED
        BY <2>2, <3>2
    <2>9. ~Reconcile /\ ~PanelKilled /\ ~Reboot
      BY <1>1, <2>1 DEF Reconcile, PanelKilled, Reboot
    <2>10. QED
      BY <1>1, <2>4, <2>5, <2>6, <2>7, <2>8, <2>9 DEF Next
  <1>2. TypeOK /\ Inductive /\ [Next]_vars
        => [\A h \in Handlers : pc[h] = "us_write" /\ ~mishap' => toml'.socks = toml.socks]_vars
    BY <1>1
  <1>3. QED
    BY <1>2, InductiveHolds, PTL DEF ModePreserved, Spec
=============================================================================
