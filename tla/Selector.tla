------------------------------ MODULE Selector ------------------------------
(***************************************************************************)
(* The selectors of the xClient (src/client/selector*.go, ping_utils.go),  *)
(* as newSelector builds them for a select mode: random, round robin,      *)
(* weighted round robin, weighted ICMP and consistent hash.  Select runs   *)
(* under the xClient's c.mu (xclient_cache_client.go:10-16), so selections *)
(* are sequential; UpdateServer is called by the discovery watch with a    *)
(* fresh map endpoint key -> metadata.  Go ranges over that map in an      *)
(* unspecified order, which is a free choice of the order of the slice.    *)
(*                                                                         *)
(* Metadata is abstracted to the weight its "weight=N" parameter parses    *)
(* to, to NoWeight when it has none, or to EmptyMeta for "".  For ICMP, a  *)
(* key is abstracted to what Ping makes of it.  The doublejump hash is the *)
(* set of keys added to it and not removed since, and Get returns one of   *)
(* them: which one a request hashes to is left free.                       *)
(***************************************************************************)
EXTENDS Integers, Sequences, SequencesExt

CONSTANTS
    Keys,          \* endpoint keys the discovery may report
    Rank,          \* Keys -> Nat: the string order sort.Slice sorts by
    WeightValues,  \* integers a "weight=N" metadata may carry (Atoi)
    NoWeight,      \* non-empty metadata without a parseable weight
    EmptyMeta,     \* the metadata ""
    KeyKind,       \* Keys -> {"ok", "unresolvable", "noat"}: for Ping
    Modes,         \* select modes to check
    NoServer,      \* the "" a Select returns
    MaxSelects,    \* bound: Select calls between two updates
    MaxUpdates,    \* bound: UpdateServer calls
    RttBound       \* rtts 0..RttBound over which CalculateWeight is checked

ASSUME /\ WeightValues \subseteq Int
       /\ Modes \subseteq {"random", "rr", "wrr", "icmp", "hash"}
       /\ Rank \in [Keys -> Nat]
       /\ KeyKind \in [Keys -> {"ok", "unresolvable", "noat"}]
       /\ MaxSelects \in Nat /\ MaxUpdates \in Nat /\ RttBound \in Nat

Metas == {NoWeight, EmptyMeta} \cup WeightValues
Weighting == {"wrr", "icmp"}
\* A Weighted: Server, Weight, CurrentWeight, EffectiveWeight.
WeightedRec == [server : Keys, weight : Int, cw : Int, ew : Int]

VARIABLES
    mode,      \* the select mode (fixed)
    servers,   \* s.servers: keys, or Weighted for the weighted selectors
    i,         \* s.i of round robin
    ring,      \* the keys in s.h of consistent hash
    picks,     \* ghost: per key, selections since the last update
    selects,   \* ghost: Select calls since the last update
    updates,   \* ghost: UpdateServer calls
    lastPick,  \* what the last Select since the last update returned
    crashed    \* a panic in createICMPWeighted ended the process

vars == <<mode, servers, i, ring, picks, selects, updates, lastPick, crashed>>

\* Mutant: the 100 < rtt < 1000 case tested before the 10 < rtt <= 200 one.
CalculateWeightMidFirst(rtt) ==
    CASE rtt >= 0 /\ rtt <= 10     -> 191
      [] rtt > 100 /\ rtt < 1000   -> 1
      [] rtt > 10 /\ rtt <= 200    -> 201 - rtt
      [] OTHER                     -> 0

(* CalculateWeight (ping_utils.go:31-42): the first case that matches.     *)
CalculateWeight(rtt) ==
    CASE rtt >= 0 /\ rtt <= 10     -> 191
      [] rtt > 10 /\ rtt <= 200    -> 201 - rtt
      [] rtt > 100 /\ rtt < 1000   -> 1
      [] OTHER                     -> 0

(* Ping (ping_utils.go:8-20): 1000 when NewPinger cannot resolve the host; *)
(* otherwise the pinger is never run, so its AvgRtt is 0.                  *)
Ping(k) == IF KeyKind[k] = "unresolvable" THEN 1000 ELSE 0

(* url.ParseQuery + Atoi of "weight" (lines 51-58), defaulting to 1.      *)
ParsedWeight(meta) == IF meta \in WeightValues THEN meta ELSE 1

NewWeighted(k, w) == [server |-> k, weight |-> w, cw |-> 0, ew |-> w]

(* createWeighted (selector_weighted_round_robin.go:46-65), for a map m    *)
(* ranged over in the order o.                                             *)
createWeighted(m, o) ==
    [j \in DOMAIN o |-> NewWeighted(o[j], ParsedWeight(m[o[j]]))]

(* createICMPWeighted (selector_weightedICMP.go:36-49); strings.Split(k,   *)
(* "@")[1] is out of range for a key without "@": IcmpPanics.             *)
createICMPWeighted(m, o) ==
    [j \in DOMAIN o |-> NewWeighted(o[j], CalculateWeight(Ping(o[j])))]
IcmpPanics(m) == \E k \in DOMAIN m : KeyKind[k] = "noat"

(* sort.Slice(ss, ss[i] < ss[j]) of the keys of a map.                     *)
SortedKeys(D) == SetToSortSeq(D, LAMBDA a, b : Rank[a] < Rank[b])

(* The lookup servers[k] of a Go map: the zero value "" when k is absent. *)
Lookup(m, k) == IF k \in DOMAIN m THEN m[k] ELSE EmptyMeta

(* newSelector (selector.go:13-30) and the constructors it calls: the     *)
(* slice each selector builds from a map m ranged over in the order o.    *)
newSelector(md, m, o) ==
    CASE md \in {"random", "rr"} -> o
      [] md = "wrr"              -> createWeighted(m, o)
      [] md = "icmp"             -> createICMPWeighted(m, o)
      [] md = "hash"             -> SortedKeys(DOMAIN m)

(* The keys of the servers, whatever the selector keeps of them.          *)
ServerKeys ==
    IF mode \in Weighting THEN [j \in DOMAIN servers |-> servers[j].server]
    ELSE servers

-----------------------------------------------------------------------------
(* The loop of nextWeighted (lines 78-96) from index j on: the servers     *)
(* with their weights updated, the total, and the index of best (0: nil).  *)
RECURSIVE Scan(_, _, _, _)
Scan(ss, j, total, best) ==
    IF j > Len(ss) THEN [ss |-> ss, total |-> total, best |-> best]
    ELSE LET w  == ss[j]
             s2 == [ss EXCEPT ![j].cw = w.cw + w.ew,
                              ![j].ew = IF w.ew < w.weight THEN w.ew + 1
                                                           ELSE w.ew]
         IN Scan(s2, j + 1, total + w.ew,
                 IF best = 0 \/ s2[j].cw > s2[best].cw THEN j ELSE best)

\* Mutant: CurrentWeight compared before it is increased.
RECURSIVE ScanCompareFirst(_, _, _, _)
ScanCompareFirst(ss, j, total, best) ==
    IF j > Len(ss) THEN [ss |-> ss, total |-> total, best |-> best]
    ELSE LET w  == ss[j]
             b2 == IF best = 0 \/ w.cw > ss[best].cw THEN j ELSE best
         IN ScanCompareFirst([ss EXCEPT ![j].cw = w.cw + w.ew], j + 1,
                             total + w.ew, b2)
NextWeightedCompareFirst(ss) ==
    LET r == ScanCompareFirst(ss, 1, 0, 0)
    IN IF r.best = 0 THEN r
       ELSE [r EXCEPT !.ss[r.best].cw = @ - r.total]

\* Mutant: best.CurrentWeight -= total (line 102) left out.
NextWeightedNoSubtract(ss) == Scan(ss, 1, 0, 0)

(* nextWeighted (lines 75-104): the updated servers and the chosen index. *)
NextWeighted(ss) ==
    LET r == Scan(ss, 1, 0, 0)
    IN IF r.best = 0 THEN r
       ELSE [r EXCEPT !.ss[r.best].cw = @ - r.total]

-----------------------------------------------------------------------------
(* newSelector over the first discovery map.                               *)
Init ==
    /\ mode \in Modes
    /\ \E D \in SUBSET Keys : \E m \in [D -> Metas] : \E o \in SetToSeqs(D) :
         /\ servers = newSelector(mode, m, o)
         /\ ring = IF mode = "hash" THEN D ELSE {}
         /\ crashed = (mode = "icmp" /\ IcmpPanics(m))
    /\ i = 0
    /\ picks = [k \in Keys |-> 0]
    /\ selects = 0
    /\ updates = 0
    /\ lastPick = NoServer

(* What every Select shares: a call, and "" on an empty list.             *)
SelectCall ==
    /\ ~crashed
    /\ selects < MaxSelects
    /\ selects' = selects + 1
Pick(k) ==
    /\ lastPick' = k
    /\ picks' = IF k = NoServer THEN picks ELSE [picks EXCEPT ![k] = @ + 1]
NoPick == lastPick' = NoServer /\ UNCHANGED picks

(* randomSelector.Select (selector_random.go:13-20): fastrand.Uint32n is  *)
(* some index below len(ss).                                              *)
SelectRandom ==
    /\ mode = "random" /\ SelectCall
    /\ IF Len(servers) = 0 THEN NoPick
       ELSE \E j \in DOMAIN servers : Pick(servers[j])
    /\ UNCHANGED <<mode, servers, i, ring, updates, crashed>>

\* Mutant: s.i stored without reduction, ss[s.i % len] returned.
SelectRoundRobinNoModulo ==
    /\ mode = "rr" /\ SelectCall
    /\ IF Len(servers) = 0 THEN NoPick /\ UNCHANGED i
       ELSE i' = i + 1 /\ Pick(servers[(i % Len(servers)) + 1])
    /\ UNCHANGED <<mode, servers, ring, updates, crashed>>

\* Mutant: s.i = i, the index never advances.
SelectRoundRobinNoAdvance ==
    /\ mode = "rr" /\ SelectCall
    /\ IF Len(servers) = 0 THEN NoPick /\ UNCHANGED i
       ELSE LET j == i % Len(servers) IN i' = j /\ Pick(servers[j + 1])
    /\ UNCHANGED <<mode, servers, ring, updates, crashed>>

(* roundRobinSelector.Select (selector_round_robin.go:11-21):             *)
(* i := s.i % len(ss); s.i = i + 1; return ss[i].                         *)
SelectRoundRobin ==
    /\ mode = "rr" /\ SelectCall
    /\ IF Len(servers) = 0 THEN NoPick /\ UNCHANGED i
       ELSE LET j == i % Len(servers) IN i' = j + 1 /\ Pick(servers[j + 1])
    /\ UNCHANGED <<mode, servers, ring, updates, crashed>>

(* Select of the weighted round robin (selector_weighted_round_robin.go:  *)
(* 24-34) and of the identical weightedICMPSelector (weightedICMP.go:14-24).*)
SelectWeighted ==
    /\ mode \in Weighting /\ SelectCall
    /\ IF Len(servers) = 0 THEN NoPick /\ UNCHANGED servers
       ELSE LET r == NextWeighted(servers)
            IN /\ servers' = r.ss
               /\ Pick(IF r.best = 0 THEN NoServer ELSE r.ss[r.best].server)
    /\ UNCHANGED <<mode, i, ring, updates, crashed>>

(* consistentHashSelector.Select (selector_consistent_hash.go:15-24): ""  *)
(* on an empty list, else what s.h.Get returns, "" when the hash is empty *)
(* (the failed .(string) assertion).                                       *)
SelectHash ==
    /\ mode = "hash" /\ SelectCall
    /\ IF Len(servers) = 0 \/ ring = {} THEN NoPick
       ELSE \E k \in ring : Pick(k)
    /\ UNCHANGED <<mode, servers, i, ring, updates, crashed>>

Select == SelectRandom \/ SelectRoundRobin \/ SelectWeighted \/ SelectHash

-----------------------------------------------------------------------------
(* What every UpdateServer shares: the ghost counts restart and s.i is    *)
(* kept.                                                                   *)
UpdateCall ==
    /\ ~crashed
    /\ updates < MaxUpdates
    /\ updates' = updates + 1
    /\ picks' = [k \in Keys |-> 0]
    /\ selects' = 0
    /\ lastPick' = NoServer
    /\ UNCHANGED <<mode, i>>

(* UpdateServer of random and round robin (selector_random.go:22-29,      *)
(* selector_round_robin.go:23-30): a fresh slice in map order.             *)
UpdateServerList ==
    /\ mode \in {"random", "rr"} /\ UpdateCall
    /\ \E D \in SUBSET Keys : servers' \in SetToSeqs(D)
    /\ UNCHANGED <<ring, crashed>>

(* UpdateServer of the weighted selectors (selector_weighted_round_robin. *)
(* go:36-39, selector_weightedICMP.go:26-29): fresh Weighted, current     *)
(* weights 0; createICMPWeighted may panic.                                *)
UpdateServerWeighted ==
    /\ mode \in Weighting /\ UpdateCall
    /\ \E D \in SUBSET Keys : \E m \in [D -> Metas] : \E o \in SetToSeqs(D) :
         /\ servers' = newSelector(mode, m, o)
         /\ crashed' = (mode = "icmp" /\ IcmpPanics(m))
    /\ UNCHANGED ring

\* Mutant: the removal loop (lines 35-39) left out.
UpdateServerHashNoRemove ==
    /\ mode = "hash" /\ UpdateCall
    /\ \E D \in SUBSET Keys :
         /\ ring' = ring \cup D
         /\ servers' = SortedKeys(D)
    /\ UNCHANGED crashed

(* consistentHashSelector.UpdateServer (lines 26-41): every new key is    *)
(* added to the hash and the list, the list is sorted, then every key of  *)
(* the OLD list whose servers[k] is "" is removed from the hash: the keys *)
(* that left, and the keys still present with empty metadata.             *)
UpdateServerHash ==
    /\ mode = "hash" /\ UpdateCall
    /\ \E D \in SUBSET Keys : \E m \in [D -> Metas] :
         /\ ring' = (ring \cup D) \
                      {k \in ToSet(servers) : Lookup(m, k) = EmptyMeta}
         /\ servers' = SortedKeys(D)
    /\ UNCHANGED crashed

UpdateServer == UpdateServerList \/ UpdateServerWeighted \/ UpdateServerHash

Next == Select \/ UpdateServer

Spec == Init /\ [][Next]_vars

-----------------------------------------------------------------------------
WeightOf(k) == LET j == CHOOSE x \in DOMAIN servers : servers[x].server = k
               IN servers[j].weight
TotalWeight == SumFunction([j \in DOMAIN servers |-> servers[j].weight])

TypeOK ==
    /\ mode \in Modes
    /\ servers \in IF mode \in Weighting THEN Seq(WeightedRec) ELSE Seq(Keys)
    \* each key once, as in the map the slice is built from
    /\ IsInjective(ServerKeys)
    /\ i \in 0..Cardinality(Keys)
    /\ ring \subseteq Keys
    /\ picks \in [Keys -> 0..MaxSelects]
    /\ selects \in 0..MaxSelects
    /\ updates \in 0..MaxUpdates
    /\ lastPick \in Keys \cup {NoServer}
    /\ crashed \in BOOLEAN

(* Round robin (spec 4.6: a counter modulo the list length): whatever s.i *)
(* an earlier, longer or shorter, list left behind, every len(ss)         *)
(* selections after an update pick each listed server once more.          *)
RoundRobinEven ==
    (mode = "rr" /\ Len(servers) > 0 /\ selects % Len(servers) = 0)
    => \A k \in ToSet(servers) : picks[k] = selects \div Len(servers)

(* Smooth weighted round robin (nextWeighted, spec 4.6 and 8): with        *)
(* non-negative weights of positive sum W, every W selections since the    *)
(* last UpdateServer pick each server exactly Weight times.                *)
SmoothWindowExact ==
    (/\ mode \in Weighting
     /\ \A j \in DOMAIN servers : servers[j].weight >= 0
     /\ TotalWeight > 0
     /\ selects % TotalWeight = 0)
    => \A j \in DOMAIN servers :
         picks[servers[j].server] = (selects \div TotalWeight) * servers[j].weight

(* nextWeighted never returns a server of weight 0 or less while a server  *)
(* of positive weight is listed.                                           *)
ZeroWeightNeverSelected ==
    (mode \in Weighting /\ lastPick # NoServer) =>
        \/ WeightOf(lastPick) > 0
        \/ \A j \in DOMAIN servers : servers[j].weight <= 0

(* The comment of CalculateWeight (ping_utils.go:22-30) and spec 4.6:      *)
(* 191 up to 10 ms, 201-rtt up to 200 ms, 1 below 1000 ms, else 0.         *)
SpecIcmpWeight(rtt) ==
    IF rtt <= 10 THEN 191 ELSE IF rtt <= 200 THEN 201 - rtt
    ELSE IF rtt < 1000 THEN 1 ELSE 0
IcmpWeightMatchesTable ==
    mode = "icmp" => \A rtt \in 0..RttBound : CalculateWeight(rtt) = SpecIcmpWeight(rtt)

(* Consistent hash: after any sequence of updates the hash holds no key   *)
(* that the last UpdateServer dropped, so Select only returns listed      *)
(* endpoints.                                                              *)
SelectedIsListed ==
    (mode = "hash" /\ lastPick # NoServer) => lastPick \in ToSet(servers)

(* Spec 4.6: the consistent-hash selector chooses among the endpoints of  *)
(* the list: every listed endpoint is in the hash.                        *)
ListedIsSelectable ==
    mode = "hash" => ToSet(servers) \subseteq ring

(* ping_utils.go:29: "servers won't be selected if t > 1000": the ICMP     *)
(* selector never returns a server whose ping weight is 0.                 *)
UnreachableNeverSelected ==
    (mode = "icmp" /\ lastPick # NoServer) => WeightOf(lastPick) > 0

(* Spec section 3 reads a key without "@" as tcp: UpdateServer and the     *)
(* constructors never bring the process down.                              *)
NoUpdatePanic == ~crashed

=============================================================================
